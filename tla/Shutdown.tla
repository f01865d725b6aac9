------------------------------ MODULE Shutdown ------------------------------
(***************************************************************************)
(* The graceful shutdown manager (engine/shutdown_manager.py): a signal    *)
(* starts the drain callbacks side by side, each with a timeout, and then  *)
(* the cleanup callbacks one after the other, without one.                 *)
(*                                                                         *)
(* A coroutine that times out is cancelled; a plain function runs in a     *)
(* thread, which a timeout leaves running.  A callback that raises is one  *)
(* that has ended.                                                         *)
(***************************************************************************)
EXTENDS Naturals

CONSTANTS
    Drains,         \* registered drain callbacks
    Threaded,       \* those that are plain functions
    NumCleanups,    \* registered cleanup callbacks
    MaxSignals      \* bound: signals delivered

VARIABLES
    signals,        \* how many signals were delivered
    handling,       \* the handler tasks that passed the guard: where each of them is
    isShuttingDown,
    event,          \* _shutdown_event
    drain,          \* of each drain callback: idle, running, stray in its thread, or ended
    next,           \* of each handler task: how many cleanup callbacks it has been through
    calls           \* of each cleanup callback: how often it was called

vars == <<signals, handling, isShuttingDown, event, drain, next, calls>>

Phases == {"none", "draining", "cleaning", "complete"}

TypeOK ==
    /\ signals \in 0..MaxSignals
    /\ handling \in [1..MaxSignals -> Phases]
    /\ isShuttingDown \in BOOLEAN /\ event \in BOOLEAN
    /\ drain \in [Drains -> {"idle", "running", "stray", "ended"}]
    /\ next \in [1..MaxSignals -> 0..NumCleanups]
    /\ calls \in [1..NumCleanups -> 0..MaxSignals]

Init ==
    /\ signals = 0
    /\ handling = [n \in 1..MaxSignals |-> "none"]
    /\ isShuttingDown = FALSE /\ event = FALSE
    /\ drain = [d \in Drains |-> "idle"]
    /\ next = [n \in 1..MaxSignals |-> 0]
    /\ calls = [c \in 1..NumCleanups |-> 0]

\* As HandleSignal below, with the flag left for the end of the shutdown.
HandleSignalUnmarked ==
    /\ signals < MaxSignals /\ signals' = signals + 1
    /\ event' = TRUE
    /\ handling' = [handling EXCEPT ![signals'] = "draining"]
    /\ drain' = [d \in Drains |-> "running"]
    /\ UNCHANGED <<isShuttingDown, next, calls>>

\* _handle_signal() up to its first await: a second signal finds the flag set.
HandleSignal ==
    /\ signals < MaxSignals /\ signals' = signals + 1
    /\ isShuttingDown' = TRUE /\ event' = TRUE
    /\ IF isShuttingDown
       THEN UNCHANGED <<handling, drain>>
       ELSE /\ handling' = [handling EXCEPT ![signals'] = "draining"]
            /\ drain' = [d \in Drains |-> "running"]
    /\ UNCHANGED <<next, calls>>

\* A drain callback returns or raises; a stray one ends in its thread.
DrainEnds(d) ==
    /\ drain[d] \in {"running", "stray"}
    /\ drain' = [drain EXCEPT ![d] = "ended"]
    /\ UNCHANGED <<signals, handling, isShuttingDown, event, next, calls>>

\* As DrainTimeout below, for a callback that is waited for without a timeout.
DrainNoTimeout(d) == FALSE /\ UNCHANGED vars

DrainTimeout(d) ==
    /\ drain[d] = "running"
    /\ drain' = [drain EXCEPT ![d] = IF d \in Threaded THEN "stray" ELSE "ended"]
    /\ UNCHANGED <<signals, handling, isShuttingDown, event, next, calls>>

\* gather() has all the drains.
Drained(n) ==
    /\ handling[n] = "draining" /\ \A d \in Drains : drain[d] # "running"
    /\ handling' = [handling EXCEPT ![n] = "cleaning"]
    /\ UNCHANGED <<signals, isShuttingDown, event, drain, next, calls>>

\* The next cleanup callback returns or raises.
RunCleanup(n) ==
    /\ handling[n] = "cleaning" /\ next[n] < NumCleanups
    /\ next' = [next EXCEPT ![n] = @ + 1]
    /\ calls' = [calls EXCEPT ![next'[n]] = @ + 1]
    /\ UNCHANGED <<signals, handling, isShuttingDown, event, drain>>

Complete(n) ==
    /\ handling[n] = "cleaning" /\ next[n] = NumCleanups
    /\ handling' = [handling EXCEPT ![n] = "complete"]
    /\ UNCHANGED <<signals, isShuttingDown, event, drain, next, calls>>

Next ==
    \/ HandleSignal
    \/ \E d \in Drains : DrainEnds(d) \/ DrainTimeout(d)
    \/ \E n \in 1..MaxSignals : Drained(n) \/ RunCleanup(n) \/ Complete(n)

\* A timer of the event loop fires, a task that is ready goes on, and a cleanup callback
\* returns in the end: nothing bounds those.  A drain callback need not return.
Fairness ==
    /\ \A d \in Drains : WF_vars(DrainTimeout(d))
    /\ \A n \in 1..MaxSignals : WF_vars(Drained(n)) /\ WF_vars(RunCleanup(n)) /\ WF_vars(Complete(n))

Spec == Init /\ [][Next]_vars
FairSpec == Spec /\ Fairness

-----------------------------------------------------------------------------
(* Properties.                                                             *)

\* However many signals come in, whenever they do, no cleanup callback is called twice, and
\* none before the callbacks of a drain have returned or have timed out.
CleanedOnce ==
    \A c \in 1..NumCleanups :
        calls[c] <= 1 /\ (calls[c] = 1 => \A d \in Drains : drain[d] \in {"stray", "ended"})

\* A signal is followed by all the cleanups even if drain callbacks hang.
CleanupHappens == signals > 0 ~> \A c \in 1..NumCleanups : calls[c] > 0

\* When the cleanups run the connections are drained ("Connection draining with timeout",
\* shutdown_manager.py:19): a callback in a thread is not stopped by its timeout.
NothingDrainsLate == \A n \in 1..MaxSignals : handling[n] = "complete" => \A d \in Drains : drain[d] = "ended"
=============================================================================
