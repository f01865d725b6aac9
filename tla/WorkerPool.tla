----------------------------- MODULE WorkerPool -----------------------------
(***************************************************************************)
(* The pool of worker processes (engine/worker_pool.py) and the bridges to *)
(* them (engine/subprocess_bridge.py; engine/msgpack_bridge.py differs in  *)
(* the framing).                                                           *)
(*                                                                         *)
(* A call registers its future with a timer, writes, waits until the pipe  *)
(* has drained and then for the future.  A worker may crash, stop reading, *)
(* or write a line that the reader does not survive: one that is too long, *)
(* or JSON that is no object.                                              *)
(***************************************************************************)
EXTENDS Integers, FiniteSets

CONSTANTS
    Workers,        \* slots of the pool
    Calls,          \* calls
    MaxRestarts     \* max_restarts

VARIABLES
    pool,           \* "off", "on", or "stopping"
    process,        \* the process of each bridge
    running,        \* bridges whose _running is set
    reader,         \* _read_loop() of each bridge
    healthy,        \* slots that are marked healthy
    restarts,       \* of each slot
    call,           \* where each call is
    worker,         \* the slot it was dispatched to
    table,          \* _pending of each bridge
    done,           \* calls whose future is done
    sent            \* what was written to the present process of each bridge

slotVars == <<process, running, reader, healthy, restarts>>
callVars == <<call, worker, table, done, sent>>
vars == <<pool, slotVars, callVars>>

TypeOK ==
    /\ pool \in {"off", "on", "stopping"}
    /\ process \in [Workers -> {"none", "alive", "stalled", "dead"}]
    /\ running \subseteq Workers /\ healthy \subseteq Workers
    /\ reader \in [Workers -> {"off", "on", "ended", "failed"}]
    /\ restarts \in [Workers -> 0..MaxRestarts]
    /\ call \in [Calls -> {"none", "draining", "waiting", "over"}]
    /\ worker \in [Calls -> Workers]
    /\ table \in [Workers -> SUBSET Calls] /\ done \subseteq Calls
    /\ sent \in [Workers -> SUBSET Calls]

Init ==
    /\ pool = "off"
    /\ process = [w \in Workers |-> "none"] /\ running = {} /\ healthy = {}
    /\ reader = [w \in Workers |-> "off"] /\ restarts = [w \in Workers |-> 0]
    /\ call = [c \in Calls |-> "none"] /\ worker \in [Calls -> Workers]
    /\ table = [w \in Workers |-> {}] /\ done = {} /\ sent = [w \in Workers |-> {}]

\* is_running of a bridge.
Alive(w) == w \in running /\ process[w] \in {"alive", "stalled"}

-----------------------------------------------------------------------------
(* The pool.                                                               *)

Start ==
    /\ pool = "off" /\ \A w \in Workers : process[w] = "none"
    /\ pool' = "on"
    /\ process' = [w \in Workers |-> "alive"] /\ running' = Workers
    /\ reader' = [w \in Workers |-> "on"]
    /\ healthy' = Workers
    /\ UNCHANGED <<restarts, callVars>>

\* A round of _health_monitor() finds a slot's process gone.
MarkUnhealthy(w) ==
    /\ pool = "on" /\ ~Alive(w) /\ w \in healthy
    /\ healthy' = healthy \ {w}
    /\ UNCHANGED <<pool, process, running, reader, restarts, callVars>>

\* The slot may be given another process; below, with an off-by-one.
RestartsLeftOffByOne(w) == restarts[w] <= MaxRestarts
RestartsLeft(w) == restarts[w] < MaxRestarts

\* As Restart below, with a table of its own for the new process.
RestartAnew(w) ==
    /\ pool = "on" /\ ~Alive(w) /\ w \notin healthy /\ RestartsLeft(w)
    /\ process' = [process EXCEPT ![w] = "alive"] /\ running' = running \union {w}
    /\ reader' = [reader EXCEPT ![w] = "on"]
    /\ restarts' = [restarts EXCEPT ![w] = @ + 1] /\ healthy' = healthy \union {w}
    /\ sent' = [sent EXCEPT ![w] = {}] /\ table' = [table EXCEPT ![w] = {}]
    /\ UNCHANGED <<pool, call, worker, done>>

\* It starts another, which knows nothing of the calls in the table.
Restart(w) ==
    /\ pool = "on" /\ ~Alive(w) /\ w \notin healthy /\ RestartsLeft(w)
    /\ process' = [process EXCEPT ![w] = "alive"] /\ running' = running \union {w}
    /\ reader' = [reader EXCEPT ![w] = "on"]
    /\ restarts' = [restarts EXCEPT ![w] = @ + 1] /\ healthy' = healthy \union {w}
    /\ sent' = [sent EXCEPT ![w] = {}]
    /\ UNCHANGED <<pool, call, worker, table, done>>

Stop ==
    /\ pool = "on" /\ pool' = "stopping" /\ UNCHANGED <<slotVars, callVars>>

\* stop() of a bridge: the process is terminated or killed.  A reader that has failed ends
\* it there; otherwise the calls in the table fail.
StopBridge(w) ==
    /\ pool = "stopping" /\ (w \in running \/ process[w] \in {"alive", "stalled"})
    /\ running' = running \ {w} /\ process' = [process EXCEPT ![w] = "dead"]
    /\ \/ /\ reader[w] = "failed" /\ UNCHANGED <<reader, table, done>>
       \/ /\ reader[w] # "failed" /\ reader' = [reader EXCEPT ![w] = "off"]
          /\ done' = done \union table[w] /\ table' = [table EXCEPT ![w] = {}]
    /\ UNCHANGED <<pool, healthy, restarts, call, worker, sent>>

-----------------------------------------------------------------------------
(* Calls.                                                                  *)

Load(w) == Cardinality({c \in Calls : call[c] \in {"draining", "waiting"} /\ worker[c] = w})
Choosable == {w \in healthy : Alive(w)}

Goto(c, there) == call' = [call EXCEPT ![c] = there]

\* call() of the pool and of the bridge it picks, up to drain().
Dispatch(c, w) ==
    /\ pool = "on" /\ call[c] = "none"
    /\ w \in Choosable /\ \A v \in Choosable : Load(w) <= Load(v)
    /\ Goto(c, "draining") /\ worker' = [worker EXCEPT ![c] = w]
    /\ table' = [table EXCEPT ![w] = @ \union {c}]
    /\ sent' = [sent EXCEPT ![w] = @ \union {c}]
    /\ UNCHANGED <<pool, slotVars, done>>

\* drain() waits: the process that was written to does not read, and its pipe is full.
Held(c) == call[c] = "draining" /\ process[worker[c]] = "stalled" /\ c \in sent[worker[c]]

\* That process has died or was replaced.
Gone(c) == process[worker[c]] = "dead" \/ c \notin sent[worker[c]]

\* The pipe has room; or its process is gone, and drain() may raise.  The timer does not
\* end this wait: it sets the future, which nobody awaits yet.
Drained(c) ==
    /\ call[c] = "draining" /\ ~Held(c)
    /\ Goto(c, "waiting") \/ (Gone(c) /\ Goto(c, "over"))
    /\ UNCHANGED <<pool, slotVars, worker, table, done, sent>>

\* _dispatch() of the worker's answer; one that comes after the timeout finds nothing, as
\* does a second one.
Dispatched(w) ==
    /\ process[w] = "alive" /\ reader[w] = "on"
    /\ \E c \in sent[w] \intersect table[w] :
        /\ done' = done \union {c}
        /\ table' = [table EXCEPT ![w] = @ \ {c}]
    /\ UNCHANGED <<pool, slotVars, call, worker, sent>>

\* _on_timeout(), whose timer was set before the call wrote.
Timeout(c) ==
    /\ call[c] \in {"draining", "waiting"} /\ c \in table[worker[c]]
    /\ table' = [table EXCEPT ![worker[c]] = @ \ {c}]
    /\ done' = done \union {c}
    /\ UNCHANGED <<pool, slotVars, call, worker, sent>>

Return(c) ==
    /\ call[c] = "waiting" /\ c \in done
    /\ Goto(c, "over")
    /\ UNCHANGED <<pool, slotVars, worker, table, done, sent>>

-----------------------------------------------------------------------------
(* The worker processes.                                                   *)

\* The reader ends with the process's output.
Crash(w) ==
    /\ process[w] \in {"alive", "stalled"} /\ process' = [process EXCEPT ![w] = "dead"]
    /\ reader' = [reader EXCEPT ![w] = IF @ = "on" THEN "ended" ELSE @]
    /\ UNCHANGED <<pool, running, healthy, restarts, callVars>>

Stall(w) ==
    /\ process[w] = "alive" /\ process' = [process EXCEPT ![w] = "stalled"]
    /\ UNCHANGED <<pool, running, reader, healthy, restarts, callVars>>

Babble(w) ==
    /\ process[w] = "alive" /\ reader[w] = "on"
    /\ reader' = [reader EXCEPT ![w] = "failed"]
    /\ UNCHANGED <<pool, process, running, healthy, restarts, callVars>>

Next ==
    \/ Start \/ Stop
    \/ \E w \in Workers : \/ MarkUnhealthy(w) \/ Restart(w) \/ StopBridge(w)
                          \/ Dispatched(w) \/ Crash(w) \/ Stall(w) \/ Babble(w)
                          \/ \E c \in Calls : Dispatch(c, w)
    \/ \E c \in Calls : Drained(c) \/ Timeout(c) \/ Return(c)

\* The event loop runs timers that are due and tasks that are ready; workers owe nothing.
Fairness == \A c \in Calls : WF_vars(Drained(c)) /\ WF_vars(Timeout(c)) /\ WF_vars(Return(c))

Spec == Init /\ [][Next]_vars
FairSpec == Spec /\ Fairness

-----------------------------------------------------------------------------
(* Properties.                                                             *)

\* A call ends, by an answer, its timeout or the end of the pool, whatever becomes of the
\* reader, of its worker and of the process that takes the worker's place - unless it
\* writes into a full pipe that nobody ever empties again.
CallEndsUnlessHeld ==
    \A c \in Calls : []<>~Held(c) => (call[c] # "none" ~> call[c] = "over")

\* Every call ends within its timeout ("Raised when a SubprocessBridge request times out",
\* subprocess_bridge.py:21).
CallEnds == \A c \in Calls : call[c] # "none" ~> call[c] = "over"

\* A worker the pool dispatches to can be heard ("least-loaded dispatch and auto-restart",
\* worker_pool.py:27).
ChoosableHears == \A w \in Choosable : reader[w] = "on"
=============================================================================
