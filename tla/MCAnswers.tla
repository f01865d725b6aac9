----------------------------- MODULE MCAnswers ------------------------------
(***************************************************************************)
(* The components whose promise is that something happens in the end, side *)
(* by side and with their fairness: calls to the workers, a shutdown, the  *)
(* size of a GPU pool and submissions to the API server.  They share       *)
(* nothing: in a behaviour one of them runs, the one in focus.             *)
(***************************************************************************)
EXTENDS Integers, Sequences

CONSTANTS
    Workers, Calls, MaxRestarts,                            \* of Pool
    Drains, Threaded, NumCleanups, MaxSignals,              \* of Stop
    Pools, Callers, MinNodes, MaxNodes, Target, Readings,   \* of Gpu
    Keys, Admins, RateLimit, Urls, Jobs, RetryCount         \* of Api

ASSUME CountsAreNumbers ==
    /\ MaxRestarts \in Nat /\ NumCleanups \in Nat /\ MaxSignals \in Nat /\ RateLimit \in Nat
    /\ RetryCount \in Nat \ {0}

ASSUME PoolsHaveSizes ==
    /\ MinNodes \in [Pools -> Nat] /\ MaxNodes \in [Pools -> Nat]
    /\ \A p \in Pools : MinNodes[p] <= MaxNodes[p]

ASSUME AdminsHaveKeys == Admins \subseteq Keys

VARIABLES
    focus,
    \* of Pool:
    pool, process, running, reader, healthy, restarts, call, worker, table, done, sent,
    \* of Stop:
    signals, handling, isShuttingDown, event, drain, next, calls,
    \* of Gpu:
    size, metrics, since, gpuRunning, held, last,
    \* of Api:
    keys, hashes, keysFile, saving, revoked, used, hooks, hooksFile, job, sending

Pool == INSTANCE WorkerPool
Stop == INSTANCE Shutdown
Gpu == INSTANCE GpuAutoscaler WITH running <- gpuRunning
Api == INSTANCE ApiServer

poolVars == <<pool, process, running, reader, healthy, restarts, call, worker, table, done,
        sent>>
stopVars == <<signals, handling, isShuttingDown, event, drain, next, calls>>
gpuVars == <<size, metrics, since, gpuRunning, held, last>>
apiVars == <<keys, hashes, keysFile, saving, revoked, used, hooks, hooksFile, job, sending>>
vars == <<focus, poolVars, stopVars, gpuVars, apiVars>>

\* All the components but one stay as they are.
Only(x) ==
    /\ IF x = "pool" THEN TRUE ELSE UNCHANGED poolVars
    /\ IF x = "stop" THEN TRUE ELSE UNCHANGED stopVars
    /\ IF x = "gpu" THEN TRUE ELSE UNCHANGED gpuVars
    /\ IF x = "api" THEN TRUE ELSE UNCHANGED apiVars
    /\ UNCHANGED focus

PoolStep == focus = "pool" /\ Pool!Next /\ Only("pool")
StopStep == focus = "stop" /\ Stop!Next /\ Only("stop")
GpuStep == focus = "gpu" /\ Gpu!Next /\ Only("gpu")
ApiStep == focus = "api" /\ Api!Next /\ Only("api")

Next == PoolStep \/ StopStep \/ GpuStep \/ ApiStep

Init ==
    /\ focus \in {"pool", "stop", "gpu", "api"}
    /\ Pool!Init /\ Stop!Init /\ Gpu!Init /\ Api!Init
    /\ focus = "api" \/ keys[CHOOSE a \in Admins : TRUE] = "active"

Spec == Init /\ [][Next]_vars

\* The fairness of each component, for the behaviours in which it runs.
Fairness ==
    /\ \A c \in Calls :
        /\ WF_poolVars(focus = "pool" /\ Pool!Drained(c))
        /\ WF_poolVars(focus = "pool" /\ Pool!Timeout(c))
        /\ WF_poolVars(focus = "pool" /\ Pool!Return(c))
    /\ \A d \in Drains : WF_stopVars(focus = "stop" /\ Stop!DrainTimeout(d))
    /\ \A n \in 1..MaxSignals :
        /\ WF_stopVars(focus = "stop" /\ Stop!Drained(n))
        /\ WF_stopVars(focus = "stop" /\ Stop!RunCleanup(n))
        /\ WF_stopVars(focus = "stop" /\ Stop!Complete(n))
    /\ \A p \in Pools :
        WF_gpuVars(focus = "gpu" /\ Gpu!Round(p)) /\ WF_gpuVars(focus = "gpu" /\ Gpu!Later(p))
    /\ WF_apiVars(focus = "api" /\ \E s \in sending : Api!Post(s))
    /\ WF_apiVars(focus = "api" /\ \E j \in Jobs : Api!Answer(j))

FairSpec == Spec /\ Fairness

-----------------------------------------------------------------------------
TypeOK == Pool!TypeOK /\ Stop!TypeOK /\ Gpu!TypeOK /\ Api!TypeOK

\* What is over stays over: no cleanup callback runs twice however many signals come in, and a
\* key that was revoked admits nobody, also after a crash.
OverIsOver == Stop!CleanedOnce /\ Api!RevokedStaysRevoked

\* Whoever waits is answered: a call to a worker ends whether the worker answers, is silent,
\* babbles, dies or is replaced, unless its pipe stays full for good; and a submission is
\* answered whatever becomes of the webhooks.
WaitersAnswered == Pool!CallEndsUnlessHeld /\ Api!SubmissionAnswered

\* What was asked for is brought to its end: a signal is followed by all the cleanups even if
\* drain callbacks hang, and a quiet pool shrinks to its minimum.
AskedIsDone == Stop!CleanupHappens /\ Gpu!QuietShrinks
-----------------------------------------------------------------------------
(* The values of the instance that TLC checks.                             *)

MCMinNodes == [p \in Pools |-> 1]
MCMaxNodes == [p \in Pools |-> 5]
MCTarget == [p \in Pools |-> 70]
MCReadings ==
    {[utilization |-> 99], [utilization |-> 85, queue |-> 40],
     [utilization |-> 10, wait |-> 30, errors |-> 1], [queue |-> 30, wait |-> 40]}
=============================================================================
