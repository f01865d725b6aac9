------------------------------ MODULE JobQueue ------------------------------
(***************************************************************************)
(* The priority queue of jobs inside one process (engine/queue.py):        *)
(* enqueue() waits for space, for a time; dequeue() waits for its turn     *)
(* under the rate limit, and then for a job.                               *)
(*                                                                         *)
(* The queue is asyncio.PriorityQueue, which is external: a heap ordered   *)
(* by priority and the time at which the job was made, not at which it got *)
(* in.  The interval of the rate limit is Interval ticks of the clock.     *)
(***************************************************************************)
EXTENDS Naturals, FiniteSets

CONSTANTS
    Jobs, Priority, \* a priority for each job
    MaxSize,        \* max_size
    Timed,          \* the jobs that are enqueued with a timeout
    Consumers,      \* the tasks that call dequeue()
    Interval,       \* 1 / rate_limit
    MaxTime         \* bound: ticks

VARIABLES
    now,
    created,        \* when each job was made, Never if it was not
    queue,          \* the jobs in the queue
    waiting,        \* those whose enqueue() waits for space
    refused,        \* those for which it has raised QueueFullError
    taken,          \* when each job was dequeued, Never if it was not
    consumer,       \* idle, paused, or waiting for a job
    until,          \* when the pause of each consumer ends
    lastDequeue     \* _last_dequeue_time

vars == <<now, created, queue, waiting, refused, taken, consumer, until, lastDequeue>>

Never == MaxTime + 1
Time == 0..MaxTime + 1

TypeOK ==
    /\ now \in 0..MaxTime /\ lastDequeue \in Time
    /\ created \in [Jobs -> Time] /\ taken \in [Jobs -> Time]
    /\ queue \subseteq Jobs /\ Cardinality(queue) <= MaxSize
    /\ waiting \subseteq Jobs /\ refused \subseteq Jobs
    /\ consumer \in [Consumers -> {"idle", "paused", "waiting"}]
    /\ until \in [Consumers -> 0..MaxTime + Interval]

Init ==
    /\ now = 0 /\ lastDequeue = Never
    /\ created = [j \in Jobs |-> Never] /\ taken = [j \in Jobs |-> Never]
    /\ queue = {} /\ waiting = {} /\ refused = {}
    /\ consumer = [c \in Consumers |-> "idle"] /\ until = [c \in Consumers |-> 0]

consumerVars == <<consumer, until, lastDequeue>>

\* enqueue() makes the job and waits for space, if it has to.
Enqueue(j) ==
    /\ created[j] = Never
    /\ created' = [created EXCEPT ![j] = now]
    /\ IF Cardinality(queue) < MaxSize
       THEN queue' = queue \union {j} /\ UNCHANGED waiting
       ELSE waiting' = waiting \union {j} /\ UNCHANGED queue
    /\ UNCHANGED <<now, refused, taken, consumerVars>>

Put(j) ==
    /\ j \in waiting /\ Cardinality(queue) < MaxSize
    /\ queue' = queue \union {j} /\ waiting' = waiting \ {j}
    /\ UNCHANGED <<now, created, refused, taken, consumerVars>>

EnqueueTimeout(j) ==
    /\ j \in waiting \intersect Timed
    /\ waiting' = waiting \ {j} /\ refused' = refused \union {j}
    /\ UNCHANGED <<now, created, queue, taken, consumerVars>>

\* dequeue() up to its first await: what is left of the interval since the last dequeue is
\* slept, and the time of the last dequeue is not looked at again.
Dequeue(c) ==
    /\ consumer[c] = "idle"
    /\ IF lastDequeue # Never /\ now < lastDequeue + Interval
       THEN /\ consumer' = [consumer EXCEPT ![c] = "paused"]
            /\ until' = [until EXCEPT ![c] = lastDequeue + Interval]
       ELSE consumer' = [consumer EXCEPT ![c] = "waiting"] /\ UNCHANGED until
    /\ UNCHANGED <<now, created, queue, waiting, refused, taken, lastDequeue>>

Wake(c) ==
    /\ consumer[c] = "paused" /\ until[c] <= now
    /\ consumer' = [consumer EXCEPT ![c] = "waiting"]
    /\ UNCHANGED <<now, created, queue, waiting, refused, taken, until, lastDequeue>>

\* As Before below, by priority alone.
BeforeByPriority(j, k) == Priority[j] < Priority[k]

\* The order of PrioritizedJob.
Before(j, k) == Priority[j] < Priority[k] \/ (Priority[j] = Priority[k] /\ created[j] < created[k])

Get(c, j) ==
    /\ consumer[c] = "waiting" /\ j \in queue
    /\ \A k \in queue : ~Before(k, j)
    /\ queue' = queue \ {j}
    /\ taken' = [taken EXCEPT ![j] = now] /\ lastDequeue' = now
    /\ consumer' = [consumer EXCEPT ![c] = "idle"]
    /\ UNCHANGED <<now, created, waiting, refused, until>>

Tick ==
    /\ now < MaxTime /\ now' = now + 1
    /\ UNCHANGED <<created, queue, waiting, refused, taken, consumerVars>>

Next ==
    \/ \E j \in Jobs : Enqueue(j) \/ Put(j) \/ EnqueueTimeout(j)
    \/ \E c \in Consumers : Dequeue(c) \/ Wake(c) \/ (\E j \in Jobs : Get(c, j))
    \/ Tick

Spec == Init /\ [][Next]_vars

-----------------------------------------------------------------------------
(* Properties.                                                             *)

\* A job of the same priority that was made earlier, and was in the queue, is never left
\* behind, also if it has waited for space.
FirstMadeFirst ==
    [][\A j, k \in Jobs :
        taken[j] = Never /\ taken'[j] # Never /\ k \in queue /\ Priority[j] = Priority[k]
            => created[j] <= created[k]]_vars

\* Two jobs are dequeued an interval apart ("honouring rate limit if set", queue.py:95): two
\* consumers wait for the same moment.
RateKept ==
    \A j, k \in Jobs : j # k /\ taken[j] # Never /\ taken[k] # Never /\ taken[j] <= taken[k] =>
        taken[k] >= taken[j] + Interval
=============================================================================
