-------------------------- MODULE DistributedQueue --------------------------
(***************************************************************************)
(* The Redis-backed queue of engine/distributed_queue.py (RedisQueue and   *)
(* DistributedWorker): any number of engine processes claim jobs from one  *)
(* Redis, process them and write the outcome back.                         *)
(*                                                                         *)
(* Redis executes each command atomically and the code uses no             *)
(* transaction, so one action is one command: between any two commands of  *)
(* an operation every other process may run, and the process itself may    *)
(* die.  In each process three activities interleave: the claim loop of    *)
(* start(), the tasks _process_job it spawns, and the loop of              *)
(* start_cleanup_task().                                                   *)
(*                                                                         *)
(* Of a job record the status and retry_count are kept, and whether        *)
(* claim_timeout has passed since started_at ("overdue"): the rest is      *)
(* written and never read.  worker_id too is only written.  Publishing a   *)
(* notification changes nothing the queue reads.                           *)
(***************************************************************************)
EXTENDS Integers, FiniteSets

CONSTANTS
    Workers,        \* engine processes, each with a DistributedWorker
    Jobs,           \* the jobs that may be submitted
    None,           \* a value that is no job and no worker
    Priority,       \* the priority each job is submitted with
    MaxRetries,     \* RedisQueue.max_retries
    MaxConcurrent,  \* DistributedWorker.max_concurrent
    Cleaners,       \* bound: the workers whose cleanup loop finds anything
    MaxTasks,       \* bound: _process_job tasks alive at a time
    MaxExpiries,    \* bound: claims that outlive claim_timeout
    MaxFaults       \* bound: crashes and Redis errors

ASSUME QueueAssumption ==
    /\ None \notin Jobs \union Workers
    /\ Priority \in [Jobs -> Int]
    /\ MaxRetries \in Nat \ {0}
    /\ MaxConcurrent \in Nat \ {0}
    /\ Cleaners \subseteq Workers
    /\ MaxTasks \in Nat \ {0}
    /\ MaxExpiries \in Nat
    /\ MaxFaults \in Nat

Slots == 1..MaxTasks

VARIABLES
    \* What Redis holds
    store,      \* the hash :jobs, the record of each job
    pending,    \* the members of the sorted set :pending
    band,       \* priority part of a member's score; within a band the order is
                \* that of clocks on different machines, and left open
    mark,       \* the sorted set :claimed: absent, fresh or overdue
    dead,       \* the sorted set :dead
    \* What the processes hold
    claim,      \* per worker: the claim loop and the job it has in hand
    task,       \* per slot: a _process_job task
    clean,      \* per worker: the cleanup loop
    \* Bounds and history
    submitted,  \* jobs whose enqueue() has reached :pending
    expiries,   \* number of expiries so far
    faults,     \* number of faults so far
    disturbed,  \* jobs that a cleanup or an error after success put back
    done,       \* jobs some run left recorded as completed
    muted,      \* those of them whose run had raised, with an empty message
    dropped     \* jobs a fault took from a process while :claimed did not list them,
                \* or another process was about to unlist them

redis == <<store, pending, band, mark, dead>>
history == <<submitted, expiries, faults, disturbed, done, muted, dropped>>
vars == <<redis, claim, task, clean, history>>

Status == {"none", "pending", "claimed", "overdue", "completed", "failed"}
Mark == {"absent", "fresh", "overdue"}
ClaimStage == {"idle", "read", "bounce", "store", "mark", "down"}
TaskStage == {"free", "waiting", "processing", "read", "complete", "move", "write", "unmark"}
CleanStage == {"idle", "fetch", "add", "unmark", "write", "down"}

\* A task has the job in its charge until complete_job has passed it on.
Holding == {"waiting", "processing", "read", "complete", "move"}

\* What a run gave complete_job(): a result, the text of an error, or an empty text.
Outcome == {"result", "error", "blank"}

Record == [status : Status, retries : Nat]
Claim == [at : ClaimStage, job : Jobs \union {None}, retries : Nat]
Task == [at : TaskStage, worker : Workers \union {None}, job : Jobs \union {None},
         outcome : Outcome, retries : Nat]
Clean == [at : CleanStage, todo : SUBSET Jobs, job : Jobs \union {None}, retries : Nat]

TypeOK ==
    /\ store \in [Jobs -> Record]
    /\ pending \in SUBSET Jobs
    /\ band \in [Jobs -> Int]
    /\ mark \in [Jobs -> Mark]
    /\ dead \in SUBSET Jobs
    /\ claim \in [Workers -> Claim]
    /\ task \in [Slots -> Task]
    /\ clean \in [Workers -> Clean]
    /\ submitted \in SUBSET Jobs
    /\ expiries \in 0..MaxExpiries
    /\ faults \in 0..MaxFaults
    /\ disturbed \in SUBSET Jobs
    /\ done \in SUBSET Jobs
    /\ muted \in SUBSET done
    /\ dropped \in SUBSET Jobs

IdleClaim == [at |-> "idle", job |-> None, retries |-> 0]
FreeTask == [at |-> "free", worker |-> None, job |-> None, outcome |-> "blank", retries |-> 0]
IdleClean == [at |-> "idle", todo |-> {}, job |-> None, retries |-> 0]

Init ==
    /\ store = [j \in Jobs |-> [status |-> "none", retries |-> 0]]
    /\ pending = {} /\ dead = {}
    /\ band = Priority
    /\ mark = [j \in Jobs |-> "absent"]
    /\ claim = [w \in Workers |-> IdleClaim]
    /\ task = [s \in Slots |-> FreeTask]
    /\ clean = [w \in Workers |-> IdleClean]
    /\ submitted = {} /\ disturbed = {} /\ done = {} /\ muted = {} /\ dropped = {}
    /\ expiries = 0 /\ faults = 0

-----------------------------------------------------------------------------
(* Redis commands.                                                         *)

HSet(j, status, retries) ==
    store' = [store EXCEPT ![j] = [status |-> status, retries |-> retries]]

\* A member that is already there only gets a new score.
ZAddPending(j, b) ==
    /\ pending' = pending \union {j}
    /\ band' = [band EXCEPT ![j] = b]

\* The score goes with the member; its band is reset to a fixed value.
ZRemPending(j) ==
    /\ pending' = pending \ {j}
    /\ band' = [band EXCEPT ![j] = Priority[j]]

ZAddClaimed(j) == mark' = [mark EXCEPT ![j] = "fresh"]
ZRemClaimed(j) == mark' = [mark EXCEPT ![j] = "absent"]

\* zpopmin: a member of the lowest band.
First(j) == j \in pending /\ \A k \in pending : band[j] <= band[k]

-----------------------------------------------------------------------------
(* enqueue(): the record, then the pending set.                            *)

EnqueueStore(j) ==
    /\ store[j].status = "none"
    /\ HSet(j, "pending", 0)
    /\ UNCHANGED <<pending, band, mark, dead, claim, task, clean, history>>

EnqueueAdd(j) ==
    /\ store[j].status # "none" /\ j \notin submitted
    /\ ZAddPending(j, Priority[j])
    /\ submitted' = submitted \union {j}
    /\ UNCHANGED <<store, mark, dead, claim, task, clean>>
    /\ UNCHANGED <<expiries, faults, disturbed, done, muted, dropped>>

-----------------------------------------------------------------------------
(* The claim loop: claim_job() and, after it, create_task.                 *)

SetClaim(w, stage, j, n) ==
    claim' = [claim EXCEPT ![w] = [at |-> stage, job |-> j, retries |-> n]]

\* A bug Pop could have: the head is read and not removed.
PopPeeking(w) ==
    /\ claim[w].at = "idle"
    /\ \E j \in Jobs : First(j) /\ SetClaim(w, "read", j, 0)
    /\ UNCHANGED <<redis, task, clean, history>>

Pop(w) ==
    /\ claim[w].at = "idle"
    /\ \E j \in Jobs :
          /\ First(j)
          /\ ZRemPending(j)
          /\ SetClaim(w, "read", j, 0)
    /\ UNCHANGED <<store, mark, dead, task, clean, history>>

\* claim_job() returns None: the loop sleeps poll_interval.
Poll(w) == claim[w].at = "idle" /\ pending = {} /\ UNCHANGED vars

\* A job that somebody claimed less than claim_timeout ago goes back.
ReadClaim(w) ==
    LET j == claim[w].job IN
    /\ claim[w].at = "read"
    /\ SetClaim(w, IF store[j].status = "claimed" THEN "bounce" ELSE "store",
                j, store[j].retries)
    /\ UNCHANGED <<redis, task, clean, history>>

\* It goes back in front of its peers, and claim_job() calls itself.
Bounce(w) ==
    LET j == claim[w].job IN
    /\ claim[w].at = "bounce"
    /\ ZAddPending(j, Priority[j] - 1)
    /\ claim' = [claim EXCEPT ![w] = IdleClaim]
    /\ UNCHANGED <<store, mark, dead, task, clean, history>>

StoreClaim(w) ==
    LET j == claim[w].job IN
    /\ claim[w].at = "store"
    /\ HSet(j, "claimed", claim[w].retries)
    /\ claim' = [claim EXCEPT ![w].at = "mark"]
    /\ UNCHANGED <<pending, band, mark, dead, task, clean, history>>

\* The loop does not wait for the semaphore: it goes on claiming.
MarkClaim(w) ==
    LET j == claim[w].job IN
    /\ claim[w].at = "mark"
    /\ ZAddClaimed(j)
    /\ \E s \in Slots :
          /\ task[s].at = "free"
          /\ \A r \in Slots : r < s => task[r].at # "free"
          /\ task' = [task EXCEPT ![s] = [at |-> "waiting", worker |-> w, job |-> j,
                                          outcome |-> "blank", retries |-> 0]]
    /\ claim' = [claim EXCEPT ![w] = IdleClaim]
    /\ UNCHANGED <<store, pending, band, dead, clean, history>>

ClaimStep(w) ==
    Pop(w) \/ ReadClaim(w) \/ Bounce(w) \/ StoreClaim(w) \/ MarkClaim(w)

-----------------------------------------------------------------------------
(* A task: the semaphore, processing_func, then complete_job().            *)

Busy(w) == {s \in Slots : task[s].worker = w /\ task[s].at \notin {"free", "waiting"}}

Begin(s) ==
    /\ task[s].at = "waiting"
    /\ Cardinality(Busy(task[s].worker)) < MaxConcurrent
    /\ task' = [task EXCEPT ![s].at = "processing"]
    /\ UNCHANGED <<redis, claim, clean, history>>

\* processing_func returns or raises; str(e) of what it raises may be empty, as it
\* is for asyncio.TimeoutError().
Process(s) ==
    /\ task[s].at = "processing"
    /\ \E o \in Outcome : task' = [task EXCEPT ![s].at = "read", ![s].outcome = o]
    /\ UNCHANGED <<redis, claim, clean, history>>

\* `if error:` - only a failure that has a text is taken for one.
Failed(s) == task[s].outcome = "error"

\* A bug ReadTask could have: a failure counts down.
ReadTaskCountingDown(s) ==
    /\ task[s].at = "read"
    /\ task' = [task EXCEPT ![s].at = IF Failed(s) THEN "move" ELSE "complete",
                            ![s].retries = store[task[s].job].retries - 1]
    /\ UNCHANGED <<redis, claim, clean, history>>

\* hget; a failure counts one more retry than the record says.
ReadTask(s) ==
    LET n == store[task[s].job].retries IN
    /\ task[s].at = "read"
    /\ task' = [task EXCEPT ![s].at = IF Failed(s) THEN "move" ELSE "complete",
                            ![s].retries = IF Failed(s) THEN n + 1 ELSE n]
    /\ UNCHANGED <<redis, claim, clean, history>>

CompleteTask(s) ==
    LET j == task[s].job IN
    /\ task[s].at = "complete"
    /\ HSet(j, "completed", task[s].retries)
    /\ done' = done \union {j}
    /\ muted' = IF task[s].outcome = "result" THEN muted \ {j} ELSE muted \union {j}
    /\ task' = [task EXCEPT ![s].at = "unmark"]
    /\ UNCHANGED <<pending, band, mark, dead, claim, clean>>
    /\ UNCHANGED <<submitted, expiries, faults, disturbed, dropped>>

\* A bug RetriesLeft could have: one retry too many.
RetriesLeftOffByOne(s) == task[s].retries <= MaxRetries

RetriesLeft(s) == task[s].retries < MaxRetries

\* A bug MoveTask could have: a dead job goes back to :pending too.
MoveTaskBoth(s) ==
    LET j == task[s].job IN
    /\ task[s].at = "move"
    /\ ZAddPending(j, Priority[j] + 1)
    /\ dead' = IF RetriesLeft(s) THEN dead ELSE dead \union {j}
    /\ task' = [task EXCEPT ![s].at = "write"]
    /\ UNCHANGED <<store, mark, claim, clean, history>>

\* After a failure: back to :pending, behind its peers, or to :dead.
MoveTask(s) ==
    LET j == task[s].job IN
    /\ task[s].at = "move"
    /\ IF RetriesLeft(s)
       THEN ZAddPending(j, Priority[j] + 1) /\ UNCHANGED dead
       ELSE dead' = dead \union {j} /\ UNCHANGED <<pending, band>>
    /\ task' = [task EXCEPT ![s].at = "write"]
    /\ UNCHANGED <<store, mark, claim, clean, history>>

WriteTask(s) ==
    LET j == task[s].job IN
    /\ task[s].at = "write"
    /\ HSet(j, IF RetriesLeft(s) THEN "pending" ELSE "failed", task[s].retries)
    /\ task' = [task EXCEPT ![s].at = "unmark"]
    /\ UNCHANGED <<pending, band, mark, dead, claim, clean, history>>

UnmarkTask(s) ==
    /\ task[s].at = "unmark"
    /\ ZRemClaimed(task[s].job)
    /\ task' = [task EXCEPT ![s] = FreeTask]
    /\ UNCHANGED <<store, pending, band, dead, claim, clean, history>>

TaskStep(s) ==
    \/ Begin(s) \/ Process(s) \/ ReadTask(s) \/ CompleteTask(s)
    \/ MoveTask(s) \/ WriteTask(s) \/ UnmarkTask(s)

-----------------------------------------------------------------------------
(* cleanup_stale_claims(): a snapshot of the overdue claims, then four     *)
(* commands for each, whatever its record says by then.                    *)

Scan(w) ==
    LET stale == {j \in Jobs : mark[j] = "overdue"} IN
    /\ w \in Cleaners
    /\ clean[w].at = "idle" /\ stale # {}
    /\ clean' = [clean EXCEPT ![w].at = "fetch", ![w].todo = stale]
    /\ UNCHANGED <<redis, claim, task, history>>

\* A bug Fetch could have: zrem comes before zadd.
FetchUnmarking(w) ==
    /\ clean[w].at = "fetch"
    /\ \E j \in clean[w].todo :
          /\ clean' = [clean EXCEPT ![w] = [at |-> "add", todo |-> clean[w].todo \ {j},
                                            job |-> j, retries |-> store[j].retries]]
          /\ ZRemClaimed(j)
    /\ UNCHANGED <<store, pending, band, dead, claim, task, history>>

Fetch(w) ==
    /\ clean[w].at = "fetch"
    /\ \E j \in clean[w].todo :
          clean' = [clean EXCEPT ![w] = [at |-> "add", todo |-> clean[w].todo \ {j},
                                         job |-> j, retries |-> store[j].retries]]
    /\ UNCHANGED <<redis, claim, task, history>>

CleanAdd(w) ==
    LET j == clean[w].job IN
    /\ clean[w].at = "add"
    /\ ZAddPending(j, Priority[j])
    /\ disturbed' = disturbed \union {j}
    /\ clean' = [clean EXCEPT ![w].at = "unmark"]
    /\ UNCHANGED <<store, mark, dead, claim, task>>
    /\ UNCHANGED <<submitted, expiries, faults, done, muted, dropped>>

CleanUnmark(w) ==
    /\ clean[w].at = "unmark"
    /\ ZRemClaimed(clean[w].job)
    /\ clean' = [clean EXCEPT ![w].at = "write"]
    /\ UNCHANGED <<store, pending, band, dead, claim, task, history>>

CleanWrite(w) ==
    LET j == clean[w].job  rest == clean[w].todo IN
    /\ clean[w].at = "write"
    /\ HSet(j, "pending", clean[w].retries)
    /\ clean' = [clean EXCEPT ![w] = [IdleClean EXCEPT
                    !.at = IF rest = {} THEN "idle" ELSE "fetch", !.todo = rest]]
    /\ UNCHANGED <<pending, band, mark, dead, claim, task, history>>

CleanStep(w) ==
    Scan(w) \/ Fetch(w) \/ CleanAdd(w) \/ CleanUnmark(w) \/ CleanWrite(w)

-----------------------------------------------------------------------------
(* Time and faults.                                                        *)

\* claim_timeout passes.  A record and its entry in :claimed are stamped one
\* after the other and compared with the clocks of other machines, so each
\* becomes overdue on its own.
Expire(j) ==
    /\ expiries < MaxExpiries
    /\ expiries' = expiries + 1
    /\ \/ /\ mark[j] = "fresh"
          /\ mark' = [mark EXCEPT ![j] = "overdue"]
          /\ UNCHANGED store
       \/ /\ store[j].status = "claimed"
          /\ store' = [store EXCEPT ![j].status = "overdue"]
          /\ UNCHANGED mark
    /\ UNCHANGED <<pending, band, dead, claim, task, clean>>
    /\ UNCHANGED <<submitted, faults, disturbed, done, muted, dropped>>

HeldByClaim(w, j) == claim[w].job = j
HeldByTask(s, j) == task[s].job = j /\ task[s].at \in Holding

Fault == faults < MaxFaults /\ faults' = faults + 1

\* Some process is past handing the job on and about to take it off :claimed.
Unlisting(j) ==
    \/ \E s \in Slots : task[s].job = j /\ task[s].at \in {"write", "unmark"}
    \/ \E w \in Workers : clean[w].job = j /\ clean[w].at = "unmark"

Drop(J) ==
    dropped' = dropped \union {j \in J : mark[j] = "absent" \/ Unlisting(j)}

\* The process dies and is started again, with nothing in memory.
Crash(w) ==
    /\ Fault
    /\ Drop({j \in Jobs : \/ HeldByClaim(w, j)
                          \/ \E s \in Slots : task[s].worker = w /\ HeldByTask(s, j)})
    /\ claim' = [claim EXCEPT ![w] = IdleClaim]
    /\ task' = [s \in Slots |-> IF task[s].worker = w THEN FreeTask ELSE task[s]]
    /\ clean' = [clean EXCEPT ![w] = IdleClean]
    /\ UNCHANGED <<redis, submitted, expiries, disturbed, done, muted>>

\* A Redis error in claim_job() leaves start(): nothing claims here any more.
ClaimError(w) ==
    /\ Fault
    /\ claim[w].at # "down"
    /\ Drop({j \in Jobs : HeldByClaim(w, j)})
    /\ claim' = [claim EXCEPT ![w] = [IdleClaim EXCEPT !.at = "down"]]
    /\ UNCHANGED <<redis, task, clean, submitted, expiries, disturbed, done, muted>>

\* A Redis error in complete_job(result=...) is caught with the errors of
\* processing_func, and the job is reported failed, with the text of that error;
\* one in complete_job(error=...) ends the task.  After zrem comes only the notification,
\* which may fail too.
TaskError(s) ==
    LET j == task[s].job IN
    /\ Fault
    /\ task[s].at \in {"read", "complete", "move", "write", "unmark"}
    /\ IF task[s].outcome = "result"
       THEN /\ \E o \in {"error", "blank"} :
                  task' = [task EXCEPT ![s].at = "read", ![s].outcome = o]
            /\ disturbed' = disturbed \union {j}
            /\ UNCHANGED dropped
       ELSE /\ task' = [task EXCEPT ![s] = FreeTask]
            /\ Drop({i \in {j} : HeldByTask(s, j)})
            /\ UNCHANGED disturbed
    /\ \/ UNCHANGED mark
       \/ task[s].at = "unmark" /\ ZRemClaimed(j)
    /\ UNCHANGED <<store, pending, band, dead, claim, clean, submitted, expiries, done, muted>>

\* A Redis error ends the cleanup loop.
CleanError(w) ==
    /\ Fault
    /\ clean[w].at # "down"
    /\ clean' = [clean EXCEPT ![w] = [IdleClean EXCEPT !.at = "down"]]
    /\ UNCHANGED <<redis, claim, task, submitted, expiries, disturbed, done, muted, dropped>>

-----------------------------------------------------------------------------

Next ==
    \/ \E j \in Jobs : EnqueueStore(j) \/ EnqueueAdd(j) \/ Expire(j)
    \/ \E w \in Workers : ClaimStep(w) \/ Poll(w) \/ CleanStep(w)
    \/ \E s \in Slots : TaskStep(s) \/ TaskError(s)
    \/ \E w \in Workers : Crash(w) \/ ClaimError(w) \/ CleanError(w)

Spec == Init /\ [][Next]_vars

\* asyncio runs every ready task and Redis answers.  processing_func ends: every
\* request it makes has a timeout.
Fairness ==
    /\ \A w \in Workers : WF_vars(ClaimStep(w)) /\ WF_vars(CleanStep(w))
    /\ \A s \in Slots : WF_vars(TaskStep(s))

FairSpec == Spec /\ Fairness

-----------------------------------------------------------------------------
(* Properties.                                                             *)

\* Who has a job in charge: the pending set, a claim loop, or a task.
Keepers(j) ==
    {<<"pending", None>> : i \in pending \intersect {j}}
      \union {<<"claim", w>> : w \in {v \in Workers : HeldByClaim(v, j)}}
      \union {<<"task", s>> : s \in {r \in Slots : HeldByTask(r, j)}}

\* Only the cleanup loop, or a Redis error after a successful run, ever makes a
\* second copy of a job: any other job is in one place, so two workers never
\* process it at a time - whatever crashes, and however late its record is read.
OneKeeper ==
    \A j \in Jobs \ disturbed : \A x, y \in Keepers(j) : x = y

\* A job that a run completed, or that went to the dead-letter queue, is not
\* handed out again, with the same exceptions.
FinishedIsReleased ==
    \A j \in (done \union dead) \ disturbed : Keepers(j) = {}

\* A submitted job is completed, dead, in somebody's charge, or at least still
\* listed in :claimed, where the cleanup will find it - unless a fault took it
\* from a process in the windows where :claimed does not protect it: from zpopmin
\* to zadd, and while an earlier holder or the cleanup has its zrem still to do.
NothingLost ==
    \A j \in submitted \ (done \union dead \union dropped) :
        Keepers(j) # {} \/ mark[j] # "absent"

\* "Job claiming with worker IDs (prevents duplicate processing)", class
\* docstring of RedisQueue: no job is processed by two tasks at a time.
NoDuplicateProcessing ==
    \A s, r \in Slots :
        task[s].at = "processing" /\ task[r].at = "processing" /\ s # r
            => task[s].job # task[r].job

\* "Dead letter queue for failed jobs", same docstring: the last run of a job that is
\* recorded as completed has not failed.
NothingSwallowed == muted = {}

\* The life of a job as the records and tasks tell it.  A failure counts when the
\* job is moved, though its record says so one command later.
PhaseOf(j) ==
    IF j \in dead THEN "dead"
    ELSE IF store[j].status = "completed" THEN IF j \in muted THEN "swallowed" ELSE "completed"
    ELSE IF \E s \in Slots : HeldByTask(s, j) THEN "running"
    ELSE IF j \in submitted THEN "queued" ELSE "absent"

Moved(s, j) == task[s].job = j /\ task[s].at = "write"

TriesOf(j) ==
    IF \E s \in Slots : Moved(s, j)
    THEN task[CHOOSE s \in Slots : Moved(s, j)].retries
    ELSE store[j].retries

Lifecycle == INSTANCE JobLifecycle WITH
    phase <- [j \in Jobs |-> PhaseOf(j)],
    tries <- [j \in Jobs |-> TriesOf(j)]

\* Without expiries and faults the queue gives every job the life JobLifecycle
\* promises: one run at a time, at most MaxRetries of them, completed, dead, or
\* taken for completed after a failure without a text, for good, and every job that
\* is submitted gets there.
ImplementsLifecycle == Lifecycle!Spec
=============================================================================
