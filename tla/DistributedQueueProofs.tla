----------------------- MODULE DistributedQueueProofs -----------------------
(***************************************************************************)
(* Proofs about DistributedQueue, for every set of workers and jobs and    *)
(* any number of expiries, crashes and Redis errors: the types, that a job *)
(* is in one place unless the cleanup or an error after success put it     *)
(* back, that no job is lost but in the windows NothingLost names, and     *)
(* that without expiries and faults every step is one of JobLifecycle.     *)
(*                                                                         *)
(* OneKeeper and FinishedIsReleased are not inductive: an enqueue() that   *)
(* has not reached the pending set yet must find nobody with its job,      *)
(* which holds because nobody can hold a job that was not submitted        *)
(* (Known).                                                                *)
(***************************************************************************)
EXTENDS DistributedQueue, TLAPS

\* A claim loop has a job exactly while it is between zpopmin and create_task.
InHand == {"read", "bounce", "store", "mark"}

\* Every stage that uses the job has one.
JobsNamed ==
    /\ \A w \in Workers : claim[w].at \in InHand <=> claim[w].job \in Jobs
    /\ \A s \in Slots : task[s].at # "free" => task[s].job \in Jobs
    /\ \A w \in Workers : clean[w].at \in {"add", "unmark", "write"} => clean[w].job \in Jobs

\* Only jobs that were submitted are known to anybody.
Known ==
    /\ (pending \union done \union dead) \subseteq submitted
    /\ \A j \in Jobs : mark[j] # "absent" => j \in submitted
    /\ \A w \in Workers : claim[w].job \in submitted \union {None}
    /\ \A s \in Slots : task[s].job \in submitted \union {None}
    /\ \A w \in Workers : clean[w].todo \subseteq submitted
    /\ \A w \in Workers : clean[w].job \in submitted \union {None}

\* Nobody has job j.
Nowhere(j) ==
    /\ j \notin pending
    /\ \A w \in Workers : ~HeldByClaim(w, j)
    /\ \A s \in Slots : ~HeldByTask(s, j)

\* The pending set, the claim loops and the tasks exclude each other.
Single(j) ==
    /\ \A w \in Workers : HeldByClaim(w, j) =>
          /\ j \notin pending
          /\ \A v \in Workers : HeldByClaim(v, j) => v = w
          /\ \A s \in Slots : ~HeldByTask(s, j)
    /\ \A s \in Slots : HeldByTask(s, j) =>
          /\ j \notin pending
          /\ \A r \in Slots : HeldByTask(r, j) => r = s

Good(j) == Single(j) /\ (j \in done \union dead => Nowhere(j))

AllGood == \A j \in Jobs \ disturbed : Good(j)

IInv == TypeOK /\ JobsNamed /\ Known /\ AllGood

\* What the processes hold when they hold nothing.
LEMMA IdleTypes == IdleClaim \in Claim /\ FreeTask \in Task /\ IdleClean \in Clean
BY DEF IdleClaim, FreeTask, IdleClean, Claim, Task, Clean, ClaimStage, TaskStage, CleanStage, Outcome

LEMMA InitIInv == Init => IInv
<1> SUFFICES ASSUME Init PROVE IInv
  OBVIOUS
<1>1. TypeOK
  <2>1. [status |-> "none", retries |-> 0] \in Record
    BY DEF Record, Status
  <2>2. store \in [Jobs -> Record]
    BY <2>1 DEF Init
  <2>3. claim \in [Workers -> Claim] /\ task \in [Slots -> Task] /\ clean \in [Workers -> Clean]
    BY IdleTypes DEF Init
  <2> QED BY <2>2, <2>3, QueueAssumption DEF Init, TypeOK, Mark
<1>2. JobsNamed /\ Known
  BY QueueAssumption DEF Init, JobsNamed, Known, InHand, IdleClaim, FreeTask, IdleClean
<1>3. AllGood
  BY QueueAssumption DEF Init, AllGood, Good, Nowhere, Single, HeldByClaim, HeldByTask, IdleClaim, FreeTask
<1> QED BY <1>1, <1>2, <1>3 DEF IInv

-----------------------------------------------------------------------------
(* Type correctness, operation by operation.                               *)

\* The commands of Redis keep the types of what Redis holds.
LEMMA CommandTypes ==
    ASSUME TypeOK, NEW j \in Jobs
    PROVE  /\ \A st \in Status, n \in Nat : HSet(j, st, n) => store' \in [Jobs -> Record]
           /\ \A b \in Int : ZAddPending(j, b) => pending' \in SUBSET Jobs /\ band' \in [Jobs -> Int]
           /\ ZRemPending(j) => pending' \in SUBSET Jobs /\ band' \in [Jobs -> Int]
           /\ ZAddClaimed(j) \/ ZRemClaimed(j) => mark' \in [Jobs -> Mark]
<1>1. ASSUME NEW st \in Status, NEW n \in Nat, HSet(j, st, n) PROVE store' \in [Jobs -> Record]
  <2>1. [status |-> st, retries |-> n] \in Record
    BY DEF Record
  <2> QED BY <1>1, <2>1 DEF HSet, TypeOK
<1>2. ASSUME NEW b \in Int, ZAddPending(j, b) PROVE pending' \in SUBSET Jobs /\ band' \in [Jobs -> Int]
  BY <1>2 DEF ZAddPending, TypeOK
<1>3. ASSUME ZRemPending(j) PROVE pending' \in SUBSET Jobs /\ band' \in [Jobs -> Int]
  BY <1>3, QueueAssumption DEF ZRemPending, TypeOK
<1>4. ASSUME ZAddClaimed(j) \/ ZRemClaimed(j) PROVE mark' \in [Jobs -> Mark]
  BY <1>4 DEF ZAddClaimed, ZRemClaimed, TypeOK, Mark
<1> QED BY <1>1, <1>2, <1>3, <1>4

LEMMA EnqueueType ==
    ASSUME IInv, NEW j \in Jobs, EnqueueStore(j) \/ EnqueueAdd(j) \/ Expire(j)
    PROVE  TypeOK'
<1>0. TypeOK /\ QueueAssumption
  BY QueueAssumption DEF IInv
<1>1. CASE EnqueueStore(j)
  <2>1. store' \in [Jobs -> Record]
    BY <1>0, <1>1, CommandTypes DEF EnqueueStore, Status
  <2> QED BY <1>0, <1>1, <2>1 DEF EnqueueStore, TypeOK, history
<1>2. CASE EnqueueAdd(j)
  <2>1. pending' \in SUBSET Jobs /\ band' \in [Jobs -> Int]
    BY <1>0, <1>2, CommandTypes, QueueAssumption DEF EnqueueAdd
  <2> QED BY <1>0, <1>2, <2>1 DEF EnqueueAdd, TypeOK
<1>3. CASE Expire(j)
  <2>1. expiries' \in 0..MaxExpiries
    BY <1>0, <1>3, QueueAssumption DEF Expire, TypeOK
  <2>2. mark' \in [Jobs -> Mark]
    BY <1>0, <1>3 DEF Expire, TypeOK, Mark
  <2>3. [store[j] EXCEPT !.status = "overdue"] \in Record
    BY <1>0 DEF TypeOK, Record, Status
  <2>4. store' \in [Jobs -> Record]
    BY <1>0, <1>3, <2>3 DEF Expire, TypeOK
  <2> QED BY <1>0, <1>3, <2>1, <2>2, <2>4 DEF Expire, TypeOK
<1> QED BY <1>1, <1>2, <1>3

LEMMA ClaimType == ASSUME IInv, NEW w \in Workers, ClaimStep(w) PROVE TypeOK'
<1>0. TypeOK /\ (claim[w].at \in InHand => claim[w].job \in Jobs)
  BY DEF IInv, JobsNamed
<1>a. claim[w] \in Claim
  BY <1>0 DEF TypeOK
<1>1. CASE Pop(w)
  <2>1. PICK j \in Jobs : ZRemPending(j) /\ SetClaim(w, "read", j, 0)
    BY <1>1 DEF Pop
  <2>2. [at |-> "read", job |-> j, retries |-> 0] \in Claim
    BY DEF Claim, ClaimStage
  <2>3. claim' \in [Workers -> Claim]
    BY <1>0, <2>1, <2>2 DEF SetClaim, TypeOK
  <2>4. pending' \in SUBSET Jobs /\ band' \in [Jobs -> Int]
    BY <1>0, <2>1, CommandTypes
  <2> QED BY <1>0, <1>1, <2>3, <2>4 DEF Pop, TypeOK, history
<1>2. CASE ReadClaim(w)
  <2>1. claim[w].job \in Jobs /\ store[claim[w].job] \in Record
    BY <1>0, <1>2 DEF ReadClaim, InHand, TypeOK
  <2>2. \A st \in ClaimStage : [at |-> st, job |-> claim[w].job,
                                retries |-> store[claim[w].job].retries] \in Claim
    BY <2>1 DEF Claim, Record
  <2>3. claim' \in [Workers -> Claim]
    BY <1>0, <1>2, <2>2 DEF ReadClaim, SetClaim, TypeOK, ClaimStage
  <2> QED BY <1>0, <1>2, <2>3 DEF ReadClaim, TypeOK, redis, history
<1>3. CASE Bounce(w)
  <2>1. claim[w].job \in Jobs
    BY <1>0, <1>3 DEF Bounce, InHand
  <2>2. pending' \in SUBSET Jobs /\ band' \in [Jobs -> Int]
    BY <1>0, <1>3, <2>1, CommandTypes, QueueAssumption DEF Bounce
  <2>3. claim' \in [Workers -> Claim]
    BY <1>0, <1>3, IdleTypes DEF Bounce, TypeOK
  <2> QED BY <1>0, <1>3, <2>2, <2>3 DEF Bounce, TypeOK, history
<1>4. CASE StoreClaim(w)
  <2>1. claim[w].job \in Jobs /\ claim[w].retries \in Nat
    BY <1>0, <1>a, <1>4 DEF StoreClaim, InHand, Claim
  <2>2. store' \in [Jobs -> Record]
    BY <1>0, <1>4, <2>1, CommandTypes DEF StoreClaim, Status
  <2>3. [claim[w] EXCEPT !.at = "mark"] \in Claim
    BY <1>a DEF Claim, ClaimStage
  <2>4. claim' \in [Workers -> Claim]
    BY <1>0, <1>4, <2>3 DEF StoreClaim, TypeOK
  <2> QED BY <1>0, <1>4, <2>2, <2>4 DEF StoreClaim, TypeOK, history
<1>5. CASE MarkClaim(w)
  <2>1. claim[w].job \in Jobs
    BY <1>0, <1>5 DEF MarkClaim, InHand
  <2>2. PICK s \in Slots : task' = [task EXCEPT ![s] =
           [at |-> "waiting", worker |-> w, job |-> claim[w].job, outcome |-> "blank", retries |-> 0]]
    BY <1>5 DEF MarkClaim
  <2>3. [at |-> "waiting", worker |-> w, job |-> claim[w].job, outcome |-> "blank", retries |-> 0] \in Task
    BY <2>1 DEF Task, TaskStage, Outcome
  <2>4. task' \in [Slots -> Task]
    BY <1>0, <2>2, <2>3 DEF TypeOK
  <2>5. mark' \in [Jobs -> Mark]
    BY <1>0, <1>5, <2>1, CommandTypes DEF MarkClaim
  <2>6. claim' \in [Workers -> Claim]
    BY <1>0, <1>5, IdleTypes DEF MarkClaim, TypeOK
  <2> QED BY <1>0, <1>5, <2>4, <2>5, <2>6 DEF MarkClaim, TypeOK, history
<1> QED BY <1>1, <1>2, <1>3, <1>4, <1>5 DEF ClaimStep

LEMMA TaskType == ASSUME IInv, NEW s \in Slots, TaskStep(s) PROVE TypeOK'
<1>0. TypeOK /\ (task[s].at # "free" => task[s].job \in Jobs)
  BY DEF IInv, JobsNamed
<1>a. task[s] \in Task
  BY <1>0 DEF TypeOK
<1>b. \A st \in TaskStage : [task[s] EXCEPT !.at = st] \in Task
  BY <1>a DEF Task
<1>c. \A st \in TaskStage : task' = [task EXCEPT ![s].at = st] => task' \in [Slots -> Task]
  BY <1>0, <1>b DEF TypeOK
<1>d. {"processing", "read", "complete", "move", "write", "unmark"} \subseteq TaskStage
  BY DEF TaskStage
<1>1. CASE Begin(s)
  <2>1. task' \in [Slots -> Task]
    BY <1>1, <1>c, <1>d DEF Begin
  <2> QED BY <1>0, <1>1, <2>1 DEF Begin, TypeOK, redis, history
<1>2. CASE Process(s)
  <2>1. PICK o \in Outcome : task' = [task EXCEPT ![s].at = "read", ![s].outcome = o]
    BY <1>2 DEF Process
  <2>2. [task[s] EXCEPT !.at = "read", !.outcome = o] \in Task
    BY <1>a DEF Task, TaskStage
  <2>3. task' = [task EXCEPT ![s] = [task[s] EXCEPT !.at = "read", !.outcome = o]]
    BY <2>1, <1>0 DEF TypeOK
  <2>4. task' \in [Slots -> Task]
    BY <1>0, <2>2, <2>3 DEF TypeOK
  <2> QED BY <1>0, <1>2, <2>4 DEF Process, TypeOK, redis, history
<1>3. CASE ReadTask(s)
  <2> DEFINE n == store[task[s].job].retries
             r == [task[s] EXCEPT !.at = IF Failed(s) THEN "move" ELSE "complete",
                                  !.retries = IF Failed(s) THEN n + 1 ELSE n]
  <2>1. store[task[s].job] \in Record
    BY <1>0, <1>3 DEF ReadTask, TypeOK
  <2>2. n \in Nat /\ n + 1 \in Nat
    BY <2>1 DEF Record
  <2>3. r \in Task
    BY <1>a, <2>2 DEF Task, TaskStage
  <2>4. task' = [task EXCEPT ![s] = r]
    BY <1>0, <1>3 DEF ReadTask, TypeOK
  <2>5. task' \in [Slots -> Task]
    BY <1>0, <2>3, <2>4 DEF TypeOK
  <2> QED BY <1>0, <1>3, <2>5 DEF ReadTask, TypeOK, redis, history
<1>4. CASE CompleteTask(s)
  <2>1. task[s].job \in Jobs /\ task[s].retries \in Nat
    BY <1>0, <1>a, <1>4 DEF CompleteTask, Task
  <2>2. store' \in [Jobs -> Record]
    BY <1>0, <1>4, <2>1, CommandTypes DEF CompleteTask, Status
  <2>3. task' \in [Slots -> Task]
    BY <1>4, <1>c, <1>d DEF CompleteTask
  <2> QED BY <1>0, <1>4, <2>1, <2>2, <2>3 DEF CompleteTask, TypeOK
<1>5. CASE MoveTask(s)
  <2>1. task[s].job \in Jobs /\ Priority[task[s].job] + 1 \in Int
    BY <1>0, <1>5, QueueAssumption DEF MoveTask
  <2>2. pending' \in SUBSET Jobs /\ band' \in [Jobs -> Int] /\ dead' \in SUBSET Jobs
    BY <1>0, <1>5, <2>1, CommandTypes DEF MoveTask, TypeOK
  <2>3. task' \in [Slots -> Task]
    BY <1>5, <1>c, <1>d DEF MoveTask
  <2> QED BY <1>0, <1>5, <2>2, <2>3 DEF MoveTask, TypeOK, history
<1>6. CASE WriteTask(s)
  <2>1. task[s].job \in Jobs /\ task[s].retries \in Nat
    BY <1>0, <1>a, <1>6 DEF WriteTask, Task
  <2>2. store' \in [Jobs -> Record]
    BY <1>0, <1>6, <2>1, CommandTypes DEF WriteTask, Status
  <2>3. task' \in [Slots -> Task]
    BY <1>6, <1>c, <1>d DEF WriteTask
  <2> QED BY <1>0, <1>6, <2>2, <2>3 DEF WriteTask, TypeOK, history
<1>7. CASE UnmarkTask(s)
  <2>1. task[s].job \in Jobs
    BY <1>0, <1>7 DEF UnmarkTask
  <2>2. mark' \in [Jobs -> Mark]
    BY <1>0, <1>7, <2>1, CommandTypes DEF UnmarkTask
  <2>3. task' \in [Slots -> Task]
    BY <1>0, <1>7, IdleTypes DEF UnmarkTask, TypeOK
  <2> QED BY <1>0, <1>7, <2>2, <2>3 DEF UnmarkTask, TypeOK, history
<1> QED BY <1>1, <1>2, <1>3, <1>4, <1>5, <1>6, <1>7 DEF TaskStep

LEMMA CleanType == ASSUME IInv, NEW w \in Workers, CleanStep(w) PROVE TypeOK'
<1>0. TypeOK /\ (clean[w].at \in {"add", "unmark", "write"} => clean[w].job \in Jobs)
  BY DEF IInv, JobsNamed
<1>a. clean[w] \in Clean
  BY <1>0 DEF TypeOK
<1>1. CASE Scan(w)
  <2> DEFINE r == [clean[w] EXCEPT !.at = "fetch", !.todo = {j \in Jobs : mark[j] = "overdue"}]
  <2>1. r \in Clean
    BY <1>a DEF Clean, CleanStage
  <2>2. clean' = [clean EXCEPT ![w] = r]
    BY <1>0, <1>1 DEF Scan, TypeOK
  <2>3. clean' \in [Workers -> Clean]
    BY <1>0, <2>1, <2>2 DEF TypeOK
  <2> QED BY <1>0, <1>1, <2>3 DEF Scan, TypeOK, redis, history
<1>2. CASE Fetch(w)
  <2>1. PICK j \in clean[w].todo :
           clean' = [clean EXCEPT ![w] = [at |-> "add", todo |-> clean[w].todo \ {j},
                                          job |-> j, retries |-> store[j].retries]]
    BY <1>2 DEF Fetch
  <2>2. j \in Jobs /\ clean[w].todo \in SUBSET Jobs
    BY <1>a DEF Clean
  <2>3. store[j].retries \in Nat
    BY <1>0, <2>2 DEF TypeOK, Record
  <2>4. [at |-> "add", todo |-> clean[w].todo \ {j}, job |-> j, retries |-> store[j].retries] \in Clean
    BY <2>2, <2>3 DEF Clean, CleanStage
  <2>5. clean' \in [Workers -> Clean]
    BY <1>0, <2>1, <2>4 DEF TypeOK
  <2> QED BY <1>0, <1>2, <2>5 DEF Fetch, TypeOK, redis, history
<1>b. \A st \in CleanStage : clean' = [clean EXCEPT ![w].at = st] => clean' \in [Workers -> Clean]
  <2>1. \A st \in CleanStage : [clean[w] EXCEPT !.at = st] \in Clean
    BY <1>a DEF Clean
  <2> QED BY <1>0, <2>1 DEF TypeOK
<1>3. CASE CleanAdd(w)
  <2>1. clean[w].job \in Jobs
    BY <1>0, <1>3 DEF CleanAdd
  <2>2. pending' \in SUBSET Jobs /\ band' \in [Jobs -> Int]
    BY <1>0, <1>3, <2>1, CommandTypes, QueueAssumption DEF CleanAdd
  <2>3. clean' \in [Workers -> Clean]
    BY <1>3, <1>b DEF CleanAdd, CleanStage
  <2> QED BY <1>0, <1>3, <2>1, <2>2, <2>3 DEF CleanAdd, TypeOK
<1>4. CASE CleanUnmark(w)
  <2>1. mark' \in [Jobs -> Mark]
    BY <1>0, <1>4, CommandTypes DEF CleanUnmark
  <2>2. clean' \in [Workers -> Clean]
    BY <1>4, <1>b DEF CleanUnmark, CleanStage
  <2> QED BY <1>0, <1>4, <2>1, <2>2 DEF CleanUnmark, TypeOK, history
<1>5. CASE CleanWrite(w)
  <2>1. clean[w].job \in Jobs /\ clean[w].retries \in Nat /\ clean[w].todo \in SUBSET Jobs
    BY <1>0, <1>a, <1>5 DEF CleanWrite, Clean
  <2>2. store' \in [Jobs -> Record]
    BY <1>0, <1>5, <2>1, CommandTypes DEF CleanWrite, Status
  <2>3. \A st \in CleanStage : [IdleClean EXCEPT !.at = st, !.todo = clean[w].todo] \in Clean
    BY <2>1, IdleTypes DEF Clean, IdleClean
  <2>4. clean' \in [Workers -> Clean]
    BY <1>0, <1>5, <2>3 DEF CleanWrite, TypeOK, CleanStage
  <2> QED BY <1>0, <1>5, <2>2, <2>4 DEF CleanWrite, TypeOK, history
<1> QED BY <1>1, <1>2, <1>3, <1>4, <1>5 DEF CleanStep

LEMMA FaultType ==
    ASSUME IInv,
           \/ \E w \in Workers : Crash(w) \/ ClaimError(w) \/ CleanError(w)
           \/ \E s \in Slots : TaskError(s)
    PROVE  TypeOK'
<1>0. TypeOK
  BY DEF IInv
<1>a. Fault => faults' \in 0..MaxFaults
  BY <1>0, QueueAssumption DEF Fault, TypeOK
<1>b. \A J \in SUBSET Jobs : Drop(J) => dropped' \in SUBSET Jobs
  BY <1>0 DEF Drop, TypeOK
<1>1. ASSUME NEW w \in Workers, Crash(w) PROVE TypeOK'
  <2>1. claim' \in [Workers -> Claim] /\ task' \in [Slots -> Task] /\ clean' \in [Workers -> Clean]
    BY <1>0, <1>1, IdleTypes DEF Crash, TypeOK
  <2>2. dropped' \in SUBSET Jobs
    BY <1>0, <1>1 DEF Crash, Drop, TypeOK
  <2> QED BY <1>0, <1>1, <1>a, <2>1, <2>2 DEF Crash, TypeOK, redis
<1>2. ASSUME NEW w \in Workers, ClaimError(w) PROVE TypeOK'
  <2>1. [IdleClaim EXCEPT !.at = "down"] \in Claim
    BY DEF Claim, ClaimStage, IdleClaim
  <2>2. claim' \in [Workers -> Claim]
    BY <1>0, <1>2, <2>1 DEF ClaimError, TypeOK
  <2>3. dropped' \in SUBSET Jobs
    BY <1>0, <1>2 DEF ClaimError, Drop, TypeOK
  <2> QED BY <1>0, <1>2, <1>a, <2>2, <2>3 DEF ClaimError, TypeOK, redis
<1>3. ASSUME NEW w \in Workers, CleanError(w) PROVE TypeOK'
  <2>1. [IdleClean EXCEPT !.at = "down"] \in Clean
    BY DEF Clean, CleanStage, IdleClean
  <2>2. clean' \in [Workers -> Clean]
    BY <1>0, <1>3, <2>1 DEF CleanError, TypeOK
  <2> QED BY <1>0, <1>3, <1>a, <2>2 DEF CleanError, TypeOK, redis
<1>4. ASSUME NEW s \in Slots, TaskError(s) PROVE TypeOK'
  <2>1. task[s].job \in Jobs /\ task[s] \in Task
    BY <1>0, <1>4 DEF TaskError, JobsNamed, IInv, TypeOK
  <2>2. \A o \in Outcome : [task[s] EXCEPT !.at = "read", !.outcome = o] \in Task
    BY <2>1 DEF Task, TaskStage
  <2>3. \/ \E o \in Outcome : task' = [task EXCEPT ![s] = [task[s] EXCEPT !.at = "read", !.outcome = o]]
        \/ task' = [task EXCEPT ![s] = FreeTask]
    BY <1>0, <1>4 DEF TaskError, TypeOK, Outcome
  <2>4. task' \in [Slots -> Task]
    BY <1>0, <2>2, <2>3, IdleTypes DEF TypeOK
  <2>5. dropped' \in SUBSET Jobs /\ disturbed' \in SUBSET Jobs
    BY <1>0, <1>4, <2>1 DEF TaskError, Drop, TypeOK
  <2>6. mark' \in [Jobs -> Mark]
    BY <1>0, <1>4, <2>1 DEF TaskError, ZRemClaimed, TypeOK, Mark
  <2> QED BY <1>0, <1>4, <1>a, <2>4, <2>5, <2>6 DEF TaskError, TypeOK
<1> QED BY <1>1, <1>2, <1>3, <1>4

-----------------------------------------------------------------------------
(* The keepers, operation by operation.                                    *)

Keeping == JobsNamed /\ Known /\ AllGood

\* Nothing new gets hold of job j.
Quiet(j) ==
    /\ j \in pending' => j \in pending
    /\ \A w \in Workers : claim'[w].job = j => HeldByClaim(w, j)
    /\ \A s \in Slots : task'[s].job = j /\ task'[s].at \in Holding => HeldByTask(s, j)
    /\ j \in done' \union dead' => j \in done \union dead

LEMMA QuietGood == ASSUME NEW j \in Jobs, Good(j), Quiet(j) PROVE Good(j)'
<1>1. Single(j)'
  BY DEF Good, Single, Quiet, HeldByClaim, HeldByTask
<1>2. Nowhere(j) => Nowhere(j)'
  BY DEF Nowhere, Quiet, HeldByClaim, HeldByTask
<1> QED BY <1>1, <1>2 DEF Good, Quiet

\* enqueue() and time.
LEMMA EnqueueKeeping ==
    ASSUME IInv, NEW j \in Jobs, EnqueueStore(j) \/ EnqueueAdd(j) \/ Expire(j)
    PROVE  Keeping'
<1>0. TypeOK /\ Keeping
  BY DEF IInv, Keeping
<1>1. CASE EnqueueStore(j)
  BY <1>0, <1>1 DEF EnqueueStore, history, Keeping, JobsNamed, Known, AllGood, Good, Single,
                    Nowhere, HeldByClaim, HeldByTask
<1>2. CASE EnqueueAdd(j)
  <2>1. JobsNamed' /\ Known'
    BY <1>0, <1>2 DEF EnqueueAdd, ZAddPending, Keeping, JobsNamed, Known
  <2>2. Nowhere(j) /\ j \notin done \union dead
    BY <1>0, <1>2, QueueAssumption DEF EnqueueAdd, Keeping, Known, Nowhere, HeldByClaim, HeldByTask
  <2>3. Good(j)'
    BY <1>2, <2>2 DEF EnqueueAdd, Good, Single, Nowhere, HeldByClaim, HeldByTask
  <2>4. ASSUME NEW k \in Jobs \ disturbed', k # j PROVE Good(k)'
    <3>1. Good(k) /\ Quiet(k)
      BY <1>0, <1>2, <2>4 DEF EnqueueAdd, ZAddPending, Keeping, AllGood, Quiet, HeldByClaim, HeldByTask
    <3> QED BY <3>1, QuietGood
  <2> QED BY <2>1, <2>3, <2>4 DEF Keeping, AllGood
<1>3. CASE Expire(j)
  <2>1. Known'
    BY <1>0, <1>3 DEF Expire, Keeping, Known, TypeOK
  <2> QED BY <1>0, <1>3, <2>1 DEF Expire, Keeping, JobsNamed, AllGood, Good, Single, Nowhere,
                                  HeldByClaim, HeldByTask
<1> QED BY <1>1, <1>2, <1>3

\* The claim loop takes a job from the pending set, gives it back or starts a task.
LEMMA ClaimKeeping == ASSUME IInv, NEW w \in Workers, ClaimStep(w) PROVE Keeping'
<1>0. TypeOK /\ Keeping
  BY DEF IInv, Keeping
<1>1. CASE Pop(w)
  <2>1. PICK j \in Jobs : /\ j \in pending
                          /\ pending' = pending \ {j}
                          /\ SetClaim(w, "read", j, 0)
    BY <1>1 DEF Pop, First, ZRemPending
  <2>2. \A v \in Workers : claim'[v] = IF v = w THEN [at |-> "read", job |-> j, retries |-> 0]
                                       ELSE claim[v]
    BY <1>0, <2>1 DEF SetClaim, TypeOK
  <2>3. JobsNamed' /\ Known'
    BY <1>0, <1>1, <2>1, <2>2 DEF Pop, history, Keeping, JobsNamed, Known, InHand
  <2>4. ASSUME NEW k \in Jobs \ disturbed' PROVE Good(k)'
    <3>1. Good(k)
      BY <1>0, <1>1 DEF Pop, history, Keeping, AllGood
    <3>2. CASE k = j
      BY <1>1, <2>1, <2>2, <3>1, <3>2 DEF Pop, history, Good, Single, Nowhere, HeldByClaim, HeldByTask
    <3>3. CASE k # j
      <4>1. Quiet(k)
        BY <1>1, <2>1, <2>2, <3>3 DEF Pop, history, Quiet, HeldByClaim, HeldByTask
      <4> QED BY <3>1, <4>1, QuietGood
    <3> QED BY <3>2, <3>3
  <2> QED BY <2>3, <2>4 DEF Keeping, AllGood
<1>2. CASE ReadClaim(w)
  <2>1. claim'[w].job = claim[w].job /\ claim'[w].at \in InHand /\ claim[w].at \in InHand
    BY <1>0, <1>2 DEF ReadClaim, SetClaim, TypeOK, InHand
  <2>2. \A v \in Workers : v # w => claim'[v] = claim[v]
    BY <1>0, <1>2 DEF ReadClaim, SetClaim, TypeOK
  <2>3. JobsNamed' /\ Known'
    BY <1>0, <1>2, <2>1, <2>2 DEF ReadClaim, redis, history, Keeping, JobsNamed, Known
  <2>4. ASSUME NEW k \in Jobs \ disturbed' PROVE Good(k)'
    <3>1. Good(k) /\ Quiet(k)
      BY <1>0, <1>2, <2>1, <2>2 DEF ReadClaim, redis, history, Keeping, AllGood, Quiet, HeldByClaim, HeldByTask
    <3> QED BY <3>1, QuietGood
  <2> QED BY <2>3, <2>4 DEF Keeping, AllGood
<1>3. CASE Bounce(w)
  <2> DEFINE j == claim[w].job
  <2>1. j \in Jobs /\ pending' = pending \union {j} /\ j \in submitted
    BY <1>0, <1>3, QueueAssumption DEF Bounce, ZAddPending, Keeping, JobsNamed, Known, InHand
  <2>2. \A v \in Workers : claim'[v] = IF v = w THEN IdleClaim ELSE claim[v]
    BY <1>0, <1>3 DEF Bounce, TypeOK
  <2>3. JobsNamed' /\ Known'
    BY <1>0, <1>3, <2>1, <2>2, QueueAssumption
       DEF Bounce, history, Keeping, JobsNamed, Known, InHand, IdleClaim
  <2>4. ASSUME NEW k \in Jobs \ disturbed' PROVE Good(k)'
    <3>1. Good(k)
      BY <1>0, <1>3 DEF Bounce, history, Keeping, AllGood
    <3>2. CASE k = j
      BY <1>3, <2>1, <2>2, <3>1, <3>2, QueueAssumption
         DEF Bounce, history, Good, Single, Nowhere, HeldByClaim, HeldByTask, IdleClaim
    <3>3. CASE k # j
      <4>1. Quiet(k)
        BY <1>3, <2>1, <2>2, <3>3, QueueAssumption
           DEF Bounce, history, Quiet, HeldByClaim, HeldByTask, IdleClaim
      <4> QED BY <3>1, <4>1, QuietGood
    <3> QED BY <3>2, <3>3
  <2> QED BY <2>3, <2>4 DEF Keeping, AllGood
<1>4. CASE StoreClaim(w)
  <2>1. claim'[w].job = claim[w].job /\ claim'[w].at \in InHand /\ claim[w].at \in InHand
    BY <1>0, <1>4 DEF StoreClaim, TypeOK, InHand, Claim
  <2>2. \A v \in Workers : v # w => claim'[v] = claim[v]
    BY <1>0, <1>4 DEF StoreClaim, TypeOK
  <2>3. JobsNamed' /\ Known'
    BY <1>0, <1>4, <2>1, <2>2 DEF StoreClaim, history, Keeping, JobsNamed, Known
  <2>4. ASSUME NEW k \in Jobs \ disturbed' PROVE Good(k)'
    <3>1. Good(k) /\ Quiet(k)
      BY <1>0, <1>4, <2>1, <2>2 DEF StoreClaim, history, Keeping, AllGood, Quiet, HeldByClaim, HeldByTask
    <3> QED BY <3>1, QuietGood
  <2> QED BY <2>3, <2>4 DEF Keeping, AllGood
<1>5. CASE MarkClaim(w)
  <2> DEFINE j == claim[w].job
  <2>1. j \in Jobs /\ j \in submitted
    BY <1>0, <1>5, QueueAssumption DEF MarkClaim, Keeping, JobsNamed, Known, InHand
  <2>2. \A v \in Workers : claim'[v] = IF v = w THEN IdleClaim ELSE claim[v]
    BY <1>0, <1>5 DEF MarkClaim, TypeOK
  <2>3. PICK s \in Slots : \A r \in Slots : task'[r] =
           IF r = s THEN [at |-> "waiting", worker |-> w, job |-> j, outcome |-> "blank", retries |-> 0]
           ELSE task[r]
    BY <1>0, <1>5 DEF MarkClaim, TypeOK
  <2>4. JobsNamed'
    BY <1>0, <1>5, <2>1, <2>2, <2>3, QueueAssumption
       DEF MarkClaim, history, Keeping, JobsNamed, InHand, IdleClaim
  <2>5. Known'
    BY <1>0, <1>5, <2>1, <2>2, <2>3 DEF MarkClaim, history, Keeping, Known, IdleClaim, ZAddClaimed, TypeOK
  <2>6. ASSUME NEW k \in Jobs \ disturbed' PROVE Good(k)'
    <3>1. Good(k)
      BY <1>0, <1>5 DEF MarkClaim, history, Keeping, AllGood
    <3>2. CASE k = j
      BY <1>5, <2>1, <2>2, <2>3, <3>1, <3>2, QueueAssumption
         DEF MarkClaim, history, Good, Single, Nowhere, HeldByClaim, HeldByTask, IdleClaim, Holding
    <3>3. CASE k # j
      <4>1. Quiet(k)
        BY <1>5, <2>2, <2>3, <3>3, QueueAssumption
           DEF MarkClaim, history, Quiet, HeldByClaim, HeldByTask, IdleClaim
      <4> QED BY <3>1, <4>1, QuietGood
    <3> QED BY <3>2, <3>3
  <2> QED BY <2>4, <2>5, <2>6 DEF Keeping, AllGood
<1> QED BY <1>1, <1>2, <1>3, <1>4, <1>5 DEF ClaimStep

\* A task keeps its job until CompleteTask or MoveTask, which pass it on.
LEMMA TaskKeeping == ASSUME IInv, NEW s \in Slots, TaskStep(s) PROVE Keeping'
<1>0. TypeOK /\ Keeping
  BY DEF IInv, Keeping
<1>1. ASSUME Begin(s) \/ Process(s) \/ ReadTask(s) PROVE Keeping'
  <2>1. UNCHANGED <<pending, mark, dead, claim, clean, submitted, disturbed, done>>
    BY <1>1 DEF Begin, Process, ReadTask, redis, history
  <2>2. /\ task'[s].job = task[s].job
        /\ task[s].at \in Holding \ {"free"}
        /\ \A r \in Slots : r # s => task'[r] = task[r]
    BY <1>0, <1>1 DEF Begin, Process, ReadTask, TypeOK, Task, Holding
  <2>3. JobsNamed' /\ Known'
    BY <1>0, <2>1, <2>2 DEF Keeping, JobsNamed, Known
  <2>4. ASSUME NEW k \in Jobs \ disturbed' PROVE Good(k)'
    <3>1. Good(k) /\ Quiet(k)
      BY <1>0, <2>1, <2>2 DEF Keeping, AllGood, Quiet, HeldByClaim, HeldByTask
    <3> QED BY <3>1, QuietGood
  <2> QED BY <2>3, <2>4 DEF Keeping, AllGood
<1>2. ASSUME CompleteTask(s) \/ MoveTask(s) PROVE Keeping'
  <2> DEFINE j == task[s].job
  <2>1. /\ UNCHANGED <<mark, claim, clean, submitted, disturbed>>
        /\ HeldByTask(s, j) /\ j \in Jobs /\ j \in submitted
    BY <1>0, <1>2, QueueAssumption
       DEF CompleteTask, MoveTask, history, Keeping, JobsNamed, Known, HeldByTask, Holding
  <2>2. /\ task'[s].job = j /\ task'[s].at \notin Holding
        /\ \A r \in Slots : r # s => task'[r] = task[r]
    BY <1>0, <1>2 DEF CompleteTask, MoveTask, TypeOK, Task, Holding
  <2>3. \/ pending' = pending \union {j} /\ UNCHANGED <<dead, done>>
        \/ pending' = pending /\ done' \union dead' = done \union dead \union {j}
    BY <1>2 DEF CompleteTask, MoveTask, ZAddPending, history
  <2>4. JobsNamed' /\ Known'
    BY <1>0, <2>1, <2>2, <2>3 DEF Keeping, JobsNamed, Known
  <2>5. ASSUME NEW k \in Jobs \ disturbed' PROVE Good(k)'
    <3>1. Good(k)
      BY <1>0, <2>1 DEF Keeping, AllGood
    <3>2. CASE k = j
      BY <2>1, <2>2, <2>3, <3>1, <3>2 DEF Good, Single, Nowhere, HeldByClaim, HeldByTask
    <3>3. CASE k # j
      <4>1. Quiet(k)
        BY <2>1, <2>2, <2>3, <3>3 DEF Quiet, HeldByClaim, HeldByTask
      <4> QED BY <3>1, <4>1, QuietGood
    <3> QED BY <3>2, <3>3
  <2> QED BY <2>4, <2>5 DEF Keeping, AllGood
<1>3. ASSUME WriteTask(s) \/ UnmarkTask(s) PROVE Keeping'
  <2>1. UNCHANGED <<pending, dead, claim, clean, submitted, disturbed, done>>
    BY <1>3 DEF WriteTask, UnmarkTask, history
  <2>2. /\ task'[s].at \notin Holding
        /\ task'[s].job \in {task[s].job, None}
        /\ task'[s].at # "free" => task'[s].job = task[s].job
        /\ task[s].at # "free"
        /\ \A r \in Slots : r # s => task'[r] = task[r]
    BY <1>0, <1>3 DEF WriteTask, UnmarkTask, TypeOK, Task, Holding, FreeTask
  <2>3. \A j \in Jobs : mark'[j] \in {mark[j], "absent"}
    BY <1>0, <1>3 DEF WriteTask, UnmarkTask, ZRemClaimed, TypeOK
  <2>4. JobsNamed' /\ Known'
    BY <1>0, <2>1, <2>2, <2>3 DEF Keeping, JobsNamed, Known
  <2>5. ASSUME NEW k \in Jobs \ disturbed' PROVE Good(k)'
    <3>1. Good(k) /\ Quiet(k)
      BY <1>0, <2>1, <2>2 DEF Keeping, AllGood, Quiet, HeldByClaim, HeldByTask
    <3> QED BY <3>1, QuietGood
  <2> QED BY <2>4, <2>5 DEF Keeping, AllGood
<1> QED BY <1>1, <1>2, <1>3 DEF TaskStep

\* The cleanup puts back no job that is not disturbed from then on.
LEMMA CleanKeeping == ASSUME IInv, NEW w \in Workers, CleanStep(w) PROVE Keeping'
<1>0. TypeOK /\ Keeping
  BY DEF IInv, Keeping
<1>1. UNCHANGED <<dead, claim, task, submitted, done>>
  BY DEF CleanStep, Scan, Fetch, CleanAdd, CleanUnmark, CleanWrite, redis, history
<1>2. /\ clean'[w].todo \subseteq submitted
      /\ clean'[w].job \in submitted \union {None}
      /\ clean'[w].at \in {"add", "unmark", "write"} => clean'[w].job \in Jobs
      /\ \A v \in Workers : v # w => clean'[v] = clean[v]
  <2>1. clean[w] \in Clean
    BY <1>0 DEF TypeOK
  <2>2. CASE Scan(w)
    BY <1>0, <2>1, <2>2 DEF Scan, TypeOK, Clean, Keeping, Known
  <2>3. CASE Fetch(w)
    BY <1>0, <2>1, <2>3 DEF Fetch, TypeOK, Clean, Keeping, Known
  <2>4. CASE CleanAdd(w) \/ CleanUnmark(w)
    BY <1>0, <2>1, <2>4 DEF CleanAdd, CleanUnmark, TypeOK, Clean, Keeping, Known, JobsNamed
  <2>5. CASE CleanWrite(w)
    BY <1>0, <2>1, <2>5 DEF CleanWrite, TypeOK, Clean, IdleClean, Keeping, Known
  <2> QED BY <2>2, <2>3, <2>4, <2>5 DEF CleanStep
<1>3. \A j \in Jobs : mark'[j] \in {mark[j], "absent"}
  BY <1>0 DEF CleanStep, Scan, Fetch, CleanAdd, CleanUnmark, CleanWrite, redis, ZRemClaimed, TypeOK
<1>4. /\ disturbed \subseteq disturbed'
      /\ \A j \in Jobs : j \in pending' => j \in pending \/ j \in disturbed'
      /\ pending' \subseteq submitted
  <2>1. CASE CleanAdd(w)
    <3>1. clean[w].job \in submitted
      BY <1>0, <2>1, QueueAssumption DEF CleanAdd, Keeping, JobsNamed, Known
    <3> QED BY <1>0, <2>1, <3>1 DEF CleanAdd, ZAddPending, Keeping, Known
  <2>2. CASE Scan(w) \/ Fetch(w) \/ CleanUnmark(w) \/ CleanWrite(w)
    BY <1>0, <2>2 DEF Scan, Fetch, CleanUnmark, CleanWrite, redis, history, Keeping, Known
  <2> QED BY <2>1, <2>2 DEF CleanStep
<1>5. JobsNamed' /\ Known'
  BY <1>0, <1>1, <1>2, <1>3, <1>4 DEF Keeping, JobsNamed, Known
<1>6. ASSUME NEW k \in Jobs \ disturbed' PROVE Good(k)'
  <2>1. Good(k) /\ Quiet(k)
    BY <1>0, <1>1, <1>4 DEF Keeping, AllGood, Quiet, HeldByClaim, HeldByTask
  <2> QED BY <2>1, QuietGood
<1> QED BY <1>5, <1>6 DEF Keeping, AllGood

\* A fault takes jobs from processes, or disturbs one.
LEMMA FaultKeeping ==
    ASSUME IInv,
           \/ \E w \in Workers : Crash(w) \/ ClaimError(w) \/ CleanError(w)
           \/ \E s \in Slots : TaskError(s)
    PROVE  Keeping'
<1>0. TypeOK /\ Keeping
  BY DEF IInv, Keeping
<1>1. /\ UNCHANGED <<pending, dead, submitted, done>> /\ disturbed \subseteq disturbed'
      /\ \A k \in Jobs : mark'[k] # "absent" => mark[k] # "absent"
  <2>1. CASE \E w \in Workers : Crash(w) \/ ClaimError(w) \/ CleanError(w)
    BY <2>1 DEF Crash, ClaimError, CleanError, redis
  <2>2. CASE \E s \in Slots : TaskError(s)
    BY <1>0, <2>2 DEF TaskError, ZRemClaimed, TypeOK
  <2> QED BY <2>1, <2>2
<1>2. \A v \in Workers : claim'[v] = claim[v] \/ (claim'[v].at \notin InHand /\ claim'[v].job = None)
  <2>1. IdleClaim.at \notin InHand /\ IdleClaim.job = None
    BY DEF IdleClaim, InHand
  <2>2. [IdleClaim EXCEPT !.at = "down"].at \notin InHand /\ [IdleClaim EXCEPT !.at = "down"].job = None
    BY DEF IdleClaim, InHand
  <2>3. \/ claim' = claim
        \/ \E w \in Workers : \/ claim' = [claim EXCEPT ![w] = IdleClaim]
                              \/ claim' = [claim EXCEPT ![w] = [IdleClaim EXCEPT !.at = "down"]]
    BY DEF Crash, ClaimError, CleanError, TaskError
  <2> QED BY <1>0, <2>1, <2>2, <2>3 DEF TypeOK
<1>3. \A v \in Workers : clean'[v] = clean[v] \/
         (clean'[v].at \in {"idle", "down"} /\ clean'[v].todo = {} /\ clean'[v].job = None)
  <2> DEFINE Down == [IdleClean EXCEPT !.at = "down"]
  <2>1. IdleClean.at = "idle" /\ IdleClean.todo = {} /\ IdleClean.job = None
    BY DEF IdleClean
  <2>2. Down.at = "down" /\ Down.todo = {} /\ Down.job = None
    BY DEF IdleClean
  <2>3. \/ clean' = clean
        \/ \E w \in Workers : \/ clean' = [clean EXCEPT ![w] = IdleClean]
                              \/ clean' = [clean EXCEPT ![w] = Down]
    BY DEF Crash, ClaimError, CleanError, TaskError
  <2> QED BY <1>0, <2>1, <2>2, <2>3 DEF TypeOK
<1> DEFINE Freed(s) == task'[s].at = "free" /\ task'[s].job = None
           Disturbed(s) == /\ task[s].at # "free" /\ task'[s].job = task[s].job
                           /\ task[s].job \in disturbed'
<1>4. \A s \in Slots : task'[s] = task[s] \/ Freed(s) \/ Disturbed(s)
  <2>0. FreeTask.at = "free" /\ FreeTask.job = None
    BY DEF FreeTask
  <2>1. CASE \E w \in Workers : Crash(w) \/ ClaimError(w) \/ CleanError(w)
    BY <2>0, <2>1 DEF Crash, ClaimError, CleanError
  <2>2. ASSUME NEW s \in Slots, TaskError(s), NEW r \in Slots
        PROVE  task'[r] = task[r] \/ Freed(r) \/ Disturbed(r)
    <3>1. CASE task[s].outcome = "result"
      BY <1>0, <2>2, <3>1 DEF TaskError, TypeOK, Task
    <3>2. CASE task[s].outcome # "result"
      BY <1>0, <2>0, <2>2, <3>2 DEF TaskError, TypeOK
    <3> QED BY <3>1, <3>2
  <2> QED BY <2>1, <2>2
<1>5. JobsNamed'
  BY <1>0, <1>2, <1>3, <1>4, QueueAssumption DEF Keeping, JobsNamed
<1>6. Known'
  BY <1>0, <1>1, <1>2, <1>3, <1>4 DEF Keeping, Known
<1>7. ASSUME NEW k \in Jobs \ disturbed' PROVE Good(k)'
  <2>1. Good(k)
    BY <1>0, <1>1 DEF Keeping, AllGood
  <2>2. Quiet(k)
    BY <1>1, <1>2, <1>4, QueueAssumption DEF Quiet, HeldByClaim, HeldByTask
  <2> QED BY <2>1, <2>2, QuietGood
<1> QED BY <1>5, <1>6, <1>7 DEF Keeping, AllGood

-----------------------------------------------------------------------------

\* Every step keeps the inductive invariant.
LEMMA NextIInv == IInv /\ [Next]_vars => IInv'
<1> SUFFICES ASSUME IInv, [Next]_vars PROVE IInv'
  OBVIOUS
<1>a. TypeOK' /\ Keeping' => IInv'
  BY DEF IInv, Keeping
<1>1. ASSUME NEW j \in Jobs, EnqueueStore(j) \/ EnqueueAdd(j) \/ Expire(j) PROVE IInv'
  BY <1>1, <1>a, EnqueueType, EnqueueKeeping
<1>2. ASSUME NEW w \in Workers, ClaimStep(w) PROVE IInv'
  BY <1>2, <1>a, ClaimType, ClaimKeeping
<1>3. ASSUME NEW w \in Workers, CleanStep(w) PROVE IInv'
  BY <1>3, <1>a, CleanType, CleanKeeping
<1>4. ASSUME NEW s \in Slots, TaskStep(s) PROVE IInv'
  BY <1>4, <1>a, TaskType, TaskKeeping
<1>5. CASE \/ \E w \in Workers : Crash(w) \/ ClaimError(w) \/ CleanError(w)
           \/ \E s \in Slots : TaskError(s)
  BY <1>5, <1>a, FaultType, FaultKeeping
<1>6. CASE UNCHANGED vars
  BY <1>6 DEF vars, redis, history, IInv, TypeOK, JobsNamed, Known, AllGood, Good, Single,
              Nowhere, HeldByClaim, HeldByTask
<1>7. ASSUME NEW w \in Workers, Poll(w) PROVE IInv'
  BY <1>6, <1>7 DEF Poll
<1> QED BY <1>1, <1>2, <1>3, <1>4, <1>5, <1>6, <1>7 DEF Next

LEMMA Invariance == Spec => []IInv
BY InitIInv, NextIInv, PTL DEF Spec

\* Redis and the processes keep their types.
THEOREM TypeCorrect == Spec => []TypeOK
<1>1. IInv => TypeOK
  BY DEF IInv
<1> QED BY <1>1, Invariance, PTL

\* A job that neither the cleanup nor an error after success put back is with one
\* keeper, whatever expires, dies or fails.
THEOREM OneKeeperAtATime == Spec => []OneKeeper
<1>1. IInv => OneKeeper
  <2> SUFFICES ASSUME IInv, NEW j \in Jobs \ disturbed, NEW x \in Keepers(j), NEW y \in Keepers(j)
               PROVE  x = y
    BY DEF OneKeeper
  <2>1. Single(j)
    BY DEF IInv, AllGood, Good
  <2>2. ASSUME NEW z \in Keepers(j)
        PROVE  \/ z = <<"pending", None>> /\ j \in pending
               \/ \E w \in Workers : z = <<"claim", w>> /\ HeldByClaim(w, j)
               \/ \E s \in Slots : z = <<"task", s>> /\ HeldByTask(s, j)
    BY DEF Keepers
  <2> QED BY <2>1, <2>2 DEF Single
<1> QED BY <1>1, Invariance, PTL

\* A completed or dead job is with nobody, with the same exceptions.
THEOREM FinishedStaysReleased == Spec => []FinishedIsReleased
<1>1. IInv => FinishedIsReleased
  <2> SUFFICES ASSUME IInv, NEW j \in (done \union dead) \ disturbed PROVE Keepers(j) = {}
    BY DEF FinishedIsReleased
  <2>1. Nowhere(j)
    BY DEF IInv, TypeOK, AllGood, Good
  <2> QED BY <2>1 DEF Keepers, Nowhere
<1> QED BY <1>1, Invariance, PTL

-----------------------------------------------------------------------------
(* Nothing is lost.  NothingLost is not inductive: a job that is only      *)
(* listed in :claimed would be lost by a zrem that somebody has still to   *)
(* do.  Whoever has one has passed the job on before, so that it is kept,  *)
(* or takes it into dropped when its keeper dies.                          *)

Kept(j) ==
    \/ j \in pending
    \/ \E w \in Workers : HeldByClaim(w, j)
    \/ \E s \in Slots : HeldByTask(s, j)

\* A job in nobody's charge is listed, and nobody is about to unlist it.
Lasting(j) == Kept(j) \/ (mark[j] # "absent" /\ ~Unlisting(j))

AllLast == \A j \in submitted \ (done \union dead \union dropped) : Lasting(j)

\* A step that takes no keeper away, removes no mark and adds no zrem keeps a job.
LEMMA StillLasting ==
    ASSUME NEW j \in Jobs, Lasting(j), Kept(j) => Kept(j)',
           mark'[j] = "absent" => mark[j] = "absent", Unlisting(j)' => Unlisting(j)
    PROVE  Lasting(j)'
BY DEF Lasting

LEMMA EnqueueLasting ==
    ASSUME IInv, AllLast, NEW i \in Jobs, EnqueueStore(i) \/ EnqueueAdd(i) \/ Expire(i)
    PROVE  AllLast'
<1>1. TypeOK
  BY DEF IInv
<1>2. SUFFICES ASSUME NEW j \in (submitted \ (done \union dead \union dropped))' PROVE Lasting(j)'
  BY DEF AllLast
<1>3. /\ UNCHANGED <<claim, task, clean, done, dead, dropped>> /\ pending \subseteq pending'
      /\ submitted' \subseteq submitted \union pending'
      /\ \A k \in Jobs : mark'[k] = "absent" => mark[k] = "absent"
  BY <1>1 DEF EnqueueStore, EnqueueAdd, Expire, ZAddPending, history, TypeOK
<1>4. Kept(j) => Kept(j)'
  BY <1>3 DEF Kept, HeldByClaim, HeldByTask
<1>5. Unlisting(j)' <=> Unlisting(j)
  BY <1>3 DEF Unlisting
<1>6. CASE j \in submitted
  BY <1>1, <1>3, <1>4, <1>5, <1>6, StillLasting DEF AllLast, TypeOK
<1>7. CASE j \in pending'
  BY <1>7 DEF Lasting, Kept
<1> QED BY <1>3, <1>6, <1>7

\* Pop, Bounce and MarkClaim hand the job from one keeper to another.
LEMMA ClaimLasting == ASSUME IInv, AllLast, NEW w \in Workers, ClaimStep(w) PROVE AllLast'
<1>1. TypeOK /\ JobsNamed
  BY DEF IInv
<1>2. SUFFICES ASSUME NEW j \in (submitted \ (done \union dead \union dropped))' PROVE Lasting(j)'
  BY DEF AllLast
<1>3. UNCHANGED <<clean, submitted, done, dead, dropped>>
  BY DEF ClaimStep, Pop, ReadClaim, Bounce, StoreClaim, MarkClaim, redis, history
<1>4. Lasting(j) /\ j \in Jobs
  BY <1>1, <1>3 DEF AllLast, TypeOK
<1>5. mark'[j] = "absent" => mark[j] = "absent"
  BY <1>1, <1>4 DEF ClaimStep, Pop, ReadClaim, Bounce, StoreClaim, MarkClaim, redis, ZAddClaimed, TypeOK
<1>6. \A s \in Slots : \/ task'[s] = task[s]
                       \/ task[s].at = "free" /\ task'[s].at = "waiting" /\ task'[s].job = claim[w].job
  BY <1>1 DEF ClaimStep, Pop, ReadClaim, Bounce, StoreClaim, MarkClaim, TypeOK
<1>7. Unlisting(j)' => Unlisting(j)
  BY <1>3, <1>6 DEF Unlisting
<1>8. Kept(j) => Kept(j)'
  <2>1. ASSUME NEW s \in Slots, HeldByTask(s, j) PROVE Kept(j)'
    BY <1>6, <2>1 DEF HeldByTask, Holding, Kept
  <2>2. CASE Pop(w)
    <3>1. PICK k \in Jobs : ZRemPending(k) /\ SetClaim(w, "read", k, 0)
      BY <2>2 DEF Pop
    <3>2. claim'[w].job = k /\ pending' = pending \ {k} /\ \A v \in Workers : v # w => claim'[v] = claim[v]
      BY <1>1, <3>1 DEF ZRemPending, SetClaim, TypeOK
    <3>3. claim[w].job # j
      BY <1>1, <1>4, <2>2 DEF Pop, JobsNamed, InHand
    <3> QED BY <2>1, <3>2, <3>3 DEF Kept, HeldByClaim
  <2>3. CASE ReadClaim(w) \/ StoreClaim(w)
    <3>1. pending' = pending /\ \A v \in Workers : claim'[v].job = claim[v].job
      BY <1>1, <2>3 DEF ReadClaim, StoreClaim, SetClaim, redis, TypeOK, Claim
    <3> QED BY <2>1, <3>1 DEF Kept, HeldByClaim
  <2>4. CASE Bounce(w)
    <3>1. pending' = pending \union {claim[w].job} /\ \A v \in Workers : v # w => claim'[v] = claim[v]
      BY <1>1, <2>4 DEF Bounce, ZAddPending, TypeOK
    <3> QED BY <2>1, <3>1 DEF Kept, HeldByClaim
  <2>5. CASE MarkClaim(w)
    <3>1. pending' = pending /\ \A v \in Workers : v # w => claim'[v] = claim[v]
      BY <1>1, <2>5 DEF MarkClaim, TypeOK
    <3>2. \E s \in Slots : task'[s].at = "waiting" /\ task'[s].job = claim[w].job
      BY <1>1, <2>5 DEF MarkClaim, TypeOK
    <3> QED BY <2>1, <3>1, <3>2 DEF Kept, HeldByClaim, HeldByTask, Holding
  <2> QED BY <2>2, <2>3, <2>4, <2>5 DEF ClaimStep
<1> QED BY <1>4, <1>5, <1>7, <1>8, StillLasting

\* A task gives its job to :pending, to done or to :dead before it unlists it; and when it
\* does unlist it, somebody keeps it.
LEMMA TaskLasting == ASSUME IInv, AllLast, NEW s \in Slots, TaskStep(s) PROVE AllLast'
<1>1. TypeOK /\ JobsNamed /\ task[s] \in Task
  BY DEF IInv, TypeOK
<1>2. SUFFICES ASSUME NEW j \in (submitted \ (done \union dead \union dropped))' PROVE Lasting(j)'
  BY DEF AllLast
<1>3. /\ UNCHANGED <<claim, clean, submitted, dropped>>
      /\ pending \subseteq pending' /\ done \subseteq done' /\ dead \subseteq dead'
  BY DEF TaskStep, Begin, Process, ReadTask, CompleteTask, MoveTask, WriteTask, UnmarkTask, redis,
         history, ZAddPending
<1>4. Lasting(j) /\ j \in Jobs
  BY <1>1, <1>3 DEF AllLast, TypeOK
<1>5. \A r \in Slots : r # s => task'[r] = task[r]
  BY <1>1 DEF TaskStep, Begin, Process, ReadTask, CompleteTask, MoveTask, WriteTask, UnmarkTask, TypeOK
<1>6. CASE Begin(s) \/ Process(s) \/ ReadTask(s)
  <2>1. /\ task'[s].job = task[s].job /\ task[s].at \in Holding /\ task'[s].at \in Holding
        /\ task'[s].at \notin {"write", "unmark"} /\ UNCHANGED mark
    BY <1>1, <1>6 DEF Begin, Process, ReadTask, redis, TypeOK, Task, Holding
  <2>2. Kept(j) => Kept(j)'
    BY <1>3, <1>5, <2>1 DEF Kept, HeldByClaim, HeldByTask
  <2>3. Unlisting(j)' => Unlisting(j)
    BY <1>3, <1>5, <2>1 DEF Unlisting
  <2> QED BY <1>4, <2>1, <2>2, <2>3, StillLasting
<1>7. CASE CompleteTask(s) \/ MoveTask(s)
  <2>1. /\ UNCHANGED mark /\ task'[s].job = task[s].job
        /\ task[s].job \in pending' \union done' \union dead'
    BY <1>1, <1>7 DEF CompleteTask, MoveTask, ZAddPending, TypeOK, Task
  <2>2. CASE task[s].job = j
    BY <2>1, <2>2 DEF Lasting, Kept
  <2>3. CASE task[s].job # j
    <3>1. Kept(j) => Kept(j)'
      BY <1>3, <1>5, <2>1, <2>3 DEF Kept, HeldByClaim, HeldByTask
    <3>2. Unlisting(j)' => Unlisting(j)
      BY <1>3, <1>5, <2>1, <2>3 DEF Unlisting
    <3> QED BY <1>4, <2>1, <3>1, <3>2, StillLasting
  <2> QED BY <2>2, <2>3
<1>8. CASE WriteTask(s)
  <2>1. /\ UNCHANGED mark /\ task'[s].job = task[s].job
        /\ task[s].at = "write" /\ task'[s].at = "unmark"
    BY <1>1, <1>8 DEF WriteTask, TypeOK, Task
  <2>2. Kept(j) => Kept(j)'
    BY <1>3, <1>5, <2>1 DEF Kept, HeldByClaim, HeldByTask, Holding
  <2>3. Unlisting(j)' => Unlisting(j)
    BY <1>3, <1>5, <2>1 DEF Unlisting
  <2> QED BY <1>4, <2>1, <2>2, <2>3, StillLasting
<1>9. CASE UnmarkTask(s)
  <2>1. /\ task[s].at = "unmark" /\ task'[s].at = "free"
        /\ \A k \in Jobs : k # task[s].job => mark'[k] = mark[k]
    BY <1>1, <1>9 DEF UnmarkTask, ZRemClaimed, FreeTask, TypeOK
  <2>2. Kept(j) => Kept(j)'
    BY <1>3, <1>5, <2>1 DEF Kept, HeldByClaim, HeldByTask, Holding
  <2>3. CASE task[s].job = j
    <3>1. Unlisting(j)
      BY <2>1, <2>3 DEF Unlisting
    <3> QED BY <1>4, <2>2, <3>1 DEF Lasting
  <2>4. CASE task[s].job # j
    <3>1. Unlisting(j)' => Unlisting(j)
      BY <1>3, <1>5, <2>1 DEF Unlisting
    <3> QED BY <1>4, <2>1, <2>2, <2>4, <3>1, StillLasting
  <2> QED BY <2>3, <2>4
<1> QED BY <1>6, <1>7, <1>8, <1>9 DEF TaskStep

\* The cleanup puts a job into :pending before it unlists it.
LEMMA CleanLasting == ASSUME IInv, AllLast, NEW w \in Workers, CleanStep(w) PROVE AllLast'
<1>1. TypeOK /\ clean[w] \in Clean
  BY DEF IInv, TypeOK
<1>2. SUFFICES ASSUME NEW j \in (submitted \ (done \union dead \union dropped))' PROVE Lasting(j)'
  BY DEF AllLast
<1>3. UNCHANGED <<dead, claim, task, submitted, done, dropped>> /\ pending \subseteq pending'
  BY DEF CleanStep, Scan, Fetch, CleanAdd, CleanUnmark, CleanWrite, redis, history, ZAddPending
<1>4. Lasting(j) /\ j \in Jobs /\ (Kept(j) => Kept(j)')
  BY <1>1, <1>3 DEF AllLast, TypeOK, Kept, HeldByClaim, HeldByTask
<1>5. \A v \in Workers : v # w => clean'[v] = clean[v]
  BY <1>1 DEF CleanStep, Scan, Fetch, CleanAdd, CleanUnmark, CleanWrite, TypeOK
<1>6. CASE Scan(w) \/ Fetch(w) \/ CleanWrite(w)
  <2>1. clean'[w].at # "unmark" /\ UNCHANGED mark
    <3>1. CASE Scan(w)
      BY <1>1, <3>1 DEF Scan, redis, TypeOK, Clean
    <3>2. CASE Fetch(w)
      BY <1>1, <3>2 DEF Fetch, redis, TypeOK
    <3>3. CASE CleanWrite(w)
      BY <1>1, <3>3 DEF CleanWrite, IdleClean, TypeOK
    <3> QED BY <1>6, <3>1, <3>2, <3>3
  <2>2. Unlisting(j)' => Unlisting(j)
    BY <1>3, <1>5, <2>1 DEF Unlisting
  <2> QED BY <1>4, <2>1, <2>2, StillLasting
<1>7. CASE CleanAdd(w)
  <2>1. clean'[w].job = clean[w].job /\ clean[w].job \in pending' /\ UNCHANGED mark
    BY <1>1, <1>7 DEF CleanAdd, ZAddPending, TypeOK, Clean
  <2>2. CASE clean[w].job = j
    BY <2>1, <2>2 DEF Lasting, Kept
  <2>3. CASE clean[w].job # j
    <3>1. Unlisting(j)' => Unlisting(j)
      BY <1>3, <1>5, <2>1, <2>3 DEF Unlisting
    <3> QED BY <1>4, <2>1, <3>1, StillLasting
  <2> QED BY <2>2, <2>3
<1>8. CASE CleanUnmark(w)
  <2>1. /\ clean[w].at = "unmark" /\ clean'[w].at = "write"
        /\ \A k \in Jobs : k # clean[w].job => mark'[k] = mark[k]
    BY <1>1, <1>8 DEF CleanUnmark, ZRemClaimed, TypeOK, Clean
  <2>2. CASE clean[w].job = j
    <3>1. Unlisting(j)
      BY <2>1, <2>2 DEF Unlisting
    <3> QED BY <1>4, <3>1 DEF Lasting
  <2>3. CASE clean[w].job # j
    <3>1. Unlisting(j)' => Unlisting(j)
      BY <1>3, <1>5, <2>1 DEF Unlisting
    <3> QED BY <1>4, <2>1, <2>3, <3>1, StillLasting
  <2> QED BY <2>2, <2>3
<1> QED BY <1>6, <1>7, <1>8 DEF CleanStep

\* A fault takes a job from its keeper only when :claimed protects it, or drops it.
LEMMA FaultLasting ==
    ASSUME IInv, AllLast,
           \/ \E w \in Workers : Crash(w) \/ ClaimError(w) \/ CleanError(w)
           \/ \E s \in Slots : TaskError(s)
    PROVE  AllLast'
<1>1. TypeOK /\ JobsNamed
  BY DEF IInv
<1>2. SUFFICES ASSUME NEW j \in (submitted \ (done \union dead \union dropped))' PROVE Lasting(j)'
  BY DEF AllLast
<1>3. UNCHANGED <<pending, dead, submitted, done>> /\ dropped \subseteq dropped'
  BY DEF Crash, ClaimError, CleanError, TaskError, redis, Drop
<1>4. Lasting(j) /\ j \in Jobs
  BY <1>1, <1>3 DEF AllLast, TypeOK
<1>5. ASSUME NEW w \in Workers, Crash(w) PROVE Lasting(j)'
  <2>1. /\ \A v \in Workers : v # w => claim'[v] = claim[v] /\ clean'[v] = clean[v]
        /\ clean'[w].at = "idle" /\ UNCHANGED mark
        /\ \A s \in Slots : task'[s] = IF task[s].worker = w THEN FreeTask ELSE task[s]
    BY <1>1, <1>5 DEF Crash, IdleClean, redis, TypeOK
  <2>2. FreeTask.at = "free"
    BY DEF FreeTask
  <2>3. Unlisting(j)' => Unlisting(j)
    BY <2>1, <2>2 DEF Unlisting
  <2>4. CASE \/ HeldByClaim(w, j)
             \/ \E s \in Slots : task[s].worker = w /\ HeldByTask(s, j)
    <3>1. mark[j] # "absent" /\ ~Unlisting(j)
      BY <1>4, <1>5, <2>4 DEF Crash, Drop
    <3> QED BY <2>1, <2>3, <3>1 DEF Lasting
  <2>5. CASE ~(\/ HeldByClaim(w, j)
               \/ \E s \in Slots : task[s].worker = w /\ HeldByTask(s, j))
    <3>1. Kept(j) => Kept(j)'
      BY <1>3, <2>1, <2>5 DEF Kept, HeldByClaim, HeldByTask
    <3> QED BY <1>4, <2>1, <2>3, <3>1, StillLasting
  <2> QED BY <2>4, <2>5
<1>6. ASSUME NEW w \in Workers, ClaimError(w) PROVE Lasting(j)'
  <2>1. /\ \A v \in Workers : v # w => claim'[v] = claim[v]
        /\ UNCHANGED <<mark, task, clean>>
    BY <1>1, <1>6 DEF ClaimError, redis, TypeOK
  <2>2. Unlisting(j)' <=> Unlisting(j)
    BY <2>1 DEF Unlisting
  <2>3. CASE HeldByClaim(w, j)
    <3>1. mark[j] # "absent" /\ ~Unlisting(j)
      BY <1>4, <1>6, <2>3 DEF ClaimError, Drop
    <3> QED BY <2>1, <2>2, <3>1 DEF Lasting
  <2>4. CASE ~HeldByClaim(w, j)
    <3>1. Kept(j) => Kept(j)'
      BY <1>3, <2>1, <2>4 DEF Kept, HeldByClaim, HeldByTask
    <3> QED BY <1>4, <2>1, <2>2, <3>1, StillLasting
  <2> QED BY <2>3, <2>4
<1>7. ASSUME NEW w \in Workers, CleanError(w) PROVE Lasting(j)'
  <2>1. /\ \A v \in Workers : v # w => clean'[v] = clean[v]
        /\ clean'[w].at = "down" /\ UNCHANGED <<mark, claim, task>>
    BY <1>1, <1>7 DEF CleanError, redis, IdleClean, TypeOK
  <2>2. Unlisting(j)' => Unlisting(j)
    BY <2>1 DEF Unlisting
  <2>3. Kept(j) => Kept(j)'
    BY <1>3, <2>1 DEF Kept, HeldByClaim, HeldByTask
  <2> QED BY <1>4, <2>1, <2>2, <2>3, StillLasting
<1>8. ASSUME NEW s \in Slots, TaskError(s) PROVE Lasting(j)'
  <2>1. /\ UNCHANGED <<claim, clean>> /\ task[s] \in Task
        /\ \A r \in Slots : r # s => task'[r] = task[r]
        /\ \A k \in Jobs : mark'[k] = mark[k] \/ (task[s].at = "unmark" /\ k = task[s].job)
    BY <1>1, <1>8 DEF TaskError, ZRemClaimed, TypeOK
  <2>2. \/ task'[s].job = task[s].job /\ task'[s].at = "read"
        \/ task'[s].at = "free" /\ (HeldByTask(s, j) => mark[j] # "absent" /\ ~Unlisting(j))
    <3>1. CASE task[s].outcome = "result"
      BY <1>1, <1>8, <2>1, <3>1 DEF TaskError, TypeOK, Task
    <3>2. CASE task[s].outcome # "result"
      BY <1>1, <1>4, <1>8, <2>1, <3>2 DEF TaskError, Drop, FreeTask, HeldByTask, TypeOK
    <3> QED BY <3>1, <3>2
  <2>3. Unlisting(j)' => Unlisting(j)
    BY <2>1, <2>2 DEF Unlisting
  <2>4. task[s].at = "unmark" /\ task[s].job = j => Unlisting(j) /\ ~HeldByTask(s, j)
    BY DEF Unlisting, HeldByTask, Holding
  <2>5. CASE HeldByTask(s, j) /\ task'[s].at = "free"
    <3>1. mark[j] # "absent" /\ ~Unlisting(j)
      BY <2>2, <2>5
    <3> QED BY <1>4, <2>1, <2>3, <2>4, <3>1 DEF Lasting
  <2>6. CASE ~(HeldByTask(s, j) /\ task'[s].at = "free")
    <3>1. Kept(j) => Kept(j)'
      BY <1>3, <2>1, <2>2, <2>6 DEF Kept, HeldByClaim, HeldByTask, Holding
    <3> QED BY <1>4, <2>1, <2>3, <2>4, <3>1 DEF Lasting
  <2> QED BY <2>5, <2>6
<1> QED BY <1>5, <1>6, <1>7, <1>8

LEMMA LastingInvariant == Spec => []AllLast
<1>1. Init => AllLast
  BY DEF Init, AllLast
<1>2. IInv /\ AllLast /\ [Next]_vars => AllLast'
  <2> SUFFICES ASSUME IInv, AllLast, [Next]_vars PROVE AllLast'
    OBVIOUS
  <2>1. CASE UNCHANGED vars
    BY <2>1 DEF vars, redis, history, AllLast, Lasting, Kept, HeldByClaim, HeldByTask, Unlisting
  <2>2. CASE Next
    BY <2>1, <2>2, EnqueueLasting, ClaimLasting, TaskLasting, CleanLasting, FaultLasting
       DEF Next, Poll
  <2> QED BY <2>1, <2>2
<1> QED BY <1>1, <1>2, Invariance, PTL DEF Spec

\* A submitted job that is neither completed nor dead is in somebody's charge or listed in
\* :claimed, unless a fault took it in the windows where :claimed does not protect it: for any
\* number of processes, expiries, crashes and errors.
THEOREM NothingIsLost == Spec => []NothingLost
<1>1. AllLast => NothingLost
  <2>1. \A j : Kept(j) => Keepers(j) # {}
    BY DEF Kept, Keepers
  <2> QED BY <2>1 DEF AllLast, Lasting, NothingLost
<1> QED BY <1>1, LastingInvariant, PTL
-----------------------------------------------------------------------------
(* Without expiries and faults a job lives as JobLifecycle says.  What the *)
(* refinement needs beyond IInv: the record of a job says "claimed" for as *)
(* long as a task has it, and until the record of its failure is written,  *)
(* so that a claim loop that pops it in between puts it back and never     *)
(* overwrites the count.                                                   *)

Undisturbed ==
    /\ disturbed = {}
    /\ \A j \in Jobs : mark[j] # "overdue" /\ store[j].status # "overdue"
    /\ \A w \in Workers : clean[w] = IdleClean
    /\ \A s \in Slots : task[s].at = "free" => task[s] = FreeTask

\* The record of job j, and those who hold it.
Recorded(j) ==
    /\ store[j].status = "none" => j \notin submitted /\ store[j].retries = 0
    /\ store[j].status = "completed" <=> j \in done
    /\ store[j].status = "failed" => j \in dead
    /\ \A w \in Workers : HeldByClaim(w, j) =>
          /\ claim[w].at = "store" => store[j] = [status |-> "pending", retries |-> claim[w].retries]
          /\ claim[w].at = "mark" =>
                store[j].status = "claimed" /\ \A s \in Slots : ~Moved(s, j)
    /\ \A s \in Slots : HeldByTask(s, j) =>
          /\ store[j].status = "claimed"
          /\ \A r \in Slots : ~Moved(r, j)
          /\ task[s].at = "complete" => task[s].retries = store[j].retries
          /\ task[s].at = "move" => task[s].retries = store[j].retries + 1
    /\ \A s \in Slots : Moved(s, j) =>
          /\ store[j].status = "claimed"
          /\ task[s].retries = store[j].retries + 1
          /\ RetriesLeft(s) <=> j \notin dead
          /\ \A r \in Slots : Moved(r, j) => r = s

Orderly == Undisturbed /\ \A j \in Jobs : Recorded(j)

\* The tries of a job, without CHOOSE.
CountOf(j) == IF \E s \in Slots : Moved(s, j) THEN store[j].retries + 1 ELSE store[j].retries

LEMMA TriesCounted == Orderly => \A j \in Jobs : TriesOf(j) = CountOf(j)
<1> SUFFICES ASSUME Orderly, NEW j \in Jobs PROVE TriesOf(j) = CountOf(j)
  OBVIOUS
<1>1. CASE \E s \in Slots : Moved(s, j)
  <2>1. PICK s \in Slots : s = CHOOSE r \in Slots : Moved(r, j)
    BY <1>1
  <2>2. Moved(s, j)
    BY <1>1, <2>1
  <2> QED BY <1>1, <2>1, <2>2 DEF Orderly, Recorded, TriesOf, CountOf
<1>2. CASE ~\E s \in Slots : Moved(s, j)
  BY <1>2 DEF TriesOf, CountOf
<1> QED BY <1>1, <1>2

\* What JobLifecycle sees of job j stays as it is, or moves as it allows.
Rests(j) == PhaseOf(j)' = PhaseOf(j) /\ CountOf(j)' = CountOf(j)

Moves(j) ==
    \/ /\ \/ PhaseOf(j) = "absent" /\ PhaseOf(j)' = "queued"
          \/ PhaseOf(j) = "queued" /\ PhaseOf(j)' = "running"
          \/ PhaseOf(j) = "running" /\ PhaseOf(j)' \in {"completed", "swallowed"}
       /\ CountOf(j)' = CountOf(j)
    \/ /\ PhaseOf(j) = "running"
       /\ PhaseOf(j)' = IF CountOf(j) + 1 < MaxRetries THEN "queued" ELSE "dead"
       /\ CountOf(j)' = CountOf(j) + 1

\* A step about another job.
Elsewhere(j) ==
    /\ store'[j] = store[j]
    /\ j \in submitted' <=> j \in submitted
    /\ j \in done' <=> j \in done
    /\ j \in muted' <=> j \in muted
    /\ j \in dead' <=> j \in dead
    /\ \A w \in Workers : claim'[w].job = j \/ claim[w].job = j => claim'[w] = claim[w]
    /\ \A s \in Slots : task'[s].job = j \/ task[s].job = j => task'[s] = task[s]

LEMMA ElsewhereRests ==
    ASSUME NEW j \in Jobs, Recorded(j), Elsewhere(j) PROVE Recorded(j)' /\ Rests(j)
<1>1. \A s \in Slots : /\ HeldByTask(s, j)' <=> HeldByTask(s, j)
                       /\ Moved(s, j)' <=> Moved(s, j)
                       /\ HeldByTask(s, j) \/ Moved(s, j) => task'[s] = task[s]
  BY DEF Elsewhere, HeldByTask, Moved
<1>2. \A w \in Workers : HeldByClaim(w, j)' => HeldByClaim(w, j) /\ claim'[w] = claim[w]
  BY DEF Elsewhere, HeldByClaim
<1>3. Rests(j)
  BY <1>1 DEF Elsewhere, Rests, PhaseOf, CountOf
<1>4. \A s \in Slots : Moved(s, j)' => (RetriesLeft(s)' <=> RetriesLeft(s))
  BY <1>1 DEF RetriesLeft
<1>5. Recorded(j)'
  BY <1>1, <1>2, <1>4 DEF Elsewhere, Recorded
<1> QED BY <1>3, <1>5

\* What one step of the queue does to the jobs.
Orderliness ==
    /\ Orderly'
    /\ \/ \A j \in Jobs : Rests(j)
       \/ \E j \in Jobs : Moves(j) /\ \A i \in Jobs \ {j} : Rests(i)

LEMMA OneJob ==
    ASSUME Orderly, Undisturbed', NEW j \in Jobs, \A i \in Jobs \ {j} : Elsewhere(i),
           Recorded(j)', Rests(j) \/ Moves(j)
    PROVE  Orderliness
<1>1. \A i \in Jobs \ {j} : Recorded(i)' /\ Rests(i)
  BY ElsewhereRests DEF Orderly
<1> QED BY <1>1 DEF Orderly, Orderliness

\* What every state of the orderly queue says of a job.
LEMMA OrderlyFacts ==
    ASSUME IInv, Orderly, NEW j \in Jobs
    PROVE  /\ Single(j) /\ Recorded(j) /\ store[j] \in Record
           /\ j \in done \union dead => Nowhere(j) /\ j \in submitted
           /\ \A w \in Workers : HeldByClaim(w, j) => j \in submitted
           /\ \A s \in Slots : task[s].job = j => j \in submitted
BY QueueAssumption DEF IInv, TypeOK, Known, AllGood, Good, Orderly, Undisturbed, HeldByClaim

LEMMA EnqueueOrderly ==
    ASSUME IInv, Orderly, NEW j \in Jobs, EnqueueStore(j) \/ EnqueueAdd(j)
    PROVE  Orderliness
<1>0. TypeOK /\ Undisturbed /\ Recorded(j) /\ store[j] \in Record
  BY OrderlyFacts DEF IInv, Orderly
<1>1. CASE EnqueueStore(j)
  <2>1. store' = [store EXCEPT ![j] = [status |-> "pending", retries |-> 0]]
    BY <1>1 DEF EnqueueStore, HSet
  <2>2. store'[j] = [status |-> "pending", retries |-> 0] /\ \A i \in Jobs \ {j} : store'[i] = store[i]
    BY <1>0, <2>1 DEF TypeOK
  <2>3. Undisturbed' /\ \A i \in Jobs \ {j} : Elsewhere(i)
    BY <1>0, <1>1, <2>2 DEF EnqueueStore, history, Undisturbed, Elsewhere
  <2>4. /\ store[j].status = "none" /\ j \notin submitted /\ store[j].retries = 0
        /\ UNCHANGED <<dead, claim, task, submitted, done, muted>>
    BY <1>0, <1>1 DEF EnqueueStore, Recorded, history
  <2>5. /\ \A w \in Workers : ~HeldByClaim(w, j)
        /\ \A s \in Slots : ~HeldByTask(s, j) /\ ~Moved(s, j)
        /\ j \notin done \union dead
    BY <2>4, OrderlyFacts DEF HeldByTask, Moved
  <2>6. Recorded(j)'
    BY <2>2, <2>4, <2>5 DEF Recorded, HeldByClaim, HeldByTask, Moved
  <2>7. Rests(j)
    BY <2>2, <2>4, <2>5 DEF Rests, PhaseOf, CountOf, HeldByTask, Moved
  <2> QED BY <2>3, <2>6, <2>7, OneJob
<1>2. CASE EnqueueAdd(j)
  <2>1. /\ store[j].status # "none" /\ j \notin submitted /\ submitted' = submitted \union {j}
        /\ UNCHANGED <<store, mark, dead, claim, task, clean, disturbed, done, muted>>
    BY <1>2 DEF EnqueueAdd
  <2>2. Undisturbed' /\ \A i \in Jobs \ {j} : Elsewhere(i)
    BY <1>0, <2>1 DEF Undisturbed, Elsewhere
  <2>3. Recorded(j)'
    BY <1>0, <2>1 DEF Recorded, HeldByClaim, HeldByTask, Moved, RetriesLeft
  <2>4. (\A s \in Slots : ~HeldByTask(s, j) /\ ~Moved(s, j)) /\ j \notin done \union dead
    BY <2>1, OrderlyFacts DEF HeldByTask, Moved
  <2>5. Moves(j)
    BY <1>0, <2>1, <2>4 DEF Moves, PhaseOf, CountOf, HeldByTask, Moved, Recorded
  <2> QED BY <2>2, <2>3, <2>5, OneJob
<1> QED BY <1>1, <1>2

\* A claim loop with a job in hand is the only one that has it.
LEMMA ClaimFacts ==
    ASSUME IInv, Orderly, NEW w \in Workers, NEW j \in Jobs, HeldByClaim(w, j)
    PROVE  /\ \A v \in Workers : HeldByClaim(v, j) => v = w
           /\ \A s \in Slots : ~HeldByTask(s, j)
           /\ j \in submitted /\ j \notin done \union dead
           /\ store[j].status \in {"pending", "claimed"}
<1>1. Single(j) /\ Recorded(j) /\ store[j] \in Record /\ j \in submitted /\ j \notin done \union dead
  BY OrderlyFacts DEF Nowhere
<1>2. store[j].status # "overdue"
  BY DEF Orderly, Undisturbed
<1> QED BY <1>1, <1>2 DEF Single, Recorded, Record, Status

LEMMA ClaimOrderly ==
    ASSUME IInv, Orderly, NEW w \in Workers, ClaimStep(w)
    PROVE  Orderliness
<1>0. TypeOK /\ JobsNamed /\ Undisturbed /\ \A j \in Jobs : Recorded(j)
  BY DEF IInv, Orderly
<1>1. CASE Pop(w)
  <2>1. PICK j \in Jobs : First(j) /\ claim' = [claim EXCEPT ![w] = [at |-> "read", job |-> j, retries |-> 0]]
    BY <1>1 DEF Pop, SetClaim
  <2>2. UNCHANGED <<store, mark, dead, task, clean, submitted, disturbed, done, muted>>
    BY <1>1 DEF Pop, history
  <2>3. claim[w].job \notin Jobs
    BY <1>0, <1>1 DEF Pop, JobsNamed, InHand
  <2>4. /\ claim'[w] = [at |-> "read", job |-> j, retries |-> 0]
        /\ \A v \in Workers \ {w} : claim'[v] = claim[v]
    BY <1>0, <2>1 DEF TypeOK
  <2>5. Undisturbed' /\ \A i \in Jobs \ {j} : Elsewhere(i)
    BY <1>0, <2>2, <2>3, <2>4 DEF Undisturbed, Elsewhere
  <2>6. Recorded(j)' /\ Rests(j)
    BY <1>0, <2>2, <2>4 DEF Recorded, Rests, PhaseOf, CountOf, HeldByClaim, HeldByTask, Moved, RetriesLeft
  <2> QED BY <2>5, <2>6, OneJob
<1>2. ASSUME NEW j \in Jobs, claim[w].job = j, claim[w].at \in InHand PROVE Orderliness
  <2>0. HeldByClaim(w, j) /\ Recorded(j) /\ store[j] \in Record
    BY <1>0, <1>2 DEF HeldByClaim, TypeOK
  <2>a. j \in submitted /\ j \notin done \union dead /\ store[j].status \in {"pending", "claimed"}
    BY <2>0, ClaimFacts
  <2>b. /\ \A s \in Slots : ~HeldByTask(s, j)
        /\ \A v \in Workers : HeldByClaim(v, j) => v = w
    BY <2>0, ClaimFacts
  <2>1. CASE ReadClaim(w)
    <3>1. /\ claim' = [claim EXCEPT ![w] = [at |-> IF store[j].status = "claimed" THEN "bounce" ELSE "store",
                                            job |-> j, retries |-> store[j].retries]]
          /\ UNCHANGED <<store, mark, dead, task, clean, submitted, disturbed, done, muted>>
      BY <1>2, <2>1 DEF ReadClaim, SetClaim, redis, history
    <3>2. /\ claim'[w] = [at |-> IF store[j].status = "claimed" THEN "bounce" ELSE "store",
                          job |-> j, retries |-> store[j].retries]
          /\ \A v \in Workers \ {w} : claim'[v] = claim[v]
      BY <1>0, <3>1 DEF TypeOK
    <3>3. Undisturbed' /\ \A i \in Jobs \ {j} : Elsewhere(i)
      BY <1>0, <1>2, <3>1, <3>2 DEF Undisturbed, Elsewhere
    <3>4. store[j].status = "pending" => store[j] = [status |-> "pending", retries |-> store[j].retries]
      BY <2>0 DEF Record
    <3>5. Recorded(j)'
      BY <2>0, <2>a, <2>b, <3>1, <3>2, <3>4 DEF Recorded, HeldByClaim, HeldByTask, Moved, RetriesLeft
    <3>6. Rests(j)
      BY <3>1 DEF Rests, PhaseOf, CountOf, HeldByTask, Moved
    <3> QED BY <3>3, <3>5, <3>6, OneJob
  <2>2. CASE Bounce(w)
    <3>1. /\ claim' = [claim EXCEPT ![w] = IdleClaim]
          /\ UNCHANGED <<store, mark, dead, task, clean, submitted, disturbed, done, muted>>
      BY <2>2 DEF Bounce, history
    <3>2. claim'[w] = IdleClaim /\ \A v \in Workers \ {w} : claim'[v] = claim[v]
      BY <1>0, <3>1 DEF TypeOK
    <3>3. Undisturbed' /\ \A i \in Jobs \ {j} : Elsewhere(i)
      BY <1>0, <1>2, <3>1, <3>2, QueueAssumption DEF Undisturbed, Elsewhere, IdleClaim
    <3>4. Recorded(j)' /\ Rests(j)
      BY <2>0, <3>1, <3>2, QueueAssumption
         DEF Recorded, Rests, PhaseOf, CountOf, HeldByClaim, HeldByTask, Moved, RetriesLeft, IdleClaim
    <3> QED BY <3>3, <3>4, OneJob
  <2>3. CASE StoreClaim(w)
    <3>1. /\ store' = [store EXCEPT ![j] = [status |-> "claimed", retries |-> claim[w].retries]]
          /\ claim' = [claim EXCEPT ![w].at = "mark"]
          /\ UNCHANGED <<mark, dead, task, clean, submitted, disturbed, done, muted>>
          /\ claim[w].at = "store"
      BY <1>2, <2>3 DEF StoreClaim, HSet, history
    <3>2. /\ store'[j] = [status |-> "claimed", retries |-> claim[w].retries]
          /\ \A i \in Jobs \ {j} : store'[i] = store[i]
          /\ claim'[w].at = "mark" /\ claim'[w].job = j
          /\ \A v \in Workers \ {w} : claim'[v] = claim[v]
      BY <1>0, <1>2, <3>1 DEF TypeOK, Claim
    <3>3. Undisturbed' /\ \A i \in Jobs \ {j} : Elsewhere(i)
      BY <1>0, <1>2, <3>1, <3>2 DEF Undisturbed, Elsewhere
    <3>4. store[j] = [status |-> "pending", retries |-> claim[w].retries]
      BY <2>0, <3>1 DEF Recorded
    <3>5. \A s \in Slots : ~Moved(s, j)
      BY <2>0, <3>4 DEF Recorded
    <3>6. Recorded(j)'
      BY <2>0, <2>a, <2>b, <3>1, <3>2, <3>5 DEF Recorded, HeldByClaim, HeldByTask, Moved
    <3>7. Rests(j)
      BY <2>b, <3>1, <3>2, <3>4, <3>5 DEF Rests, PhaseOf, CountOf, HeldByTask, Moved
    <3> QED BY <3>3, <3>6, <3>7, OneJob
  <2>4. CASE MarkClaim(w)
    <3>1. PICK s \in Slots :
             /\ task[s].at = "free"
             /\ task' = [task EXCEPT ![s] = [at |-> "waiting", worker |-> w, job |-> j,
                                             outcome |-> "blank", retries |-> 0]]
      BY <1>2, <2>4 DEF MarkClaim
    <3>2. /\ claim' = [claim EXCEPT ![w] = IdleClaim]
          /\ mark' = [mark EXCEPT ![j] = "fresh"]
          /\ UNCHANGED <<store, dead, clean, submitted, disturbed, done, muted>>
          /\ claim[w].at = "mark"
      BY <1>2, <2>4 DEF MarkClaim, ZAddClaimed, history
    <3>3. /\ claim'[w] = IdleClaim /\ \A v \in Workers \ {w} : claim'[v] = claim[v]
          /\ task'[s].at = "waiting" /\ task'[s].job = j
          /\ \A r \in Slots \ {s} : task'[r] = task[r]
          /\ \A i \in Jobs : mark'[i] # "overdue"
      BY <1>0, <3>1, <3>2 DEF TypeOK, Undisturbed
    <3>4. Undisturbed'
      BY <1>0, <3>2, <3>3 DEF Undisturbed
    <3>5. \A i \in Jobs \ {j} : Elsewhere(i)
      BY <1>0, <1>2, <3>1, <3>2, <3>3, QueueAssumption DEF Undisturbed, Elsewhere, IdleClaim, FreeTask
    <3>6. store[j].status = "claimed" /\ \A r \in Slots : ~Moved(r, j)
      BY <2>0, <3>2 DEF Recorded
    <3>7. \A r \in Slots : ~Moved(r, j)' /\ (HeldByTask(r, j)' <=> r = s)
      BY <2>b, <3>1, <3>3, <3>6 DEF HeldByTask, Moved, Holding
    <3>8. \A v \in Workers : ~HeldByClaim(v, j)'
      BY <2>b, <3>3, QueueAssumption DEF HeldByClaim, IdleClaim
    <3>9. Recorded(j)'
      BY <2>0, <2>a, <3>2, <3>3, <3>6, <3>7, <3>8 DEF Recorded
    <3>10. Moves(j)
      BY <2>a, <2>b, <3>2, <3>6, <3>7 DEF Moves, PhaseOf, CountOf
    <3> QED BY <3>4, <3>5, <3>9, <3>10, OneJob
  <2> QED BY <1>2, <2>1, <2>2, <2>3, <2>4 DEF ClaimStep, Pop, InHand
<1> QED BY <1>0, <1>1, <1>2 DEF ClaimStep, ReadClaim, Bounce, StoreClaim, MarkClaim, InHand, JobsNamed

\* A step of a task that gives it a new stage, and maybe a new count or result.
LEMMA TaskOrderly ==
    ASSUME IInv, Orderly, NEW s \in Slots, TaskStep(s)
    PROVE  Orderliness
<1>0. TypeOK /\ JobsNamed /\ Undisturbed
  BY DEF IInv, Orderly
<1>1. PICK j \in Jobs : j = task[s].job
  BY <1>0 DEF TaskStep, Begin, Process, ReadTask, CompleteTask, MoveTask, WriteTask, UnmarkTask, JobsNamed
<1>2. /\ Single(j) /\ Recorded(j) /\ store[j] \in Record /\ j \in submitted
      /\ j \in done \union dead => Nowhere(j)
      /\ task[s] \in Task
  BY <1>0, <1>1, OrderlyFacts DEF TypeOK
\* What a task is once it has taken a step; the others stay what they are.
<1>a. ASSUME task' = [task EXCEPT ![s] = task'[s]], task'[s].job \in {j, None}
      PROVE  /\ \A r \in Slots \ {s} : task'[r] = task[r]
             /\ \A r \in Slots \ {s} : (HeldByTask(r, j)' <=> HeldByTask(r, j)) /\ (Moved(r, j)' <=> Moved(r, j))
             /\ \A i \in Jobs \ {j} : task'[s].job # i /\ task[s].job # i
  BY <1>0, <1>1, <1>a, QueueAssumption DEF TypeOK, HeldByTask, Moved
<1>3. CASE Begin(s) \/ Process(s) \/ ReadTask(s)
  <2>1. /\ task[s].at \in {"waiting", "processing", "read"}
        /\ UNCHANGED <<store, mark, dead, claim, clean, submitted, disturbed, done, muted>>
    BY <1>3 DEF Begin, Process, ReadTask, redis, history
  <2>2. /\ task' = [task EXCEPT ![s] = task'[s]] /\ task'[s].job = j
        /\ task'[s].at \in Holding
        /\ task'[s].at = "complete" => task'[s].retries = store[j].retries
        /\ task'[s].at = "move" => task'[s].retries = store[j].retries + 1
    BY <1>0, <1>1, <1>2, <1>3 DEF Begin, Process, ReadTask, TypeOK, Task, Record, Holding
  <2>3. Undisturbed' /\ \A i \in Jobs \ {j} : Elsewhere(i)
    BY <1>0, <1>a, <2>1, <2>2 DEF Undisturbed, Elsewhere, Holding
  <2>4. HeldByTask(s, j) /\ HeldByTask(s, j)' /\ ~Moved(s, j) /\ ~Moved(s, j)'
    BY <1>1, <2>1, <2>2 DEF HeldByTask, Moved, Holding
  <2>5. \A r \in Slots : (HeldByTask(r, j) <=> r = s) /\ ~Moved(r, j)
    BY <1>2, <2>4 DEF Single, Recorded
  <2>6. \A r \in Slots : (HeldByTask(r, j)' <=> r = s) /\ ~Moved(r, j)'
    BY <1>a, <2>2, <2>4, <2>5
  <2>7. Recorded(j)'
    BY <1>2, <2>1, <2>2, <2>4, <2>6 DEF Recorded, HeldByClaim
  <2>8. Rests(j)
    BY <2>1, <2>4, <2>5, <2>6 DEF Rests, PhaseOf, CountOf
  <2> QED BY <2>3, <2>7, <2>8, OneJob
<1>4. CASE CompleteTask(s)
  <2>1. /\ task[s].at = "complete" /\ done' = done \union {j}
        /\ muted' = muted \union {j} \/ muted' = muted \ {j}
        /\ store' = [store EXCEPT ![j] = [status |-> "completed", retries |-> task[s].retries]]
        /\ task' = [task EXCEPT ![s].at = "unmark"]
        /\ UNCHANGED <<mark, dead, claim, clean, submitted, disturbed>>
    BY <1>1, <1>4 DEF CompleteTask, HSet
  <2>2. /\ task' = [task EXCEPT ![s] = task'[s]] /\ task'[s].job = j /\ task'[s].at = "unmark"
        /\ store'[j] = [status |-> "completed", retries |-> task[s].retries]
        /\ \A i \in Jobs \ {j} : store'[i] = store[i]
    BY <1>0, <1>1, <1>2, <2>1 DEF TypeOK, Task
  <2>3. Undisturbed' /\ \A i \in Jobs \ {j} : Elsewhere(i)
    BY <1>0, <1>a, <2>1, <2>2 DEF Undisturbed, Elsewhere
  <2>4. HeldByTask(s, j) /\ ~HeldByTask(s, j)' /\ ~Moved(s, j)'
    BY <1>1, <2>1, <2>2 DEF HeldByTask, Moved, Holding
  <2>5. /\ store[j].status = "claimed" /\ task[s].retries = store[j].retries /\ j \notin done \union dead
        /\ \A r \in Slots : (HeldByTask(r, j) <=> r = s) /\ ~Moved(r, j)
        /\ \A w \in Workers : ~HeldByClaim(w, j)
    BY <1>2, <2>1, <2>4 DEF Single, Recorded, Nowhere
  <2>6. \A r \in Slots : ~HeldByTask(r, j)' /\ ~Moved(r, j)'
    BY <1>a, <2>2, <2>4, <2>5
  <2>7. Recorded(j)'
    BY <2>1, <2>2, <2>5, <2>6 DEF Recorded, HeldByClaim
  <2>8. Moves(j)
    BY <2>1, <2>2, <2>4, <2>5, <2>6 DEF Moves, PhaseOf, CountOf
  <2> QED BY <2>3, <2>7, <2>8, OneJob
<1>5. CASE MoveTask(s)
  <2>1. /\ task[s].at = "move"
        /\ dead' = IF RetriesLeft(s) THEN dead ELSE dead \union {j}
        /\ task' = [task EXCEPT ![s].at = "write"]
        /\ UNCHANGED <<store, mark, claim, clean, submitted, disturbed, done, muted>>
    BY <1>1, <1>5 DEF MoveTask, history
  <2>2. /\ task' = [task EXCEPT ![s] = task'[s]] /\ task'[s].job = j /\ task'[s].at = "write"
        /\ task'[s].retries = task[s].retries
    BY <1>0, <1>1, <1>2, <2>1 DEF TypeOK, Task
  <2>3. Undisturbed' /\ \A i \in Jobs \ {j} : Elsewhere(i)
    BY <1>0, <1>a, <2>1, <2>2 DEF Undisturbed, Elsewhere
  <2>4. HeldByTask(s, j) /\ ~HeldByTask(s, j)' /\ Moved(s, j)' /\ (RetriesLeft(s)' <=> RetriesLeft(s))
    BY <1>1, <2>1, <2>2 DEF HeldByTask, Moved, Holding, RetriesLeft
  <2>5. /\ store[j].status = "claimed" /\ task[s].retries = store[j].retries + 1 /\ j \notin done \union dead
        /\ \A r \in Slots : (HeldByTask(r, j) <=> r = s) /\ ~Moved(r, j)
        /\ \A w \in Workers : ~HeldByClaim(w, j)
    BY <1>2, <2>1, <2>4 DEF Single, Recorded, Nowhere
  <2>6. \A r \in Slots : ~HeldByTask(r, j)' /\ (Moved(r, j)' <=> r = s)
    BY <1>a, <2>2, <2>4, <2>5
  <2>7. RetriesLeft(s)' <=> j \notin dead'
    BY <2>1, <2>4, <2>5
  <2>8. Recorded(j)'
    BY <1>2, <2>1, <2>2, <2>5, <2>6, <2>7 DEF Recorded, HeldByClaim
  <2>9. CountOf(j) = store[j].retries /\ CountOf(j)' = store[j].retries + 1
    BY <2>1, <2>5, <2>6 DEF CountOf
  <2>10. PhaseOf(j) = "running" /\ PhaseOf(j)' = IF RetriesLeft(s) THEN "queued" ELSE "dead"
    BY <1>2, <2>1, <2>4, <2>5, <2>6 DEF PhaseOf
  <2>11. Moves(j)
    BY <2>5, <2>9, <2>10 DEF Moves, RetriesLeft
  <2> QED BY <2>3, <2>8, <2>11, OneJob
<1>6. CASE WriteTask(s)
  <2>1. /\ task[s].at = "write"
        /\ store' = [store EXCEPT ![j] = [status |-> IF RetriesLeft(s) THEN "pending" ELSE "failed",
                                          retries |-> task[s].retries]]
        /\ task' = [task EXCEPT ![s].at = "unmark"]
        /\ UNCHANGED <<mark, dead, claim, clean, submitted, disturbed, done, muted>>
    BY <1>1, <1>6 DEF WriteTask, HSet, history
  <2>2. /\ task' = [task EXCEPT ![s] = task'[s]] /\ task'[s].job = j /\ task'[s].at = "unmark"
        /\ store'[j] = [status |-> IF RetriesLeft(s) THEN "pending" ELSE "failed",
                        retries |-> task[s].retries]
        /\ \A i \in Jobs \ {j} : store'[i] = store[i]
    BY <1>0, <1>1, <1>2, <2>1 DEF TypeOK, Task
  <2>3. Undisturbed' /\ \A i \in Jobs \ {j} : Elsewhere(i)
    BY <1>0, <1>a, <2>1, <2>2 DEF Undisturbed, Elsewhere
  <2>4. Moved(s, j) /\ ~HeldByTask(s, j) /\ ~HeldByTask(s, j)' /\ ~Moved(s, j)'
    BY <1>1, <2>1, <2>2 DEF HeldByTask, Moved, Holding
  <2>a. /\ store[j].status = "claimed" /\ task[s].retries = store[j].retries + 1
        /\ RetriesLeft(s) <=> j \notin dead
        /\ \A r \in Slots : Moved(r, j) => r = s
    BY <1>2, <2>4 DEF Recorded
  <2>b. \A w \in Workers : HeldByClaim(w, j) => claim[w].at \notin {"store", "mark"}
    <3> SUFFICES ASSUME NEW w \in Workers, HeldByClaim(w, j) PROVE claim[w].at \notin {"store", "mark"}
      OBVIOUS
    <3>1. claim[w].at = "store" => store[j] = [status |-> "pending", retries |-> claim[w].retries]
      BY <1>2 DEF Recorded
    <3>2. claim[w].at # "mark"
      BY <1>2, <2>4 DEF Recorded
    <3> QED BY <2>a, <3>1, <3>2
  <2>c. j \notin done /\ \A r \in Slots : ~HeldByTask(r, j)
    BY <1>2, <2>4, <2>a DEF Recorded
  <2>5. /\ store[j].status = "claimed" /\ task[s].retries = store[j].retries + 1
        /\ RetriesLeft(s) <=> j \notin dead
        /\ j \notin done
        /\ \A r \in Slots : ~HeldByTask(r, j) /\ (Moved(r, j) <=> r = s)
        /\ \A w \in Workers : HeldByClaim(w, j) => claim[w].at \notin {"store", "mark"}
    BY <2>4, <2>a, <2>b, <2>c
  <2>6. \A r \in Slots : ~HeldByTask(r, j)' /\ ~Moved(r, j)'
    BY <1>a, <2>2, <2>4, <2>5
  <2>7. Recorded(j)'
    BY <2>1, <2>2, <2>5, <2>6 DEF Recorded, HeldByClaim
  <2>8. Rests(j)
    BY <2>1, <2>2, <2>5, <2>6 DEF Rests, PhaseOf, CountOf
  <2> QED BY <2>3, <2>7, <2>8, OneJob
<1>7. CASE UnmarkTask(s)
  <2>1. /\ task[s].at = "unmark"
        /\ mark' = [mark EXCEPT ![j] = "absent"]
        /\ task' = [task EXCEPT ![s] = FreeTask]
        /\ UNCHANGED <<store, dead, claim, clean, submitted, disturbed, done, muted>>
    BY <1>1, <1>7 DEF UnmarkTask, ZRemClaimed, history
  <2>2. task' = [task EXCEPT ![s] = task'[s]] /\ task'[s] = FreeTask /\ task'[s].job = None
    BY <1>0, <2>1 DEF TypeOK, FreeTask
  <2>3. Undisturbed' /\ \A i \in Jobs \ {j} : Elsewhere(i)
    BY <1>0, <1>a, <2>1, <2>2 DEF Undisturbed, Elsewhere, TypeOK
  <2>4. ~HeldByTask(s, j) /\ ~Moved(s, j) /\ ~HeldByTask(s, j)' /\ ~Moved(s, j)'
    BY <1>1, <2>1, <2>2 DEF HeldByTask, Moved, Holding, FreeTask
  <2>5. \A r \in Slots : /\ HeldByTask(r, j)' <=> HeldByTask(r, j)
                         /\ Moved(r, j)' <=> Moved(r, j)
                         /\ HeldByTask(r, j) \/ Moved(r, j) => task'[r] = task[r]
    BY <1>a, <2>2, <2>4
  <2>6. Recorded(j)'
    BY <1>2, <2>1, <2>5 DEF Recorded, HeldByClaim, RetriesLeft
  <2>7. Rests(j)
    BY <2>1, <2>5 DEF Rests, PhaseOf, CountOf
  <2> QED BY <2>3, <2>6, <2>7, OneJob
<1> QED BY <1>3, <1>4, <1>5, <1>6, <1>7 DEF TaskStep, Begin, Process, ReadTask

-----------------------------------------------------------------------------
(* From the jobs to the steps of JobLifecycle.                             *)

LEMMA TriesCountedNext == Orderly' => \A j \in Jobs : TriesOf(j)' = CountOf(j)'
<1>1. Orderly' => (\A j \in Jobs : TriesOf(j) = CountOf(j))'
  BY TriesCounted, PTL
<1> QED BY <1>1

LEMMA QuietLife ==
    ASSUME Orderly, Orderly', \A j \in Jobs : Rests(j)
    PROVE  UNCHANGED Lifecycle!vars
<1>1. \A j \in Jobs : PhaseOf(j)' = PhaseOf(j) /\ TriesOf(j)' = TriesOf(j)
  BY TriesCounted, TriesCountedNext DEF Rests
<1> QED BY <1>1 DEF Lifecycle!vars

LEMMA LifeStep ==
    ASSUME IInv, Orderly, Orderly', NEW j \in Jobs, Moves(j), \A i \in Jobs \ {j} : Rests(i)
    PROVE  Lifecycle!Next
<1> DEFINE phase == [i \in Jobs |-> PhaseOf(i)]
           tries == [i \in Jobs |-> TriesOf(i)]
<1>1. \A i \in Jobs : TriesOf(i) = CountOf(i) /\ TriesOf(i)' = CountOf(i)'
  BY TriesCounted, TriesCountedNext
<1>2. phase' = [phase EXCEPT ![j] = PhaseOf(j)']
  BY DEF Rests
<1>3. tries' = [tries EXCEPT ![j] = TriesOf(j)']
  BY <1>1 DEF Rests
<1>4. phase[j] = PhaseOf(j) /\ tries[j] = TriesOf(j)
  OBVIOUS
<1>5. CASE CountOf(j)' = CountOf(j) /\ PhaseOf(j) # PhaseOf(j)'
  <2>1. tries' = tries
    BY <1>1, <1>3, <1>5
  <2>2. CASE PhaseOf(j) = "absent" /\ PhaseOf(j)' = "queued"
    <3>1. Lifecycle!Submit(j)
      BY <1>2, <1>4, <2>1, <2>2 DEF Lifecycle!Submit, Lifecycle!Move
    <3> QED BY <3>1 DEF Lifecycle!Next
  <2>3. CASE PhaseOf(j) = "queued" /\ PhaseOf(j)' = "running"
    <3>1. Lifecycle!Start(j)
      BY <1>2, <1>4, <2>1, <2>3 DEF Lifecycle!Start, Lifecycle!Move
    <3> QED BY <3>1 DEF Lifecycle!Next
  <2>4. CASE PhaseOf(j) = "running" /\ PhaseOf(j)' \in {"completed", "swallowed"}
    <3>1. Lifecycle!Complete(j) \/ Lifecycle!Swallow(j)
      BY <1>2, <1>4, <2>1, <2>4 DEF Lifecycle!Complete, Lifecycle!Swallow, Lifecycle!Move
    <3> QED BY <3>1 DEF Lifecycle!Next, Lifecycle!End
  <2>5. CountOf(j) \in Nat
    <3>1. store[j].retries \in Nat
      BY DEF IInv, TypeOK, Record
    <3> QED BY <3>1 DEF CountOf
  <2> QED BY <1>5, <2>2, <2>3, <2>4, <2>5 DEF Moves
<1>6. CASE /\ PhaseOf(j) = "running"
           /\ PhaseOf(j)' = IF CountOf(j) + 1 < MaxRetries THEN "queued" ELSE "dead"
           /\ CountOf(j)' = CountOf(j) + 1
  <2>1. Lifecycle!Fail(j)
    BY <1>1, <1>2, <1>3, <1>4, <1>6 DEF Lifecycle!Fail, Lifecycle!Move
  <2> QED BY <2>1 DEF Lifecycle!Next, Lifecycle!End
<1> QED BY <1>5, <1>6 DEF Moves

\* Without expiries and faults each step of the queue is a step that JobLifecycle allows, or
\* changes nothing it sees: a job is run by one task at a time, after each failure until
\* max_retries of them, and is completed, dead, or taken for completed after a failure without
\* a text, for good, for any number of engine processes (claim_job and complete_job).
THEOREM JobsLiveOrderly ==
    ASSUME MaxExpiries = 0, MaxFaults = 0
    PROVE  Spec => Lifecycle!Init /\ [][Lifecycle!Next]_(Lifecycle!vars)
<1>1. Init => Orderly /\ Lifecycle!Init
  <2> SUFFICES ASSUME Init PROVE Orderly /\ Lifecycle!Init
    OBVIOUS
  <2>1. \A j \in Jobs : /\ store[j] = [status |-> "none", retries |-> 0]
                        /\ \A s \in Slots : ~HeldByTask(s, j) /\ ~Moved(s, j)
                        /\ \A w \in Workers : ~HeldByClaim(w, j)
    BY QueueAssumption DEF Init, HeldByTask, HeldByClaim, Moved, FreeTask, IdleClaim
  <2>2. Orderly
    BY <2>1 DEF Init, Orderly, Undisturbed, Recorded
  <2>3. \A j \in Jobs : PhaseOf(j) = "absent" /\ TriesOf(j) = 0
    BY <2>1 DEF Init, PhaseOf, TriesOf
  <2> QED BY <2>2, <2>3 DEF Lifecycle!Init
<1>2. IInv /\ Orderly /\ [Next]_vars => Orderly' /\ [Lifecycle!Next]_(Lifecycle!vars)
  <2> SUFFICES ASSUME IInv, Orderly, [Next]_vars
               PROVE  Orderly' /\ [Lifecycle!Next]_(Lifecycle!vars)
    OBVIOUS
  <2>a. CASE Orderliness
    <3>1. Orderly'
      BY <2>a DEF Orderliness
    <3>2. CASE \A j \in Jobs : Rests(j)
      BY <3>1, <3>2, QuietLife
    <3>3. CASE \E j \in Jobs : Moves(j) /\ \A i \in Jobs \ {j} : Rests(i)
      BY <3>1, <3>3, LifeStep
    <3> QED BY <2>a, <3>1, <3>2, <3>3 DEF Orderliness
  <2>b. CASE UNCHANGED vars
    <3>1. Orderly' /\ \A j \in Jobs : Rests(j)
      BY <2>b DEF vars, redis, history, Orderly, Undisturbed, Recorded, Rests, PhaseOf, CountOf,
                  HeldByClaim, HeldByTask, Moved, RetriesLeft
    <3> QED BY <3>1, QuietLife
  <2>1. ASSUME NEW j \in Jobs, EnqueueStore(j) \/ EnqueueAdd(j) PROVE Orderliness
    BY <2>1, EnqueueOrderly
  <2>2. ASSUME NEW j \in Jobs, Expire(j) PROVE FALSE
    BY <2>2, QueueAssumption DEF Expire, IInv, TypeOK
  <2>3. ASSUME NEW w \in Workers, ClaimStep(w) PROVE Orderliness
    BY <2>3, ClaimOrderly
  <2>4. ASSUME NEW w \in Workers, Poll(w) PROVE UNCHANGED vars
    BY <2>4 DEF Poll
  <2>5. ASSUME NEW w \in Workers, CleanStep(w) PROVE FALSE
    <3>1. clean[w].at = "idle" /\ \A j \in Jobs : mark[j] # "overdue"
      BY DEF Orderly, Undisturbed, IdleClean
    <3> QED BY <2>5, <3>1 DEF CleanStep, Scan, Fetch, CleanAdd, CleanUnmark, CleanWrite
  <2>6. ASSUME NEW s \in Slots, TaskStep(s) PROVE Orderliness
    BY <2>6, TaskOrderly
  <2>7. ~Fault
    BY QueueAssumption DEF Fault, IInv, TypeOK
  <2> QED BY <2>a, <2>b, <2>1, <2>2, <2>3, <2>4, <2>5, <2>6, <2>7
          DEF Next, TaskError, Crash, ClaimError, CleanError
<1> QED BY <1>1, <1>2, Invariance, PTL DEF Spec
=============================================================================
