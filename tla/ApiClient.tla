----------------------------- MODULE ApiClient -----------------------------
(***************************************************************************)
(* A batch of jobs run by ComfyUIAsyncClient (engine/api_client.py): one   *)
(* task per job, a semaphore of max_concurrent permits, the circuit        *)
(* breaker around with_retry (engine/retry.py) around POST /prompt, then   *)
(* polling of /history until the prompt ends or the timeout passes.  The   *)
(* ComfyUI server is external: it takes prompts and ends them; how a       *)
(* prompt ended is chosen when its job reads it, which happens once.       *)
(*                                                                         *)
(* An action is what a task does between two awaits that matter to others. *)
(* Of a request that fails it matters whether the server took the prompt   *)
(* (the answer may be lost) and whether the error is one with_retry tries  *)
(* again.  Delays are left out: whatever may happen meanwhile may happen.  *)
(***************************************************************************)
EXTENDS Integers, FiniteSets

CONSTANTS
    Jobs,               \* the jobs of the batch
    MaxConcurrent,      \* permits of the semaphore
    MaxRetries,         \* RetryConfig.max_retries
    FailureThreshold, HalfOpenMaxCalls, SuccessThreshold,   \* CircuitBreakerConfig
    MaxFailures         \* bound of CircuitBreaker

ASSUME ClientAssumption ==
    /\ IsFiniteSet(Jobs)
    /\ MaxConcurrent \in Nat \ {0}
    /\ MaxRetries \in Nat
    /\ {FailureThreshold, HalfOpenMaxCalls, SuccessThreshold} \subseteq Nat \ {0}
    /\ MaxFailures \in Nat

\* A request a job may make: the prompts the server may hold.
Prompts == Jobs \X (0..MaxRetries)

VARIABLES
    pc,         \* where the task of each job is
    outcome,    \* how the job ended
    permits,    \* free permits of the semaphore
    attempt,    \* the attempt with_retry is at
    registered, \* the jobs in _jobs that have a prompt_id
    metrics,    \* counters of MetricsCollector; "retries" are those of POST
    server,     \* what the server holds for each prompt
    \* the circuit breaker, see CircuitBreaker
    state, failures, successes, halfOpenCalls, elapsed, inflight, probes, abandoned

circuit == <<state, failures, successes, halfOpenCalls, elapsed, inflight, probes, abandoned>>
task == <<pc, outcome, permits, attempt, registered, metrics>>
vars == <<task, server, circuit>>

\* No task of a batch is ever cancelled.
Circuit == INSTANCE CircuitBreaker WITH Callers <- Jobs, Cancellable <- {}

Stage == {"waiting", "entering", "posting", "accepted", "failed", "polling", "done"}
Outcome == {"none", "completed", "error", "timeout", "rejected", "exception"}
Counters == {"submitted", "completed", "failed", "timeout", "retries"}

TypeOK ==
    /\ pc \in [Jobs -> Stage]
    /\ outcome \in [Jobs -> Outcome]
    /\ permits \in 0..MaxConcurrent
    /\ attempt \in [Jobs -> 0..MaxRetries]
    /\ registered \in SUBSET Jobs
    /\ metrics \in [Counters -> Nat]
    /\ server \in [Prompts -> {"absent", "working", "ended"}]

Init ==
    /\ pc = [j \in Jobs |-> "waiting"]
    /\ outcome = [j \in Jobs |-> "none"]
    /\ permits = MaxConcurrent
    /\ attempt = [j \in Jobs |-> 0]
    /\ registered = {}
    /\ metrics = [c \in Counters |-> 0]
    /\ server = [p \in Prompts |-> "absent"]
    /\ Circuit!Init

-----------------------------------------------------------------------------

At(j, stage) == pc[j] = stage
Goto(j, stage) == pc' = [pc EXCEPT ![j] = stage]
Inc(counter) == metrics' = [metrics EXCEPT ![counter] = @ + 1]

\* A form a bug could give to Leave: the permit comes back only after a regular end.
LeaveUnlessException(j, how, counter) ==
    /\ Goto(j, "done")
    /\ outcome' = [outcome EXCEPT ![j] = how]
    /\ permits' = IF how = "exception" THEN permits ELSE permits + 1
    /\ Inc(counter)
    /\ UNCHANGED <<attempt, registered>>

\* The task leaves the semaphore with its job ended one way or another; an
\* exception leaves it first and is made an error job by _wrapped_run.
Leave(j, how, counter) ==
    /\ Goto(j, "done")
    /\ outcome' = [outcome EXCEPT ![j] = how]
    /\ permits' = permits + 1
    /\ Inc(counter)
    /\ UNCHANGED <<attempt, registered>>

-----------------------------------------------------------------------------
(* run_job and submit_job.                                                 *)

Acquire(j) ==
    /\ At(j, "waiting") /\ permits > 0
    /\ Goto(j, "entering")
    /\ permits' = permits - 1
    /\ UNCHANGED <<outcome, attempt, registered, metrics, server, circuit>>

Admit(j) ==
    /\ At(j, "entering")
    /\ Circuit!Call(j)
    /\ Goto(j, "posting")
    /\ UNCHANGED <<outcome, permits, attempt, registered, metrics, server>>

\* CircuitBreakerOpenError: an error job that never asked the server.
Reject(j) ==
    /\ At(j, "entering")
    /\ Circuit!Reject(j)
    /\ Leave(j, "rejected", "failed")
    /\ UNCHANGED server

-----------------------------------------------------------------------------
(* _post_prompt: with_retry around one POST.                               *)

\* Forms a bug could give to the definitions below: one attempt too many; a failure
\* the breaker only hears of while it is closed; a result read before it is there;
\* a timeout counted as a failure.
RetryOrFailOffByOne(j) ==
    IF attempt[j] <= MaxRetries
    THEN /\ attempt' = [attempt EXCEPT ![j] = @ + 1]
         /\ Inc("retries")
         /\ UNCHANGED pc
    ELSE Goto(j, "failed") /\ UNCHANGED <<attempt, metrics>>

RecordFailureUnheard(j) ==
    /\ At(j, "failed")
    /\ \/ state = "CLOSED" /\ Circuit!Fail(j)
       \/ /\ state # "CLOSED"
          /\ UNCHANGED <<state, failures, successes, elapsed>>
          /\ Circuit!Return(j)
    /\ Leave(j, "exception", "failed")
    /\ UNCHANGED server

TimeOutCountedFailed(j) ==
    /\ At(j, "polling")
    /\ Leave(j, "timeout", "failed")
    /\ UNCHANGED <<server, circuit>>

RetryOrFail(j) ==
    IF attempt[j] < MaxRetries
    THEN /\ attempt' = [attempt EXCEPT ![j] = @ + 1]
         /\ Inc("retries")
         /\ UNCHANGED pc
    ELSE Goto(j, "failed") /\ UNCHANGED <<attempt, metrics>>

ServerTakes(j) == server' = [server EXCEPT ![<<j, attempt[j]>>] = "working"]

Post(j) ==
    /\ At(j, "posting")
    /\ \/ ServerTakes(j) /\ Goto(j, "accepted") /\ UNCHANGED <<attempt, metrics>>
       \/ /\ ServerTakes(j) \/ UNCHANGED server
          /\ \/ RetryOrFail(j)        \* 429, 503, no connection, or the answer is lost
             \/ Goto(j, "failed") /\ UNCHANGED <<attempt, metrics>>  \* any other answer
    /\ UNCHANGED <<outcome, permits, registered, circuit>>

\* The breaker hears of the submission as a whole.
RecordSuccess(j) ==
    /\ At(j, "accepted")
    /\ Circuit!Succeed(j)
    /\ Goto(j, "polling")
    /\ registered' = registered \union {j}
    /\ Inc("submitted")
    /\ UNCHANGED <<outcome, permits, attempt, server>>

RecordFailure(j) ==
    /\ At(j, "failed")
    /\ Circuit!Fail(j)
    /\ Leave(j, "exception", "failed")
    /\ UNCHANGED server

-----------------------------------------------------------------------------
(* _poll_job.                                                              *)

Answer(j) == server[<<j, attempt[j]>>]

SeeResultTooSoon(j) ==
    /\ At(j, "polling")
    /\ Leave(j, "completed", "completed") \/ Leave(j, "error", "failed")
    /\ UNCHANGED <<server, circuit>>

SeeResult(j) ==
    /\ At(j, "polling")
    /\ Answer(j) = "ended"
    /\ Leave(j, "completed", "completed") \/ Leave(j, "error", "failed")
    /\ UNCHANGED <<server, circuit>>

\* The prompt stays with the server: nobody cancels it there.
TimeOut(j) ==
    /\ At(j, "polling")
    /\ Leave(j, "timeout", "timeout")
    /\ UNCHANGED <<server, circuit>>

TaskStep(j) ==
    \/ Acquire(j) \/ Admit(j) \/ Reject(j) \/ Post(j)
    \/ RecordSuccess(j) \/ RecordFailure(j) \/ SeeResult(j) \/ TimeOut(j)

-----------------------------------------------------------------------------

\* The server ends a prompt.
ServerEnds(p) ==
    /\ server[p] = "working"
    /\ server' = [server EXCEPT ![p] = "ended"]
    /\ UNCHANGED <<task, circuit>>

\* The recovery timeout of the breaker passes.
ClockRuns == Circuit!Elapse /\ UNCHANGED <<task, server>>

BatchDone == \A j \in Jobs : At(j, "done")

\* gather has all results and run_batch returns.
Return == BatchDone /\ UNCHANGED vars

Next ==
    \/ \E j \in Jobs : TaskStep(j)
    \/ \E p \in Prompts : ServerEnds(p)
    \/ ClockRuns
    \/ Return

Spec == Init /\ [][Next]_vars

\* asyncio runs every ready task; every request and the polling have a timeout.
\* The server may never end a prompt.
FairSpec == Spec /\ \A j \in Jobs : WF_vars(TaskStep(j))

-----------------------------------------------------------------------------
(* Properties.                                                             *)

Inside == {j \in Jobs : pc[j] \notin {"waiting", "done"}}

\* Every permit is free or with a task that is inside: at most MaxConcurrent are,
\* and no way out, the exceptions included, keeps one.
PermitsBalanced == permits + Cardinality(Inside) = MaxConcurrent

EndedAs(how) == {j \in Jobs : outcome[j] \in how}

\* The counters tell what became of the jobs: each is counted once, when it ends,
\* though three functions count failures.
EveryJobCountedOnce ==
    /\ metrics["completed"] = Cardinality(EndedAs({"completed"}))
    /\ metrics["timeout"] = Cardinality(EndedAs({"timeout"}))
    /\ metrics["failed"] = Cardinality(EndedAs({"error", "rejected", "exception"}))
    /\ metrics["submitted"] = Cardinality(registered)

\* What is left working on the server when a job has ended is a prompt the client
\* gave up: after a timeout, or an attempt whose answer it never saw.  A job reported
\* completed or failed by the server has its own prompt ended, and a job the breaker
\* rejected never reached the server at all.
LeftoversExplained ==
    \A j \in Jobs : At(j, "done") =>
        /\ outcome[j] = "rejected" => \A n \in 0..MaxRetries : server[<<j, n>>] = "absent"
        /\ outcome[j] \in {"completed", "error"} => Answer(j) = "ended"
        /\ \A n \in attempt[j] + 1..MaxRetries : server[<<j, n>>] = "absent"

\* A half-open breaker whose test calls are all taken always has one of them on its
\* way: tasks of a batch are never cancelled, a retried submission is one call,
\* and both ways out of it report to the breaker.
BreakerNeverWedged == Circuit!NoWedge

\* COMFYUI_MAX_CONCURRENT, "Parallel GPU jobs" (README.md): the server never works
\* on more prompts of this client than the semaphore has permits.
ServerLoadBounded ==
    Cardinality({p \in Prompts : server[p] = "working"}) <= MaxConcurrent

\* The batch ends, whatever the server does.
BatchEnds == <>BatchDone
=============================================================================
