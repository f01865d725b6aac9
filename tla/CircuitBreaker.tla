--------------------------- MODULE CircuitBreaker ---------------------------
(***************************************************************************)
(* The circuit breaker of engine/circuit_breaker.py, which stands between  *)
(* the engine and the ComfyUI GPU server.                                  *)
(*                                                                         *)
(* call() is three pieces: a critical section that admits or rejects, the  *)
(* awaited coroutine, and a critical section that records the outcome.     *)
(* Each critical section runs under one asyncio.Lock and is one action     *)
(* here; between them any number of other callers may run.  A caller whose *)
(* task is cancelled while it awaits raises CancelledError, which          *)
(* "except Exception" does not catch: it leaves without recording anything *)
(* (Cancel).  A rejected call raises CircuitBreakerOpenError and changes   *)
(* no state of the breaker (Reject).                                       *)
(***************************************************************************)
EXTENDS Integers, FiniteSets

CONSTANTS
    Callers,            \* the tasks that use the breaker
    Cancellable,        \* those whose task somebody may cancel
    FailureThreshold,   \* CircuitBreakerConfig.failure_threshold
    HalfOpenMaxCalls,   \* CircuitBreakerConfig.half_open_max_calls
    SuccessThreshold,   \* CircuitBreakerConfig.success_threshold
    MaxFailures         \* bound: calls stop failing when the counter is there

ASSUME CallersAssumption == IsFiniteSet(Callers) /\ Cancellable \subseteq Callers

ASSUME ThresholdAssumption ==
    /\ FailureThreshold \in Nat \ {0}
    /\ HalfOpenMaxCalls \in Nat \ {0}
    /\ SuccessThreshold \in Nat \ {0}
    /\ MaxFailures \in Nat

VARIABLES
    state,          \* self.state
    failures,       \* self._failures
    successes,      \* self._successes
    halfOpenCalls,  \* self._half_open_calls
    elapsed,        \* recovery_timeout has passed since _last_failure_time
    inflight,       \* callers that were admitted and still await
    probes,         \* those of them admitted by the present HALF_OPEN episode
    abandoned       \* probes of the present episode cancelled without an outcome

vars == <<state, failures, successes, halfOpenCalls, elapsed, inflight, probes,
          abandoned>>

CircuitState == {"CLOSED", "OPEN", "HALF_OPEN"}

TypeOK ==
    /\ state \in CircuitState
    /\ failures \in 0..MaxFailures
    /\ successes \in 0..SuccessThreshold
    /\ halfOpenCalls \in 0..HalfOpenMaxCalls
    /\ elapsed \in BOOLEAN
    /\ inflight \in SUBSET Callers
    /\ probes \in SUBSET inflight
    /\ abandoned \in 0..HalfOpenMaxCalls

Init ==
    /\ state = "CLOSED"
    /\ failures = 0
    /\ successes = 0
    /\ halfOpenCalls = 0
    /\ elapsed = TRUE           \* _last_failure_time is None
    /\ inflight = {}
    /\ probes = {}
    /\ abandoned = 0

-----------------------------------------------------------------------------
(* The first critical section of call().                                   *)

\* Forms a bug could give to definitions below; no action uses them.
ShouldAttemptResetOnceDrained == elapsed /\ failures < FailureThreshold
QuotaLeftOffByOne == halfOpenCalls <= HalfOpenMaxCalls
StartProbingOldQuota(c) ==
    /\ state' = "HALF_OPEN"
    /\ probes' = {c}
    /\ abandoned' = 0
    /\ UNCHANGED <<successes, halfOpenCalls>>
CloseKeepingFailures == state' = "CLOSED" /\ UNCHANGED failures
EnoughSuccessesStrictly == successes + 1 > SuccessThreshold

\* The clock decides; no failure yet counts as long ago.
ShouldAttemptReset == elapsed

QuotaLeft == halfOpenCalls < HalfOpenMaxCalls

AdmitClosed ==
    /\ state = "CLOSED"
    /\ UNCHANGED <<state, successes, halfOpenCalls, probes, abandoned>>

\* The first call after the recovery timeout opens a HALF_OPEN episode and is
\* its first probe.
StartProbing(c) ==
    /\ state' = "HALF_OPEN"
    /\ successes' = 0
    /\ halfOpenCalls' = 1
    /\ probes' = {c}
    /\ abandoned' = 0

AdmitProbe(c) ==
    /\ state = "HALF_OPEN"
    /\ QuotaLeft
    /\ halfOpenCalls' = halfOpenCalls + 1
    /\ probes' = probes \union {c}
    /\ UNCHANGED <<state, successes, abandoned>>

Call(c) ==
    /\ c \notin inflight
    /\ \/ AdmitClosed
       \/ state = "OPEN" /\ ShouldAttemptReset /\ StartProbing(c)
       \/ AdmitProbe(c)
    /\ inflight' = inflight \union {c}
    /\ UNCHANGED <<failures, elapsed>>

Reject(c) ==
    /\ c \notin inflight
    /\ \/ state = "OPEN" /\ ~ShouldAttemptReset
       \/ state = "HALF_OPEN" /\ ~QuotaLeft
    /\ UNCHANGED vars

-----------------------------------------------------------------------------
(* The second one: _on_success and _on_failure.  Neither asks whether the  *)
(* call was admitted in the state it finds.                                *)

EnoughSuccesses == successes + 1 >= SuccessThreshold

Close == state' = "CLOSED" /\ failures' = 0

OnSuccess ==
    /\ IF state = "HALF_OPEN"
       THEN /\ successes' = successes + 1
            /\ IF EnoughSuccesses THEN Close ELSE UNCHANGED <<state, failures>>
       ELSE /\ failures' = IF failures = 0 THEN 0 ELSE failures - 1
            /\ UNCHANGED <<state, successes>>
    /\ UNCHANGED elapsed

OnFailure ==
    /\ failures < MaxFailures
    /\ failures' = failures + 1
    /\ elapsed' = FALSE
    /\ state' = IF \/ state = "HALF_OPEN"
                   \/ state = "CLOSED" /\ failures + 1 >= FailureThreshold
                THEN "OPEN"
                ELSE state
    /\ UNCHANGED successes

\* An episode ends when the state changes: what is still in flight then is no
\* probe any more.
Return(c) ==
    /\ c \in inflight
    /\ inflight' = inflight \ {c}
    /\ probes' = IF state' = "HALF_OPEN" THEN probes \ {c} ELSE {}
    /\ UNCHANGED <<halfOpenCalls, abandoned>>

Succeed(c) == OnSuccess /\ Return(c)
Fail(c) == OnFailure /\ Return(c)

\* The task is cancelled while it awaits: neither handler runs.
Cancel(c) ==
    /\ c \in Cancellable \intersect inflight
    /\ inflight' = inflight \ {c}
    /\ probes' = probes \ {c}
    /\ abandoned' = IF c \in probes THEN abandoned + 1 ELSE abandoned
    /\ UNCHANGED <<state, failures, successes, halfOpenCalls, elapsed>>

-----------------------------------------------------------------------------

\* The clock passes _last_failure_time + recovery_timeout.
Elapse ==
    /\ ~elapsed
    /\ elapsed' = TRUE
    /\ UNCHANGED <<state, failures, successes, halfOpenCalls, inflight, probes, abandoned>>

Next ==
    \/ \E c \in Callers : Call(c) \/ Reject(c) \/ Succeed(c) \/ Fail(c) \/ Cancel(c)
    \/ Elapse

Spec == Init /\ [][Next]_vars

\* Every admitted call comes back (each attempt has an HTTP timeout), the clock
\* runs, and there is always somebody with work for the server.
Fairness ==
    /\ \A c \in Callers : WF_vars(Succeed(c) \/ Fail(c)) /\ WF_vars(Call(c))
    /\ WF_vars(Elapse)

FairSpec == Spec /\ Fairness

-----------------------------------------------------------------------------
(* Properties.                                                             *)

\* A closed circuit has had fewer failures than the threshold (net of the
\* successes that drain the counter): it never forgets to trip, and closing after
\* a recovery leaves no failures behind that would trip it at once.
ClosedBelowThreshold == state = "CLOSED" => failures < FailureThreshold

\* The breaker survives this many cancelled probes per episode.
LossTolerated == abandoned <= HalfOpenMaxCalls - SuccessThreshold

\* While the circuit is half open and its quota of test calls is used up, one of
\* those calls is still on its way, whose outcome decides - unless more of them
\* were cancelled than the quota has to spare over success_threshold.  With no
\* such call only a latecomer from before the trip can ever move the breaker again.
NoWedge ==
    state = "HALF_OPEN" /\ ~QuotaLeft /\ LossTolerated => probes # {}

\* Every unit of quota spent in an episode is a probe still out, a success counted
\* or a cancelled probe: the reason why NoWedge holds.
QuotaAccounted ==
    IF state = "HALF_OPEN"
    THEN /\ Cardinality(probes) + successes + abandoned >= halfOpenCalls
         /\ Cardinality(probes) + abandoned <= halfOpenCalls
         /\ successes < SuccessThreshold
    ELSE probes = {}

\* The call whose outcome ends a half-open episode is one of its test calls, as
\* "Allow 3 test requests, close on 2 successes" (docs/architecture_v2.md) says.
VerdictByProbe ==
    [][state = "HALF_OPEN" /\ state' # "HALF_OPEN" => inflight \ inflight' \subseteq probes]_vars

\* An open circuit is tried again: late failures push the timer back, but there
\* are only as many of them as there were calls in flight when it tripped.
OpenIsTried == state = "OPEN" ~> state = "HALF_OPEN"

FailStep == \E c \in Callers : Fail(c)

\* Once the server has stopped failing, the circuit closes for good, provided no
\* episode loses more probes to cancellation than it can spare.
RecoversWhenHealthy ==
    []LossTolerated /\ <>[][~FailStep]_vars => <>[](state = "CLOSED")
=============================================================================
