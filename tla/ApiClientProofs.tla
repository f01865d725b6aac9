-------------------------- MODULE ApiClientProofs --------------------------
(***************************************************************************)
(* Proofs about ApiClient, for every batch, number of permits and number   *)
(* of retries.  To the bookkeeping properties the inductive invariant adds *)
(* what each stage of a task implies about the prompts it may have left on *)
(* the server; the breaker's own invariant is not proved again: a batch is *)
(* shown to implement CircuitBreaker, whose theorems then apply.           *)
(***************************************************************************)
EXTENDS ApiClient, FiniteSetTheorems, TLAPS

Breaker == INSTANCE CircuitBreakerProofs WITH Callers <- Jobs, Cancellable <- {}

-----------------------------------------------------------------------------
(* The breaker.                                                            *)

\* What a batch does to the breaker is what the breaker's own actions allow.
LEMMA BreakerStep == [Next]_vars => [Circuit!Next]_(Circuit!vars)
<1> SUFFICES ASSUME [Next]_vars PROVE [Circuit!Next]_(Circuit!vars)
  OBVIOUS
<1>0. circuit = Circuit!vars /\ (circuit' = circuit => Circuit!vars' = Circuit!vars)
  BY DEF circuit, Circuit!vars
<1>1. ASSUME NEW j \in Jobs, TaskStep(j) PROVE [Circuit!Next]_(Circuit!vars)
  <2>1. CASE Acquire(j) \/ Post(j) \/ SeeResult(j) \/ TimeOut(j)
    BY <2>1, <1>0 DEF Acquire, Post, SeeResult, TimeOut
  <2>2. CASE Admit(j) \/ RecordSuccess(j) \/ RecordFailure(j)
    BY <2>2 DEF Admit, RecordSuccess, RecordFailure, Circuit!Next
  <2>3. CASE Reject(j)
    BY <2>3 DEF Reject, Circuit!Reject
  <2> QED BY <1>1, <2>1, <2>2, <2>3 DEF TaskStep
<1>2. ASSUME NEW p \in Prompts, ServerEnds(p) PROVE [Circuit!Next]_(Circuit!vars)
  BY <1>2, <1>0 DEF ServerEnds
<1>3. CASE ClockRuns
  BY <1>3 DEF ClockRuns, Circuit!Next
<1>4. CASE UNCHANGED vars
  BY <1>4, <1>0 DEF vars
<1>5. CASE Return
  BY <1>4, <1>5 DEF Return
<1> QED BY <1>1, <1>2, <1>3, <1>4, <1>5 DEF Next

\* A batch implements the breaker's specification: no task touches the breaker but
\* through call(), and every call comes back at most once.
THEOREM ImplementsBreaker == Spec => Circuit!Spec
<1>1. Init => Circuit!Init
  BY DEF Init
<1> QED BY <1>1, BreakerStep, PTL DEF Spec, Circuit!Spec

\* The breaker the batch is built on and the one the theorems are about are the same.
LEMMA SameBreaker ==
    /\ Circuit!Init => Breaker!Init
    /\ [Circuit!Next]_(Circuit!vars) => [Breaker!Next]_(Breaker!vars)
    /\ Breaker!NoWedge => BreakerNeverWedged
<1>1. Circuit!Init => Breaker!Init
  BY DEF Circuit!Init, Breaker!Init
<1>2. Circuit!vars = Breaker!vars /\ (Circuit!vars' = Circuit!vars => Breaker!vars' = Breaker!vars)
  BY DEF Circuit!vars, Breaker!vars
<1>3. ASSUME NEW j \in Jobs PROVE Circuit!Call(j) => Breaker!Call(j)
  BY DEF Circuit!Call, Circuit!AdmitClosed, Circuit!StartProbing, Circuit!AdmitProbe, Circuit!QuotaLeft,
         Circuit!ShouldAttemptReset, Breaker!Call, Breaker!AdmitClosed, Breaker!StartProbing,
         Breaker!AdmitProbe, Breaker!QuotaLeft, Breaker!ShouldAttemptReset
<1>4. ASSUME NEW j \in Jobs PROVE Circuit!Reject(j) => Breaker!Reject(j)
  BY <1>2 DEF Circuit!Reject, Circuit!QuotaLeft, Circuit!ShouldAttemptReset, Circuit!vars,
         Breaker!Reject, Breaker!QuotaLeft, Breaker!ShouldAttemptReset, Breaker!vars
<1>5. ASSUME NEW j \in Jobs PROVE Circuit!Succeed(j) => Breaker!Succeed(j)
  BY DEF Circuit!Succeed, Circuit!OnSuccess, Circuit!Return, Circuit!Close, Circuit!EnoughSuccesses,
         Breaker!Succeed, Breaker!OnSuccess, Breaker!Return, Breaker!Close, Breaker!EnoughSuccesses
<1>6. ASSUME NEW j \in Jobs PROVE Circuit!Fail(j) => Breaker!Fail(j)
  BY DEF Circuit!Fail, Circuit!OnFailure, Circuit!Return, Breaker!Fail, Breaker!OnFailure, Breaker!Return
<1>7. ASSUME NEW j \in Jobs PROVE ~Circuit!Cancel(j)
  BY DEF Circuit!Cancel
<1>8. Circuit!Elapse => Breaker!Elapse
  BY DEF Circuit!Elapse, Breaker!Elapse
<1>9. Circuit!Next => Breaker!Next
  BY <1>3, <1>4, <1>5, <1>6, <1>7, <1>8 DEF Circuit!Next, Breaker!Next
<1>10. Breaker!NoWedge => BreakerNeverWedged
  BY DEF BreakerNeverWedged, Circuit!NoWedge, Circuit!QuotaLeft, Circuit!LossTolerated,
         Breaker!NoWedge, Breaker!QuotaLeft, Breaker!LossTolerated
<1> QED BY <1>1, <1>2, <1>9, <1>10

\* A half-open breaker never waits for a probe that is not on its way.
THEOREM NeverWedged == Spec => []BreakerNeverWedged
<1>1. Breaker!CallersAssumption /\ Breaker!ThresholdAssumption
  BY ClientAssumption DEF Breaker!CallersAssumption, Breaker!ThresholdAssumption, Breaker!IsFiniteSet, IsFiniteSet
<1>2. Breaker!Spec => []Breaker!NoWedge
  BY <1>1, Breaker!NeverWedged
<1>3. Spec => Breaker!Spec
  BY ImplementsBreaker, SameBreaker, PTL DEF Circuit!Spec, Breaker!Spec
<1> QED BY <1>2, <1>3, SameBreaker, PTL

-----------------------------------------------------------------------------
(* The books of a batch.                                                   *)

\* What the stage of a task says about its prompts and its outcome.
Ledger(j) ==
    /\ outcome[j] = "none" <=> pc[j] # "done"
    /\ j \in registered => pc[j] \in {"polling", "done"}
    /\ pc[j] \in {"waiting", "entering"} => attempt[j] = 0
    /\ pc[j] \in {"waiting", "entering", "posting"} => Answer(j) = "absent"
    /\ \A n \in attempt[j] + 1..MaxRetries : server[<<j, n>>] = "absent"
    /\ outcome[j] = "rejected" => attempt[j] = 0 /\ Answer(j) = "absent"
    /\ outcome[j] \in {"completed", "error"} => Answer(j) = "ended"

IInv ==
    /\ TypeOK
    /\ PermitsBalanced
    /\ EveryJobCountedOnce
    /\ \A j \in Jobs : Ledger(j)

\* Sets of jobs are finite and gain or lose one job at a time.
LEMMA JobSets ==
    ASSUME NEW j \in Jobs, NEW S \in SUBSET Jobs
    PROVE  /\ Cardinality(S) \in Nat
           /\ j \notin S => Cardinality(S \union {j}) = Cardinality(S) + 1
           /\ j \in S => Cardinality(S \ {j}) = Cardinality(S) - 1
           /\ j \in S => Cardinality(S \ {j}) \in Nat
<1>1. IsFiniteSet(S) /\ IsFiniteSet(S \ {j})
  BY ClientAssumption, FS_Subset
<1>2. Cardinality(S) \in Nat /\ Cardinality(S \ {j}) \in Nat
  BY <1>1, FS_CardinalityType
<1>3. j \notin S => Cardinality(S \union {j}) = Cardinality(S) + 1
  BY <1>1, FS_AddElement
<1>4. j \in S => Cardinality(S \ {j}) = Cardinality(S) - 1
  BY <1>1, FS_RemoveElement
<1> QED BY <1>2, <1>3, <1>4

Ends == {<<"completed", "completed">>, <<"error", "failed">>, <<"timeout", "timeout">>,
         <<"rejected", "failed">>, <<"exception", "failed">>}

\* A task that leaves gives back its permit and is counted under its outcome.
LEMMA LeaveBooks ==
    ASSUME IInv, NEW j \in Inside, NEW how, NEW counter, <<how, counter>> \in Ends,
           Leave(j, how, counter), UNCHANGED server
    PROVE  TypeOK' /\ PermitsBalanced' /\ EveryJobCountedOnce'
<1>0. /\ j \in Jobs /\ TypeOK /\ PermitsBalanced /\ EveryJobCountedOnce
      /\ outcome[j] = "none" /\ how \in Outcome \ {"none"} /\ counter \in Counters
      /\ pc[j] # "done"
  BY DEF IInv, Ledger, Inside, Ends, Outcome, Counters
<1>1. Inside' = Inside \ {j}
  BY <1>0 DEF Leave, Goto, Inside, TypeOK
<1>2. PermitsBalanced' /\ permits' \in 0..MaxConcurrent
  <2>1. Inside \in SUBSET Jobs
    BY DEF Inside
  <2>2. Cardinality(Inside) \in Nat /\ Cardinality(Inside \ {j}) \in Nat
        /\ Cardinality(Inside \ {j}) = Cardinality(Inside) - 1
    BY <2>1, <1>0, JobSets
  <2>3. permits + Cardinality(Inside) = MaxConcurrent /\ permits' = permits + 1
    BY <1>0 DEF PermitsBalanced, Leave
  <2>4. permits \in 0..MaxConcurrent /\ MaxConcurrent \in Nat
    BY <1>0, ClientAssumption DEF TypeOK
  <2> QED BY <2>2, <2>3, <2>4, <1>1 DEF PermitsBalanced
<1>3. TypeOK'
  <2>1. pc' \in [Jobs -> Stage]
    BY <1>0 DEF TypeOK, Leave, Goto, Stage
  <2>2. outcome' \in [Jobs -> Outcome]
    BY <1>0 DEF TypeOK, Leave
  <2>3. metrics' \in [Counters -> Nat]
    BY <1>0 DEF TypeOK, Leave, Inc
  <2> QED BY <2>1, <2>2, <2>3, <1>2, <1>0 DEF TypeOK, Leave
<1>4. ASSUME NEW O \in SUBSET (Outcome \ {"none"})
      PROVE  Cardinality(EndedAs(O))' = Cardinality(EndedAs(O)) + (IF how \in O THEN 1 ELSE 0)
             /\ Cardinality(EndedAs(O)) \in Nat
  <2>1. EndedAs(O)' = IF how \in O THEN EndedAs(O) \union {j} ELSE EndedAs(O)
    BY <1>0 DEF EndedAs, Leave, TypeOK
  <2>2. j \notin EndedAs(O) /\ EndedAs(O) \in SUBSET Jobs
    BY <1>0 DEF EndedAs
  <2>3. Cardinality(EndedAs(O)) \in Nat
        /\ Cardinality(EndedAs(O) \union {j}) = Cardinality(EndedAs(O)) + 1
    BY <2>2, <1>0, JobSets
  <2> QED BY <2>1, <2>3
<1>5. EveryJobCountedOnce'
  <2> DEFINE C == {"completed"}
             T == {"timeout"}
             F == {"error", "rejected", "exception"}
  <2>1. /\ metrics'["completed"] = metrics["completed"] + (IF how \in C THEN 1 ELSE 0)
        /\ metrics'["timeout"] = metrics["timeout"] + (IF how \in T THEN 1 ELSE 0)
        /\ metrics'["failed"] = metrics["failed"] + (IF how \in F THEN 1 ELSE 0)
        /\ metrics'["submitted"] = metrics["submitted"] /\ registered' = registered
    BY <1>0 DEF Leave, Inc, TypeOK, Counters, Ends
  <2>2. C \in SUBSET (Outcome \ {"none"}) /\ T \in SUBSET (Outcome \ {"none"})
        /\ F \in SUBSET (Outcome \ {"none"})
    BY DEF Outcome
  <2>3. /\ Cardinality(EndedAs(C))' = metrics'["completed"]
        /\ Cardinality(EndedAs(T))' = metrics'["timeout"]
        /\ Cardinality(EndedAs(F))' = metrics'["failed"]
    <3> HIDE DEF C, T, F
    <3>1. /\ metrics["completed"] = Cardinality(EndedAs(C))
          /\ metrics["timeout"] = Cardinality(EndedAs(T))
          /\ metrics["failed"] = Cardinality(EndedAs(F))
      BY <1>0 DEF EveryJobCountedOnce, C, T, F
    <3> QED BY <3>1, <2>1, <2>2, <1>4
  <2> QED BY <2>1, <2>3, <1>0 DEF EveryJobCountedOnce
<1> QED BY <1>2, <1>3, <1>5

\* Nothing has happened yet: all permits are free and every count is zero.
LEMMA InitBooks == Init => IInv
<1> SUFFICES ASSUME Init PROVE IInv
  OBVIOUS
<1> USE ClientAssumption
<1>1. TypeOK
  BY DEF Init, TypeOK, Stage, Outcome
<1>2. Inside = {} /\ (\A O \in SUBSET (Outcome \ {"none"}) : EndedAs(O) = {}) /\ Cardinality({}) = 0
  BY FS_EmptySet DEF Init, Inside, EndedAs
<1>3. PermitsBalanced
  BY <1>2 DEF Init, PermitsBalanced
<1>4. EveryJobCountedOnce
  <2>1. EndedAs({"completed"}) = {} /\ EndedAs({"timeout"}) = {}
        /\ EndedAs({"error", "rejected", "exception"}) = {}
    BY <1>2 DEF Outcome
  <2> QED BY <2>1, <1>2 DEF EveryJobCountedOnce, Init, Counters
<1>5. ASSUME NEW j \in Jobs PROVE Ledger(j)
  BY DEF Init, Ledger, Answer, Prompts
<1> QED BY <1>1, <1>3, <1>4, <1>5 DEF IInv

\* A step inside the semaphore that counts nothing but retries.
LEMMA QuietBooks ==
    ASSUME IInv, TypeOK', permits' = permits, Inside' = Inside, outcome' = outcome,
           registered' = registered, \A c \in Counters \ {"retries"} : metrics'[c] = metrics[c]
    PROVE  PermitsBalanced' /\ EveryJobCountedOnce'
<1>1. PermitsBalanced'
  BY DEF IInv, PermitsBalanced
<1>2. \A O : EndedAs(O)' = EndedAs(O)
  BY DEF EndedAs
<1>3. EveryJobCountedOnce'
  <2>1. /\ EndedAs({"completed"})' = EndedAs({"completed"}) /\ EndedAs({"timeout"})' = EndedAs({"timeout"})
        /\ EndedAs({"error", "rejected", "exception"})' = EndedAs({"error", "rejected", "exception"})
    BY <1>2
  <2> QED BY <2>1 DEF IInv, EveryJobCountedOnce, Counters
<1> QED BY <1>1, <1>3

\* The steps of a task.
LEMMA TaskBooks == ASSUME IInv, NEW j \in Jobs, TaskStep(j) PROVE IInv'
<1> USE ClientAssumption
<1>0. TypeOK /\ PermitsBalanced /\ EveryJobCountedOnce /\ Ledger(j)
      /\ \A k \in Jobs : Ledger(k)
  BY DEF IInv
<1>1. CASE Acquire(j)
  <2>1. Inside' = Inside \union {j} /\ j \notin Inside /\ Inside \in SUBSET Jobs
    BY <1>0, <1>1 DEF Acquire, At, Goto, Inside, TypeOK
  <2>2. Cardinality(Inside \union {j}) = Cardinality(Inside) + 1 /\ Cardinality(Inside) \in Nat
    BY <2>1, JobSets
  <2>3. TypeOK'
    BY <1>0, <1>1 DEF Acquire, Goto, TypeOK, Stage
  <2>4. PermitsBalanced'
    BY <2>1, <2>2, <1>0, <1>1 DEF Acquire, PermitsBalanced, TypeOK
  <2>5. EveryJobCountedOnce'
    BY <1>0, <1>1 DEF Acquire, EveryJobCountedOnce, EndedAs
  <2>6. ASSUME NEW k \in Jobs PROVE Ledger(k)'
    BY <1>0, <1>1 DEF Acquire, At, Goto, Ledger, Answer, TypeOK
  <2> QED BY <2>3, <2>4, <2>5, <2>6 DEF IInv
<1>2. CASE Admit(j)
  <2>1. TypeOK'
    BY <1>0, <1>2 DEF Admit, Goto, TypeOK, Stage
  <2>2. Inside' = Inside
    BY <1>0, <1>2 DEF Admit, At, Goto, Inside, TypeOK
  <2>3. PermitsBalanced' /\ EveryJobCountedOnce'
    BY <2>1, <2>2, <1>2, QuietBooks DEF Admit
  <2>4. ASSUME NEW k \in Jobs PROVE Ledger(k)'
    BY <1>0, <1>2 DEF Admit, At, Goto, Ledger, Answer, TypeOK
  <2> QED BY <2>1, <2>3, <2>4 DEF IInv
<1>3. ASSUME NEW how, NEW counter, <<how, counter>> \in Ends, Leave(j, how, counter),
             UNCHANGED server, pc[j] \notin {"waiting", "done"},
             how = "rejected" => pc[j] = "entering",
             how \in {"completed", "error"} => Answer(j) = "ended"
      PROVE  IInv'
  <2>1. j \in Inside
    BY <1>3 DEF Inside
  <2>2. TypeOK' /\ PermitsBalanced' /\ EveryJobCountedOnce'
    BY <2>1, <1>3, LeaveBooks
  <2>3. how # "none"
    BY <1>3 DEF Ends
  <2>4. ASSUME NEW k \in Jobs PROVE Ledger(k)'
    <3>1. CASE k = j
      BY <3>1, <2>3, <1>0, <1>3 DEF Leave, Goto, Ledger, Answer, TypeOK
    <3>2. CASE k # j
      BY <3>2, <1>0, <1>3 DEF Leave, Goto, Ledger, Answer, TypeOK
    <3> QED BY <3>1, <3>2
  <2> QED BY <2>2, <2>4 DEF IInv
<1>4. CASE Reject(j)
  BY <1>4, <1>3 DEF Reject, At, Ends
<1>5. CASE Post(j)
  <2>0. At(j, "posting") /\ j \in DOMAIN pc /\ j \in DOMAIN attempt /\ attempt[j] \in 0..MaxRetries
    BY <1>0, <1>5 DEF Post, TypeOK
  <2>1. /\ server' \in [Prompts -> {"absent", "working", "ended"}]
        /\ \A p \in Prompts : p # <<j, attempt[j]>> => server'[p] = server[p]
    BY <1>0, <1>5 DEF Post, ServerTakes, TypeOK
  <2>2. /\ pc' \in [Jobs -> Stage] /\ attempt' \in [Jobs -> 0..MaxRetries]
        /\ metrics' \in [Counters -> Nat]
        /\ \A c \in Counters \ {"retries"} : metrics'[c] = metrics[c]
        /\ \A k \in Jobs : k # j => pc'[k] = pc[k] /\ attempt'[k] = attempt[k]
        /\ \/ pc'[j] \in {"accepted", "failed"} /\ attempt'[j] = attempt[j]
           \/ pc'[j] = "posting" /\ attempt'[j] = attempt[j] + 1
    BY <1>0, <1>5, <2>0 DEF Post, RetryOrFail, Goto, Inc, At, TypeOK, Stage, Counters
  <2>3. outcome' = outcome /\ permits' = permits /\ registered' = registered
    BY <1>5 DEF Post
  <2>4. TypeOK'
    BY <2>1, <2>2, <2>3, <1>0 DEF TypeOK
  <2>5. Inside' = Inside
    BY <2>0, <2>2 DEF Inside, At
  <2>6. PermitsBalanced' /\ EveryJobCountedOnce'
    BY <2>2, <2>3, <2>4, <2>5, QuietBooks
  <2>7. ASSUME NEW k \in Jobs PROVE Ledger(k)'
    <3>1. CASE k # j
      <4>1. \A n \in 0..MaxRetries : server'[<<k, n>>] = server[<<k, n>>]
        BY <3>1, <2>1 DEF Prompts
      <4>2. attempt'[k] \in 0..MaxRetries /\ attempt'[k] = attempt[k] /\ pc'[k] = pc[k]
        BY <3>1, <2>2, <1>0 DEF TypeOK
      <4>3. Ledger(k)
        BY <1>0
      <4> QED BY <4>1, <4>2, <4>3, <2>3 DEF Ledger, Answer
    <3>2. CASE k = j
      <4>1. \A n \in 0..MaxRetries : n # attempt[j] => server'[<<j, n>>] = server[<<j, n>>]
        BY <2>1 DEF Prompts
      <4>2. attempt'[j] \in 0..MaxRetries
        BY <2>2
      <4>3. \A n \in attempt'[j] + 1..MaxRetries : server'[<<j, n>>] = "absent"
        BY <4>1, <4>2, <2>2, <2>0, <1>0 DEF Ledger
      <4>4. pc'[j] = "posting" => Answer(j)' = "absent"
        BY <4>1, <4>2, <2>2, <2>0, <1>0 DEF Ledger, Answer
      <4> QED BY <3>2, <4>3, <4>4, <2>0, <2>2, <2>3, <1>0 DEF Ledger, At
    <3> QED BY <3>1, <3>2
  <2> QED BY <2>4, <2>6, <2>7 DEF IInv
<1>6. CASE RecordSuccess(j)
  <2>1. TypeOK'
    BY <1>0, <1>6 DEF RecordSuccess, Goto, Inc, TypeOK, Stage, Counters
  <2>2. Inside' = Inside
    BY <1>0, <1>6 DEF RecordSuccess, At, Goto, Inside, TypeOK
  <2>3. PermitsBalanced'
    BY <2>2, <1>0, <1>6 DEF RecordSuccess, PermitsBalanced
  <2>4. EveryJobCountedOnce'
    <3>1. j \notin registered /\ registered \in SUBSET Jobs
      BY <1>0, <1>6 DEF RecordSuccess, At, Ledger, TypeOK
    <3>2. Cardinality(registered') = Cardinality(registered) + 1
      BY <3>1, <1>6, JobSets DEF RecordSuccess
    <3>3. metrics' = [metrics EXCEPT !["submitted"] = @ + 1] /\ outcome' = outcome
      BY <1>6 DEF RecordSuccess, Inc
    <3>4. /\ EndedAs({"completed"})' = EndedAs({"completed"}) /\ EndedAs({"timeout"})' = EndedAs({"timeout"})
          /\ EndedAs({"error", "rejected", "exception"})' = EndedAs({"error", "rejected", "exception"})
      BY <3>3 DEF EndedAs
    <3> QED BY <3>2, <3>3, <3>4, <1>0 DEF EveryJobCountedOnce, TypeOK, Counters
  <2>5. ASSUME NEW k \in Jobs PROVE Ledger(k)'
    BY <1>0, <1>6 DEF RecordSuccess, At, Goto, Ledger, Answer, TypeOK
  <2> QED BY <2>1, <2>3, <2>4, <2>5 DEF IInv
<1>7. CASE RecordFailure(j)
  BY <1>7, <1>3 DEF RecordFailure, At, Ends
<1>8. CASE SeeResult(j)
  BY <1>8, <1>3 DEF SeeResult, At, Ends
<1>9. CASE TimeOut(j)
  BY <1>9, <1>3 DEF TimeOut, At, Ends
<1> QED BY <1>1, <1>2, <1>4, <1>5, <1>6, <1>7, <1>8, <1>9 DEF TaskStep

\* The steps of the server and of the clock, and the end.
LEMMA NextBooks == IInv /\ [Next]_vars => IInv'
<1> SUFFICES ASSUME IInv, [Next]_vars PROVE IInv'
  OBVIOUS
<1> USE ClientAssumption
<1>0. TypeOK /\ \A k \in Jobs : Ledger(k)
  BY DEF IInv
<1>1. ASSUME NEW j \in Jobs, TaskStep(j) PROVE IInv'
  BY <1>1, TaskBooks
<1>2. ASSUME NEW p \in Prompts, ServerEnds(p) PROVE IInv'
  <2>1. task' = task /\ pc' = pc /\ outcome' = outcome /\ permits' = permits
        /\ attempt' = attempt /\ registered' = registered /\ metrics' = metrics
    BY <1>2 DEF ServerEnds, task
  <2>2. server' = [server EXCEPT ![p] = "ended"] /\ server[p] = "working"
    BY <1>2 DEF ServerEnds
  <2>3. TypeOK'
    BY <2>1, <2>2, <1>0 DEF TypeOK
  <2>4. PermitsBalanced' /\ EveryJobCountedOnce'
    BY <2>1 DEF IInv, PermitsBalanced, Inside, EveryJobCountedOnce, EndedAs
  <2>5. ASSUME NEW k \in Jobs PROVE Ledger(k)'
    <3>1. \A q \in Prompts : server[q] \in {"absent", "ended"} => server'[q] = server[q]
      BY <2>2, <1>0 DEF TypeOK
    <3>2. attempt[k] \in 0..MaxRetries /\ \A n \in 0..MaxRetries : <<k, n>> \in Prompts
      BY <1>0 DEF TypeOK, Prompts
    <3>3. Ledger(k)
      BY <1>0
    <3> QED BY <2>1, <3>1, <3>2, <3>3 DEF Ledger, Answer
  <2> QED BY <2>3, <2>4, <2>5 DEF IInv
<1>3. CASE UNCHANGED <<task, server>>
  BY <1>3 DEF IInv, TypeOK, PermitsBalanced, Inside, EveryJobCountedOnce, EndedAs, Ledger, Answer, task
<1>4. CASE ClockRuns
  BY <1>4, <1>3 DEF ClockRuns
<1>5. CASE UNCHANGED vars
  BY <1>5, <1>3 DEF vars
<1>6. CASE Return
  BY <1>6, <1>5 DEF Return
<1> QED BY <1>1, <1>2, <1>4, <1>5, <1>6 DEF Next

LEMMA Books == Spec => []IInv
BY InitBooks, NextBooks, PTL DEF Spec

\* The state of a batch stays within its type: no attempt beyond max_retries, never
\* more permits than max_concurrent.
THEOREM TypeCorrect == Spec => []TypeOK
<1>1. IInv => TypeOK
  BY DEF IInv
<1> QED BY <1>1, Books, PTL

\* No way out of run_job keeps or doubles a permit of the semaphore.
THEOREM PermitsNeverLost == Spec => []PermitsBalanced
<1>1. IInv => PermitsBalanced
  BY DEF IInv
<1> QED BY <1>1, Books, PTL

\* The counters of MetricsCollector agree with what became of the jobs.
THEOREM MetricsAgree == Spec => []EveryJobCountedOnce
<1>1. IInv => EveryJobCountedOnce
  BY DEF IInv
<1> QED BY <1>1, Books, PTL

\* What an ended job leaves on the server is what its outcome allows.
THEOREM LeftoversAreExplained == Spec => []LeftoversExplained
<1>1. IInv => LeftoversExplained
  <2> SUFFICES ASSUME IInv, NEW j \in Jobs PROVE
        /\ outcome[j] = "rejected" => \A n \in 0..MaxRetries : server[<<j, n>>] = "absent"
        /\ outcome[j] \in {"completed", "error"} => Answer(j) = "ended"
        /\ \A n \in attempt[j] + 1..MaxRetries : server[<<j, n>>] = "absent"
    BY DEF LeftoversExplained
  <2>1. Ledger(j) /\ attempt[j] \in 0..MaxRetries
    BY DEF IInv, TypeOK
  <2> QED BY <2>1, ClientAssumption DEF Ledger, Answer
<1> QED BY <1>1, Books, PTL
=============================================================================
