------------------------ MODULE CircuitBreakerProofs ------------------------
(***************************************************************************)
(* Proofs about CircuitBreaker, for every set of callers and every         *)
(* threshold.  The inductive invariant adds to the type the accounting of  *)
(* the half-open quota: without it nothing bounds the number of successes  *)
(* and of abandoned probes, and nothing says who will move a breaker whose *)
(* quota is spent.                                                         *)
(***************************************************************************)
EXTENDS CircuitBreaker, FiniteSetTheorems, TLAPS

IInv == TypeOK /\ ClosedBelowThreshold /\ QuotaAccounted

\* Whatever is in flight is a finite set, so probes can be counted.
LEMMA FiniteProbes == TypeOK => IsFiniteSet(probes) /\ Cardinality(probes) \in Nat
BY CallersAssumption, FS_Subset, FS_CardinalityType DEF TypeOK

\* How the number of probes changes when one is added or removed.
LEMMA CountProbes ==
    ASSUME NEW c, NEW P, IsFiniteSet(P)
    PROVE  /\ Cardinality({c}) = 1
           /\ c \notin P => Cardinality(P \union {c}) = Cardinality(P) + 1
           /\ c \in P => Cardinality(P \ {c}) = Cardinality(P) - 1
           /\ c \notin P => P \ {c} = P
<1>1. c \notin P => Cardinality(P \union {c}) = Cardinality(P) + 1
  BY FS_AddElement
<1>2. c \in P => Cardinality(P \ {c}) = Cardinality(P) - 1
  BY FS_RemoveElement
<1>3. Cardinality({c}) = 1
  BY FS_Singleton
<1> QED BY <1>1, <1>2, <1>3

\* The initial state: closed, nothing counted, nobody in flight.
LEMMA InitIInv == Init => IInv
<1> SUFFICES ASSUME Init PROVE IInv
  OBVIOUS
<1>1. TypeOK
  BY ThresholdAssumption DEF Init, TypeOK, CircuitState
<1>2. ClosedBelowThreshold /\ QuotaAccounted
  BY ThresholdAssumption DEF Init, ClosedBelowThreshold, QuotaAccounted
<1> QED BY <1>1, <1>2 DEF IInv

\* A call that is admitted, in each of the three states.
LEMMA CallIInv == ASSUME IInv, NEW c \in Callers, Call(c) PROVE IInv'
<1> USE ThresholdAssumption
<1>0. TypeOK /\ IsFiniteSet(probes) /\ Cardinality(probes) \in Nat
  BY FiniteProbes DEF IInv
<1>1. CASE AdmitClosed
  BY <1>0, <1>1 DEF IInv, TypeOK, ClosedBelowThreshold, QuotaAccounted, Call, AdmitClosed
<1>2. CASE state = "OPEN" /\ ShouldAttemptReset /\ StartProbing(c)
  <2>1. Cardinality({c}) = 1
    BY FS_Singleton
  <2>2. QuotaAccounted'
    BY <2>1, <1>2, <1>0 DEF QuotaAccounted, StartProbing, Call, TypeOK
  <2>3. TypeOK' /\ ClosedBelowThreshold'
    BY <1>0, <1>2 DEF TypeOK, ClosedBelowThreshold, StartProbing, Call, CircuitState
  <2> QED BY <2>2, <2>3 DEF IInv
<1>3. CASE AdmitProbe(c)
  <2>1. c \notin probes
    BY <1>0 DEF Call, TypeOK
  <2>2. Cardinality(probes \union {c}) = Cardinality(probes) + 1
    BY <2>1, <1>0, CountProbes
  <2>3. QuotaAccounted'
    BY <2>2, <1>3, <1>0 DEF IInv, QuotaAccounted, AdmitProbe, Call, TypeOK
  <2>4. TypeOK' /\ ClosedBelowThreshold'
    BY <1>0, <1>3 DEF TypeOK, ClosedBelowThreshold, AdmitProbe, QuotaLeft, Call
  <2> QED BY <2>3, <2>4 DEF IInv
<1> QED BY <1>1, <1>2, <1>3 DEF Call

\* An outcome that is recorded.  In a half-open episode a success of a probe
\* moves one unit from "out" to "counted"; a latecomer only adds one.
LEMMA ReturnIInv ==
    ASSUME IInv, NEW c \in Callers, Succeed(c) \/ Fail(c) PROVE IInv'
<1> USE ThresholdAssumption
<1>0. TypeOK /\ IsFiniteSet(probes) /\ Cardinality(probes) \in Nat
  BY FiniteProbes DEF IInv
<1>1. Cardinality(probes \ {c}) \in {Cardinality(probes), Cardinality(probes) - 1}
  BY <1>0, CountProbes
<1>2. CASE Succeed(c)
  <2>1. TypeOK'
    BY <1>0, <1>2 DEF IInv, TypeOK, QuotaAccounted, Succeed, OnSuccess, Return, Close, EnoughSuccesses, CircuitState
  <2>2. ClosedBelowThreshold'
    BY <1>0, <1>2 DEF IInv, TypeOK, ClosedBelowThreshold, Succeed, OnSuccess, Close
  <2>3. QuotaAccounted'
    BY <1>0, <1>1, <1>2 DEF IInv, TypeOK, QuotaAccounted, Succeed, OnSuccess, Return, Close, EnoughSuccesses
  <2> QED BY <2>1, <2>2, <2>3 DEF IInv
<1>3. CASE Fail(c)
  <2>1. TypeOK'
    <3>1. failures' \in 0..MaxFailures /\ state' \in CircuitState
      BY <1>0, <1>3 DEF TypeOK, Fail, OnFailure, CircuitState
    <3>2. probes' \in SUBSET inflight' /\ inflight' \in SUBSET Callers
      BY <1>0, <1>3 DEF TypeOK, Fail, Return
    <3> QED BY <3>1, <3>2, <1>0, <1>3 DEF TypeOK, Fail, OnFailure, Return
  <2>2. ClosedBelowThreshold'
    BY <1>0, <1>3 DEF IInv, TypeOK, ClosedBelowThreshold, Fail, OnFailure
  <2>3. QuotaAccounted'
    BY <1>0, <1>3 DEF IInv, TypeOK, QuotaAccounted, Fail, OnFailure, Return
  <2> QED BY <2>1, <2>2, <2>3 DEF IInv
<1> QED BY <1>2, <1>3

\* A cancelled call moves one unit of quota from "out" to "abandoned".
LEMMA CancelIInv == ASSUME IInv, NEW c \in Callers, Cancel(c) PROVE IInv'
<1> USE ThresholdAssumption
<1>0. TypeOK /\ IsFiniteSet(probes) /\ Cardinality(probes) \in Nat
  BY FiniteProbes DEF IInv
<1>1. CASE c \in probes
  <2>1. Cardinality(probes \ {c}) = Cardinality(probes) - 1 /\ state = "HALF_OPEN"
    BY <1>0, <1>1, CountProbes DEF IInv, QuotaAccounted
  <2>2. Cardinality(probes \ {c}) \in Nat
    BY <1>0, FS_RemoveElement, FS_CardinalityType
  <2>3. TypeOK'
    BY <2>1, <2>2, <1>0, <1>1 DEF IInv, TypeOK, QuotaAccounted, Cancel
  <2>4. ClosedBelowThreshold' /\ QuotaAccounted'
    BY <2>1, <1>0, <1>1 DEF IInv, TypeOK, ClosedBelowThreshold, QuotaAccounted, Cancel
  <2> QED BY <2>3, <2>4 DEF IInv
<1>2. CASE c \notin probes
  <2>1. probes' = probes /\ abandoned' = abandoned
    BY <1>2 DEF Cancel
  <2>2. TypeOK'
    BY <2>1, <1>0, <1>2 DEF TypeOK, Cancel
  <2>3. ClosedBelowThreshold' /\ QuotaAccounted'
    BY <2>1 DEF IInv, ClosedBelowThreshold, QuotaAccounted, Cancel
  <2> QED BY <2>2, <2>3 DEF IInv
<1> QED BY <1>1, <1>2

\* Every step keeps the inductive invariant.
LEMMA NextIInv == IInv /\ [Next]_vars => IInv'
<1> SUFFICES ASSUME IInv, [Next]_vars PROVE IInv'
  OBVIOUS
<1>1. ASSUME NEW c \in Callers, Call(c) PROVE IInv'
  BY <1>1, CallIInv
<1>2. ASSUME NEW c \in Callers, Succeed(c) \/ Fail(c) PROVE IInv'
  BY <1>2, ReturnIInv
<1>3. ASSUME NEW c \in Callers, Cancel(c) PROVE IInv'
  BY <1>3, CancelIInv
<1>4. CASE Elapse
  BY <1>4 DEF IInv, TypeOK, ClosedBelowThreshold, QuotaAccounted, Elapse
<1>5. CASE UNCHANGED vars
  BY <1>5 DEF IInv, TypeOK, ClosedBelowThreshold, QuotaAccounted, vars
<1>6. ASSUME NEW c \in Callers, Reject(c) PROVE IInv'
  BY <1>6, <1>5 DEF Reject
<1> QED BY <1>1, <1>2, <1>3, <1>4, <1>5, <1>6 DEF Next

\* The quota arithmetic leaves a probe out whenever the quota is spent.
LEMMA IInvNoWedge == IInv => NoWedge
<1> SUFFICES ASSUME IInv, state = "HALF_OPEN", ~QuotaLeft, LossTolerated, probes = {}
             PROVE  FALSE
  BY DEF NoWedge
<1>1. Cardinality(probes) = 0
  BY FS_EmptySet
<1>2. QuotaAccounted /\ TypeOK
  BY DEF IInv
<1> QED BY <1>1, <1>2, ThresholdAssumption DEF QuotaAccounted, QuotaLeft, LossTolerated, TypeOK

LEMMA Invariance == Spec => []IInv
BY InitIInv, NextIInv, PTL DEF Spec

\* The breaker's state stays within its type.
THEOREM TypeCorrect == Spec => []TypeOK
<1>1. IInv => TypeOK
  BY DEF IInv
<1> QED BY <1>1, Invariance, PTL

\* engine/circuit_breaker.py never leaves a circuit closed with its failure
\* counter at or over failure_threshold.
THEOREM TripsInTime == Spec => []ClosedBelowThreshold
<1>1. IInv => ClosedBelowThreshold
  BY DEF IInv
<1> QED BY <1>1, Invariance, PTL

\* Whatever the thresholds, a half-open breaker whose quota is spent waits for a
\* probe, as long as cancellations leave success_threshold of the quota.
THEOREM NeverWedged == Spec => []NoWedge
BY IInvNoWedge, Invariance, PTL

\* Every unit of the half-open quota is accounted for.
THEOREM QuotaIsAccounted == Spec => []QuotaAccounted
<1>1. IInv => QuotaAccounted
  BY DEF IInv
<1> QED BY <1>1, Invariance, PTL
=============================================================================
