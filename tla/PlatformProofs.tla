--------------------------- MODULE PlatformProofs ---------------------------
(***************************************************************************)
(* What the platform promises, for every value of its parameters.          *)
(***************************************************************************)
EXTENDS MCPlatform, FiniteSetTheorems, WellFoundedInduction, TLAPS

\* A set of numbers that is not empty has a least one.
LEMMA LeastExists ==
    ASSUME NEW S \in SUBSET Nat, S # {}
    PROVE  \E x \in S : \A y \in S : x <= y
<1>1. PICK x \in S : \A y \in S : <<y, x>> \notin OpToRel(<, Nat)
    BY NatLessThanWellFounded, WFMin
<1>2. \A y \in S : ~(y < x)
    BY <1>1, Zenon DEF OpToRel
<1> QED BY <1>2

-----------------------------------------------------------------------------
(* The regions.                                                            *)

\* Every check that got no answer is among the failures, and a region that was never heard of
\* has missed none.
MissesAreFailures ==
    \A r \in Region!Names :
        /\ missed[r] <= failures[r]
        /\ status[r] = "unknown" => missed[r] = 0

RegionInv ==
    /\ status \in [Region!Names -> {"unknown", "HEALTHY", "DEGRADED", "UNAVAILABLE", "MAINTENANCE"}]
    /\ failures \in [Region!Names -> 0..3] /\ missed \in [Region!Names -> 0..3]
    /\ MissesAreFailures
    /\ Region!ThreeStrikes

LEMMA RegionInit == ASSUME Region!Init PROVE RegionInv
BY DEF Region!Init, Region!Unknown, RegionInv, MissesAreFailures, Region!ThreeStrikes

\* What leaves the answers of the checks as they are, but for maintenance.
LEMMA RegionRests ==
    ASSUME RegionInv, UNCHANGED <<failures, missed>>,
           \/ UNCHANGED status
           \/ \E r \in Region!Names :
                status[r] # "unknown" /\ status' = [status EXCEPT ![r] = "MAINTENANCE"]
    PROVE  RegionInv'
BY DEF RegionInv, MissesAreFailures, Region!ThreeStrikes

LEMMA AnswersKeeps ==
    ASSUME RegionInv, NEW r \in Region!Names, Region!Healthy(r) \/ Region!Degraded(r)
    PROVE  RegionInv'
<1>1. /\ \E s \in {"HEALTHY", "DEGRADED"} : status' = [status EXCEPT ![r] = s]
      /\ \E n \in 0..1 : failures' = [failures EXCEPT ![r] = n]
      /\ missed' = [missed EXCEPT ![r] = 0]
    BY DEF Region!Healthy, Region!Degraded, Region!Answers
<1> QED BY <1>1 DEF RegionInv, MissesAreFailures, Region!ThreeStrikes

\* The third miss in a row is a third failure.
LEMMA FailureKeeps ==
    ASSUME RegionInv, NEW r \in Region!Names, Region!RecordFailure(r)
    PROVE  RegionInv'
<1> DEFINE n == IF status[r] = "unknown" THEN 1 ELSE Region!Three(failures[r] + 1)
<1>1. /\ failures' = [failures EXCEPT ![r] = n]
      /\ missed' = [missed EXCEPT ![r] = Region!Three(@ + 1)]
      /\ status' = IF status[r] = "unknown" \/ n >= 3
                   THEN [status EXCEPT ![r] = "UNAVAILABLE"] ELSE status
    BY DEF Region!RecordFailure, Region!Unknown
<1>2. n \in 0..3 /\ Region!Three(missed[r] + 1) \in 0..3
    BY DEF RegionInv, Region!Three
<1>3. Region!Three(missed[r] + 1) <= n /\ Region!Three(missed[r] + 1) > 0
    BY DEF RegionInv, MissesAreFailures, Region!Three
<1>4. Region!Three(missed[r] + 1) >= 3 => n >= 3
    BY <1>2, <1>3
<1> HIDE DEF n
<1> QED BY <1>1, <1>2, <1>3, <1>4 DEF RegionInv, MissesAreFailures, Region!ThreeStrikes

LEMMA RegionNext == ASSUME RegionInv, [Region!Next]_regionVars PROVE RegionInv'
<1>1. CASE UNCHANGED regionVars
    BY <1>1, RegionRests DEF regionVars
<1>2. CASE Region!CheckAllRegions \/ Region!RouteJob \/ \E d \in BOOLEAN : Region!ReplicateToRegion(d)
    BY <1>2, RegionRests
       DEF Region!CheckAllRegions, Region!RouteJob, Region!ReplicateToRegion, Region!health
<1>3. CASE \E r \in Region!Names : Region!ReplicateData(r) \/ \E on \in BOOLEAN : Region!SetMaintenance(r, on)
    BY <1>3, RegionRests DEF Region!ReplicateData, Region!SetMaintenance, Region!health, Region!Unknown
<1>4. CASE \E r \in Region!Names : Region!Healthy(r) \/ Region!Degraded(r) \/ Region!RecordFailure(r)
    BY <1>4, AnswersKeeps, FailureKeeps
<1> QED BY <1>1, <1>2, <1>3, <1>4 DEF Region!Next

\* Of finitely many things in an order without cycles one is first.
LEMMA FirstOfFinite ==
    ASSUME NEW S, IsFiniteSet(S), S # {}, NEW R,
           \A x \in S : <<x, x>> \notin R,
           \A x, y, z \in S : <<x, y>> \in R /\ <<y, z>> \in R => <<x, z>> \in R
    PROVE  \E x \in S : \A y \in S : <<y, x>> \notin R
<1> DEFINE Below(x) == {y \in S : <<y, x>> \in R}
           N == {Cardinality(Below(x)) : x \in S}
<1>1. \A x \in S : IsFiniteSet(Below(x)) /\ Cardinality(Below(x)) \in Nat
    <2>1. \A x \in S : Below(x) \in SUBSET S
        OBVIOUS
    <2> HIDE DEF Below
    <2> QED BY <2>1, FS_Subset, FS_CardinalityType
<1>2. ASSUME NEW x \in S, NEW y \in S, <<y, x>> \in R
      PROVE  Cardinality(Below(y)) < Cardinality(Below(x))
    <2>1. Below(y) \in SUBSET Below(x) /\ Below(y) # Below(x)
        BY <1>2
    <2> HIDE DEF Below
    <2>2. Cardinality(Below(y)) <= Cardinality(Below(x)) /\ Cardinality(Below(y)) # Cardinality(Below(x))
        BY <1>1, <2>1, FS_Subset
    <2> QED BY <1>1, <2>2
<1> HIDE DEF Below
<1>3. N \in SUBSET Nat /\ N # {}
    BY <1>1
<1>4. PICK n \in N : \A m \in N : n <= m
    <2> HIDE DEF N
    <2> QED BY <1>3, LeastExists
<1>5. PICK x \in S : n = Cardinality(Below(x))
    OBVIOUS
<1>6. \A y \in S : Cardinality(Below(x)) <= Cardinality(Below(y))
    BY <1>4, <1>5
<1>7. \A y \in S : <<y, x>> \notin R
    BY <1>1, <1>2, <1>6
<1> QED BY <1>7

\* get_best_region() finds a candidate that none is before, or else one of the fallback.
LEMMA FirstOfRegions ==
    ASSUME NEW rs \in SUBSET Region!Names, rs # {} PROVE Region!First(rs) \in rs
<1> DEFINE I == {i \in DOMAIN Regions : Regions[i] \in rs}
<1>1. DOMAIN Regions = 1..Len(Regions) /\ Len(Regions) \in Nat
    BY RegionParameters
<1>2. I \subseteq Nat /\ I # {}
    BY <1>1 DEF Region!Names, Region!ToSet
<1>3. PICK i \in I : \A k \in I : i <= k
    BY <1>2, LeastExists
<1>4. \A k \in 1..(i - 1) : Regions[k] \notin rs
    BY <1>1, <1>2, <1>3
<1>5. \E j \in DOMAIN Regions : Regions[j] \in rs /\ \A k \in 1..(j - 1) : Regions[k] \notin rs
    BY <1>3, <1>4
<1> QED BY <1>5 DEF Region!First

LEMMA BestExists ==
    ASSUME Region!Candidates # {}
    PROVE  \E r \in Region!Candidates : \A q \in Region!Candidates : ~Region!Before(q, r)
<1> DEFINE R == {p \in Region!Names \X Region!Names : Region!Before(p[1], p[2])}
<1>1. IsFiniteSet(Region!Candidates) /\ Region!Candidates \subseteq Region!Names
    <2>1. IsFiniteSet(Region!Names)
        <3>1. DOMAIN Regions = 1..Len(Regions) /\ Len(Regions) \in Nat
            BY RegionParameters
        <3>2. IsFiniteSet(1..Len(Regions))
            BY <3>1, FS_Interval
        <3>3. Regions \in Surjection(1..Len(Regions), Region!Names)
            BY <3>1, RegionParameters DEF Region!Names, Region!ToSet, Surjection
        <3> QED BY <3>2, <3>3, FS_Surjection
    <2> QED BY <2>1, FS_Subset DEF Region!Candidates
<1>2. /\ \A x \in Region!Candidates : <<x, x>> \notin R
      /\ \A x, y, z \in Region!Candidates : <<x, y>> \in R /\ <<y, z>> \in R => <<x, z>> \in R
    BY <1>1, RegionParameters DEF Region!Before
<1>3. PICK r \in Region!Candidates : \A q \in Region!Candidates : <<q, r>> \notin R
    BY <1>1, <1>2, FirstOfFinite
<1> QED BY <1>1, <1>3

LEMMA FailoverImplied ==
    ASSUME [Region!Next]_regionVars, routed' # routed, routed' # Region!NoRegion
    PROVE  active[routed'] /\ \A r \in Region!Candidates : Priority[routed'] <= Priority[r]
<1>1. routed' = Region!BestRegion
    BY DEF Region!Next, regionVars, Region!CheckAllRegions, Region!RouteJob, Region!Healthy,
       Region!Degraded, Region!Answers, Region!RecordFailure, Region!Checked,
       Region!SetMaintenance, Region!ReplicateData, Region!ReplicateToRegion
<1>2. CASE Region!Candidates # {}
    <2> DEFINE best == {r \in Region!Candidates : \A q \in Region!Candidates : ~Region!Before(q, r)}
    <2>1. best \in SUBSET Region!Names /\ best # {}
        BY <1>2, BestExists DEF Region!Candidates
    <2>2. routed' \in best
        BY <1>1, <1>2, <2>1, FirstOfRegions DEF Region!BestRegion
    <2>3. \A r \in Region!Candidates : r \in Region!Names /\ Priority[r] \in Int
        BY RegionParameters DEF Region!Candidates
    <2> QED BY <2>2, <2>3 DEF Region!Candidates, Region!Before
<1>3. CASE Region!Candidates = {}
    <2>1. Region!Fallback # {} /\ routed' = Region!First(Region!Fallback)
        BY <1>1, <1>3 DEF Region!BestRegion
    <2>2. routed' \in Region!Fallback
        BY <2>1, FirstOfRegions DEF Region!Fallback
    <2> QED BY <1>3, <2>2 DEF Region!Fallback
<1> QED BY <1>2, <1>3

-----------------------------------------------------------------------------
(* The cluster.                                                            *)

HostInv ==
    /\ nodes \in [Hosts -> [fresh : BOOLEAN, status : {"none", "healthy", "offline"}]]
    /\ Cluster!FreshIsHealthy

LEMMA HostInit == ASSUME Cluster!Init PROVE HostInv
BY DEF Cluster!Init, Cluster!NoRecord, HostInv, Cluster!FreshIsHealthy

\* Records that are written anew, and that get old.
LEMMA RecordTypes ==
    ASSUME NEW n \in [fresh : BOOLEAN, status : {"none", "healthy", "offline"}]
    PROVE  /\ [n EXCEPT !.fresh = FALSE] \in [fresh : BOOLEAN, status : {"none", "healthy", "offline"}]
           /\ ~[n EXCEPT !.fresh = FALSE].fresh
BY Zenon

LEMMA NewRecords ==
    ASSUME NEW n \in {Cluster!Registered, Cluster!NoRecord, [fresh |-> FALSE, status |-> "offline"]}
    PROVE  /\ n \in [fresh : BOOLEAN, status : {"none", "healthy", "offline"}]
           /\ n.fresh => n.status = "healthy"
<1>1. CASE n = Cluster!Registered
    BY <1>1 DEF Cluster!Registered
<1>2. CASE n = Cluster!NoRecord
    BY <1>2 DEF Cluster!NoRecord
<1>3. CASE n = [fresh |-> FALSE, status |-> "offline"]
    BY <1>3
<1> QED BY <1>1, <1>2, <1>3

LEMMA HostNext == ASSUME HostInv, [Cluster!Next]_clusterVars PROVE HostInv'
<1> USE DEF HostInv, Cluster!FreshIsHealthy
<1>1. CASE UNCHANGED nodes
    BY <1>1
<1>2. CASE \E h \in Hosts : \E n \in {Cluster!Registered, Cluster!NoRecord, [fresh |-> FALSE, status |-> "offline"]} :
                nodes' = [nodes EXCEPT ![h] = n]
    <2>1. PICK h \in Hosts, n \in {Cluster!Registered, Cluster!NoRecord, [fresh |-> FALSE, status |-> "offline"]} :
                nodes' = [nodes EXCEPT ![h] = n]
        BY <1>2
    <2> QED BY <2>1, NewRecords
<1>3. ASSUME NEW h \in Hosts, Cluster!MissHeartbeats(h) PROVE HostInv'
    <2>1. nodes' = [nodes EXCEPT ![h] = [nodes[h] EXCEPT !.fresh = FALSE]]
        BY <1>3 DEF Cluster!MissHeartbeats
    <2> QED BY <2>1, RecordTypes
<1>4. CASE Cluster!Expire
    BY <1>4 DEF Cluster!Expire, Cluster!NoRecord
<1>5. [Cluster!HostNext]_nodes => \/ UNCHANGED nodes
                                  \/ \E h \in Hosts : \E n \in {Cluster!Registered, Cluster!NoRecord,
                                            [fresh |-> FALSE, status |-> "offline"]} :
                                        nodes' = [nodes EXCEPT ![h] = n]
                                  \/ \E h \in Hosts : Cluster!MissHeartbeats(h)
                                  \/ Cluster!Expire
    BY DEF Cluster!HostNext, Cluster!Initialize, Cluster!SendHeartbeat, Cluster!Die,
           Cluster!Shutdown, Cluster!ReadNodes, Cluster!MarkOffline, Cluster!RegisterModel,
           Cluster!Schedule, Cluster!SubmitJob, Cluster!redis
<1>6. Cluster!WorkerNext => UNCHANGED nodes
    BY DEF Cluster!WorkerNext, Cluster!Poll, Cluster!Execute, Cluster!Report, Cluster!cluster,
           Cluster!redis
<1>7. UNCHANGED clusterVars => UNCHANGED nodes
    BY DEF clusterVars
<1> QED BY <1>1, <1>2, <1>3, <1>4, <1>5, <1>6, <1>7 DEF Cluster!Next

\* The worker has at most one task in hand; what it has polled besides are other tasks without
\* a result.
TaskOnce ==
    /\ \A i, k \in 1..Len(work) : work[i] = work[k] => i = k
    /\ \A i \in 1..Len(work) : result[work[i]] = "none" /\ work[i] # executing
    /\ executing # "none" =>
        /\ result[executing] = "none" /\ report \in {"completed", "failed"}
        /\ report = "completed" => executions[executing] > 0

\* One execution is free, when the task is in hand or its result is known; each of the others
\* has lost a report.
ExecutionsAccounted ==
    \A t \in Tasks :
        /\ executions[t] <= lost[t] + IF result[t] = "none" /\ executing # t THEN 0 ELSE 1
        /\ result[t] = "completed" => executions[t] > 0

WorkerInv ==
    /\ work \in Seq(Tasks) /\ executing \in Tasks \union {"none"}
    /\ executions \in [Tasks -> Nat] /\ lost \in [Tasks -> Nat]
    /\ result \in [Tasks -> {"none", "completed", "failed"}]
    /\ TaskOnce /\ ExecutionsAccounted

LEMMA ClusterCount == \A S : Cluster!Cardinality(S) = Cardinality(S)
BY Zenon DEF Cluster!Cardinality, Cardinality

\* A finite set as a sequence has each of its elements once.
LEMMA TasksInOrder ==
    ASSUME NEW S \in SUBSET Tasks
    PROVE  /\ Cluster!SetToSeq(S) \in Seq(S)
           /\ \A i, k \in 1..Len(Cluster!SetToSeq(S)) :
                Cluster!SetToSeq(S)[i] = Cluster!SetToSeq(S)[k] => i = k
<1>1. IsFiniteSet(S)
    BY ClusterParameters, FS_Subset
<1>2. Cardinality(S) \in Nat /\ ExistsBijection(1..Cardinality(S), S)
    BY <1>1, FS_CardinalityType
<1>3. \E f \in [1..Cardinality(S) -> S] : Cluster!IsInjective(f)
    BY <1>2 DEF ExistsBijection, Bijection, Injection, Surjection, IsInjective, Cluster!IsInjective
<1>4. Cluster!SetToSeq(S) = CHOOSE f \in [1..Cardinality(S) -> S] : Cluster!IsInjective(f)
    BY ClusterCount, Zenon DEF Cluster!SetToSeq
<1>5. Cluster!SetToSeq(S) \in [1..Cardinality(S) -> S] /\ Cluster!IsInjective(Cluster!SetToSeq(S))
    BY <1>3, <1>4, Zenon
<1> HIDE DEF Cluster!SetToSeq
<1>6. Cluster!SetToSeq(S) \in Seq(S) /\ Len(Cluster!SetToSeq(S)) = Cardinality(S)
    BY <1>2, <1>5
<1> QED BY <1>5, <1>6 DEF Cluster!IsInjective

LEMMA WorkerInit == ASSUME Cluster!Init PROVE WorkerInv
BY ClusterParameters DEF Cluster!Init, Cluster!NoTask, WorkerInv, TaskOnce, ExecutionsAccounted

LEMMA PollKeeps == ASSUME WorkerInv, Cluster!Poll PROVE WorkerInv'
<1> USE DEF WorkerInv
<1>1. PICK S \in SUBSET {t \in Tasks : result[t] = "none"} : work' = Cluster!SetToSeq(S)
    BY DEF Cluster!Poll
<1>2. UNCHANGED <<executing, executions, report, result, lost>> /\ executing = "none"
    BY DEF Cluster!Poll, Cluster!NoTask
<1>3. /\ work' \in Seq(S)
      /\ \A i, k \in 1..Len(work') : work'[i] = work'[k] => i = k
    BY <1>1, TasksInOrder
<1>4. \A i \in 1..Len(work') : work'[i] \in S
    BY <1>3
<1>5. work' \in Seq(Tasks)
    BY <1>3
<1>6. TaskOnce'
    BY <1>1, <1>2, <1>3, <1>4, ClusterParameters DEF TaskOnce
<1> QED BY <1>2, <1>5, <1>6 DEF ExecutionsAccounted

LEMMA ExecuteKeeps == ASSUME WorkerInv, Cluster!Execute PROVE WorkerInv'
<1> USE DEF WorkerInv
<1> DEFINE t == Head(work)
<1>1. /\ work # <<>> /\ executing = "none" /\ executing' = t /\ work' = Tail(work)
      /\ UNCHANGED <<result, lost>>
    BY DEF Cluster!Execute, Cluster!NoTask
<1>2. /\ report' \in {"completed", "failed"}
      /\ \E n \in 0..1 : executions' = [executions EXCEPT ![t] = @ + n] /\ (report' = "completed" => n = 1)
    <2>1. CASE report' = "failed" /\ UNCHANGED executions
        <3>1. t \in Tasks
            BY <1>1
        <3>2. executions[t] + 0 = executions[t]
            BY <3>1
        <3> HIDE DEF t
        <3>3. executions = [executions EXCEPT ![t] = executions[t]]
            BY <3>1
        <3>4. executions' = [executions EXCEPT ![t] = @ + 0]
            BY <2>1, <3>2, <3>3
        <3> QED BY <2>1, <3>4
    <2>2. CASE report' \in {"completed", "failed"} /\ executions' = [executions EXCEPT ![t] = @ + 1]
        BY <2>2
    <2> QED BY <2>1, <2>2 DEF Cluster!Execute
<1>3. /\ t = work[1] /\ t \in Tasks /\ 1 \in 1..Len(work) /\ Tail(work) \in Seq(Tasks)
      /\ Len(Tail(work)) = Len(work) - 1
      /\ \A i \in 1..Len(Tail(work)) : Tail(work)[i] = work[i + 1] /\ i + 1 \in 1..Len(work)
    BY <1>1
<1>4. result[t] = "none" /\ \A i \in 1..Len(Tail(work)) : Tail(work)[i] # t
    <2>1. \A i \in 1..Len(Tail(work)) : i + 1 # 1
        OBVIOUS
    <2> QED BY <1>3, <2>1 DEF TaskOnce
<1> HIDE DEF t
<1>5. /\ executions' \in [Tasks -> Nat] /\ executions'[t] \in executions[t]..executions[t] + 1
      /\ report' = "completed" => executions'[t] > 0
      /\ \A u \in Tasks \ {t} : executions'[u] = executions[u]
    BY <1>2, <1>3
<1>6. ExecutionsAccounted'
    <2>1. ASSUME NEW u \in Tasks \ {t}
          PROVE  /\ executions'[u] <= lost'[u] + IF result'[u] = "none" /\ executing' # u THEN 0 ELSE 1
                 /\ result'[u] = "completed" => executions'[u] > 0
        BY <1>1, <1>5, ClusterParameters DEF ExecutionsAccounted
    <2>2. executions'[t] <= lost'[t] + 1 /\ result'[t] = "none"
        BY <1>1, <1>3, <1>4, <1>5, ClusterParameters DEF ExecutionsAccounted
    <2> QED BY <1>1, <1>3, <2>1, <2>2 DEF ExecutionsAccounted
<1>7. TaskOnce'
    <2>1. \A i, k \in 1..Len(work') : work'[i] = work'[k] => i = k
        BY <1>1, <1>3 DEF TaskOnce
    <2>2. \A i \in 1..Len(work') : result'[work'[i]] = "none" /\ work'[i] # executing'
        BY <1>1, <1>3, <1>4 DEF TaskOnce
    <2> QED BY <1>1, <1>2, <1>4, <1>5, <2>1, <2>2 DEF TaskOnce
<1> QED BY <1>1, <1>3, <1>5, <1>6, <1>7

LEMMA ReportKeeps == ASSUME WorkerInv, NEW d \in BOOLEAN, Cluster!Report(d) PROVE WorkerInv'
<1> USE DEF WorkerInv, Cluster!Report, Cluster!NoTask
<1>1. executing \in Tasks /\ result[executing] = "none" /\ report \in {"completed", "failed"}
    BY DEF TaskOnce
<1>2. /\ work' \in Seq(Tasks) /\ executing' = "none" /\ UNCHANGED <<work, executions>>
      /\ result' \in [Tasks -> {"none", "completed", "failed"}] /\ lost' \in [Tasks -> Nat]
    BY <1>1
<1>3. \A t \in Tasks \ {executing} : result'[t] = result[t] /\ lost'[t] = lost[t]
    BY <1>1
<1>4. \/ result'[executing] = report /\ lost'[executing] = lost[executing]
      \/ result'[executing] = result[executing] /\ lost'[executing] = lost[executing] + 1
    BY <1>1
<1>5. \A t \in Tasks : executing' # t
    BY <1>2, ClusterParameters
<1>6. ExecutionsAccounted'
    <2>1. ASSUME NEW t \in Tasks \ {executing}
          PROVE  /\ executions'[t] <= lost'[t] + IF result'[t] = "none" /\ executing' # t THEN 0 ELSE 1
                 /\ result'[t] = "completed" => executions'[t] > 0
        BY <1>2, <1>3, <1>5 DEF ExecutionsAccounted
    <2>2. /\ executions'[executing] <=
                lost'[executing] + IF result'[executing] = "none" /\ executing' # executing THEN 0 ELSE 1
          /\ result'[executing] = "completed" => executions'[executing] > 0
        BY <1>1, <1>2, <1>4, <1>5 DEF ExecutionsAccounted, TaskOnce
    <2> QED BY <1>2, <2>1, <2>2 DEF ExecutionsAccounted
<1>7. TaskOnce'
    <2>1. \A i \in 1..Len(work) : work[i] \in Tasks \ {executing}
        BY DEF TaskOnce
    <2> QED BY <1>2, <1>3, <1>5, <2>1 DEF TaskOnce
<1> QED BY <1>2, <1>6, <1>7

LEMMA WorkerNext == ASSUME WorkerInv, [Cluster!Next]_clusterVars PROVE WorkerInv'
<1>1. CASE UNCHANGED Cluster!worker
    BY <1>1 DEF Cluster!worker, WorkerInv, TaskOnce, ExecutionsAccounted
<1>2. CASE Cluster!WorkerNext
    BY <1>2, PollKeeps, ExecuteKeeps, ReportKeeps DEF Cluster!WorkerNext
<1>3. Cluster!HostNext => UNCHANGED Cluster!worker
    BY DEF Cluster!HostNext, Cluster!Initialize, Cluster!SendHeartbeat, Cluster!MissHeartbeats,
           Cluster!Expire, Cluster!Die, Cluster!Shutdown, Cluster!ReadNodes,
           Cluster!MarkOffline, Cluster!RegisterModel, Cluster!Schedule, Cluster!SubmitJob
<1>4. UNCHANGED clusterVars => UNCHANGED Cluster!worker
    BY DEF clusterVars, Cluster!worker
<1> QED BY <1>1, <1>2, <1>3, <1>4 DEF Cluster!Next

LEMMA RerunImplied == ASSUME WorkerInv PROVE Cluster!RerunOnlyIfLost
<1> SUFFICES ASSUME NEW t \in Tasks
             PROVE  executions[t] <= 1 + lost[t] /\ (result[t] = "completed" => executions[t] > 0)
    BY Zenon DEF Cluster!RerunOnlyIfLost
<1>1. executions[t] \in Nat /\ lost[t] \in Nat
    BY DEF WorkerInv
<1>2. /\ executions[t] <= lost[t] + IF result[t] = "none" /\ executing # t THEN 0 ELSE 1
      /\ result[t] = "completed" => executions[t] > 0
    BY DEF WorkerInv, ExecutionsAccounted
<1> QED BY <1>1, <1>2

-----------------------------------------------------------------------------
(* The cache and the rate limiter in Redis.                                *)

\* Without a value that was on its way at an invalidation, what is stored or about to be is as
\* new as the last invalidation.
CacheInv ==
    /\ source \in 1..MaxVersion /\ {cached, invalidated} \subseteq 0..MaxVersion
    /\ getter \in [Hosts -> [at : {"idle", "factory", "set"}, version : 0..MaxVersion]]
    /\ flying \in BOOLEAN
    /\ invalidated <= source
    /\ ~flying =>
        /\ cached # 0 => invalidated <= cached
        /\ \A h \in Hosts : getter[h].at = "set" => invalidated <= getter[h].version

LEMMA CacheInit == ASSUME Redis!Init PROVE CacheInv
<1>1. Redis!Idle \in [at : {"idle", "factory", "set"}, version : 0..MaxVersion] /\ Redis!Idle.at # "set"
    BY RedisParameters DEF Redis!Idle
<1>2. source = 1 /\ cached = 0 /\ invalidated = 0 /\ flying = FALSE
    BY DEF Redis!Init
<1>3. getter \in [Hosts -> [at : {"idle", "factory", "set"}, version : 0..MaxVersion]]
      /\ \A h \in Hosts : getter[h].at # "set"
    BY <1>1 DEF Redis!Init
<1>4. 1 \in 1..MaxVersion /\ 0 \in 0..MaxVersion
    BY RedisParameters
<1>5. source \in 1..MaxVersion /\ {cached, invalidated} \subseteq 0..MaxVersion /\ invalidated <= source
    BY <1>2, <1>4
<1> QED BY <1>2, <1>3, <1>5 DEF CacheInv

\* A getter moves on, with the version it has computed.
LEMMA GotoKeeps ==
    ASSUME NEW h \in Hosts, NEW place \in {"idle", "factory", "set"}, NEW n \in 0..MaxVersion,
           getter \in [Hosts -> [at : {"idle", "factory", "set"}, version : 0..MaxVersion]],
           Redis!Goto(h, place, n)
    PROVE  /\ getter' \in [Hosts -> [at : {"idle", "factory", "set"}, version : 0..MaxVersion]]
           /\ getter'[h].at = place /\ getter'[h].version = n
           /\ \A g \in Hosts \ {h} : getter'[g] = getter[g]
BY DEF Redis!Goto

LEMMA GetterKeeps ==
    ASSUME CacheInv, NEW h \in Hosts, Redis!Miss(h) \/ Redis!Compute(h) \/ Redis!Store(h)
    PROVE  CacheInv'
<1> USE DEF CacheInv
<1>1. UNCHANGED <<source, invalidated, flying>>
    BY DEF Redis!Miss, Redis!Compute, Redis!Store
<1>2. getter[h] \in [at : {"idle", "factory", "set"}, version : 0..MaxVersion]
    OBVIOUS
<1>3. CASE Redis!Miss(h)
    BY <1>1, <1>3, GotoKeeps, RedisParameters DEF Redis!Miss
<1>4. CASE Redis!Compute(h)
    <2>1. /\ getter' \in [Hosts -> [at : {"idle", "factory", "set"}, version : 0..MaxVersion]]
          /\ getter'[h].version = source
          /\ \A g \in Hosts \ {h} : getter'[g] = getter[g]
        BY <1>4, GotoKeeps, RedisParameters DEF Redis!Compute
    <2>2. cached' = cached
        BY <1>4 DEF Redis!Compute
    <2> QED BY <1>1, <2>1, <2>2
<1>5. CASE Redis!Store(h)
    <2>1. /\ getter' \in [Hosts -> [at : {"idle", "factory", "set"}, version : 0..MaxVersion]]
          /\ getter'[h].at = "idle"
          /\ \A g \in Hosts \ {h} : getter'[g] = getter[g]
        BY <1>5, GotoKeeps, RedisParameters DEF Redis!Store
    <2>2. cached' \in {cached, getter[h].version} /\ getter[h].at = "set"
        BY <1>5 DEF Redis!Store
    <2> QED BY <1>1, <1>2, <2>1, <2>2
<1> QED BY <1>3, <1>4, <1>5

\* Who changes, drops or clears what is cached.
LEMMA DropKeeps ==
    ASSUME CacheInv,
           \/ Redis!Change \/ Redis!Invalidate \/ Redis!Expire
           \/ \E h \in Hosts : Redis!ClearAll(h)
    PROVE  CacheInv'
<1> USE RedisParameters DEF CacheInv
<1>1. CASE Redis!Change
    BY <1>1 DEF Redis!Change
<1>2. CASE Redis!Invalidate
    <2>1. /\ cached' = 0 /\ invalidated' = source /\ UNCHANGED <<source, getter>>
          /\ flying' = (flying \/ \E h \in Hosts : getter[h].at = "set")
        BY <1>2 DEF Redis!Invalidate
    <2>2. ~flying' => ~flying /\ \A h \in Hosts : getter'[h].at # "set"
        BY <2>1
    <2>3. flying' \in BOOLEAN
        BY <2>1
    <2> QED BY <2>1, <2>2, <2>3
<1>3. CASE Redis!Expire \/ \E h \in Hosts : Redis!ClearAll(h)
    <2>1. cached' \in {0, cached} /\ UNCHANGED <<source, invalidated, getter, flying>>
        BY <1>3 DEF Redis!Expire, Redis!ClearAll
    <2> QED BY <2>1
<1> QED BY <1>1, <1>2, <1>3

LEMMA CacheNext == ASSUME CacheInv, [Redis!Next]_redisVars PROVE CacheInv'
<1>1. CASE UNCHANGED Redis!cacheVars
    BY <1>1 DEF Redis!cacheVars, CacheInv
<1>2. \/ UNCHANGED Redis!cacheVars
      \/ \E h \in Hosts : Redis!Miss(h) \/ Redis!Compute(h) \/ Redis!Store(h) \/ Redis!ClearAll(h)
      \/ Redis!Change \/ Redis!Invalidate \/ Redis!Expire
    BY DEF Redis!Next, Redis!CacheNext, Redis!LimitNext, Redis!Tick, Redis!Ask, Redis!Decide,
           Redis!AskFails, Redis!Scan, Redis!CounterExpires, redisVars, Redis!cacheVars
<1> QED BY <1>1, <1>2, GetterKeeps, DropKeeps

\* Requests that are in the counter of a window and will be allowed.
Pending(w) == {h \in counted : asking[h] = w /\ asked[h] <= MaxRequests}

\* A window that a host may still ask for has a counter that counts them and those allowed.
Counted(w) ==
    /\ granted[w] + Cardinality(Pending(w)) <= MaxRequests
    /\ (\E h \in Hosts : clock[h] <= w \/ asking[h] = w) =>
            granted[w] + Cardinality(Pending(w)) <= counter[w]

LimitTypes ==
    /\ clock \in [Hosts -> Redis!Windows]
    /\ counter \in [Redis!Windows -> Nat] /\ granted \in [Redis!Windows -> Nat]
    /\ asked \in [Hosts -> Nat] /\ asking \in [Hosts -> 0..MaxWindow]
    /\ counted \subseteq Hosts

LimitInv == LimitTypes /\ \A w \in Redis!Windows : Counted(w)

LEMMA PendingCount ==
    ASSUME LimitTypes, NEW w
    PROVE  IsFiniteSet(Pending(w)) /\ Cardinality(Pending(w)) \in Nat
<1>1. Pending(w) \subseteq Hosts
    BY DEF Pending, LimitTypes
<1> QED BY <1>1, RedisParameters, FS_Subset, FS_CardinalityType

LEMMA LimitInit == ASSUME Redis!Init PROVE LimitInv
<1>1. LimitTypes
    BY RedisParameters DEF Redis!Init, LimitTypes, Redis!Windows
<1>2. ASSUME NEW w \in Redis!Windows PROVE Counted(w)
    <2>1. Pending(w) = {}
        BY DEF Redis!Init, Pending
    <2>2. Cardinality(Pending(w)) = 0 /\ granted[w] = 0 /\ counter[w] = 0
        BY <2>1, FS_EmptySet DEF Redis!Init
    <2> QED BY <2>2, RedisParameters DEF Counted
<1> QED BY <1>1, <1>2 DEF LimitInv

LEMMA TickKeeps == ASSUME LimitInv, NEW h \in Hosts, Redis!Tick(h) PROVE LimitInv'
<1>1. /\ clock[h] < MaxWindow /\ clock' = [clock EXCEPT ![h] = @ + 1]
      /\ UNCHANGED <<counter, asked, asking, granted, counted>>
    BY DEF Redis!Tick
<1>2. LimitTypes'
    BY <1>1, RedisParameters DEF LimitInv, LimitTypes, Redis!Windows
<1>3. ASSUME NEW w \in Redis!Windows PROVE Counted(w)'
    <2>1. Pending(w)' = Pending(w)
        BY <1>1 DEF Pending
    <2>2. \A g \in Hosts : clock'[g] <= w => clock[g] <= w
        BY <1>1, RedisParameters DEF LimitInv, LimitTypes, Redis!Windows
    <2> QED BY <1>1, <2>1, <2>2 DEF LimitInv, Counted
<1> QED BY <1>2, <1>3 DEF LimitInv

\* The count in the reply is above all that were counted before.
LEMMA AskKeeps ==
    ASSUME LimitInv, NEW h \in Hosts, NEW v \in Redis!Windows, v = clock[h], Redis!Ask(h)
    PROVE  LimitInv'
<1>1. /\ asking[h] = 0 /\ asking' = [asking EXCEPT ![h] = v]
      /\ counter' = [counter EXCEPT ![v] = @ + 1]
      /\ asked' = [asked EXCEPT ![h] = counter[v] + 1]
      /\ counted' = counted \union {h}
      /\ UNCHANGED <<clock, granted>>
    BY DEF Redis!Ask
<1>2. v \in Redis!Windows /\ v \in 1..MaxWindow /\ clock[h] = v
    BY DEF Redis!Windows
<1>3. LimitTypes'
    BY <1>1, <1>2, RedisParameters DEF LimitInv, LimitTypes, Redis!Windows
<1>4. ASSUME NEW w \in Redis!Windows, w # v PROVE Counted(w)'
    <2>1. Pending(w)' = Pending(w)
        BY <1>1, <1>2, <1>4, RedisParameters DEF Pending, LimitInv, LimitTypes, Redis!Windows
    <2>2. counter'[w] = counter[w]
        BY <1>1, <1>2, <1>4 DEF LimitInv, LimitTypes
    <2>3. \A g \in Hosts : asking'[g] = w => asking[g] = w
        BY <1>1, <1>4 DEF LimitInv, LimitTypes
    <2> QED BY <1>1, <2>1, <2>2, <2>3 DEF LimitInv, Counted
<1>5. Counted(v)'
    <2>1. /\ granted[v] + Cardinality(Pending(v)) <= MaxRequests
          /\ granted[v] + Cardinality(Pending(v)) <= counter[v]
          /\ granted[v] \in Nat /\ counter[v] \in Nat /\ Cardinality(Pending(v)) \in Nat
        BY <1>2, PendingCount DEF LimitInv, LimitTypes, Counted
    <2>2. counter'[v] = counter[v] + 1 /\ granted'[v] = granted[v]
        BY <1>1, <1>2 DEF LimitInv, LimitTypes
    <2>5. /\ asking'[h] = v /\ asked'[h] = counter[v] + 1 /\ h \notin Pending(v)
          /\ \A g \in Hosts \ {h} : asking'[g] = asking[g] /\ asked'[g] = asked[g]
          /\ counted \subseteq Hosts
        BY <1>1, <1>2 DEF Pending, LimitInv, LimitTypes, Redis!Windows
    <2>3. CASE counter[v] + 1 > MaxRequests
        <3>0. ~(asked'[h] <= MaxRequests)
            BY <2>1, <2>3, <2>5, RedisParameters
        <3>1. Pending(v)' = Pending(v)
            BY <1>1, <2>5, <3>0 DEF Pending
        <3> QED BY <2>1, <2>2, <3>1 DEF Counted
    <2>4. CASE counter[v] + 1 <= MaxRequests
        <3>1. Pending(v)' = Pending(v) \union {h} /\ h \notin Pending(v)
            BY <1>1, <2>4, <2>5 DEF Pending
        <3>2. Cardinality(Pending(v)') = Cardinality(Pending(v)) + 1
            <4>1. IsFiniteSet(Pending(v))
                BY PendingCount DEF LimitInv
            <4>2. Cardinality(Pending(v) \union {h}) =
                    IF h \in Pending(v) THEN Cardinality(Pending(v)) ELSE Cardinality(Pending(v)) + 1
                BY <4>1, FS_AddElement
            <4> QED BY <3>1, <4>2
        <3> QED BY <2>1, <2>2, <2>4, <3>2, RedisParameters DEF Counted
    <2> QED BY <2>1, <2>3, <2>4, RedisParameters
<1> QED BY <1>3, <1>4, <1>5 DEF LimitInv

\* A request that is decided, or whose reply is lost, is no longer pending.
LEMMA DecideKeeps ==
    ASSUME LimitInv, NEW h \in Hosts, Redis!Decide(h) \/ Redis!AskFails(h)
    PROVE  LimitInv'
<1> DEFINE v == asking[h]
<1>1. /\ v # 0 /\ asking' = [asking EXCEPT ![h] = 0] /\ asked' = [asked EXCEPT ![h] = 0]
      /\ counted' = counted \ {h} /\ UNCHANGED <<clock, counter>>
      /\ \/ UNCHANGED granted
         \/ asked[h] <= MaxRequests /\ h \in counted /\ granted' = [granted EXCEPT ![v] = @ + 1]
    BY DEF Redis!Decide, Redis!AskFails, Redis!Allowed
<1>2. v \in Redis!Windows /\ asking[h] = v
    BY <1>1, RedisParameters DEF LimitInv, LimitTypes, Redis!Windows
<1> HIDE DEF v
<1>3. LimitTypes'
    BY <1>1, <1>2, RedisParameters DEF LimitInv, LimitTypes, Redis!Windows
<1>4. ASSUME NEW w \in Redis!Windows PROVE Counted(w)'
    <2>1. Pending(w)' = Pending(w) \ {h}
        BY <1>1, RedisParameters DEF Pending, LimitInv, LimitTypes, Redis!Windows
    <2>2. /\ Cardinality(Pending(w)') =
                IF h \in Pending(w) THEN Cardinality(Pending(w)) - 1 ELSE Cardinality(Pending(w))
          /\ Cardinality(Pending(w)) \in Nat
        BY <2>1, PendingCount, FS_RemoveElement DEF LimitInv
    <2>3. /\ granted'[w] \in Nat /\ granted[w] \in Nat
          /\ granted'[w] = granted[w] \/ (h \in Pending(w) /\ granted'[w] = granted[w] + 1)
        BY <1>1, <1>2, <1>3 DEF Pending, LimitInv, LimitTypes
    <2>4. granted'[w] + Cardinality(Pending(w)') <= granted[w] + Cardinality(Pending(w))
        BY <2>2, <2>3
    <2>5. Cardinality(Pending(w)') \in Nat /\ counter[w] \in Nat
        BY <2>1, PendingCount, FS_RemoveElement, FS_CardinalityType DEF LimitInv, LimitTypes
    <2>6. \A g \in Hosts : asking'[g] = w => asking[g] = w
        BY <1>1, RedisParameters DEF LimitInv, LimitTypes, Redis!Windows
    <2> QED BY <1>1, <2>2, <2>3, <2>4, <2>5, <2>6, RedisParameters DEF LimitInv, Counted
<1> QED BY <1>3, <1>4 DEF LimitInv

\* A counter that expires or is cleared: the window is over, or its count begins anew.
LEMMA CounterEnds ==
    ASSUME LimitInv,
           \/ \E w \in Redis!Windows : Redis!CounterExpires(w)
           \/ \E h \in Hosts : Redis!ClearAll(h)
    PROVE  LimitInv'
<1>1. ASSUME NEW v \in Redis!Windows, Redis!CounterExpires(v) PROVE LimitInv'
    <2>1. /\ \A h \in Hosts : clock[h] > v /\ asking[h] # v
          /\ counter' = [counter EXCEPT ![v] = 0]
          /\ UNCHANGED <<clock, asked, asking, granted, counted>>
        BY <1>1 DEF Redis!CounterExpires
    <2>2. LimitTypes'
        BY <2>1 DEF LimitInv, LimitTypes
    <2>3. ASSUME NEW w \in Redis!Windows PROVE Counted(w)'
        <3>1. Pending(w)' = Pending(w)
            BY <2>1 DEF Pending
        <3>2. w # v => counter'[w] = counter[w]
            BY <2>1 DEF LimitInv, LimitTypes
        <3>3. w = v => \A h \in Hosts : ~(clock[h] <= w \/ asking[h] = w)
            BY <2>1 DEF LimitInv, LimitTypes, Redis!Windows
        <3> QED BY <2>1, <3>1, <3>2, <3>3 DEF LimitInv, Counted
    <2> QED BY <2>2, <2>3 DEF LimitInv
<1>2. ASSUME NEW h \in Hosts, Redis!ClearAll(h) PROVE LimitInv'
    <2> DEFINE S == clearing[h]
    <2>1. /\ counter' = [w \in Redis!Windows |-> IF w \in S THEN 0 ELSE counter[w]]
          /\ granted' = [w \in Redis!Windows |-> IF w \in S THEN 0 ELSE granted[w]]
          /\ counted' = {g \in counted : asking[g] \notin S}
          /\ UNCHANGED <<clock, asked, asking>>
        BY <1>2 DEF Redis!ClearAll
    <2> HIDE DEF S
    <2>2. LimitTypes'
        BY <2>1 DEF LimitInv, LimitTypes
    <2>3. ASSUME NEW w \in Redis!Windows PROVE Counted(w)'
        <3>1. CASE w \in S
            <4>1. Pending(w)' = {}
                BY <2>1, <3>1 DEF Pending
            <4>2. Cardinality(Pending(w)') = 0 /\ granted'[w] = 0 /\ counter'[w] = 0
                BY <2>1, <3>1, <4>1, FS_EmptySet
            <4> QED BY <4>2, RedisParameters DEF Counted
        <3>2. CASE w \notin S
            <4>1. Pending(w)' = Pending(w) /\ granted'[w] = granted[w] /\ counter'[w] = counter[w]
                BY <2>1, <3>2 DEF Pending
            <4> QED BY <2>1, <4>1 DEF LimitInv, Counted
        <3> QED BY <3>1, <3>2
    <2> QED BY <2>2, <2>3 DEF LimitInv
<1> QED BY <1>1, <1>2

LEMMA LimitNext == ASSUME LimitInv, [Redis!Next]_redisVars PROVE LimitInv'
<1>1. CASE UNCHANGED Redis!limitVars
    BY <1>1 DEF Redis!limitVars, LimitInv, LimitTypes, Counted, Pending
<1>2. \/ UNCHANGED Redis!limitVars
      \/ \E h \in Hosts : \/ Redis!Tick(h) \/ Redis!Ask(h) \/ Redis!Decide(h)
                          \/ Redis!AskFails(h) \/ Redis!ClearAll(h)
      \/ \E w \in Redis!Windows : Redis!CounterExpires(w)
    BY DEF Redis!Next, Redis!CacheNext, Redis!LimitNext, Redis!Miss, Redis!Compute, Redis!Store,
           Redis!Change, Redis!Invalidate, Redis!Expire, Redis!Scan, redisVars, Redis!limitVars
<1>3. ASSUME NEW h \in Hosts, Redis!Ask(h) PROVE LimitInv'
    <2>1. clock[h] \in Redis!Windows
        BY DEF LimitInv, LimitTypes
    <2> QED BY <1>3, <2>1, AskKeeps
<1> QED BY <1>1, <1>2, <1>3, TickKeeps, DecideKeeps, CounterEnds

LEMMA LimitImplied == ASSUME LimitInv PROVE Redis!LimitKept
<1> SUFFICES ASSUME NEW w \in Redis!Windows PROVE granted[w] <= MaxRequests
    BY DEF Redis!LimitKept
<1>1. /\ granted[w] + Cardinality(Pending(w)) <= MaxRequests
      /\ granted[w] \in Nat /\ Cardinality(Pending(w)) \in Nat
    BY PendingCount DEF LimitInv, LimitTypes, Counted
<1> QED BY <1>1, RedisParameters

-----------------------------------------------------------------------------
(* Security.                                                               *)

\* Every call that changes an account has written it to the file, or is remembered as one that
\* could not, unless the file is broken.
AccountsSaved ==
    \A u \in Users \ unsaved : usersFile[u] = users[u] \/ usersFile[u].known = FALSE

\* The failures the client counts are in the account, and what it counts as locked is locked.
FailuresSaved ==
    /\ \A u \in Users : securityFailures[u] <= users[u].attempts
    /\ Security!LockSurvives

\* What was logged is in the file, in the buffer, or lost; and shutdown() has begun neither
\* before the loop runs nor while it runs, and waits only for a loop that has ended.
EntriesCounted ==
    /\ Security!EntriesAccounted /\ logged <= MaxEntries
    /\ flusher \in {"new", "on"} => closing = "no"
    /\ closing = "cancelled" => flusher = "ended"

SecurityInv ==
    /\ Security!TypeOK /\ {buffer, written, securityLost, logged} \subseteq Nat
    /\ AccountsSaved /\ FailuresSaved /\ EntriesCounted /\ Security!RefreshedOnce

LEMMA SecurityInit == ASSUME Security!Init PROVE SecurityInv
<1> USE SecurityParameters DEF Security!Init
<1>1. users \in [Users -> Security!Account] /\ users = usersFile /\ unsaved = {}
    BY DEF Security!Account, Security!Unknown
<1>2. DOMAIN tokens = {}
    OBVIOUS
<1>3. Security!TypeOK
    BY <1>1, <1>2 DEF Security!TypeOK
<1>4. FailuresSaved /\ EntriesCounted /\ Security!RefreshedOnce
    BY <1>2 DEF FailuresSaved, Security!LockSurvives, EntriesCounted, Security!EntriesAccounted,
       Security!RefreshedOnce, Security!Unknown
<1> QED BY <1>1, <1>3, <1>4 DEF SecurityInv, AccountsSaved

\* An account's fields.
LEMMA UnknownType ==
    /\ Security!Unknown \in Security!Account
    /\ Security!Unknown.attempts = 0 /\ Security!Unknown.locked = FALSE
    /\ Security!Unknown.known = FALSE
BY SecurityParameters DEF Security!Unknown, Security!Account

LEMMA CreatedType ==
    LET created == [Security!Unknown EXCEPT !.known = TRUE]
    IN  created \in Security!Account /\ created.attempts = 0 /\ created.locked = FALSE
BY UnknownType DEF Security!Account

LEMMA AccountType ==
    ASSUME NEW account \in Security!Account, NEW n \in 0..LockAfter, NEW b \in BOOLEAN
    PROVE  LET a == [account EXCEPT !.attempts = n, !.locked = b]
           IN  a \in Security!Account /\ a.attempts = n /\ a.locked = b
BY DEF Security!Account

LEMMA TokenType ==
    ASSUME NEW token \in [user : Users, revoked : BOOLEAN, exchanged : 0..2],
           NEW b \in BOOLEAN, NEW n \in 0..2
    PROVE  LET t == [token EXCEPT !.revoked = b, !.exchanged = n]
           IN  /\ t \in [user : Users, revoked : BOOLEAN, exchanged : 0..2]
               /\ t.revoked = b /\ t.exchanged = n
OBVIOUS

\* The smaller of two numbers.
LEMMA MinOfTwo ==
    ASSUME NEW a \in Nat, NEW b \in Nat
    PROVE  Security!Min({a, b}) = IF a <= b THEN a ELSE b
BY DEF Security!Min

\* log() appends to the buffer.
LEMMA LogKeeps ==
    ASSUME SecurityInv, Security!Log
    PROVE  /\ {buffer, written, securityLost, logged}' \subseteq 0..MaxEntries
           /\ UNCHANGED <<flusher, closing>> /\ EntriesCounted'
BY SecurityParameters
   DEF SecurityInv, Security!TypeOK, Security!Log, EntriesCounted, Security!EntriesAccounted

\* The next number is within the bound, and nothing is made of the tokens there are.
LEMMA IssuedType ==
    ASSUME SecurityInv, NEW u \in Users, Security!Cardinality(DOMAIN tokens) < MaxTokens
    PROVE  /\ DOMAIN Security!Issued(u) \subseteq Security!Tokens
           /\ \A t \in DOMAIN Security!Issued(u) :
                Security!Issued(u)[t] \in [user : Users, revoked : BOOLEAN, exchanged : 0..2]
           /\ \A t \in DOMAIN Security!Issued(u) :
                IF t \in DOMAIN tokens THEN Security!Issued(u)[t] = tokens[t]
                ELSE Security!Issued(u)[t] = [user |-> u, revoked |-> FALSE, exchanged |-> 0]
<1>1. Security!Cardinality(DOMAIN tokens) = Cardinality(DOMAIN tokens)
    BY Zenon DEF Security!Cardinality, Cardinality
<1>2. Cardinality(DOMAIN tokens) \in Nat
    <2>1. IsFiniteSet(Security!Tokens)
        BY SecurityParameters, FS_Interval DEF Security!Tokens
    <2>2. IsFiniteSet(DOMAIN tokens)
        BY <2>1, FS_Subset DEF SecurityInv, Security!TypeOK
    <2> QED BY <2>2, FS_CardinalityType
<1>3. Security!Cardinality(DOMAIN tokens) + 1 \in Security!Tokens
    BY <1>1, <1>2, SecurityParameters DEF Security!Tokens
<1> QED BY <1>3 DEF SecurityInv, Security!TypeOK, Security!Issued

\* A call that changes one account and saves, or cannot.
LEMMA SaveKeeps ==
    ASSUME SecurityInv, NEW u \in Users, users' \in [Users -> Security!Account],
           \A v \in Users \ {u} : users'[v] = users[v],
           Security!SaveUsers \/ Security!SaveRaises({u})
    PROVE  usersFile' \in [Users -> Security!Account] /\ unsaved' \subseteq Users /\ AccountsSaved'
<1> USE DEF SecurityInv, Security!TypeOK, AccountsSaved
<1>1. CASE Security!SaveUsers
    BY <1>1 DEF Security!SaveUsers
<1>2. CASE Security!SaveRaises({u})
    <2>1. /\ usersFile' \in {usersFile, [v \in Users |-> Security!Unknown]}
          /\ unsaved' = unsaved \union {u}
        BY <1>2 DEF Security!SaveRaises
    <2>2. usersFile' \in [Users -> Security!Account]
        BY <2>1, UnknownType
    <2>3. ASSUME NEW v \in Users \ unsaved' 
          PROVE  usersFile'[v] = users'[v] \/ usersFile'[v].known = FALSE
        BY <2>1, UnknownType
    <2> QED BY <2>1, <2>2, <2>3
<1> QED BY <1>1, <1>2

\* Its end: the log has an entry more, or is as it was.
LEMMA CallLogs ==
    ASSUME SecurityInv, Security!Log \/ UNCHANGED Security!logVars
    PROVE  /\ {buffer, written, securityLost, logged}' \subseteq 0..MaxEntries
           /\ UNCHANGED <<flusher, closing>> /\ EntriesCounted'
<1>1. CASE Security!Log
    BY <1>1, LogKeeps
<1>2. CASE UNCHANGED Security!logVars
    BY <1>2 DEF Security!logVars, Security!entryVars, SecurityInv, Security!TypeOK, EntriesCounted,
       Security!EntriesAccounted
<1> QED BY <1>1, <1>2

\* Calls that change accounts: what the client counts follows what the account has.
LEMMA UserKeeps ==
    ASSUME SecurityInv, NEW u \in Users, Security!CreateUser(u) PROVE SecurityInv'
<1> USE DEF SecurityInv, Security!TypeOK
<1>1. /\ users' = [users EXCEPT ![u] = [Security!Unknown EXCEPT !.known = TRUE]]
      /\ securityFailures' = [securityFailures EXCEPT ![u] = 0]
      /\ locked' = locked \ {u} /\ UNCHANGED <<tokens, revokedTokens>>
      /\ Security!SaveUsers \/ Security!SaveRaises({u})
      /\ Security!Log \/ UNCHANGED Security!logVars
    BY DEF Security!CreateUser, Security!tokenVars
<1>2. users' \in [Users -> Security!Account] /\ securityFailures' \in [Users -> 0..LockAfter]
    BY <1>1, CreatedType, SecurityParameters
<1>3. FailuresSaved'
    BY <1>1, CreatedType DEF FailuresSaved, Security!LockSurvives
<1>4. usersFile' \in [Users -> Security!Account] /\ unsaved' \subseteq Users /\ AccountsSaved'
    BY <1>1, <1>2, SaveKeeps
<1> QED BY <1>1, <1>2, <1>3, <1>4, CallLogs, SecurityParameters DEF Security!RefreshedOnce

LEMMA FailKeeps ==
    ASSUME SecurityInv, NEW u \in Users, Security!LoginFails(u) PROVE SecurityInv'
<1> USE DEF SecurityInv, Security!TypeOK, Security!Account
<1> DEFINE n == IF users[u].attempts + 1 <= LockAfter THEN users[u].attempts + 1 ELSE LockAfter
           k == IF securityFailures[u] + 1 <= LockAfter THEN securityFailures[u] + 1
                ELSE LockAfter
<1>1. /\ Security!Min({users[u].attempts + 1, LockAfter}) = n
      /\ Security!Min({securityFailures[u] + 1, LockAfter}) = k
    <2>1. {users[u].attempts + 1, securityFailures[u] + 1, LockAfter} \subseteq Nat
        BY SecurityParameters
    <2>2. /\ Security!Min({users[u].attempts + 1, LockAfter})
                = IF users[u].attempts + 1 <= LockAfter THEN users[u].attempts + 1 ELSE LockAfter
          /\ Security!Min({securityFailures[u] + 1, LockAfter})
                = IF securityFailures[u] + 1 <= LockAfter THEN securityFailures[u] + 1 ELSE LockAfter
        BY <2>1, MinOfTwo, Zenon
    <2> QED BY <2>2
<1>2. /\ users' = [users EXCEPT ![u] = [users[u] EXCEPT !.attempts = n, !.locked = n >= LockAfter]]
      /\ UNCHANGED <<tokens, revokedTokens>>
      /\ securityFailures' = [securityFailures EXCEPT ![u] = k]
      /\ locked' = IF securityFailures'[u] = LockAfter THEN locked \union {u} ELSE locked
      /\ Security!SaveUsers \/ Security!SaveRaises({u})
      /\ Security!Log \/ UNCHANGED Security!logVars
    BY <1>1 DEF Security!LoginFails, Security!Failed, Security!tokenVars
<1>3. n \in 0..LockAfter /\ k \in 0..LockAfter /\ k <= n
    BY SecurityParameters DEF FailuresSaved
<1> HIDE DEF n, k
<1>4. users' \in [Users -> Security!Account] /\ securityFailures' \in [Users -> 0..LockAfter]
    <2>1. [users[u] EXCEPT !.attempts = n, !.locked = n >= LockAfter] \in Security!Account
        <3>1. (n >= LockAfter) \in BOOLEAN
            BY <1>3
        <3>2. users[u] \in Security!Account
            OBVIOUS
        <3> QED BY <1>3, <3>1, <3>2, AccountType, Zenon
    <2> QED BY <1>2, <1>3, <2>1
<1>5. /\ users'[u].attempts = n /\ users'[u].locked = (n >= LockAfter)
      /\ \A v \in Users \ {u} : users'[v] = users[v]
      /\ securityFailures'[u] = k
      /\ \A v \in Users \ {u} : securityFailures'[v] = securityFailures[v]
    BY <1>2, <1>3, AccountType
<1>6. FailuresSaved'
    <2>1. \A v \in Users : securityFailures'[v] <= users'[v].attempts
        BY <1>3, <1>5 DEF FailuresSaved
    <2>2. \A v \in locked' : users'[v].locked
        BY <1>2, <1>3, <1>5, SecurityParameters
           DEF FailuresSaved, Security!LockSurvives, Security!LoginFails
    <2> QED BY <2>1, <2>2 DEF FailuresSaved, Security!LockSurvives
<1>7. usersFile' \in [Users -> Security!Account] /\ unsaved' \subseteq Users /\ AccountsSaved'
    BY <1>2, <1>4, <1>5, SaveKeeps
<1> QED BY <1>2, <1>4, <1>6, <1>7, CallLogs, SecurityParameters DEF Security!RefreshedOnce

LEMMA UnlockKeeps ==
    ASSUME SecurityInv, NEW u \in Users, Security!Unlock(u) PROVE SecurityInv'
<1> USE DEF SecurityInv, Security!TypeOK, Security!Account
<1>1. /\ users' = [users EXCEPT ![u].locked = FALSE]
      /\ usersFile' = [usersFile EXCEPT ![u].locked = FALSE]
      /\ locked' = locked \ {u}
      /\ UNCHANGED <<unsaved, securityFailures, tokens, revokedTokens, buffer, written,
                     securityLost, logged, flusher, closing>>
    BY DEF Security!Unlock, Security!tokenVars, Security!logVars, Security!entryVars
<1>2. users' \in [Users -> Security!Account] /\ usersFile' \in [Users -> Security!Account]
    BY <1>1
<1>3. FailuresSaved'
    BY <1>1 DEF FailuresSaved, Security!LockSurvives
<1>4. AccountsSaved'
    <2>2. ASSUME NEW v \in Users \ unsaved
          PROVE  usersFile'[v] = users'[v] \/ usersFile'[v].known = FALSE
        <3>1. CASE v = u
            <4>1. /\ usersFile'[u] = [usersFile[u] EXCEPT !.locked = FALSE]
                  /\ users'[u] = [users[u] EXCEPT !.locked = FALSE]
                BY <1>1
            <4>2. usersFile[u] = users[u] \/ usersFile[u].known = FALSE
                BY <2>2, <3>1 DEF AccountsSaved
            <4>3. [usersFile[u] EXCEPT !.locked = FALSE].known = usersFile[u].known
                OBVIOUS
            <4> QED BY <3>1, <4>1, <4>2, <4>3
        <3>2. CASE v # u
            <4>1. usersFile'[v] = usersFile[v] /\ users'[v] = users[v]
                BY <1>1, <3>2
            <4> QED BY <2>2, <4>1 DEF AccountsSaved
        <3> QED BY <3>1, <3>2
    <2> QED BY <1>1, <2>2 DEF AccountsSaved
<1> QED BY <1>1, <1>2, <1>3, <1>4
        DEF Security!RefreshedOnce, EntriesCounted, Security!EntriesAccounted

LEMMA LoginKeeps ==
    ASSUME SecurityInv, NEW u \in Users, Security!Login(u) PROVE SecurityInv'
<1> USE DEF SecurityInv, Security!TypeOK, Security!Account
<1>1. /\ ~users[u].locked
      /\ users' = [users EXCEPT ![u] = [Security!Unknown EXCEPT !.known = TRUE]]
      /\ securityFailures' = [securityFailures EXCEPT ![u] = 0]
      /\ UNCHANGED <<locked, revokedTokens>>
      /\ Security!SaveUsers \/ Security!SaveRaises({u})
      /\ Security!Log \/ UNCHANGED Security!logVars
      /\ \/ Security!Cardinality(DOMAIN tokens) < MaxTokens /\ tokens' = Security!Issued(u)
         \/ UNCHANGED tokens
    BY DEF Security!Login
<1>2. users' \in [Users -> Security!Account] /\ securityFailures' \in [Users -> 0..LockAfter]
    BY <1>1, CreatedType, SecurityParameters
<1>3. FailuresSaved'
    BY <1>1, CreatedType DEF FailuresSaved, Security!LockSurvives
<1>4. /\ DOMAIN tokens' \subseteq Security!Tokens
      /\ \A t \in DOMAIN tokens' : tokens'[t] \in [user : Users, revoked : BOOLEAN, exchanged : 0..2]
    BY <1>1, IssuedType
<1>5. Security!RefreshedOnce'
    BY <1>1, IssuedType DEF Security!RefreshedOnce
<1>6. usersFile' \in [Users -> Security!Account] /\ unsaved' \subseteq Users /\ AccountsSaved'
    BY <1>1, <1>2, SaveKeeps
<1> QED BY <1>1, <1>2, <1>3, <1>4, <1>5, <1>6, CallLogs, SecurityParameters

\* Tokens that are revoked stay as often exchanged as they were.
LEMMA RevokeKeeps ==
    ASSUME SecurityInv,
           \/ \E u \in Users : Security!Refuse(u) \/ Security!ChangePassword(u)
           \/ \E t \in DOMAIN tokens, kind \in Security!Kinds : Security!Revoke(kind, t)
           \/ Security!Denied
    PROVE  SecurityInv'
<1> USE DEF SecurityInv, Security!TypeOK
<1>1. /\ UNCHANGED <<users, securityFailures, locked>>
      /\ UNCHANGED <<usersFile, unsaved>> \/ Security!SaveUsers \/ Security!SaveRaises({})
      /\ Security!Log \/ UNCHANGED Security!logVars
    BY DEF Security!Refuse, Security!ChangePassword, Security!Revoke, Security!Denied,
       Security!accountVars
<1>2. usersFile' \in [Users -> Security!Account] /\ unsaved' \subseteq Users /\ AccountsSaved'
    <2>1. CASE UNCHANGED <<usersFile, unsaved>>
        BY <1>1, <2>1 DEF AccountsSaved
    <2>2. CASE Security!SaveUsers
        BY <1>1, <2>2 DEF AccountsSaved, Security!SaveUsers
    <2>3. CASE Security!SaveRaises({})
        <3>1. usersFile' \in {usersFile, [v \in Users |-> Security!Unknown]} /\ unsaved' = unsaved
            BY <2>3 DEF Security!SaveRaises
        <3>2. usersFile' \in [Users -> Security!Account]
            BY <3>1, UnknownType
        <3>3. \A v \in Users \ unsaved : usersFile'[v] = users[v] \/ usersFile'[v].known = FALSE
            BY <3>1, UnknownType DEF AccountsSaved
        <3> QED BY <1>1, <3>1, <3>2, <3>3 DEF AccountsSaved
    <2> QED BY <1>1, <2>1, <2>2, <2>3
<1>3. \/ UNCHANGED tokens
      \/ \E S \in SUBSET (DOMAIN tokens) :
            tokens' = [t \in DOMAIN tokens |-> [tokens[t] EXCEPT !.revoked = @ \/ t \in S]]
    <2>1. ASSUME NEW s \in DOMAIN tokens, NEW kind \in Security!Kinds, Security!Revoke(kind, s)
          PROVE  \E S \in SUBSET (DOMAIN tokens) :
                    tokens' = [t \in DOMAIN tokens |-> [tokens[t] EXCEPT !.revoked = @ \/ t \in S]]
        <3> DEFINE S == IF kind = "refresh" THEN {s} ELSE {}
        <3>1. \A t \in DOMAIN tokens : (kind = "refresh" /\ t = s) <=> t \in S
            OBVIOUS
        <3>2. tokens' = [t \in DOMAIN tokens |->
                            [tokens[t] EXCEPT !.revoked = @ \/ (kind = "refresh" /\ t = s)]]
            BY <2>1 DEF Security!Revoke
        <3> HIDE DEF S
        <3>3. tokens' = [t \in DOMAIN tokens |-> [tokens[t] EXCEPT !.revoked = @ \/ t \in S]]
            BY <3>1, <3>2
        <3>4. S \in SUBSET (DOMAIN tokens)
            BY DEF S
        <3> QED BY <3>3, <3>4
    <2>2. CASE (\E u \in Users : Security!Refuse(u) \/ Security!ChangePassword(u)) \/ Security!Denied
        BY <2>2 DEF Security!Refuse, Security!ChangePassword, Security!Denied, Security!tokenVars,
           Security!OfUser
    <2> QED BY <2>1, <2>2
<1>4. revokedTokens \subseteq revokedTokens' /\ revokedTokens' \subseteq Security!Kinds \X Security!Tokens
    BY DEF Security!Refuse, Security!ChangePassword, Security!Revoke, Security!Denied,
       Security!tokenVars, Security!OfUser, Security!Kinds
<1>5. /\ DOMAIN tokens' = DOMAIN tokens
      /\ \A t \in DOMAIN tokens :
            /\ tokens'[t] \in [user : Users, revoked : BOOLEAN, exchanged : 0..2]
            /\ tokens'[t].exchanged = tokens[t].exchanged
            /\ tokens[t].revoked => tokens'[t].revoked
    BY <1>3
<1>6. Security!RefreshedOnce' /\ FailuresSaved'
    BY <1>1, <1>4, <1>5 DEF FailuresSaved, Security!LockSurvives, Security!RefreshedOnce
<1> QED BY <1>1, <1>2, <1>4, <1>5, <1>6, CallLogs, SecurityParameters

LEMMA RefreshKeeps ==
    ASSUME SecurityInv, NEW t \in DOMAIN tokens, Security!Refresh(t) PROVE SecurityInv'
<1> USE DEF SecurityInv, Security!TypeOK
<1> DEFINE issued == Security!Issued(tokens[t].user)
<1>1. /\ ~tokens[t].revoked
      /\ tokens' = [issued EXCEPT ![t].revoked = TRUE, ![t].exchanged = @ + 1]
      /\ revokedTokens' = revokedTokens \union (Security!Kinds \X {t})
      /\ UNCHANGED <<users, usersFile, unsaved, securityFailures, locked>>
      /\ UNCHANGED <<buffer, written, securityLost, logged, flusher, closing>>
    BY DEF Security!Refresh, Security!accountVars, Security!logVars, Security!entryVars
<1>2. /\ DOMAIN issued \subseteq Security!Tokens /\ t \in DOMAIN issued
      /\ \A s \in DOMAIN issued : issued[s] \in [user : Users, revoked : BOOLEAN, exchanged : 0..2]
      /\ \A s \in DOMAIN issued :
            IF s \in DOMAIN tokens THEN issued[s] = tokens[s]
            ELSE issued[s] = [user |-> tokens[t].user, revoked |-> FALSE, exchanged |-> 0]
    <2>1. tokens[t].user \in Users /\ Security!Cardinality(DOMAIN tokens) < MaxTokens
        BY DEF Security!Refresh
    <2> QED BY <2>1, IssuedType DEF Security!Issued
<1>3. issued[t] = tokens[t] /\ tokens[t].exchanged = 0
    BY <1>1, <1>2 DEF Security!RefreshedOnce
<1> HIDE DEF issued
<1>4. /\ DOMAIN tokens' = DOMAIN issued
      /\ tokens'[t] = [issued[t] EXCEPT !.revoked = TRUE, !.exchanged = 1]
      /\ \A s \in DOMAIN issued \ {t} : tokens'[s] = issued[s]
    <2>1. tokens' = [issued EXCEPT ![t].revoked = TRUE, ![t].exchanged = @ + 1]
        BY <1>1
    <2>2. tokens'[t] = [issued[t] EXCEPT !.revoked = TRUE, !.exchanged = issued[t].exchanged + 1]
        BY <1>2, <2>1
    <2> QED BY <1>2, <1>3, <2>1, <2>2
<1>5. /\ tokens'[t] \in [user : Users, revoked : BOOLEAN, exchanged : 0..2]
      /\ tokens'[t].revoked /\ tokens'[t].exchanged = 1
    <2>1. issued[t] \in [user : Users, revoked : BOOLEAN, exchanged : 0..2] /\ 1 \in 0..2
        BY <1>2
    <2>2. /\ tokens'[t] \in [user : Users, revoked : BOOLEAN, exchanged : 0..2]
          /\ tokens'[t].revoked = TRUE /\ tokens'[t].exchanged = 1
        BY <1>4, <2>1, TokenType, Zenon
    <2> QED BY <2>2
<1>6. Security!RefreshedOnce'
    <2>1. ASSUME NEW s \in DOMAIN tokens', s # t
          PROVE  /\ tokens'[s].exchanged <= 1
                 /\ tokens'[s].exchanged = 1 =>
                        tokens'[s].revoked /\ (Security!Kinds \X {s}) \subseteq revokedTokens'
        <3>1. tokens'[s] = issued[s] /\ s \in DOMAIN issued
            BY <1>4, <2>1
        <3>2. CASE s \in DOMAIN tokens
            <4>1. tokens'[s] = tokens[s]
                BY <1>2, <3>1, <3>2
            <4>2. tokens[s].exchanged = 1 => (Security!Kinds \X {s}) \subseteq revokedTokens
                BY <3>2 DEF Security!RefreshedOnce
            <4>3. tokens[s].exchanged <= 1 /\ (tokens[s].exchanged = 1 => tokens[s].revoked)
                BY <3>2 DEF Security!RefreshedOnce
            <4> HIDE DEF Security!Kinds
            <4> QED BY <1>1, <4>1, <4>2, <4>3
        <3>3. CASE s \notin DOMAIN tokens
            BY <1>2, <3>1, <3>3
        <3> QED BY <3>2, <3>3
    <2>2. /\ tokens'[t].exchanged <= 1 /\ tokens'[t].revoked
          /\ (Security!Kinds \X {t}) \subseteq revokedTokens'
        BY <1>1, <1>5
    <2> QED BY <2>1, <2>2 DEF Security!RefreshedOnce
<1>7. revokedTokens' \subseteq Security!Kinds \X Security!Tokens
    BY <1>1
<1> QED BY <1>1, <1>2, <1>4, <1>5, <1>6, <1>7
        DEF AccountsSaved, FailuresSaved, Security!LockSurvives, EntriesCounted,
            Security!EntriesAccounted

\* Entries go from the buffer to the file, or are lost on the way.
LEMMA FlushKeeps ==
    ASSUME SecurityInv,
           \/ Security!Start \/ Security!LoopBegins \/ Security!FlushRound
           \/ Security!ShutdownCancels \/ Security!ShutdownFlushes
    PROVE  SecurityInv'
<1> USE DEF SecurityInv, Security!TypeOK
<1>1. UNCHANGED <<users, usersFile, unsaved, securityFailures, locked, tokens, revokedTokens>>
    BY DEF Security!Start, Security!LoopBegins, Security!FlushRound, Security!ShutdownCancels,
       Security!ShutdownFlushes, Security!accountVars, Security!tokenVars
<1>2. /\ {buffer, written, securityLost, logged}' \subseteq 0..MaxEntries /\ EntriesCounted'
      /\ flusher' \in {"off", "new", "on", "ended", "failed"}
      /\ closing' \in {"no", "cancelled", "returned", "raised"}
    <2> USE SecurityParameters DEF Security!Flush, Security!FlushFails, EntriesCounted,
            Security!EntriesAccounted, Security!entryVars
    <2>1. CASE Security!Start \/ Security!LoopBegins
        BY <2>1 DEF Security!Start, Security!LoopBegins
    <2>2. CASE Security!FlushRound
        BY <2>2 DEF Security!FlushRound
    <2>3. CASE Security!ShutdownCancels
        BY <2>3 DEF Security!ShutdownCancels
    <2>4. CASE Security!ShutdownFlushes
        BY <2>4 DEF Security!ShutdownFlushes
    <2> QED BY <2>1, <2>2, <2>3, <2>4
<1> QED BY <1>1, <1>2, SecurityParameters
        DEF AccountsSaved, FailuresSaved, Security!LockSurvives, Security!RefreshedOnce

\* What a crash leaves is what was saved, or no account at all.
LEMMA SecurityCrashKeeps == ASSUME SecurityInv, Security!Crash PROVE SecurityInv'
<1> USE DEF SecurityInv, Security!TypeOK
<1>1. /\ usersFile' \in {usersFile, [u \in Users |-> Security!Unknown]} /\ users' = usersFile'
      /\ locked' = {u \in locked \ unsaved : users'[u].known} /\ unsaved' = {}
      /\ securityFailures' = [u \in Users |-> IF users'[u].known /\ u \notin unsaved
                                               THEN securityFailures[u] ELSE users'[u].attempts]
      /\ DOMAIN tokens' = {} /\ revokedTokens' = {}
      /\ buffer' = 0 /\ written' = 0 /\ securityLost' = 0 /\ logged' = 0
      /\ flusher' = "off" /\ closing' = "no"
    BY DEF Security!Crash
<1>2. users' \in [Users -> Security!Account]
    BY <1>1, UnknownType
<1>3. \A u \in Users \ unsaved : users'[u].known => users'[u] = users[u]
    BY <1>1, UnknownType DEF AccountsSaved
<1>4. \A u \in Users : users'[u].attempts \in 0..LockAfter
    BY <1>2 DEF Security!Account
<1>5. FailuresSaved'
    <2>1. \A u \in Users : securityFailures'[u] <= users'[u].attempts
        BY <1>1, <1>3, <1>4, SecurityParameters DEF FailuresSaved
    <2>2. \A u \in locked' : users'[u].locked
        BY <1>1, <1>3 DEF FailuresSaved, Security!LockSurvives
    <2> QED BY <2>1, <2>2 DEF FailuresSaved, Security!LockSurvives
<1>6. securityFailures' \in [Users -> 0..LockAfter]
    BY <1>1, <1>4, SecurityParameters
<1> QED BY <1>1, <1>2, <1>5, <1>6, SecurityParameters
        DEF AccountsSaved, Security!RefreshedOnce, EntriesCounted, Security!EntriesAccounted

LEMMA SecurityNext == ASSUME SecurityInv, [Security!Next]_securityVars PROVE SecurityInv'
<1>1. CASE UNCHANGED securityVars
    BY <1>1 DEF securityVars, SecurityInv, Security!TypeOK, AccountsSaved, FailuresSaved,
       Security!LockSurvives, EntriesCounted, Security!EntriesAccounted, Security!RefreshedOnce
<1>2. CASE Security!Next
    BY <1>2, UserKeeps, FailKeeps, UnlockKeeps, LoginKeeps, RevokeKeeps, RefreshKeeps,
       FlushKeeps, SecurityCrashKeeps
       DEF Security!Next, Security!AccountsNext, Security!AuditNext
<1> QED BY <1>1, <1>2

\* A first shutdown that returns has flushed, and nothing was lost before.
LEMMA AuditImplied ==
    ASSUME SecurityInv, [Security!Next]_securityVars, closing \in {"no", "cancelled"},
           closing' = "returned"
    PROVE  written' = logged'
<1>1. Security!ShutdownFlushes
    <2>1. \A u \in Users : ~(\/ Security!CreateUser(u) \/ Security!Refuse(u) \/ Security!LoginFails(u)
                             \/ Security!Login(u) \/ Security!Unlock(u) \/ Security!ChangePassword(u))
        BY DEF Security!CreateUser, Security!LoginFails, Security!Login, Security!Unlock,
           Security!Refuse, Security!ChangePassword, Security!Log, Security!logVars
    <2>2. ~(\E t \in DOMAIN tokens :
                Security!Refresh(t) \/ \E kind \in Security!Kinds : Security!Revoke(kind, t))
        BY DEF Security!Refresh, Security!Revoke, Security!logVars
    <2> QED BY <2>1, <2>2 DEF Security!Next, Security!AccountsNext, Security!AuditNext, securityVars,
            Security!Denied, Security!Start, Security!LoopBegins, Security!FlushRound,
            Security!ShutdownCancels, Security!Crash, Security!Log
<1>2. /\ securityLost = 0 /\ written' = written + buffer /\ logged' = logged
    BY <1>1 DEF Security!ShutdownFlushes, Security!Flush, Security!FlushFails, SecurityInv,
       EntriesCounted, Security!EntriesAccounted
<1> QED BY <1>2 DEF SecurityInv, EntriesCounted, Security!EntriesAccounted

-----------------------------------------------------------------------------
(* The custom nodes.                                                       *)

\* A clone is half done while its one process works on it, and whole, or torn by a pull, when
\* the process goes on to its packages.
CloningAlone ==
    /\ \A p, q \in Processes :
        nodeAt[p] = "cloning" /\ nodeAt[q] = "cloning" /\ target[p] = target[q] => p = q
    /\ \A p \in Processes : nodeAt[p] = "cloning" => tree[target[p]] = "partial"
    /\ \A p \in Processes :
        nodeAt[p] = "packages" /\ method[p] = "git" =>
            tree[target[p]] \in {"complete", "torn"}

InstallInv ==
    /\ tree \in [Nodes -> {"absent", "partial", "complete", "torn"}]
    /\ nodeAt \in [Processes -> {"idle", "cloning", "packages", "pulling"}]
    /\ target \in [Processes -> Nodes \union {"none"}]
    /\ \A p \in Processes : nodeAt[p] # "idle" => target[p] \in Nodes
    /\ method \in [Processes -> Node!Methods \union {"pull"}]
    /\ \A p \in Processes : nodeAt[p] = "pulling" => method[p] = "pull"
    /\ answer \in [Processes -> {"none", "ok", "failed"}]
    /\ \A p \in Processes : answer[p] = "ok" => target[p] \in Nodes
    /\ CloningAlone /\ Node!ClonedIsComplete

LEMMA InstallInit == ASSUME Node!Init PROVE InstallInv
BY DEF Node!Init, Node!NoNode, Node!Methods, InstallInv, CloningAlone, Node!ClonedIsComplete

LEMMA InstallKeeps ==
    ASSUME InstallInv, NEW p \in Processes, NEW n \in Nodes, NEW m \in Node!Methods,
           Node!Install(p, n, m)
    PROVE  InstallInv'
<1> USE DEF InstallInv, Node!Goto, Node!Answer, Node!Methods
<1>1. /\ nodeAt[p] = "idle"
      /\ target' = [target EXCEPT ![p] = n] /\ method' = [method EXCEPT ![p] = m]
    BY DEF Node!Install
<1>2. CASE /\ nodeAt' = [nodeAt EXCEPT ![p] = "idle"] /\ answer' = [answer EXCEPT ![p] = "failed"]
           /\ UNCHANGED tree
    BY <1>1, <1>2 DEF CloningAlone, Node!ClonedIsComplete
<1>3. CASE /\ nodeAt' = [nodeAt EXCEPT ![p] = "cloning"] /\ answer' = [answer EXCEPT ![p] = "none"]
           /\ tree[n] = "absent" /\ tree' = [tree EXCEPT ![n] = "partial"]
    BY <1>1, <1>3 DEF CloningAlone, Node!ClonedIsComplete
<1>4. CASE /\ nodeAt' = [nodeAt EXCEPT ![p] = "packages"] /\ answer' = [answer EXCEPT ![p] = "none"]
           /\ m # "git" /\ UNCHANGED tree
    BY <1>1, <1>4 DEF CloningAlone, Node!ClonedIsComplete
<1> QED BY <1>2, <1>3, <1>4 DEF Node!Install

LEMMA CloneKeeps ==
    ASSUME InstallInv, NEW p \in Processes, Node!CloneEnds(p)
    PROVE  InstallInv'
<1> USE DEF InstallInv, Node!Goto, Node!Answer, Node!Methods
<1>1. nodeAt[p] = "cloning" /\ target[p] \in Nodes /\ UNCHANGED <<target, method>>
    BY DEF Node!CloneEnds
<1>2. CASE /\ tree' = [tree EXCEPT ![target[p]] = "complete"]
           /\ nodeAt' = [nodeAt EXCEPT ![p] = "packages"] /\ UNCHANGED answer
    BY <1>1, <1>2 DEF CloningAlone, Node!ClonedIsComplete
<1>3. CASE /\ tree' = [tree EXCEPT ![target[p]] = "absent"] \/ UNCHANGED tree
           /\ nodeAt' = [nodeAt EXCEPT ![p] = "idle"] /\ answer' = [answer EXCEPT ![p] = "failed"]
    BY <1>1, <1>3 DEF CloningAlone, Node!ClonedIsComplete
<1> QED BY <1>2, <1>3 DEF Node!CloneEnds

LEMMA PackagesKeeps ==
    ASSUME InstallInv, NEW p \in Processes, Node!Packages(p)
    PROVE  InstallInv'
<1> USE DEF InstallInv, Node!Goto, Node!Answer, Node!Methods
<1>1. /\ nodeAt[p] = "packages" /\ target[p] \in Nodes
      /\ UNCHANGED <<tree, target, method>>
    BY DEF Node!Packages
<1>2. /\ nodeAt' = [nodeAt EXCEPT ![p] = "idle"]
      /\ \E a \in {"ok", "failed"} : answer' = [answer EXCEPT ![p] = a]
    BY DEF Node!Packages
<1> QED BY <1>1, <1>2 DEF CloningAlone, Node!ClonedIsComplete

LEMMA PullKeeps ==
    ASSUME InstallInv, NEW p \in Processes, Node!PullEnds(p)
    PROVE  InstallInv'
<1> USE DEF InstallInv, Node!Goto, Node!Answer, Node!Methods
<1>1. /\ nodeAt[p] = "pulling" /\ method[p] = "pull" /\ target[p] \in Nodes
      /\ UNCHANGED <<target, method>> /\ nodeAt' = [nodeAt EXCEPT ![p] = "idle"]
      /\ \E a \in {"ok", "failed"} : answer' = [answer EXCEPT ![p] = a]
    BY DEF Node!PullEnds
<1>2. \/ UNCHANGED tree
      \/ tree[target[p]] = "complete" /\ tree' = [tree EXCEPT ![target[p]] = "torn"]
    BY DEF Node!PullEnds
<1> QED BY <1>1, <1>2 DEF CloningAlone, Node!ClonedIsComplete

LEMMA UpdateKeeps ==
    ASSUME InstallInv, NEW p \in Processes, NEW n \in Nodes, Node!Update(p, n)
    PROVE  InstallInv'
<1> USE DEF InstallInv, Node!Goto, Node!Answer, Node!Methods
<1>1. /\ nodeAt[p] = "idle" /\ target' = [target EXCEPT ![p] = n]
      /\ method' = [method EXCEPT ![p] = "pull"] /\ UNCHANGED tree
      /\ \E t \in {"idle", "pulling"} : nodeAt' = [nodeAt EXCEPT ![p] = t]
      /\ \E a \in {"none", "failed"} : answer' = [answer EXCEPT ![p] = a]
    BY DEF Node!Update
<1> QED BY <1>1 DEF CloningAlone, Node!ClonedIsComplete

LEMMA InstallNext == ASSUME InstallInv, [Node!Next]_nodeVars PROVE InstallInv'
<1>1. CASE UNCHANGED <<tree, nodeAt, target, method, answer>>
    BY <1>1 DEF InstallInv, CloningAlone, Node!ClonedIsComplete
<1>2. \/ UNCHANGED <<tree, nodeAt, target, method, answer>>
      \/ \E p \in Processes, n \in Nodes :
            (\E m \in Node!Methods : Node!Install(p, n, m)) \/ Node!Update(p, n)
      \/ \E p \in Processes : Node!CloneEnds(p) \/ Node!Packages(p) \/ Node!PullEnds(p)
    BY DEF Node!Next, Node!NodesNext, Node!VersionsNext, Node!GenerateReport, Node!Recommend,
       Node!CheckVersion, Node!processes, nodeVars
<1> QED BY <1>1, <1>2, InstallKeeps, CloneKeeps, PackagesKeeps, PullKeeps, UpdateKeeps

\* A set of natural numbers has a least element.
LEMMA LeastOf ==
    ASSUME NEW S \in SUBSET Nat, S # {}
    PROVE  Node!Min(S) \in S /\ \A y \in S : Node!Min(S) <= y
<1>1. \E x \in S : \A y \in S : x <= y
    BY LeastExists
<1> QED BY <1>1 DEF Node!Min

\* The order of versions: a smaller number at the first difference, or a prefix.
Less(v, w) ==
    \/ \E i \in 1..Len(v) :
        i <= Len(w) /\ v[i] < w[i] /\ \A k \in 1..(i - 1) : v[k] = w[k]
    \/ Len(v) < Len(w) /\ \A k \in 1..Len(v) : v[k] = w[k]

\* What normalize() makes of a version string is a sequence of natural numbers.
LEMMA NormalizeTypes ==
    ASSUME NEW v \in [prefix : BOOLEAN, parts : Seq(Nat \union {-1})]
    PROVE  Node!Normalize(v) \in Seq(Nat)
<1> DEFINE f(i) == IF v.parts[i] = -1 THEN 0 ELSE v.parts[i]
<1>1. Node!Normalize(v) = [i \in 1..Len(v.parts) |-> f(i)]
    BY DEF Node!Normalize, Node!Word
<1>2. \A i \in 1..Len(v.parts) : f(i) \in Nat
    OBVIOUS
<1> HIDE DEF f
<1>3. [i \in 1..Len(v.parts) |-> f(i)] \in Seq(Nat)
    BY <1>2
<1> QED BY <1>1, <1>3

LEMMA SameSequence ==
    ASSUME NEW s \in Seq(Nat), NEW u \in Seq(Nat), Len(s) = Len(u),
           \A i \in 1..Len(s) : s[i] = u[i]
    PROVE  s = u
OBVIOUS

LEMMA ElementOf == ASSUME NEW s \in Seq(Nat), NEW i \in 1..Len(s) PROVE s[i] \in Nat
OBVIOUS

\* The first place where two sequences differ decides which of them is less.
LEMMA FirstDecides ==
    ASSUME NEW a \in Seq(Nat), NEW b \in Seq(Nat), NEW i \in Nat,
           i \in 1..Len(a), i \in 1..Len(b), a[i] # b[i], \A k \in 1..(i - 1) : a[k] = b[k]
    PROVE  a[i] < b[i] <=> Less(a, b)
<1>1. ASSUME a[i] < b[i] PROVE Less(a, b)
    BY <1>1 DEF Less
<1>2. ASSUME Less(a, b) PROVE a[i] < b[i]
    <2>1. ~(\A k \in 1..Len(a) : a[k] = b[k])
        OBVIOUS
    <2>2. PICK j \in 1..Len(a) : j <= Len(b) /\ a[j] < b[j] /\ \A k \in 1..(j - 1) : a[k] = b[k]
        BY <1>2, <2>1 DEF Less
    <2>3. a[j] \in Nat /\ b[j] \in Nat /\ a[j] # b[j]
        <3>1. j \in 1..Len(b)
            BY <2>2
        <3>2. a[j] \in Nat /\ b[j] \in Nat
            BY <3>1, ElementOf
        <3> QED BY <2>2, <3>2
    <2>4. ~(i < j) /\ ~(j < i)
        BY <2>2, <2>3
    <2>5. j = i
        BY <2>4
    <2> QED BY <2>2, <2>5
<1> QED BY <1>1, <1>2

\* _compare_versions() is negative below, positive above, and zero if the numbers are the
\* same.
LEMMA CompareOrders ==
    ASSUME NEW v, NEW w, Node!Normalize(v) \in Seq(Nat), Node!Normalize(w) \in Seq(Nat)
    PROVE  /\ Node!Compare(v, w) \in Int
           /\ Node!Compare(v, w) = 0 <=> Node!Normalize(v) = Node!Normalize(w)
           /\ Node!Compare(v, w) < 0 <=> Less(Node!Normalize(v), Node!Normalize(w))
           /\ Node!Compare(v, w) > 0 <=> Less(Node!Normalize(w), Node!Normalize(v))
<1> DEFINE a == Node!Normalize(v)
           b == Node!Normalize(w)
           m == Node!Min({Len(a), Len(b)})
           differ == {i \in 1..m : a[i] # b[i]}
           first == Node!Min(differ)
<1>1. a \in Seq(Nat) /\ b \in Seq(Nat)
    OBVIOUS
<1>2. Node!Difference(a, b) = IF differ = {} THEN 0 ELSE first
    BY DEF Node!Difference
<1>3. Node!Compare(v, w) =
        IF Node!Difference(a, b) = 0 THEN Len(a) - Len(b)
        ELSE IF a[Node!Difference(a, b)] < b[Node!Difference(a, b)] THEN -1 ELSE 1
    BY DEF Node!Compare
<1> HIDE DEF a, b
<1>4. m \in {Len(a), Len(b)} /\ m <= Len(a) /\ m <= Len(b)
    <2>1. {Len(a), Len(b)} \in SUBSET Nat /\ {Len(a), Len(b)} # {}
        BY <1>1
    <2> QED BY <2>1, LeastOf
<1> HIDE DEF m
<1>5. m \in Nat /\ \A i \in 1..m : i \in 1..Len(a) /\ i \in 1..Len(b)
    <2>1. Len(a) \in Nat /\ Len(b) \in Nat
        BY <1>1
    <2> QED BY <1>4, <2>1
<1>6. CASE differ = {}
    <2>1. \A i \in 1..m : a[i] = b[i]
        BY <1>6
    <2>2. Node!Compare(v, w) = Len(a) - Len(b)
        BY <1>2, <1>3, <1>6
    <2>3. ASSUME Len(a) = Len(b) PROVE a = b
        <3>1. m = Len(a)
            BY <1>4, <2>3
        <3>2. \A i \in 1..Len(a) : a[i] = b[i]
            BY <2>1, <3>1
        <3> QED BY <1>1, <2>3, <3>2, SameSequence
    <2>4. Len(a) < Len(b) <=> Less(a, b)
        BY <1>1, <1>4, <2>1 DEF Less
    <2>5. Len(b) < Len(a) <=> Less(b, a)
        BY <1>1, <1>4, <2>1 DEF Less
    <2> QED BY <1>1, <2>2, <2>3, <2>4, <2>5 DEF a, b
<1>7. CASE differ # {}
    <2>1. first \in differ /\ \A i \in differ : first <= i
        <3>1. differ \in SUBSET Nat
            BY <1>5
        <3> HIDE DEF differ
        <3> QED BY <1>7, <3>1, LeastOf
    <2> HIDE DEF first
    <2>2. /\ first \in 1..m /\ a[first] # b[first] /\ a[first] \in Nat /\ b[first] \in Nat
          /\ first \in 1..Len(a) /\ first \in 1..Len(b)
          /\ \A k \in 1..(first - 1) : a[k] = b[k]
        <3>1. first \in 1..m /\ a[first] # b[first]
            BY <2>1
        <3>2. first \in 1..Len(a) /\ first \in 1..Len(b)
            BY <1>5, <3>1
        <3>3. a[first] \in Nat /\ b[first] \in Nat
            BY <1>1, <3>2, ElementOf
        <3>4. ASSUME NEW k \in 1..(first - 1) PROVE a[k] = b[k]
            <4>1. k \in 1..m /\ ~(first <= k)
                BY <1>5, <3>1, <3>4
            <4> QED BY <2>1, <4>1
        <3> QED BY <3>1, <3>2, <3>3, <3>4
    <2>3. Node!Compare(v, w) = IF a[first] < b[first] THEN -1 ELSE 1
        <3>1. Node!Difference(a, b) = first /\ first # 0
            BY <1>2, <1>7, <2>2 DEF first
        <3> QED BY <1>3, <3>1
    <2>4. a[first] < b[first] <=> Less(a, b)
        BY <1>1, <2>2, FirstDecides
    <2>5. b[first] < a[first] <=> Less(b, a)
        <3>1. \A k \in 1..(first - 1) : b[k] = a[k]
            BY <2>2
        <3> QED BY <1>1, <2>2, <3>1, FirstDecides
    <2>6. a # b
        BY <2>2
    <2> QED BY <2>2, <2>3, <2>4, <2>5, <2>6 DEF a, b
<1> QED BY <1>6, <1>7

LEMMA LessTransitive ==
    ASSUME NEW u \in Seq(Nat), NEW v \in Seq(Nat), NEW w \in Seq(Nat), Less(u, v), Less(v, w)
    PROVE  Less(u, w)
<1>1. ASSUME NEW i \in 1..Len(u), i <= Len(v), u[i] < v[i], \A k \in 1..(i - 1) : u[k] = v[k],
             NEW j \in 1..Len(v), j <= Len(w), v[j] < w[j], \A k \in 1..(j - 1) : v[k] = w[k]
      PROVE  Less(u, w)
    <2>1. CASE i <= j
        <3>1. i \in 1..Len(v) /\ i \in 1..Len(w) /\ i <= Len(w)
            BY <1>1, <2>1
        <3>2. u[i] \in Nat /\ v[i] \in Nat /\ w[i] \in Nat
            BY <3>1
        <3>3. i = j \/ i \in 1..(j - 1)
            BY <2>1
        <3>4. u[i] < v[i] /\ (v[i] = w[i] \/ v[i] < w[i])
            BY <1>1, <3>3
        <3>5. u[i] < w[i]
            BY <3>2, <3>4
        <3>6. \A k \in 1..(i - 1) : k \in 1..(j - 1)
            BY <2>1
        <3>7. \A k \in 1..(i - 1) : u[k] = w[k]
            BY <1>1, <3>6
        <3> QED BY <3>1, <3>5, <3>7 DEF Less
    <2>2. CASE j < i
        <3>1. j \in 1..Len(u) /\ u[j] = v[j] /\ j \in 1..(i - 1)
            BY <1>1, <2>2
        <3>2. j <= Len(w) /\ u[j] < w[j] /\ \A k \in 1..(j - 1) : u[k] = w[k]
            BY <1>1, <2>2, <3>1
        <3> QED BY <3>1, <3>2 DEF Less
    <2> QED BY <2>1, <2>2
<1>2. ASSUME NEW i \in 1..Len(u), i <= Len(v), u[i] < v[i], \A k \in 1..(i - 1) : u[k] = v[k],
             Len(v) < Len(w), \A k \in 1..Len(v) : v[k] = w[k]
      PROVE  Less(u, w)
    <2>1. i \in 1..Len(v) /\ i <= Len(w) /\ u[i] < w[i] /\ \A k \in 1..(i - 1) : u[k] = w[k]
        BY <1>2
    <2> QED BY <2>1 DEF Less
<1>3. ASSUME Len(u) < Len(v), \A k \in 1..Len(u) : u[k] = v[k],
             NEW j \in 1..Len(v), j <= Len(w), v[j] < w[j], \A k \in 1..(j - 1) : v[k] = w[k]
      PROVE  Less(u, w)
    <2>1. CASE j <= Len(u)
        BY <1>3, <2>1 DEF Less
    <2>2. CASE Len(u) < j
        BY <1>3, <2>2 DEF Less
    <2> QED BY <2>1, <2>2
<1>4. ASSUME Len(u) < Len(v), \A k \in 1..Len(u) : u[k] = v[k],
             Len(v) < Len(w), \A k \in 1..Len(v) : v[k] = w[k]
      PROVE  Less(u, w)
    BY <1>4 DEF Less
<1> QED BY <1>1, <1>2, <1>3, <1>4 DEF Less

\* The last verdict is about the version that is installed.
VerdictInv ==
    /\ comfyui \in Versions
    /\ said.kind = "verdict" =>
        /\ said.least \in Node!Limit /\ said.most \in Node!Limit
        /\ said.compatible = Node!Meets(comfyui, said.least, said.most)

LEMMA VerdictInit == ASSUME Node!Init PROVE VerdictInv
BY DEF Node!Init, Node!Nothing, VerdictInv

LEMMA VerdictNext == ASSUME VerdictInv, [Node!Next]_nodeVars PROVE VerdictInv'
<1>1. CASE UNCHANGED <<comfyui, said>>
    BY <1>1 DEF VerdictInv, Node!Meets
<1>2. ASSUME Node!GenerateReport PROVE VerdictInv'
    <2>1. said'.kind = "report" /\ comfyui' = comfyui
        BY <1>2 DEF Node!GenerateReport
    <2> QED BY <2>1 DEF VerdictInv
<1>3. ASSUME NEW workflow \in SUBSET Nodes, Node!Recommend(workflow) PROVE VerdictInv'
    <2>1. said'.kind = "advice" /\ comfyui' = comfyui
        BY <1>3 DEF Node!Recommend
    <2> QED BY <2>1 DEF VerdictInv
<1>4. ASSUME NEW low \in Node!Limit, NEW high \in Node!Limit, Node!CheckVersion(low, high)
      PROVE  VerdictInv'
    <2>1. /\ said'.least = low /\ said'.most = high
          /\ said'.compatible = Node!Meets(comfyui, low, high) /\ comfyui' = comfyui
        BY <1>4 DEF Node!CheckVersion
    <2>2. Node!Meets(comfyui, low, high)' = Node!Meets(comfyui, low, high)
        BY <2>1 DEF Node!Meets
    <2> QED BY <2>1, <2>2 DEF VerdictInv, Node!Meets
<1>5. \/ UNCHANGED <<comfyui, said>> \/ Node!GenerateReport
      \/ \E workflow \in SUBSET Nodes : Node!Recommend(workflow)
      \/ \E low, high \in Node!Limit : Node!CheckVersion(low, high)
    BY DEF Node!Next, Node!NodesNext, Node!VersionsNext, Node!Install, Node!Update,
       Node!CloneEnds, Node!Packages, Node!PullEnds, nodeVars
<1> QED BY <1>1, <1>2, <1>3, <1>4, <1>5

LEMMA VersionsImplied == ASSUME VerdictInv PROVE Node!VersionsOrdered
<1> DEFINE N(u) == Node!Normalize(u)
<1>1. N(comfyui) \in Seq(Nat) /\ \A v \in Versions : N(v) \in Seq(Nat)
    BY NodeParameters, NormalizeTypes DEF VerdictInv
<1>2. \A v \in Versions : (Node!Compare(v, comfyui) = 0) = (N(v) = N(comfyui))
    BY <1>1, CompareOrders
<1>3. ASSUME said.kind = "verdict", said.compatible, NEW v \in Versions,
             \/ /\ said.least # Node!NoVersion
                /\ Node!Compare(v, said.least) > 0 /\ Node!Compare(comfyui, v) > 0
             \/ /\ said.most # Node!NoVersion
                /\ Node!Compare(v, said.most) < 0 /\ Node!Compare(comfyui, v) < 0
      PROVE  Node!Meets(v, said.least, said.most)
    <2>1. \A u \in Node!Limit : N(u) \in Seq(Nat)
        <3>1. [prefix |-> FALSE, parts |-> <<>>] \in [prefix : BOOLEAN, parts : Seq(Nat \union {-1})]
            OBVIOUS
        <3>2. N(Node!NoVersion) \in Seq(Nat)
            BY <3>1, NormalizeTypes DEF Node!NoVersion
        <3> QED BY <1>1, <3>2 DEF Node!Limit
    <2>0. said.least \in Node!Limit /\ said.most \in Node!Limit
        BY <1>3 DEF VerdictInv
    <2>2. Node!Meets(comfyui, said.least, said.most)
        BY <1>3 DEF VerdictInv
    <2>3. CASE /\ said.least # Node!NoVersion
               /\ Node!Compare(v, said.least) > 0 /\ Node!Compare(comfyui, v) > 0
        <3>1. ASSUME said.most # Node!NoVersion PROVE Node!Compare(v, said.most) <= 0
            <4>1. Node!Compare(comfyui, said.most) <= 0 /\ Less(N(v), N(comfyui))
                BY <1>1, <2>0, <2>1, <2>2, <2>3, <3>1, CompareOrders DEF Node!Meets
            <4>2. Less(N(comfyui), N(said.most)) \/ N(comfyui) = N(said.most)
                BY <1>1, <2>0, <2>1, <4>1, CompareOrders
            <4>3. Less(N(v), N(said.most))
                BY <1>1, <2>0, <2>1, <4>1, <4>2, LessTransitive
            <4> QED BY <1>1, <2>0, <2>1, <4>3, CompareOrders
        <3>2. Node!Compare(v, said.least) >= 0
            BY <1>1, <2>0, <2>1, <2>3, CompareOrders
        <3> QED BY <3>1, <3>2 DEF Node!Meets
    <2>4. CASE /\ said.most # Node!NoVersion
               /\ Node!Compare(v, said.most) < 0 /\ Node!Compare(comfyui, v) < 0
        <3>1. ASSUME said.least # Node!NoVersion PROVE Node!Compare(v, said.least) >= 0
            <4>1. Node!Compare(comfyui, said.least) >= 0 /\ Less(N(comfyui), N(v))
                BY <1>1, <2>0, <2>1, <2>2, <2>4, <3>1, CompareOrders DEF Node!Meets
            <4>2. Less(N(said.least), N(comfyui)) \/ N(comfyui) = N(said.least)
                BY <1>1, <2>0, <2>1, <4>1, CompareOrders
            <4>3. Less(N(said.least), N(v))
                BY <1>1, <2>0, <2>1, <4>1, <4>2, LessTransitive
            <4> QED BY <1>1, <2>0, <2>1, <4>3, CompareOrders
        <3>2. Node!Compare(v, said.most) <= 0
            BY <1>1, <2>0, <2>1, <2>4, CompareOrders
        <3> QED BY <3>1, <3>2 DEF Node!Meets
    <2> QED BY <1>3, <2>3, <2>4
<1> QED BY <1>2, <1>3 DEF Node!VersionsOrdered

-----------------------------------------------------------------------------
(* The plugins.                                                            *)

\* Who holds the lock is loading what is not loaded, or unloading what is; before the manager
\* is initialized nobody has a step to do, and shutdown() has none before it is called.
LockedStep ==
    /\ lock # "free" => \E n \in Plugins :
        \/ Plugin!Doing(lock, "load", n) /\ n \notin plugins
        \/ Plugin!Doing(lock, "unload", n) /\ n \in plugins
    /\ phase = "new" => \A a \in Plugin!Agents : todo[a] = <<>>
    /\ phase \in {"new", "running"} => todo["shutdown"] = <<>>

\* A plugin that is being loaded.
Loading(n) == lock # "free" /\ Plugin!Doing(lock, "load", n)

\* The instances that live are those left behind and the one that is loaded or being loaded.
InstancesAccounted ==
    \A n \in Plugins : alive[n] = pluginLeft[n] + IF n \in plugins \/ Loading(n) THEN 1 ELSE 0

PluginInv ==
    /\ alive \in [Plugins -> Int] /\ pluginLeft \in [Plugins -> Int] /\ plugins \subseteq Plugins
    /\ lock \in Plugin!Agents \union {"free"}
    /\ todo = [a \in Plugin!Agents |-> todo[a]]
    /\ LockedStep /\ InstancesAccounted

LEMMA AgentsDiffer ==
    /\ "free" \notin Plugin!Agents
    /\ {"discovery", "watcher", "shutdown"} \subseteq Plugin!Agents
    /\ Reloaders \subseteq Plugin!Agents
    /\ \A a \in Reloaders : a \notin {"discovery", "watcher", "shutdown"}
BY PluginParameters DEF Plugin!Agents

\* An agent does one step at a time.
LEMMA OneStep ==
    ASSUME NEW a, NEW n, NEW m, NEW op, NEW p, Plugin!Doing(a, op, n), Plugin!Doing(a, p, m)
    PROVE  op = p /\ n = m
<1>1. [op |-> op, name |-> n] = [op |-> p, name |-> m]
    BY DEF Plugin!Doing
<1> QED BY <1>1

LEMMA PluginInit == ASSUME Plugin!Init PROVE PluginInv
BY AgentsDiffer
   DEF Plugin!Init, Plugin!Free, PluginInv, LockedStep, InstancesAccounted, Loading

\* Steps are given to an agent that has none, and is not the one that holds the lock.
LEMMA GiveKeeps ==
    ASSUME PluginInv, UNCHANGED <<alive, pluginLeft, plugins, lock>>,
           NEW a \in Plugin!Agents, NEW steps, todo' = [todo EXCEPT ![a] = steps],
           todo[a] = <<>> \/ lock = "free" \/ steps = todo[a],
           phase' # "new", phase' = "running" => a # "shutdown" /\ phase \in {"new", "running"}
    PROVE  PluginInv'
<1>1. \A b \in Plugin!Agents \ {a} : todo'[b] = todo[b]
    BY DEF PluginInv
<1>2. lock # "free" => todo'[lock] = todo[lock]
    BY <1>1 DEF PluginInv, LockedStep, Plugin!Doing
<1>3. \A n \in Plugins : /\ Loading(n)' = Loading(n)
                         /\ lock # "free" => Plugin!Doing(lock, "load", n)' = Plugin!Doing(lock, "load", n)
                         /\ lock # "free" => Plugin!Doing(lock, "unload", n)' = Plugin!Doing(lock, "unload", n)
    BY <1>2 DEF Loading, Plugin!Doing
<1>4. todo' = [b \in Plugin!Agents |-> todo'[b]]
    BY DEF PluginInv
<1>5. LockedStep'
    BY <1>1, <1>3, AgentsDiffer DEF PluginInv, LockedStep
<1>6. InstancesAccounted'
    BY <1>3 DEF PluginInv, InstancesAccounted
<1> QED BY <1>4, <1>5, <1>6 DEF PluginInv

\* What changes neither the steps nor the instances.
LEMMA PluginRests ==
    ASSUME PluginInv, UNCHANGED <<alive, pluginLeft, plugins, lock, todo>>,
           phase' = phase \/ phase' = "over"
    PROVE  PluginInv'
BY DEF PluginInv, LockedStep, InstancesAccounted, Loading, Plugin!Doing

LEMMA RefusedKeeps ==
    ASSUME PluginInv, NEW a \in Plugin!Agents, NEW n \in Plugins,
           Plugin!LoadRefused(a, n) \/ Plugin!UnloadRefused(a, n)
    PROVE  PluginInv'
<1>1. /\ todo[a] # <<>> /\ lock = "free" /\ todo' = [todo EXCEPT ![a] = Tail(todo[a])]
      /\ UNCHANGED <<alive, pluginLeft, plugins, lock, phase>>
    BY DEF Plugin!LoadRefused, Plugin!UnloadRefused, Plugin!Doing, Plugin!Done, Plugin!Free,
       Plugin!instances
<1>2. phase # "new" /\ (phase = "running" => a # "shutdown")
    BY <1>1 DEF PluginInv, LockedStep
<1> QED BY <1>1, <1>2, GiveKeeps

LEMMA CallsKeep ==
    ASSUME PluginInv,
           \/ Plugin!Initialize
           \/ \E a \in Reloaders, n \in Plugins : Plugin!CallUnload(a, n) \/ Plugin!CallReload(a, n)
           \/ \E n \in Plugins : Plugin!WatcherNotices(n)
    PROVE  PluginInv'
<1>1. PICK a \in Plugin!Agents \ {"shutdown"} :
        todo[a] = <<>> /\ \E steps : todo' = [todo EXCEPT ![a] = steps]
    <2>1. CASE Plugin!Initialize
        BY <2>1, AgentsDiffer DEF Plugin!Initialize, PluginInv, LockedStep
    <2>2. CASE \E a \in Reloaders, n \in Plugins : Plugin!CallUnload(a, n) \/ Plugin!CallReload(a, n)
        BY <2>2, AgentsDiffer DEF Plugin!CallUnload, Plugin!CallReload
    <2>3. CASE \E n \in Plugins : Plugin!WatcherNotices(n)
        BY <2>3, AgentsDiffer DEF Plugin!WatcherNotices
    <2> QED BY <2>1, <2>2, <2>3
<1>2. UNCHANGED <<alive, pluginLeft, plugins, lock>> /\ phase' = "running" /\ phase \in {"new", "running"}
    BY DEF Plugin!Initialize, Plugin!CallUnload, Plugin!CallReload, Plugin!WatcherNotices,
       Plugin!instances
<1> QED BY <1>1, <1>2, GiveKeeps

LEMMA BeginsKeep ==
    ASSUME PluginInv, NEW a \in Plugin!Agents, NEW n \in Plugins,
           Plugin!LoadBegins(a, n) \/ Plugin!UnloadBegins(a, n)
    PROVE  PluginInv'
<1>1. /\ lock = "free" /\ lock' = a /\ a # "free" /\ todo[a] # <<>>
      /\ UNCHANGED <<pluginLeft, plugins, todo, phase>>
    BY AgentsDiffer DEF Plugin!LoadBegins, Plugin!UnloadBegins, Plugin!Doing, Plugin!Free,
       Plugin!instances
<1>2. PICK op \in {"load", "unload"} :
        /\ Plugin!Doing(a, op, n)
        /\ op = "load" => n \notin plugins /\ alive' = [alive EXCEPT ![n] = @ + 1]
        /\ op = "unload" => n \in plugins /\ alive' = alive
    BY DEF Plugin!LoadBegins, Plugin!UnloadBegins, Plugin!instances
<1>3. LockedStep'
    BY <1>1, <1>2 DEF PluginInv, LockedStep, Plugin!Doing
<1>4. \A m \in Plugins : Loading(m)' <=> op = "load" /\ m = n
    <2>1. \A m \in Plugins : Plugin!Doing(a, "load", m) <=> op = "load" /\ m = n
        BY <1>2, OneStep
    <2> QED BY <1>1, <2>1 DEF Loading, Plugin!Doing
<1>5. \A m \in Plugins : ~Loading(m)
    BY <1>1 DEF Loading
<1>6. InstancesAccounted'
    <2>1. CASE op = "load"
        BY <1>1, <1>2, <1>4, <1>5, <2>1 DEF PluginInv, InstancesAccounted
    <2>2. CASE op = "unload"
        BY <1>1, <1>2, <1>4, <1>5, <2>2 DEF PluginInv, InstancesAccounted
    <2> QED BY <2>1, <2>2
<1>7. alive' \in [Plugins -> Int]
    BY <1>2 DEF PluginInv
<1> QED BY <1>1, <1>3, <1>6, <1>7 DEF PluginInv

LEMMA EndsKeep ==
    ASSUME PluginInv, NEW a \in Plugin!Agents, NEW n \in Plugins,
           Plugin!LoadEnds(a, n) \/ Plugin!UnloadEnds(a, n)
    PROVE  PluginInv'
<1>1. /\ lock = a /\ lock # "free" /\ lock' = "free" /\ todo[a] # <<>>
      /\ todo' = [todo EXCEPT ![a] = Tail(todo[a])] /\ phase' = phase
    BY AgentsDiffer DEF Plugin!LoadEnds, Plugin!UnloadEnds, Plugin!Doing, Plugin!Done, Plugin!Free
<1>2. PICK op \in {"load", "unload"} :
        /\ Plugin!Doing(a, op, n)
        /\ op = "load" =>
            /\ alive' = alive
            /\ \/ plugins' = plugins \union {n} /\ pluginLeft' = pluginLeft
               \/ plugins' = plugins /\ pluginLeft' = [pluginLeft EXCEPT ![n] = @ + 1]
        /\ op = "unload" =>
            /\ plugins' = plugins \ {n} /\ alive' = [alive EXCEPT ![n] = @ - 1]
            /\ pluginLeft' = pluginLeft
    BY DEF Plugin!LoadEnds, Plugin!UnloadEnds
<1>3. \A m \in Plugins : Loading(m) <=> op = "load" /\ m = n
    BY <1>1, <1>2, OneStep DEF Loading
<1>4. (op = "load" => n \notin plugins) /\ (op = "unload" => n \in plugins)
    <2>1. PICK m \in Plugins : \/ Plugin!Doing(a, "load", m) /\ m \notin plugins
                               \/ Plugin!Doing(a, "unload", m) /\ m \in plugins
        BY <1>1 DEF PluginInv, LockedStep
    <2> QED BY <1>2, <2>1, OneStep
<1>5. \A m \in Plugins : ~Loading(m)'
    BY <1>1 DEF Loading
<1>6. phase # "new" /\ (phase = "running" => a # "shutdown")
    BY <1>1 DEF PluginInv, LockedStep
<1>7. LockedStep'
    BY <1>1, <1>6 DEF PluginInv, LockedStep
<1>8. /\ alive' \in [Plugins -> Int] /\ pluginLeft' \in [Plugins -> Int] /\ plugins' \subseteq Plugins
    BY <1>2 DEF PluginInv
<1>9. InstancesAccounted'
    <2>1. \A m \in Plugins \ {n} : /\ alive'[m] = alive[m] /\ pluginLeft'[m] = pluginLeft[m]
                                   /\ m \in plugins' <=> m \in plugins
        BY <1>2 DEF PluginInv
    <2>2. \A m \in Plugins \ {n} : alive'[m] = pluginLeft'[m] + IF m \in plugins' \/ Loading(m)' THEN 1 ELSE 0
        BY <1>3, <1>5, <2>1 DEF PluginInv, InstancesAccounted
    <2>3. alive'[n] = pluginLeft'[n] + IF n \in plugins' \/ Loading(n)' THEN 1 ELSE 0
        <3>1. alive[n] = pluginLeft[n] + 1 /\ alive[n] \in Int /\ pluginLeft[n] \in Int
            BY <1>2, <1>3, <1>4 DEF PluginInv, InstancesAccounted
        <3>2. CASE op = "load"
            BY <1>2, <1>4, <1>5, <3>1, <3>2 DEF PluginInv
        <3>3. CASE op = "unload"
            BY <1>2, <1>4, <1>5, <3>1, <3>3 DEF PluginInv
        <3> QED BY <3>2, <3>3
    <2> QED BY <2>2, <2>3 DEF InstancesAccounted
<1>10. todo' = [b \in Plugin!Agents |-> todo'[b]]
    BY <1>1 DEF PluginInv
<1> QED BY <1>1, <1>7, <1>8, <1>9, <1>10 DEF PluginInv

\* The instance that the watcher was loading is left behind.
LEMMA ShutdownKeeps == ASSUME PluginInv, Plugin!Shutdown PROVE PluginInv'
<1>1. /\ phase = "running" /\ phase' = "stopping"
      /\ lock' = IF lock = "watcher" THEN "free" ELSE lock
      /\ \E steps : todo' = [todo EXCEPT !["watcher"] = <<>>, !["shutdown"] = steps]
      /\ pluginLeft' = [n \in Plugins |->
            IF lock = "watcher" /\ Plugin!Doing("watcher", "load", n) THEN pluginLeft[n] + 1 ELSE pluginLeft[n]]
      /\ UNCHANGED <<plugins, alive>>
    BY DEF Plugin!Shutdown, Plugin!Free
<1>2. pluginLeft' \in [Plugins -> Int] /\ todo' = [b \in Plugin!Agents |-> todo'[b]]
    <2>1. PICK steps : todo' = [todo EXCEPT !["watcher"] = <<>>, !["shutdown"] = steps]
        BY <1>1
    <2>2. todo' = [b \in Plugin!Agents |-> todo'[b]]
        BY <2>1 DEF PluginInv
    <2>3. pluginLeft' \in [Plugins -> Int]
        BY <1>1 DEF PluginInv
    <2> QED BY <2>2, <2>3
<1>3. CASE lock = "watcher"
    <2>1. lock' = "free" /\ "watcher" # "free"
        BY <1>1, <1>3
    <2>2. \A n \in Plugins : ~Loading(n)' /\ (Loading(n) <=> Plugin!Doing("watcher", "load", n))
        BY <1>3, <2>1 DEF Loading
    <2>3. \A n \in Plugins : Loading(n) => n \notin plugins
        <3>1. PICK m \in Plugins : \/ Plugin!Doing(lock, "load", m) /\ m \notin plugins
                                   \/ Plugin!Doing(lock, "unload", m) /\ m \in plugins
            BY <1>3, <2>1 DEF PluginInv, LockedStep
        <3> QED BY <3>1, OneStep DEF Loading
    <2>4. InstancesAccounted'
        BY <1>1, <1>3, <2>2, <2>3 DEF PluginInv, InstancesAccounted
    <2> QED BY <1>1, <1>2, <2>1, <2>4, AgentsDiffer DEF PluginInv, LockedStep
<1>4. CASE lock # "watcher"
    <2>1. lock' = lock /\ pluginLeft' = pluginLeft
        BY <1>1, <1>4 DEF PluginInv
    <2>2. lock # "free" => lock # "shutdown" /\ todo'[lock] = todo[lock]
        BY <1>1, <1>4 DEF PluginInv, LockedStep, Plugin!Doing
    <2>3. \A n \in Plugins : Loading(n)' = Loading(n)
        BY <2>1, <2>2 DEF Loading, Plugin!Doing
    <2>4. LockedStep'
        BY <1>1, <2>1, <2>2 DEF PluginInv, LockedStep, Plugin!Doing
    <2> QED BY <1>1, <1>2, <2>1, <2>3, <2>4 DEF PluginInv, InstancesAccounted
<1> QED BY <1>3, <1>4

LEMMA PluginNext == ASSUME PluginInv, [Plugin!Next]_pluginVars PROVE PluginInv'
<1>1. CASE UNCHANGED pluginVars
    BY <1>1, PluginRests DEF pluginVars
<1>2. CASE Plugin!ShutdownEnds \/ Plugin!Over
    BY <1>2, PluginRests DEF Plugin!ShutdownEnds, Plugin!Over, Plugin!vars, Plugin!instances
<1>3. CASE \E n \in Plugins, works \in BOOLEAN : Plugin!Edit(n, works)
    BY <1>3, PluginRests DEF Plugin!Edit, Plugin!instances
<1> QED BY <1>1, <1>2, <1>3, CallsKeep, RefusedKeeps, BeginsKeep, EndsKeep, ShutdownKeeps
        DEF Plugin!Next

LEMMA PluginImplied == ASSUME PluginInv PROVE Plugin!OneInstance
BY DEF PluginInv, InstancesAccounted, Plugin!OneInstance

LEMMA PluginCount == \A S : Plugin!Cardinality(S) = Cardinality(S)
BY Zenon DEF Plugin!Cardinality, Cardinality

\* A set of plugins has an order: the place of a plugin is the number of those up to it.
LEMMA OrderOfPlugins ==
    ASSUME NEW S \in SUBSET Plugins
    PROVE  \E s \in Plugin!SetToSeqs(S) : \A i, k \in DOMAIN s : i < k => s[i] < s[k]
<1> DEFINE N == Cardinality(S)
           Below(x) == {y \in S : y <= x}
           place == [x \in S |-> Cardinality(Below(x))]
<1>1. IsFiniteSet(S) /\ N \in Nat /\ \A x \in S : x \in Nat
    BY PluginParameters, FS_Subset, FS_CardinalityType
<1>2. ASSUME NEW x \in S PROVE IsFiniteSet(Below(x)) /\ place[x] \in 1..N
    <2>1. Below(x) \in SUBSET S /\ x \in Below(x)
        BY <1>1
    <2>2. IsFiniteSet(Below(x)) /\ Cardinality(Below(x)) <= N /\ Cardinality(Below(x)) \in Nat
        <3> HIDE DEF Below
        <3> QED BY <1>1, <2>1, FS_Subset, FS_CardinalityType
    <2>3. Cardinality(Below(x)) # 0
        BY <2>1, <2>2, FS_EmptySet
    <2> HIDE DEF Below
    <2> QED BY <1>1, <2>2, <2>3
<1>3. ASSUME NEW x \in S, NEW y \in S, x < y PROVE place[x] < place[y]
    <2>1. Below(x) \in SUBSET Below(y) /\ Below(x) # Below(y)
        BY <1>1, <1>3
    <2>2. IsFiniteSet(Below(y)) /\ place[x] \in 1..N /\ place[y] \in 1..N
        BY <1>2
    <2>3. Cardinality(Below(x)) <= Cardinality(Below(y)) /\ Cardinality(Below(x)) # Cardinality(Below(y))
        <3> HIDE DEF Below
        <3> QED BY <2>1, <2>2, FS_Subset
    <2>4. place[x] = Cardinality(Below(x)) /\ place[y] = Cardinality(Below(y))
        OBVIOUS
    <2> HIDE DEF Below, place
    <2> QED BY <1>1, <2>2, <2>3, <2>4
<1>4. place \in [S -> 1..N]
    BY <1>2
<1> HIDE DEF Below, place
<1>5. \A x, y \in S : place[x] = place[y] => x = y
    BY <1>1, <1>3, <1>4
<1>6. \A n \in 1..N : \E x \in S : place[x] = n
    <2>1. IsFiniteSet(1..N) /\ Cardinality(1..N) = N
        BY <1>1, FS_Interval
    <2>2. place \in Injection(S, 1..N)
        BY <1>4, <1>5 DEF Injection, IsInjective
    <2>3. place \in Surjection(S, 1..N)
        BY <2>1, <2>2, FS_Injection
    <2> QED BY <2>3 DEF Surjection
<1> DEFINE s == [n \in 1..N |-> CHOOSE x \in S : place[x] = n]
<1>7. \A n \in 1..N : s[n] \in S /\ place[s[n]] = n
    BY <1>6
<1>8. s \in [1..N -> S] /\ DOMAIN s = 1..N
    BY <1>7
<1> HIDE DEF s
<1>9. s \in Plugin!SetToSeqs(S)
    BY <1>7, <1>8, PluginCount, Zenon DEF Plugin!SetToSeqs
<1>10. \A i, k \in 1..N : i < k => s[i] < s[k]
    BY <1>1, <1>3, <1>7
<1> QED BY <1>8, <1>9, <1>10

\* A sequence over S has each of its elements.
Covers(s, S) == s \in Seq(S) /\ \A n \in S : \E i \in 1..Len(s) : s[i] = n

LEMMA InOrderCovers == ASSUME NEW S \in SUBSET Plugins PROVE Covers(Plugin!InOrder(S), S)
<1> DEFINE s == Plugin!InOrder(S)
           N == Cardinality(S)
<1>1. s \in Plugin!SetToSeqs(S)
    <2>1. \E z \in Plugin!SetToSeqs(S) : \A i, k \in DOMAIN z : i < k => z[i] < z[k]
        BY OrderOfPlugins
    <2> QED BY <2>1, Zenon DEF Plugin!InOrder
<1> HIDE DEF s
<1>2. s \in [1..N -> S] /\ \A i, k \in 1..N : i # k => s[i] # s[k]
    BY <1>1, PluginCount, Zenon DEF Plugin!SetToSeqs
<1>3. IsFiniteSet(S) /\ N \in Nat /\ IsFiniteSet(1..N) /\ Cardinality(1..N) = N
    <2>1. IsFiniteSet(S) /\ N \in Nat
        BY PluginParameters, FS_Subset, FS_CardinalityType
    <2> QED BY <2>1, FS_Interval
<1>4. s \in Surjection(1..N, S)
    <2>1. s \in Injection(1..N, S)
        BY <1>2 DEF Injection, IsInjective
    <2> QED BY <1>3, <2>1, FS_Injection
<1> HIDE DEF N
<1>5. s \in Seq(S) /\ Len(s) = N
    BY <1>2, <1>3
<1>6. \A n \in S : \E i \in 1..N : s[i] = n
    BY <1>4 DEF Surjection
<1> QED BY <1>5, <1>6 DEF Covers, s

\* What a plugin that can be loaded requires can be loaded.
LEMMA LoadableRequires == \A n \in Plugin!Loadable : requires[n] \subseteq Plugin!Loadable
<1> DEFINE L == Plugin!Loadable
           S == {n \in Plugins : requires[n] \subseteq L}
<1>1. \A T \in SUBSET Plugins :
        (\A m \in Plugins : requires[m] \subseteq T => m \in T) => L \subseteq T
    BY DEF Plugin!Loadable
<1>2. S \subseteq L
    <2> SUFFICES ASSUME NEW n \in Plugins, requires[n] \subseteq L, NEW T \in SUBSET Plugins,
                        \A m \in Plugins : requires[m] \subseteq T => m \in T
                 PROVE  n \in T
        BY DEF Plugin!Loadable
    <2>1. L \subseteq T
        BY <1>1
    <2> QED BY <2>1
<1>3. \A m \in Plugins : requires[m] \subseteq S => m \in S
    BY <1>2
<1>4. S \in SUBSET Plugins
    OBVIOUS
<1> HIDE DEF L
<1>5. L \subseteq S
    BY <1>1, <1>3, <1>4
<1> QED BY <1>5 DEF L

\* Some plugin can be resolved, and one that can be loaded when nothing it requires is left: were
\* all that can be loaded and are left short of something, the others would be closed.
LEMMA ReadyPlugins ==
    ASSUME NEW U \in SUBSET Plugins, U # {}, NEW iteration \in Plugin!Iterations
    PROVE  /\ Plugin!Ready(U, iteration) \in SUBSET U /\ Plugin!Ready(U, iteration) # {}
           /\ \A n \in Plugin!Ready(U, iteration) \intersect Plugin!Loadable : requires[n] \intersect U = {}
<1> DEFINE free == {n \in U : requires[n] \cap U = {}}
<1>1. CASE free # {}
    BY <1>1 DEF Plugin!Ready
<1>2. CASE free = {}
    <2>1. Plugin!Ready(U, iteration) = {n \in U : \A m \in U : iteration[n] <= iteration[m]}
        BY <1>2 DEF Plugin!Ready
    <2>2. PICK n \in U : \A m \in U : iteration[n] <= iteration[m]
        <3> DEFINE A == {iteration[n] : n \in U}
        <3>1. A \in SUBSET Nat /\ A # {}
            BY PluginParameters DEF Plugin!Iterations
        <3>2. PICK x \in A : \A y \in A : x <= y
            <4> HIDE DEF A
            <4> QED BY <3>1, LeastExists
        <3> QED BY <3>2
    <2>3. Plugin!Loadable \intersect U = {}
        <3> DEFINE S == Plugin!Loadable \ U
        <3>1. S \in SUBSET Plugins
            BY DEF Plugin!Loadable
        <3>2. ASSUME NEW m \in Plugins, requires[m] \subseteq S PROVE m \in S
            <4>1. requires[m] \intersect U = {} /\ requires[m] \subseteq Plugin!Loadable
                BY <3>2
            <4>2. m \notin U
                BY <1>2, <4>1
            <4>3. m \in Plugin!Loadable
                BY <4>1 DEF Plugin!Loadable
            <4> QED BY <4>2, <4>3
        <3> HIDE DEF S
        <3>3. Plugin!Loadable \subseteq S
            BY <3>1, <3>2 DEF Plugin!Loadable
        <3> QED BY <3>3 DEF S
    <2> QED BY <2>1, <2>2, <2>3
<1> QED BY <1>1, <1>2

\* What is put before an order of the others, and requires nothing that is left.
Ordered(s, U) ==
    /\ Covers(s, U)
    /\ \A i \in 1..Len(s) : s[i] \in Plugin!Loadable =>
        \A m \in requires[s[i]] \intersect U : \E k \in 1..(i - 1) : s[k] = m

LEMMA OrderGrows ==
    ASSUME NEW U, NEW R \in SUBSET U, NEW p, Covers(p, R), NEW q, Ordered(q, U \ R),
           \A n \in R \intersect Plugin!Loadable : requires[n] \intersect U = {}
    PROVE  Ordered(p \o q, U)
<1> DEFINE s == p \o q
<1>1. p \in Seq(U) /\ q \in Seq(U) /\ s \in Seq(U) /\ Len(s) = Len(p) + Len(q)
    BY DEF Covers, Ordered
<1>2. /\ \A i \in 1..Len(p) : s[i] = p[i] /\ p[i] \in R
      /\ \A i \in 1..Len(q) : s[Len(p) + i] = q[i] /\ q[i] \in U \ R
    BY <1>1 DEF Covers, Ordered
<1>3. Len(p) \in Nat /\ Len(q) \in Nat
    BY <1>1
<1> HIDE DEF s
<1>4. Covers(s, U)
    <2>1. ASSUME NEW n \in U PROVE \E i \in 1..Len(s) : s[i] = n
        <3>1. CASE n \in R
            <4>1. PICK i \in 1..Len(p) : p[i] = n
                BY <3>1 DEF Covers
            <4> QED BY <1>1, <1>2, <1>3, <4>1
        <3>2. CASE n \notin R
            <4>1. PICK i \in 1..Len(q) : q[i] = n
                BY <3>2 DEF Covers, Ordered
            <4>2. Len(p) + i \in 1..Len(s)
                BY <1>1, <1>3
            <4> QED BY <1>2, <4>1, <4>2
        <3> QED BY <3>1, <3>2
    <2> QED BY <1>1, <2>1 DEF Covers
<1>5. ASSUME NEW i \in 1..Len(s), s[i] \in Plugin!Loadable, NEW m \in requires[s[i]] \intersect U
      PROVE  \E k \in 1..(i - 1) : s[k] = m
    <2>1. CASE i <= Len(p)
        BY <1>2, <1>3, <1>5, <2>1
    <2>2. CASE i > Len(p)
        <3> DEFINE j == i - Len(p)
        <3>1. j \in 1..Len(q) /\ i = Len(p) + j /\ s[i] = q[j]
            <4>1. j \in 1..Len(q) /\ i = Len(p) + j
                BY <1>1, <1>3, <2>2
            <4>2. s[Len(p) + j] = q[j]
                <5> HIDE DEF j
                <5> QED BY <1>2, <4>1
            <4> HIDE DEF j
            <4> QED BY <4>1, <4>2
        <3>2. CASE m \in R
            <4>1. PICK k \in 1..Len(p) : p[k] = m
                BY <3>2 DEF Covers
            <4>2. k \in 1..(i - 1)
                BY <1>3, <2>2
            <4> QED BY <1>2, <4>1, <4>2
        <3>3. CASE m \notin R
            <4>1. PICK k \in 1..(j - 1) : q[k] = m
                BY <1>5, <3>1, <3>3 DEF Ordered
            <4>2. Len(p) + k \in 1..(i - 1) /\ k \in 1..Len(q)
                BY <1>3, <3>1, <4>1
            <4> QED BY <1>2, <4>1, <4>2
        <3> QED BY <3>2, <3>3
    <2> QED BY <1>1, <1>3, <2>1, <2>2
<1> QED BY <1>4, <1>5 DEF Ordered, s

\* The order that is made in rounds: what a round resolves comes before what is left by it.
Rounds(f, D, R, P) == f = [U \in D |-> IF U = {} THEN <<>> ELSE P[U] \o f[U \ R[U]]]

\* It exists, because a round leaves less.
LEMMA RoundsExist ==
    ASSUME NEW S, IsFiniteSet(S), NEW R, NEW P,
           \A U \in SUBSET S : U # {} => R[U] \in SUBSET U /\ R[U] # {}
    PROVE  \E f : Rounds(f, SUBSET S, R, P)
<1> DEFINE D(m) == {U \in SUBSET S : Cardinality(U) <= m}
           Without == {m \in Nat : ~\E f : Rounds(f, D(m), R, P)}
<1>1. \A U \in SUBSET S : IsFiniteSet(U) /\ Cardinality(U) \in Nat /\ Cardinality(U) <= Cardinality(S)
    BY FS_Subset, FS_CardinalityType
<1>2. \A U \in SUBSET S : U # {} => Cardinality(U \ R[U]) < Cardinality(U)
    <2> SUFFICES ASSUME NEW U \in SUBSET S, U # {} PROVE Cardinality(U \ R[U]) < Cardinality(U)
        OBVIOUS
    <2>1. U \ R[U] \in SUBSET U /\ U \ R[U] \in SUBSET S /\ U \ R[U] # U
        OBVIOUS
    <2>2. Cardinality(U \ R[U]) <= Cardinality(U) /\ Cardinality(U \ R[U]) # Cardinality(U)
        BY <1>1, <2>1, FS_Subset
    <2> QED BY <1>1, <2>1, <2>2
<1>3. Without = {}
    <2> SUFFICES ASSUME Without # {} PROVE FALSE
        OBVIOUS
    <2>1. PICK m \in Without : \A x \in Without : m <= x
        <3> HIDE DEF Without
        <3>1. Without \in SUBSET Nat
            BY DEF Without
        <3> QED BY <3>1, LeastExists
    <2>2. m \in Nat /\ ~\E f : Rounds(f, D(m), R, P)
        BY <2>1 DEF Without
    <2> DEFINE Made(f, g) == g = [U \in D(m) |-> IF U = {} THEN <<>> ELSE P[U] \o f[U \ R[U]]]
    <2>3. PICK f : m = 0 \/ Rounds(f, D(m - 1), R, P)
        <3>1. CASE m # 0
            <4>1. m - 1 \in Nat /\ ~(m <= m - 1)
                BY <2>2, <3>1
            <4>2. m - 1 \notin Without
                <5> HIDE DEF Without
                <5> QED BY <2>1, <4>1
            <4> QED BY <4>1, <4>2 DEF Without
        <3> QED BY <3>1
    <2> HIDE DEF Without
    <2> DEFINE g == [U \in D(m) |-> IF U = {} THEN <<>> ELSE P[U] \o f[U \ R[U]]]
    <2>4. ASSUME NEW U \in D(m), U # {} PROVE g[U \ R[U]] = f[U \ R[U]]
        <3> DEFINE V == U \ R[U]
        <3>1. /\ Cardinality(V) < Cardinality(U) /\ Cardinality(U) <= m /\ V \in SUBSET S
              /\ Cardinality(V) \in Nat /\ Cardinality(U) \in Nat
            BY <1>1, <1>2, <2>4
        <3>2. m # 0 /\ V \in D(m) /\ V \in D(m - 1)
            BY <2>2, <3>1
        <3> HIDE DEF V
        <3>3. f[V] = IF V = {} THEN <<>> ELSE P[V] \o f[V \ R[V]]
            <4> HIDE DEF D
            <4> QED BY <2>3, <3>2 DEF Rounds
        <3>4. g[V] = IF V = {} THEN <<>> ELSE P[V] \o f[V \ R[V]]
            <4> HIDE DEF D
            <4> QED BY <3>2
        <3> QED BY <3>3, <3>4 DEF V
    <2>5. Rounds(g, D(m), R, P)
        <3> HIDE DEF D
        <3>1. \A U \in D(m) : g[U] = IF U = {} THEN <<>> ELSE P[U] \o g[U \ R[U]]
            BY <2>4
        <3>2. DOMAIN g = D(m) /\ g = [U \in D(m) |-> g[U]]
            OBVIOUS
        <3> HIDE DEF g
        <3> QED BY <3>1, <3>2 DEF Rounds
    <2> HIDE DEF g
    <2> QED BY <2>2, <2>5
<1>4. D(Cardinality(S)) = SUBSET S
    BY <1>1
<1>5. Cardinality(S) \in Nat
    BY <1>1
<1>6. \A m \in Nat : \E f : Rounds(f, D(m), R, P)
    <2> HIDE DEF D
    <2> QED BY <1>3
<1> HIDE DEF D
<1> QED BY <1>4, <1>5, <1>6

\* A round resolves something, and nothing that can be loaded before what it requires.
Resolving(R, P) ==
    \A U \in SUBSET Plugins : U # {} =>
        /\ R[U] \in SUBSET U /\ R[U] # {} /\ Covers(P[U], R[U])
        /\ \A n \in R[U] \intersect Plugin!Loadable : requires[n] \intersect U = {}

LEMMA RoundsOrder ==
    ASSUME NEW R, NEW P, NEW f, Rounds(f, SUBSET Plugins, R, P), Resolving(R, P)
    PROVE  \A U \in SUBSET Plugins : Ordered(f[U], U)
<1> DEFINE Wrong == {U \in SUBSET Plugins : ~Ordered(f[U], U)}
           Sizes == {Cardinality(U) : U \in Wrong}
<1>1. \A U \in SUBSET Plugins : IsFiniteSet(U) /\ Cardinality(U) \in Nat
    BY PluginParameters, FS_Subset, FS_CardinalityType
<1> SUFFICES ASSUME Wrong # {} PROVE FALSE
    OBVIOUS
<1>2. Sizes \in SUBSET Nat /\ Sizes # {}
    BY <1>1
<1>3. PICK c \in Sizes : \A d \in Sizes : c <= d
    <2> HIDE DEF Sizes
    <2> QED BY <1>2, LeastExists
<1>4. PICK U \in Wrong : \A V \in Wrong : Cardinality(U) <= Cardinality(V)
    BY <1>3
<1> HIDE DEF Sizes
<1>5. U \in SUBSET Plugins /\ ~Ordered(f[U], U)
    BY <1>4
<1>6. f[U] = IF U = {} THEN <<>> ELSE P[U] \o f[U \ R[U]]
    BY <1>5 DEF Rounds
<1>7. U # {}
    <2>1. Ordered(<<>>, {})
        BY DEF Ordered, Covers
    <2> QED BY <1>5, <1>6, <2>1
<1>8. U \ R[U] \in SUBSET Plugins /\ U \ R[U] \in SUBSET U /\ U \ R[U] # U
    BY <1>5, <1>7 DEF Resolving
<1>9. Cardinality(U \ R[U]) < Cardinality(U)
    <2>1. Cardinality(U \ R[U]) <= Cardinality(U) /\ Cardinality(U \ R[U]) # Cardinality(U)
        BY <1>1, <1>5, <1>8, FS_Subset
    <2> QED BY <1>1, <1>5, <1>8, <2>1
<1>10. Ordered(f[U \ R[U]], U \ R[U])
    <2>1. U \ R[U] \notin Wrong
        <3> HIDE DEF Wrong
        <3> QED BY <1>1, <1>4, <1>5, <1>8, <1>9
    <2> QED BY <1>8, <2>1
<1>11. R[U] \in SUBSET U /\ Covers(P[U], R[U])
       /\ \A n \in R[U] \intersect Plugin!Loadable : requires[n] \intersect U = {}
    BY <1>5, <1>7 DEF Resolving
<1> HIDE DEF Wrong
<1>12. Ordered(P[U] \o f[U \ R[U]], U)
    BY <1>10, <1>11, OrderGrows
<1> QED BY <1>5, <1>6, <1>7, <1>12

LEMMA ResolvedOrdered ==
    ASSUME NEW iteration \in Plugin!Iterations PROVE Ordered(Plugin!Resolved(iteration), Plugins)
<1> DEFINE R == [U \in SUBSET Plugins |-> Plugin!Ready(U, iteration)]
           P == [U \in SUBSET Plugins |-> Plugin!InOrder(Plugin!Ready(U, iteration))]
           Is(f) == f = [U \in SUBSET Plugins |->
                IF U = {} THEN <<>>
                ELSE Plugin!InOrder(Plugin!Ready(U, iteration)) \o f[U \ Plugin!Ready(U, iteration)]]
<1>1. \A f : Is(f) <=> Rounds(f, SUBSET Plugins, R, P)
    BY DEF Rounds
<1>2. Resolving(R, P)
    <2> SUFFICES ASSUME NEW U \in SUBSET Plugins, U # {}
                 PROVE /\ R[U] \in SUBSET U /\ R[U] # {} /\ Covers(P[U], R[U])
                       /\ \A n \in R[U] \intersect Plugin!Loadable : requires[n] \intersect U = {}
        BY DEF Resolving
    <2>1. R[U] = Plugin!Ready(U, iteration) /\ P[U] = Plugin!InOrder(Plugin!Ready(U, iteration))
        OBVIOUS
    <2> HIDE DEF R, P
    <2> QED BY <2>1, ReadyPlugins, InOrderCovers
<1> DEFINE order == CHOOSE f : Is(f)
<1>3. Rounds(order, SUBSET Plugins, R, P)
    <2> HIDE DEF R, P
    <2>1. \E f : Rounds(f, SUBSET Plugins, R, P)
        BY <1>2, PluginParameters, RoundsExist DEF Resolving
    <2> HIDE DEF Is
    <2>2. \E f : Is(f)
        BY <1>1, <2>1
    <2>3. Is(order)
        BY <2>2
    <2> QED BY <1>1, <2>3
<1>4. Plugin!Resolved(iteration) = order[Plugins]
    BY DEF Plugin!Resolved
<1> HIDE DEF order, R, P
<1>5. \A U \in SUBSET Plugins : Ordered(order[U], U)
    BY <1>2, <1>3, RoundsOrder
<1> QED BY <1>4, <1>5

\* What the steps that discovery has left load: what can be loaded and is not, after all that it
\* requires and that is not loaded.
Awaited ==
    LET steps == todo["discovery"]
    IN  /\ \A i \in 1..Len(steps) : steps[i].op = "load"
        /\ \A n \in Plugin!Loadable \ plugins : \E i \in 1..Len(steps) : steps[i].name = n
        /\ \A i \in 1..Len(steps) : steps[i].name \in Plugin!Loadable =>
            \A m \in requires[steps[i].name] \ plugins : \E k \in 1..(i - 1) : steps[k].name = m

\* While discovery has steps to do nobody else has, and as long as nobody edits a file all that
\* it waits for works.
DiscoveryInv ==
    /\ todo = [a \in Plugin!Agents |-> todo[a]] /\ todo["discovery"] \in Seq(Plugin!Step)
    /\ edits \in Nat
    /\ phase = "new" => \A a \in Plugin!Agents : todo[a] = <<>>
    /\ todo["discovery"] # <<>> =>
        /\ \A a \in Plugin!Agents \ {"discovery"} : todo[a] = <<>>
        /\ edits = 0 => Awaited
    /\ edits = 0 => (\A n \in Plugins : disk[n]) /\ (lock = "discovery" => sound)

LEMMA DiscoveryInit == ASSUME Plugin!Init PROVE DiscoveryInv
BY AgentsDiffer DEF Plugin!Init, Plugin!Free, DiscoveryInv

LEMMA LoadableSame == ASSUME requires' = requires PROVE Plugin!Loadable' = Plugin!Loadable
BY DEF Plugin!Loadable

\* The steps of discovery are those of the resolved order.
LEMMA InitializeDiscovers == ASSUME DiscoveryInv, Plugin!Initialize PROVE DiscoveryInv'
<1>1. PICK iteration \in Plugin!Iterations :
        todo' = [todo EXCEPT !["discovery"] = Plugin!Steps("load", Plugin!Resolved(iteration))]
    BY DEF Plugin!Initialize
<1> DEFINE q == Plugin!Resolved(iteration)
           steps == Plugin!Steps("load", q)
<1>2. Ordered(q, Plugins)
    BY ResolvedOrdered
<1> HIDE DEF q
<1>3. q \in Seq(Plugins)
    BY <1>2 DEF Ordered, Covers
<1>4. /\ steps \in Seq(Plugin!Step) /\ Len(steps) = Len(q)
      /\ \A i \in 1..Len(q) : steps[i] = [op |-> "load", name |-> q[i]]
    <2>1. DOMAIN q = 1..Len(q) /\ Len(q) \in Nat /\ \A i \in 1..Len(q) : q[i] \in Plugins
        BY <1>3
    <2>2. steps = [i \in 1..Len(q) |-> [op |-> "load", name |-> q[i]]]
        BY <2>1 DEF Plugin!Steps
    <2> HIDE DEF steps
    <2>3. \A i \in 1..Len(q) : [op |-> "load", name |-> q[i]] \in Plugin!Step
        BY <2>1 DEF Plugin!Step
    <2> QED BY <2>1, <2>2, <2>3
<1> HIDE DEF steps
<1>5. \A i \in 1..Len(q) : steps[i].op = "load" /\ steps[i].name = q[i]
    <2> SUFFICES ASSUME NEW i \in 1..Len(q) PROVE steps[i].op = "load" /\ steps[i].name = q[i]
        OBVIOUS
    <2>1. steps[i] = [op |-> "load", name |-> q[i]]
        BY <1>4
    <2> QED BY <2>1
<1>6. \A n \in Plugin!Loadable : n \in Plugins /\ requires[n] \subseteq Plugins
    <2>1. \A n \in Plugin!Loadable : n \in Plugins
        BY DEF Plugin!Loadable
    <2> QED BY <2>1, LoadableRequires
<1>7. \A n \in Plugin!Loadable \ plugins : \E i \in 1..Len(steps) : steps[i].name = n
    BY <1>2, <1>4, <1>5, <1>6 DEF Ordered, Covers
<1>8. \A i \in 1..Len(steps) : steps[i].name \in Plugin!Loadable =>
        \A m \in requires[steps[i].name] \ plugins : \E k \in 1..(i - 1) : steps[k].name = m
    <2>1. \A i \in 1..Len(q) : q[i] \in Plugin!Loadable =>
            \A m \in requires[q[i]] : \E k \in 1..(i - 1) : q[k] = m
        BY <1>2, <1>6 DEF Ordered
    <2>2. \A i \in 1..Len(q) : \A k \in 1..(i - 1) : k \in 1..Len(q)
        BY <1>3
    <2>3. ASSUME NEW i \in 1..Len(q), q[i] \in Plugin!Loadable, NEW m \in requires[q[i]]
          PROVE  \E k \in 1..(i - 1) : steps[k].name = m
        <3>1. PICK k \in 1..(i - 1) : q[k] = m
            BY <2>1, <2>3
        <3> QED BY <1>5, <2>2, <3>1
    <2>4. Len(steps) = Len(q) /\ \A i \in 1..Len(q) : steps[i].name = q[i]
        BY <1>4, <1>5
    <2> QED BY <2>3, <2>4
<1>9. UNCHANGED <<requires, plugins, disk, edits, lock, sound>> /\ phase = "new" /\ phase' = "running"
    BY DEF Plugin!Initialize, Plugin!instances
<1>10. /\ todo' = [a \in Plugin!Agents |-> todo'[a]] /\ todo'["discovery"] = steps
       /\ \A a \in Plugin!Agents \ {"discovery"} : todo'[a] = <<>>
    BY <1>1, <1>9, AgentsDiffer DEF DiscoveryInv, steps, q
<1>11. Awaited'
    BY <1>4, <1>5, <1>7, <1>8, <1>9, <1>10, LoadableSame DEF Awaited
<1> QED BY <1>4, <1>9, <1>10, <1>11 DEF DiscoveryInv

\* Discovery has done a step: if it was to load what can be loaded, it has.
LEMMA DoneKeeps ==
    ASSUME DiscoveryInv, edits = 0, NEW n \in Plugins, Plugin!Doing("discovery", "load", n),
           todo' = [todo EXCEPT !["discovery"] = Tail(@)],
           requires' = requires, plugins \subseteq plugins',
           n \in Plugin!Loadable => n \in plugins'
    PROVE  Awaited' /\ (todo'["discovery"] = <<>> => Plugin!Loadable \subseteq plugins')
<1> DEFINE steps == todo["discovery"]
           rest == todo'["discovery"]
<1>1. /\ steps \in Seq(Plugin!Step) /\ steps # <<>> /\ rest = Tail(steps) /\ steps[1].name = n
      /\ Awaited
    BY AgentsDiffer DEF DiscoveryInv, Plugin!Doing
<1>2. /\ Len(steps) \in Nat /\ Len(rest) = Len(steps) - 1
      /\ \A i \in 1..Len(rest) : i + 1 \in 1..Len(steps) /\ rest[i] = steps[i + 1]
      /\ \A i \in 1..Len(steps) : i # 1 => i - 1 \in 1..Len(rest) /\ rest[i - 1] = steps[i]
    <2> HIDE DEF rest, steps
    <2>1. /\ Len(steps) \in Nat /\ Len(rest) = Len(steps) - 1
          /\ \A i \in 1..Len(rest) : i + 1 \in 1..Len(steps) /\ rest[i] = steps[i + 1]
        BY <1>1
    <2>2. ASSUME NEW i \in 1..Len(steps), i # 1
          PROVE  i - 1 \in 1..Len(rest) /\ rest[i - 1] = steps[i]
        <3>1. i - 1 \in 1..Len(rest) /\ (i - 1) + 1 = i
            BY <2>1, <2>2
        <3>2. rest[i - 1] = steps[(i - 1) + 1]
            BY <2>1, <3>1
        <3> QED BY <3>1, <3>2
    <2> QED BY <2>1, <2>2
<1>3. Plugin!Loadable' = Plugin!Loadable
    BY LoadableSame
<1>4. \A i \in 1..Len(rest) : rest[i].op = "load"
    BY <1>1, <1>2 DEF Awaited
<1>5. ASSUME NEW m \in Plugin!Loadable \ plugins' PROVE \E i \in 1..Len(rest) : rest[i].name = m
    <2>1. PICK i \in 1..Len(steps) : steps[i].name = m
        BY <1>1, <1>5 DEF Awaited
    <2>2. i # 1
        BY <1>1, <1>5, <2>1
    <2> QED BY <1>2, <2>1, <2>2
<1>6. ASSUME NEW i \in 1..Len(rest), rest[i].name \in Plugin!Loadable,
             NEW m \in requires[rest[i].name] \ plugins'
      PROVE  \E k \in 1..(i - 1) : rest[k].name = m
    <2>1. i + 1 \in 1..Len(steps) /\ steps[i + 1] = rest[i]
        BY <1>2
    <2>2. PICK k \in 1..i : steps[k].name = m
        BY <1>1, <1>6, <2>1 DEF Awaited
    <2>3. k # 1
        BY <1>1, <1>6, <2>2, LoadableRequires
    <2>4. k - 1 \in 1..(i - 1) /\ rest[k - 1] = steps[k]
        BY <1>2, <2>1, <2>2, <2>3
    <2> QED BY <2>2, <2>4
<1>7. Awaited'
    <2> HIDE DEF steps
    <2>1. \A l \in Plugin!Loadable \ plugins' : \E i \in 1..Len(rest) : rest[i].name = l
        BY <1>5
    <2>2. \A i \in 1..Len(rest) : rest[i].name \in Plugin!Loadable =>
            \A m \in requires[rest[i].name] \ plugins' : \E k \in 1..(i - 1) : rest[k].name = m
        BY <1>6
    <2>3. requires' = requires
        OBVIOUS
    <2>4. Awaited' <=>
            /\ \A i \in 1..Len(rest) : rest[i].op = "load"
            /\ \A l \in Plugin!Loadable' \ plugins' : \E i \in 1..Len(rest) : rest[i].name = l
            /\ \A i \in 1..Len(rest) : rest[i].name \in Plugin!Loadable' =>
                \A m \in requires'[rest[i].name] \ plugins' : \E k \in 1..(i - 1) : rest[k].name = m
        BY DEF Awaited
    <2> HIDE DEF rest
    <2> QED BY <1>3, <1>4, <2>1, <2>2, <2>3, <2>4
<1>8. ASSUME rest = <<>> PROVE Plugin!Loadable \subseteq plugins'
    <2>1. 1..Len(rest) = {}
        BY <1>8
    <2> QED BY <1>5, <2>1
<1> QED BY <1>7, <1>8

\* A step of a load or an unload, by whoever has it.
LEMMA StepKeeps ==
    ASSUME DiscoveryInv, NEW a \in Plugin!Agents, NEW n \in Plugins,
           \/ Plugin!LoadRefused(a, n) \/ Plugin!LoadBegins(a, n) \/ Plugin!LoadEnds(a, n)
           \/ Plugin!UnloadRefused(a, n) \/ Plugin!UnloadBegins(a, n) \/ Plugin!UnloadEnds(a, n)
    PROVE  /\ DiscoveryInv'
           /\ edits = 0 /\ todo["discovery"] # <<>> /\ todo'["discovery"] = <<>> =>
                Plugin!Loadable \subseteq plugins'
<1> DEFINE Loads == Plugin!LoadRefused(a, n) \/ Plugin!LoadBegins(a, n) \/ Plugin!LoadEnds(a, n)
           Goal == edits = 0 /\ todo["discovery"] # <<>> /\ todo'["discovery"] = <<>> =>
                        Plugin!Loadable \subseteq plugins'
<1>1. /\ UNCHANGED <<requires, edits, disk, phase>> /\ todo[a] # <<>>
      /\ \/ todo' = todo
         \/ todo' = [todo EXCEPT ![a] = Tail(@)]
      /\ \E op \in {"load", "unload"} : Plugin!Doing(a, op, n) /\ (op = "load" <=> Loads)
    BY DEF Plugin!LoadRefused, Plugin!LoadBegins, Plugin!LoadEnds, Plugin!UnloadRefused,
           Plugin!UnloadBegins, Plugin!UnloadEnds, Plugin!Doing, Plugin!Done, Plugin!instances
<1>2. /\ todo' = [b \in Plugin!Agents |-> todo'[b]] /\ todo'["discovery"] \in Seq(Plugin!Step)
      /\ \A b \in Plugin!Agents \ {a} : todo'[b] = todo[b]
    BY <1>1, AgentsDiffer DEF DiscoveryInv
<1>3. phase' # "new"
    BY <1>1 DEF DiscoveryInv
<1>4. CASE a # "discovery"
    <2>1. todo["discovery"] = <<>> /\ todo'["discovery"] = <<>>
        BY <1>1, <1>2, <1>4, AgentsDiffer DEF DiscoveryInv
    <2>2. lock' = "discovery" => lock = "discovery" /\ sound' = sound
        BY <1>4 DEF Plugin!LoadRefused, Plugin!LoadBegins, Plugin!LoadEnds, Plugin!UnloadRefused,
                    Plugin!UnloadBegins, Plugin!UnloadEnds, Plugin!instances, Plugin!Free
    <2> QED BY <1>1, <1>2, <1>3, <2>1, <2>2 DEF DiscoveryInv
<1>5. CASE a = "discovery" /\ edits # 0
    <2>1. todo["discovery"] # <<>> /\ \A b \in Plugin!Agents \ {"discovery"} : todo'[b] = <<>>
        BY <1>1, <1>2, <1>5 DEF DiscoveryInv
    <2> QED BY <1>1, <1>2, <1>3, <1>5, <2>1 DEF DiscoveryInv
<1>6. CASE a = "discovery" /\ edits = 0
    <2>1. /\ Awaited /\ (\A m \in Plugins : disk[m]) /\ (lock = "discovery" => sound)
          /\ \A b \in Plugin!Agents \ {"discovery"} : todo'[b] = <<>>
        BY <1>1, <1>2, <1>6 DEF DiscoveryInv
    <2>2. /\ Len(todo["discovery"]) \in Nat \ {0} /\ Plugin!Doing("discovery", todo["discovery"][1].op, n)
          /\ todo["discovery"][1].name = n /\ todo["discovery"][1].op = "load"
        <3>1. PICK op \in {"load", "unload"} : Plugin!Doing(a, op, n)
            BY <1>1
        <3>2. todo["discovery"] \in Seq(Plugin!Step) /\ todo["discovery"] # <<>>
              /\ todo["discovery"][1] = [op |-> op, name |-> n]
            BY <1>6, <3>1 DEF DiscoveryInv, Plugin!Doing
        <3>3. Len(todo["discovery"]) \in Nat \ {0} /\ 1 \in 1..Len(todo["discovery"])
            BY <3>2
        <3> QED BY <1>6, <2>1, <3>1, <3>2, <3>3 DEF Awaited
    <2>3. Loads /\ Plugin!Doing("discovery", "load", n)
        <3>1. \A op \in {"load", "unload"} : Plugin!Doing(a, op, n) => op = "load"
            BY <1>6, <2>2, OneStep
        <3> QED BY <1>1, <1>6, <2>2, <3>1
    <2>4. CASE Plugin!LoadBegins(a, n)
        <3>1. UNCHANGED <<todo, plugins, requires>> /\ sound'
            BY <2>1, <2>4 DEF Plugin!LoadBegins
        <3>2. Awaited'
            BY <2>1, <3>1, LoadableSame DEF Awaited
        <3> QED BY <1>1, <1>2, <1>3, <1>6, <2>1, <3>1, <3>2 DEF DiscoveryInv
    <2>5. CASE Plugin!LoadRefused(a, n) \/ Plugin!LoadEnds(a, n)
        <3>1. /\ todo' = [todo EXCEPT !["discovery"] = Tail(@)] /\ plugins \subseteq plugins'
              /\ lock' # "discovery"
            BY <1>6, <2>5 DEF Plugin!LoadRefused, Plugin!LoadEnds, Plugin!Done, Plugin!Free
        <3>2. n \in Plugin!Loadable => n \in plugins'
            <4>1. CASE Plugin!LoadEnds(a, n)
                BY <1>6, <2>1, <4>1 DEF Plugin!LoadEnds
            <4>2. CASE Plugin!LoadRefused(a, n) /\ n \in Plugin!Loadable
                <5>1. \A m \in requires[n] \ plugins : \E k \in 1..(1 - 1) : todo["discovery"][k].name = m
                    BY <2>1, <2>2, <4>2 DEF Awaited
                <5>2. requires[n] \subseteq plugins
                    BY <5>1
                <5> QED BY <2>1, <4>2, <5>2 DEF Plugin!LoadRefused
            <4> QED BY <2>5, <4>1, <4>2
        <3>3. Awaited' /\ (todo'["discovery"] = <<>> => Plugin!Loadable \subseteq plugins')
            BY <1>1, <1>6, <2>3, <3>1, <3>2, DoneKeeps
        <3> QED BY <1>1, <1>2, <1>3, <1>6, <2>1, <3>1, <3>3 DEF DiscoveryInv
    <2> QED BY <2>3, <2>4, <2>5
<1> QED BY <1>4, <1>5, <1>6

LEMMA DiscoveryNext ==
    ASSUME DiscoveryInv, [Plugin!Next]_pluginVars
    PROVE  /\ DiscoveryInv'
           /\ edits = 0 /\ todo["discovery"] # <<>> /\ todo'["discovery"] = <<>> =>
                Plugin!Loadable \subseteq plugins'
<1>1. CASE Plugin!Initialize
    <2>1. todo["discovery"] = <<>>
        BY <1>1, AgentsDiffer DEF Plugin!Initialize, DiscoveryInv
    <2> QED BY <1>1, <2>1, InitializeDiscovers
<1>2. CASE \/ Plugin!Shutdown
           \/ \E a \in Reloaders, n \in Plugins : Plugin!CallUnload(a, n) \/ Plugin!CallReload(a, n)
           \/ \E n \in Plugins : Plugin!WatcherNotices(n)
    <2>1. /\ todo["discovery"] = <<>> /\ todo'["discovery"] = <<>> /\ phase' # "new"
          /\ todo' = [a \in Plugin!Agents |-> todo'[a]]
          /\ UNCHANGED <<edits, disk, sound>> /\ (lock' = "discovery" => lock = "discovery")
        BY <1>2, AgentsDiffer DEF DiscoveryInv, Plugin!Shutdown, Plugin!CallUnload, Plugin!CallReload,
            Plugin!WatcherNotices, Plugin!instances, Plugin!Free
    <2> QED BY <2>1 DEF DiscoveryInv
<1>3. CASE \E n \in Plugins, works \in BOOLEAN : Plugin!Edit(n, works)
    <2>1. UNCHANGED <<todo, phase>> /\ edits' = edits + 1
        BY <1>3 DEF Plugin!Edit
    <2> QED BY <2>1 DEF DiscoveryInv
<1>4. CASE Plugin!ShutdownEnds \/ Plugin!Over \/ UNCHANGED pluginVars
    <2>1. UNCHANGED <<requires, todo, edits, disk, sound, lock, plugins>> /\ (phase' = phase \/ phase' # "new")
        BY <1>4 DEF Plugin!ShutdownEnds, Plugin!Over, Plugin!vars, Plugin!instances, pluginVars
    <2>2. Awaited' <=> Awaited
        BY <2>1, LoadableSame DEF Awaited
    <2> QED BY <2>1, <2>2 DEF DiscoveryInv
<1> QED BY <1>1, <1>2, <1>3, <1>4, StepKeeps DEF Plugin!Next

-----------------------------------------------------------------------------
(* The machines of a cluster.                                              *)

\* The machines that were ever launched, or begun.
Used == Scaler!Recorded \union unseen

\* The monitor has a record, or will have one, of the machines it was told of that exist,
\* machines are launched in their order, and of those that have a record the older ones age
\* first.
MachinesInOrder ==
    /\ cloud \subseteq Scaler!With({"pending", "running"}) \union flight \union unseen
    /\ \A m \in Used, n \in Machines : n < m => n \in Used
    /\ old \subseteq Scaler!Recorded
    /\ \A m \in old, n \in Scaler!Recorded : n < m => n \in old
    /\ flight # {} => at = "emergency"

VictimIsIdle ==
    scalerAsked # 0 => at = "down" /\ scalerAsked \in old /\ instances[scalerAsked] = "running"

ScalerInv ==
    /\ instances \in [Machines -> {"none", "pending", "running", "terminating"}]
    /\ cloud \subseteq Machines /\ flight \subseteq Machines /\ unseen \subseteq Machines
    /\ at \in {"off", "asleep", "up", "emergency", "down", "cleanup", "over"}
    /\ at \notin {"cleanup", "over"} => MachinesInOrder
    /\ VictimIsIdle

LEMMA ScalerInit == ASSUME Scaler!Init PROVE ScalerInv
BY DEF Scaler!Init, Scaler!Nil, ScalerInv, MachinesInOrder, VictimIsIdle, Used, Scaler!Recorded,
   Scaler!With

\* The oldest of the machines that run is idle when any of them is.
LEMMA VictimKnown ==
    ASSUME ScalerInv, at = "asleep", Scaler!Idle # {}
    PROVE  Scaler!Victim \in old /\ instances[Scaler!Victim] = "running" /\ Scaler!Victim # 0
<1> DEFINE run == Scaler!With({"running"})
<1>1. run \in SUBSET Nat /\ run # {}
    BY ScalerParameters DEF Scaler!Idle, Scaler!With
<1>2. Scaler!Victim = CHOOSE x \in run : \A y \in run : x <= y
    BY DEF Scaler!Victim, Scaler!Min
<1>3. \E x \in run : \A y \in run : x <= y
    BY <1>1, LeastExists
<1>4. Scaler!Victim \in run /\ \A y \in run : Scaler!Victim <= y
    BY <1>2, <1>3
<1>5. PICK r : r \in run /\ r \in old
    BY DEF Scaler!Idle
<1>6. Scaler!Victim \in Scaler!Recorded /\ Scaler!Victim \in Machines
    BY <1>4 DEF Scaler!Recorded, Scaler!With
<1>7. Scaler!Victim = r \/ Scaler!Victim < r
    BY <1>1, <1>4, <1>5
<1>8. Scaler!Victim \in old
    BY <1>5, <1>6, <1>7 DEF ScalerInv, MachinesInOrder
<1> QED BY <1>4, <1>6, <1>8, ScalerParameters DEF Scaler!With

LEMMA EvaluateKeeps ==
    ASSUME ScalerInv, NEW depth, NEW late, Scaler!Evaluate(depth, late) PROVE ScalerInv'
<1> DEFINE d == Scaler!Decision(depth, late, Cardinality(scalerNodes))
<1>1. /\ at = "asleep" /\ d.action # "maintain" /\ at' = d.action
      /\ scalerAsked' = IF d.action = "down" THEN Scaler!Victim ELSE 0
      /\ UNCHANGED <<instances, cloud, old, flight, unseen>>
    BY DEF Scaler!Evaluate, Scaler!world, Scaler!Nil, Scaler!Cardinality, Cardinality
<1>2. d.action \in {"maintain", "up", "emergency", "down"} /\ (d.action = "down" => Scaler!Idle # {})
    BY DEF Scaler!Decision
<1> HIDE DEF d
<1>3. flight = {}
    BY <1>1 DEF ScalerInv, MachinesInOrder
<1>4. MachinesInOrder'
    BY <1>1, <1>3 DEF ScalerInv, MachinesInOrder, Used, Scaler!Recorded, Scaler!With
<1>5. VictimIsIdle'
    <2>1. CASE d.action = "down"
        BY <1>1, <1>2, <2>1, VictimKnown DEF VictimIsIdle
    <2>2. CASE d.action # "down"
        BY <1>1, <2>2 DEF VictimIsIdle
    <2> QED BY <2>1, <2>2
<1>6. at' \in {"off", "asleep", "up", "emergency", "down", "cleanup", "over"}
    BY <1>1, <1>2
<1>7. UNCHANGED <<instances, cloud, flight, unseen>>
    BY <1>1
<1> QED BY <1>4, <1>5, <1>6, <1>7 DEF ScalerInv

\* A machine that is launched is the next one.
LEMMA LaunchKeeps ==
    ASSUME ScalerInv, NEW m \in Machines, NEW launched \in Launched, Scaler!Launch(m, launched)
    PROVE  ScalerInv'
<1>1. /\ at = "up" /\ m \in Scaler!New /\ \A n \in Scaler!New : m <= n
      /\ cloud' = cloud \union {m}
      /\ instances' = [instances EXCEPT ![m] = launched]
      /\ at' = "asleep" /\ UNCHANGED <<old, flight, scalerAsked, unseen>>
    BY DEF Scaler!Launch, Scaler!Cool
<1>2. launched \in {"pending", "running"} /\ Machines \subseteq Nat
    BY ScalerParameters
<1>3. MachinesInOrder /\ flight = {}
    BY <1>1 DEF ScalerInv, MachinesInOrder
<1>4. m \notin Used /\ \A n \in Machines : n \notin Used => m <= n
    BY <1>1 DEF Scaler!New, Used
<1>10. Scaler!Recorded' = Scaler!Recorded \union {m}
    BY <1>1, <1>2 DEF Scaler!Recorded, ScalerInv
<1>5. Used' = Used \union {m}
    BY <1>1, <1>10 DEF Used
<1>6. (cloud \subseteq Scaler!With({"pending", "running"}) \union flight \union unseen)'
    BY <1>1, <1>2, <1>3 DEF Scaler!With, ScalerInv, MachinesInOrder
<1>7. \A a \in Used', n \in Machines : n < a => n \in Used'
    BY <1>2, <1>3, <1>4, <1>5 DEF MachinesInOrder
<1>8. \A a \in old, n \in Scaler!Recorded' : n < a => n \in old
    BY <1>2, <1>3, <1>4, <1>10 DEF MachinesInOrder, Used, Scaler!Recorded, ScalerInv
<1>9. MachinesInOrder'
    BY <1>1, <1>3, <1>6, <1>7, <1>8, <1>10 DEF MachinesInOrder
<1> QED BY <1>1, <1>2, <1>9 DEF ScalerInv, VictimIsIdle

LEMMA LaunchTogetherKeeps ==
    ASSUME ScalerInv, NEW m \in Machines, Scaler!LaunchTogether(m) PROVE ScalerInv'
<1>1. /\ at = "emergency" /\ m \in Scaler!New /\ \A n \in Scaler!New : m <= n
      /\ cloud' = cloud \union {m} /\ flight' = flight \union {m}
      /\ UNCHANGED <<instances, at, old, scalerAsked, unseen>>
    BY DEF Scaler!LaunchTogether
<1>2. Machines \subseteq Nat
    BY ScalerParameters
<1>3. MachinesInOrder
    BY <1>1 DEF ScalerInv
<1>4. m \notin Used /\ \A n \in Machines : n \notin Used => m <= n
    BY <1>1 DEF Scaler!New, Used
<1>10. Scaler!Recorded' = Scaler!Recorded \union {m}
    BY <1>1 DEF Scaler!Recorded
<1>5. Used' = Used \union {m}
    BY <1>1, <1>10 DEF Used
<1>6. (cloud \subseteq Scaler!With({"pending", "running"}) \union flight \union unseen)'
    BY <1>1, <1>3 DEF Scaler!With, MachinesInOrder
<1>7. \A a \in Used', n \in Machines : n < a => n \in Used'
    BY <1>2, <1>3, <1>4, <1>5 DEF MachinesInOrder
<1>8. \A a \in old, n \in Scaler!Recorded' : n < a => n \in old
    BY <1>2, <1>3, <1>4, <1>10 DEF MachinesInOrder, Used, Scaler!Recorded, ScalerInv
<1>9. MachinesInOrder'
    BY <1>1, <1>3, <1>6, <1>7, <1>8, <1>10 DEF MachinesInOrder
<1> QED BY <1>1, <1>9 DEF ScalerInv, VictimIsIdle

LEMMA RecordKeeps ==
    ASSUME ScalerInv, NEW launched \in Launched, Scaler!RecordTogether(launched) PROVE ScalerInv'
<1>1. /\ at = "emergency" /\ at' = "asleep" /\ flight' = {}
      /\ instances' = [m \in Machines |-> IF m \in flight THEN launched ELSE instances[m]]
      /\ UNCHANGED <<cloud, old, scalerAsked, unseen>>
    BY DEF Scaler!RecordTogether, Scaler!Cool, Scaler!world
<1>2. launched \in {"pending", "running"}
    BY ScalerParameters
<1>3. MachinesInOrder
    BY <1>1 DEF ScalerInv
<1>4. Used' = Used /\ Scaler!Recorded' = Scaler!Recorded
    BY <1>1, <1>2 DEF Used, Scaler!Recorded, ScalerInv
<1>5. (cloud \subseteq Scaler!With({"pending", "running"}) \union flight \union unseen)'
    BY <1>1, <1>2, <1>3 DEF Scaler!With, ScalerInv, MachinesInOrder
<1>6. MachinesInOrder'
    BY <1>1, <1>3, <1>4, <1>5 DEF MachinesInOrder
<1> QED BY <1>1, <1>2, <1>6 DEF ScalerInv, VictimIsIdle

LEMMA TerminateKeeps ==
    ASSUME ScalerInv, NEW ok \in BOOLEAN, Scaler!Terminate(ok) PROVE ScalerInv'
<1>1. /\ at = "down" /\ at' = "asleep" /\ scalerAsked' = 0
      /\ instances' = IF ok THEN [instances EXCEPT ![scalerAsked] = "terminating"] ELSE instances
      /\ \/ UNCHANGED cloud /\ unseen' = IF ok THEN unseen \union ({scalerAsked} \intersect cloud) ELSE unseen
         \/ ok /\ cloud' = cloud \ {scalerAsked} /\ UNCHANGED unseen
      /\ UNCHANGED <<old, flight>>
    BY DEF Scaler!Terminate, Scaler!Cool, Scaler!Nil
<1>2. MachinesInOrder /\ flight = {}
    BY <1>1 DEF ScalerInv, MachinesInOrder
<1>3. scalerAsked \in Machines => instances[scalerAsked] # "none"
    BY ScalerParameters DEF ScalerInv, VictimIsIdle
<1>7. Scaler!Recorded' = Scaler!Recorded
    BY <1>1, <1>2, <1>3 DEF Scaler!Recorded, ScalerInv
<1>8. unseen' \subseteq Machines /\ cloud' \subseteq cloud
    BY <1>1 DEF ScalerInv
<1>4. Used' = Used
    <2>1. {scalerAsked} \intersect cloud \subseteq Scaler!Recorded \union unseen
        BY <1>2 DEF MachinesInOrder, Scaler!Recorded, Scaler!With
    <2> QED BY <1>1, <1>7, <2>1 DEF Used
<1>5. (cloud \subseteq Scaler!With({"pending", "running"}) \union flight \union unseen)'
    BY <1>1, <1>2 DEF Scaler!With, ScalerInv, MachinesInOrder
<1>6. MachinesInOrder'
    BY <1>1, <1>2, <1>4, <1>5, <1>7 DEF MachinesInOrder
<1> QED BY <1>1, <1>6, <1>8 DEF ScalerInv, VictimIsIdle

\* A call that has begun something it does not tell of.
LEMMA UnseenKeeps ==
    ASSUME ScalerInv, NEW m \in Machines, m \in Scaler!New, \A n \in Scaler!New : m <= n,
           at \in {"up", "emergency"}, at' \in {at, "asleep"}, at' = "asleep" => at = "up",
           unseen' = unseen \union {m}, UNCHANGED <<instances, cloud, old, flight, scalerAsked>>
    PROVE  ScalerInv'
<1>1. Machines \subseteq Nat
    BY ScalerParameters
<1>2. MachinesInOrder
    BY DEF ScalerInv
<1>3. Scaler!Recorded' = Scaler!Recorded /\ Used' = Used \union {m}
    BY DEF Scaler!Recorded, Used
<1>4. \A a \in Used', n \in Machines : n < a => n \in Used'
    BY <1>1, <1>2, <1>3 DEF MachinesInOrder, Scaler!New, Used
<1>5. (cloud \subseteq Scaler!With({"pending", "running"}) \union flight \union unseen)'
    BY <1>2 DEF MachinesInOrder, Scaler!With
<1>6. MachinesInOrder'
    BY <1>2, <1>3, <1>4, <1>5 DEF MachinesInOrder
<1> QED BY <1>6 DEF ScalerInv, VictimIsIdle

\* The rest leaves the machines as they are, or ends the monitor's work.
LEMMA MonitorKeeps ==
    ASSUME ScalerInv,
           \/ Scaler!Start \/ Scaler!Shutdown \/ Scaler!LaunchFails \/ Scaler!LaunchTogetherFails
           \/ \E m \in Machines : Scaler!LaunchUnseen(m) \/ Scaler!LaunchTogetherUnseen(m)
           \/ \E m \in Machines : Scaler!Boots(m) \/ Scaler!Fulfils(m) \/ Scaler!Vanishes(m)
           \/ \E m \in Machines : Scaler!Ages(m)
           \/ \E failed \in SUBSET Machines : Scaler!Cleanup(failed)
           \/ \E d \in {"up", "down"} : Scaler!CoolsDown(d)
           \/ Scaler!Over
    PROVE  ScalerInv'
<1> USE DEF Scaler!world
<1>1. CASE Scaler!Start
    BY <1>1 DEF Scaler!Start, ScalerInv, VictimIsIdle, MachinesInOrder, Used,
       Scaler!Recorded, Scaler!With
<1>2. CASE Scaler!Shutdown
    BY <1>2 DEF Scaler!Shutdown, Scaler!Nil, ScalerInv, VictimIsIdle
<1>3. CASE Scaler!LaunchFails
    BY <1>3 DEF Scaler!LaunchFails, Scaler!Cool, ScalerInv, VictimIsIdle, MachinesInOrder, Used,
       Scaler!Recorded, Scaler!With
<1>4. CASE Scaler!LaunchTogetherFails
    BY <1>4 DEF Scaler!LaunchTogetherFails, ScalerInv, VictimIsIdle, MachinesInOrder, Used,
       Scaler!Recorded, Scaler!With
<1>5. ASSUME NEW m \in Machines, Scaler!Boots(m) PROVE ScalerInv'
    BY <1>5 DEF Scaler!Boots, ScalerInv, VictimIsIdle, MachinesInOrder, Used,
       Scaler!Recorded, Scaler!With
<1>6. ASSUME NEW m \in Machines, Scaler!Ages(m) PROVE ScalerInv'
    <2>1. /\ m \in Scaler!Recorded /\ \A n \in Scaler!Recorded : n < m => n \in old
          /\ old' = old \union {m}
          /\ UNCHANGED <<instances, cloud, at, flight, scalerAsked, unseen>>
        BY <1>6 DEF Scaler!Ages
    <2>2. MachinesInOrder => MachinesInOrder'
        BY <2>1 DEF MachinesInOrder, Used, Scaler!Recorded, Scaler!With
    <2> QED BY <2>1, <2>2 DEF ScalerInv, VictimIsIdle
<1>7. ASSUME NEW failed \in SUBSET Machines, Scaler!Cleanup(failed) PROVE ScalerInv'
    BY <1>7 DEF Scaler!Cleanup, ScalerInv, VictimIsIdle
<1>8. ASSUME NEW d \in {"up", "down"}, Scaler!CoolsDown(d) PROVE ScalerInv'
    BY <1>8 DEF Scaler!CoolsDown, ScalerInv, VictimIsIdle, MachinesInOrder, Used,
       Scaler!Recorded, Scaler!With
<1>9. CASE Scaler!Over
    BY <1>9 DEF Scaler!Over, Scaler!vars, ScalerInv, VictimIsIdle, MachinesInOrder, Used,
       Scaler!Recorded, Scaler!With
<1>10. ASSUME NEW m \in Machines, Scaler!LaunchUnseen(m) \/ Scaler!LaunchTogetherUnseen(m) PROVE ScalerInv'
    BY <1>10, UnseenKeeps DEF Scaler!LaunchUnseen, Scaler!LaunchTogetherUnseen, Scaler!Cool
<1>11. ASSUME NEW m \in Machines, Scaler!Fulfils(m) \/ Scaler!Vanishes(m) PROVE ScalerInv'
    BY <1>11 DEF Scaler!Fulfils, Scaler!Vanishes, ScalerInv, VictimIsIdle, MachinesInOrder, Used,
       Scaler!Recorded, Scaler!With
<1> QED BY <1>1, <1>2, <1>3, <1>4, <1>5, <1>6, <1>7, <1>8, <1>9, <1>10, <1>11

LEMMA ScalerNext == ASSUME ScalerInv, [Scaler!Next]_scalerVars PROVE ScalerInv'
<1>1. CASE UNCHANGED scalerVars
    BY <1>1 DEF scalerVars, ScalerInv, VictimIsIdle, MachinesInOrder, Used,
       Scaler!Recorded, Scaler!With
<1>2. CASE Scaler!Next
    BY <1>2, MonitorKeeps, EvaluateKeeps, LaunchKeeps, LaunchTogetherKeeps, RecordKeeps,
       TerminateKeeps DEF Scaler!Next
<1> QED BY <1>1, <1>2

LEMMA ScalerImplied == ASSUME ScalerInv PROVE Scaler!MachinesKnown /\ Scaler!DownOnlyIdle
BY DEF ScalerInv, MachinesInOrder, VictimIsIdle, Scaler!MachinesKnown, Scaler!DownOnlyIdle,
   Scaler!Nil

-----------------------------------------------------------------------------
(* The machines of the providers.                                          *)

\* A machine costs money, or is on its way to.
Costs(k) == machines[k] \in {"requested", "pending", "running"}

CloudInv ==
    /\ machines \in [Cloud!Keys -> {"none", "requested", "pending", "running", "stopping"}]
    /\ waiting \in [Callers -> MachineIds \union {"none"}]
    /\ managed = [i \in DOMAIN managed |-> managed[i]]
    /\ \A k \in Cloud!Keys : Costs(k) => Cloud!Managed(k) \/ Cloud!Awaited(k) \/ k \in abandoned

LEMMA CloudInit == ASSUME Cloud!Init PROVE CloudInv
BY DEF Cloud!Init, CloudInv, Costs

LEMMA KeyOf == ASSUME NEW k \in Cloud!Keys PROVE k = <<k[1], k[2]>>
BY DEF Cloud!Keys

\* Who was managed under an identifier that is taken, is abandoned.
LEMMA ManageKnows ==
    ASSUME CloudInv, NEW id, NEW p, Cloud!Manage(id, p), NEW k \in Cloud!Keys,
           Cloud!Managed(k) \/ k \in abandoned \/ k = <<p, id>>
    PROVE  Cloud!Managed(k)' \/ k \in abandoned'
<1>1. managed' = [i \in DOMAIN managed \union {id} |-> IF i = id THEN p ELSE managed[i]]
    BY DEF Cloud!Manage
<1>2. abandoned' = (abandoned \ {<<p, id>>}) \union
            (IF id \in DOMAIN managed THEN {<<managed[id], id>>} \ {<<p, id>>} ELSE {})
    BY DEF Cloud!Manage
<1>3. k = <<k[1], k[2]>>
    BY KeyOf
<1>4. CASE k = <<p, id>>
    BY <1>1, <1>4 DEF Cloud!Managed
<1>5. CASE k # <<p, id>> /\ k \in abandoned
    BY <1>2, <1>5
<1>6. CASE k # <<p, id>> /\ Cloud!Managed(k) /\ k[2] # id
    BY <1>1, <1>6 DEF Cloud!Managed
<1>7. CASE k # <<p, id>> /\ Cloud!Managed(k) /\ k[2] = id
    BY <1>2, <1>3, <1>7 DEF Cloud!Managed
<1> QED BY <1>4, <1>5, <1>6, <1>7

LEMMA ManagedFunction ==
    ASSUME NEW id, NEW p, Cloud!Manage(id, p) PROVE managed' = [i \in DOMAIN managed' |-> managed'[i]]
BY DEF Cloud!Manage

\* Provisioning puts a machine under the key it creates.
LEMMA CreateKeeps ==
    ASSUME CloudInv, NEW id, NEW p, NEW cost, NEW launched \in {"pending", "running"},
           Cloud!Create(<<p, id>>, cost, launched), Cloud!Manage(id, p), UNCHANGED waiting
    PROVE  CloudInv'
<1>1. machines' = [machines EXCEPT ![<<p, id>>] = launched]
    BY DEF Cloud!Create
<1>2. \A k \in Cloud!Keys : Cloud!Awaited(k) => Cloud!Awaited(k)'
    BY DEF Cloud!Awaited
<1>3. ASSUME NEW k \in Cloud!Keys, Costs(k)'
      PROVE  Cloud!Managed(k)' \/ Cloud!Awaited(k)' \/ k \in abandoned'
    <2>1. k = <<p, id>> \/ Costs(k)
        BY <1>1, <1>3 DEF CloudInv, Costs
    <2>2. k = <<p, id>> \/ Cloud!Managed(k) \/ Cloud!Awaited(k) \/ k \in abandoned
        BY <2>1 DEF CloudInv
    <2> QED BY <2>2, <1>2, ManageKnows
<1>4. machines' \in [Cloud!Keys -> {"none", "requested", "pending", "running", "stopping"}]
    BY <1>1 DEF CloudInv
<1> QED BY <1>3, <1>4, ManagedFunction DEF CloudInv

LEMMA RequestKeeps ==
    ASSUME CloudInv, NEW c \in Callers, waiting[c] = "none", NEW s, Cloud!RequestSpot(c, s)
    PROVE  CloudInv'
<1>1. PICK id \in MachineIds :
        /\ machines' = [machines EXCEPT ![<<"aws", id>>] = "requested"]
        /\ waiting' = [waiting EXCEPT ![c] = id]
        /\ UNCHANGED <<managed, abandoned>>
    BY DEF Cloud!RequestSpot, Cloud!FreeIds, Cloud!Create
<1>2. \A k \in Cloud!Keys : Cloud!Awaited(k) => Cloud!Awaited(k)' \/ k = <<"aws", "none">>
    BY <1>1 DEF Cloud!Awaited, CloudInv
<1>3. \A k \in Cloud!Keys : k # <<"aws", "none">>
    BY CloudParameters DEF Cloud!Keys
<1>4. Cloud!Awaited(<<"aws", id>>)'
    BY <1>1 DEF Cloud!Awaited, CloudInv
<1>5. ASSUME NEW k \in Cloud!Keys, Costs(k)'
      PROVE  Cloud!Managed(k)' \/ Cloud!Awaited(k)' \/ k \in abandoned'
    <2>1. k = <<"aws", id>> \/ Costs(k)
        BY <1>1, <1>5 DEF CloudInv, Costs
    <2> QED BY <2>1, <1>1, <1>2, <1>3, <1>4 DEF CloudInv, Cloud!Managed
<1>6. machines' \in [Cloud!Keys -> {"none", "requested", "pending", "running", "stopping"}]
    BY <1>1 DEF CloudInv
<1>7. waiting' \in [Callers -> MachineIds \union {"none"}]
    BY <1>1 DEF CloudInv
<1> QED BY <1>1, <1>5, <1>6, <1>7 DEF CloudInv

LEMMA ProvisionKeeps ==
    ASSUME CloudInv, NEW c \in Callers, NEW name \in MachineNames, NEW w, Cloud!ProvisionBest(c, name, w)
    PROVE  CloudInv'
<1>1. waiting[c] = "none"
    BY DEF Cloud!ProvisionBest
<1>2. PICK s : \/ Cloud!ProvisionAws(s) \/ Cloud!RequestSpot(c, s)
               \/ Cloud!ProvisionGcp(name, s) \/ Cloud!ProvisionAzure(name, s)
    BY DEF Cloud!ProvisionBest
<1>3. CASE Cloud!ProvisionAws(s)
    BY <1>3, CreateKeeps DEF Cloud!ProvisionAws
<1>4. CASE Cloud!RequestSpot(c, s)
    BY <1>1, <1>4, RequestKeeps
<1>5. CASE Cloud!ProvisionGcp(name, s)
    BY <1>5, CreateKeeps DEF Cloud!ProvisionGcp
<1>6. CASE Cloud!ProvisionAzure(name, s)
    BY <1>6, CreateKeeps DEF Cloud!ProvisionAzure
<1> QED BY <1>2, <1>3, <1>4, <1>5, <1>6

\* A machine that comes to be, or comes back, without an answer is abandoned unless its key is
\* managed.
LEMMA LoseKeeps ==
    ASSUME CloudInv, NEW k0 \in Cloud!Keys, NEW state \in {"requested", "pending", "running"},
           machines' = [machines EXCEPT ![k0] = state], Cloud!Lose(k0), UNCHANGED <<managed, waiting>>
    PROVE  CloudInv'
<1>1. machines' \in [Cloud!Keys -> {"none", "requested", "pending", "running", "stopping"}]
    BY DEF CloudInv
<1>2. ASSUME NEW k \in Cloud!Keys, Costs(k)'
      PROVE  Cloud!Managed(k)' \/ Cloud!Awaited(k)' \/ k \in abandoned'
    <2>1. k = k0 \/ Costs(k)
        BY <1>2 DEF CloudInv, Costs
    <2>2. k = k0 => Cloud!Managed(k) \/ k \in abandoned'
        BY DEF Cloud!Lose
    <2>3. abandoned \subseteq abandoned'
        BY DEF Cloud!Lose
    <2> QED BY <2>1, <2>2, <2>3 DEF CloudInv, Cloud!Managed, Cloud!Awaited
<1> QED BY <1>1, <1>2 DEF CloudInv

LEMMA RaisesKeeps ==
    ASSUME CloudInv, NEW c, NEW name, NEW w, Cloud!ProvisionRaises(c, name, w) PROVE CloudInv'
<1>1. PICK k \in Cloud!Keys, state \in {"requested", "pending"} :
        machines' = [machines EXCEPT ![k] = state] /\ Cloud!Lose(k)
    BY DEF Cloud!ProvisionRaises, Cloud!Create
<1>2. UNCHANGED <<managed, waiting>>
    BY DEF Cloud!ProvisionRaises
<1> QED BY <1>1, <1>2, LoseKeeps

\* Of the machines that are awaited, only the caller's own stops being so.
LEMMA WaitEnds ==
    ASSUME CloudInv, NEW c \in Callers, waiting' = [waiting EXCEPT ![c] = "none"]
    PROVE  /\ waiting' \in [Callers -> MachineIds \union {"none"}]
           /\ \A k \in Cloud!Keys :
                Cloud!Awaited(k) => Cloud!Awaited(k)' \/ k = <<"aws", waiting[c]>>
BY DEF CloudInv, Cloud!Awaited

LEMMA SpotKeeps ==
    ASSUME CloudInv, NEW c \in Callers,
           Cloud!SpotFulfilled(c) \/ Cloud!SpotGivenUp(c)
    PROVE  CloudInv'
<1>1. waiting' = [waiting EXCEPT ![c] = "none"]
    BY DEF Cloud!SpotFulfilled, Cloud!SpotGivenUp
<1>2. CASE Cloud!SpotFulfilled(c)
    <2>1. Cloud!Manage(waiting[c], "aws") /\ UNCHANGED machines
        BY <1>2 DEF Cloud!SpotFulfilled
    <2>2. ASSUME NEW k \in Cloud!Keys, Costs(k)'
          PROVE  Cloud!Managed(k)' \/ Cloud!Awaited(k)' \/ k \in abandoned'
        BY <1>1, <2>1, <2>2, WaitEnds, ManageKnows, Zenon DEF CloudInv, Costs
    <2> QED BY <1>1, <2>1, <2>2, WaitEnds, ManagedFunction DEF CloudInv
<1>3. CASE Cloud!SpotGivenUp(c)
    <2>1. abandoned' = abandoned \union {<<"aws", waiting[c]>>} /\ UNCHANGED <<machines, managed>>
        BY <1>3 DEF Cloud!SpotGivenUp
    <2>2. ASSUME NEW k \in Cloud!Keys, Costs(k)'
          PROVE  Cloud!Managed(k)' \/ Cloud!Awaited(k)' \/ k \in abandoned'
        BY <1>1, <2>1, <2>2, WaitEnds DEF CloudInv, Costs, Cloud!Managed
    <2> QED BY <1>1, <2>1, <2>2, WaitEnds DEF CloudInv
<1> QED BY <1>2, <1>3

\* What is forgotten is terminated.
LEMMA ForgetKeeps ==
    ASSUME CloudInv, NEW id, NEW ok, Cloud!Terminate(id, ok) PROVE CloudInv'
<1> DEFINE k0 == <<managed[id], id>>
<1>1. /\ id \in DOMAIN managed /\ UNCHANGED <<waiting, abandoned>>
      /\ \/ UNCHANGED <<machines, managed>>
         \/ /\ \E s \in {"none", "stopping"} : machines' = [machines EXCEPT ![k0] = s]
            /\ UNCHANGED managed \/ managed' = [i \in DOMAIN managed \ {id} |-> managed[i]]
    BY DEF Cloud!Terminate, Cloud!End, Cloud!Forget
<1>2. CASE UNCHANGED <<machines, managed>>
    BY <1>1, <1>2 DEF CloudInv, Costs, Cloud!Managed, Cloud!Awaited
<1>3. CASE /\ \E s \in {"none", "stopping"} : machines' = [machines EXCEPT ![k0] = s]
           /\ UNCHANGED managed \/ managed' = [i \in DOMAIN managed \ {id} |-> managed[i]]
    <2>1. machines' \in [Cloud!Keys -> {"none", "requested", "pending", "running", "stopping"}]
        BY <1>3 DEF CloudInv
    <2>2. ASSUME NEW k \in Cloud!Keys, Costs(k)'
          PROVE  Cloud!Managed(k)' \/ Cloud!Awaited(k)' \/ k \in abandoned'
        <3>1. k # k0 /\ Costs(k)
            BY <1>3, <2>2 DEF CloudInv, Costs
        <3>2. Cloud!Managed(k) => k[2] # id
            BY <3>1, KeyOf DEF Cloud!Managed
        <3>3. Cloud!Managed(k) => Cloud!Managed(k)'
            BY <1>3, <3>2 DEF Cloud!Managed
        <3> QED BY <1>1, <3>1, <3>3 DEF CloudInv, Cloud!Awaited
    <2>3. managed' = [i \in DOMAIN managed' |-> managed'[i]]
        BY <1>3 DEF CloudInv
    <2> QED BY <1>1, <2>1, <2>2, <2>3 DEF CloudInv
<1> QED BY <1>1, <1>2, <1>3

LEMMA TurnsKeeps ==
    ASSUME CloudInv, NEW k \in Cloud!Keys,
           Cloud!Fulfils(k) \/ Cloud!Closes(k) \/ Cloud!Boots(k) \/ Cloud!Vanishes(k)
                \/ Cloud!Reclaims(k)
    PROVE  CloudInv'
<1>1. /\ \/ machines[k] = "requested" /\ machines' = [machines EXCEPT ![k] = "pending"]
         \/ machines[k] = "pending" /\ machines' = [machines EXCEPT ![k] = "running"]
         \/ \E s \in {"none", "stopping"} : machines' = [machines EXCEPT ![k] = s]
      /\ UNCHANGED <<managed, waiting, abandoned>>
    BY DEF Cloud!Fulfils, Cloud!Closes, Cloud!Boots, Cloud!Vanishes, Cloud!Reclaims, Cloud!Turns
<1>2. machines' \in [Cloud!Keys -> {"none", "requested", "pending", "running", "stopping"}]
    BY <1>1 DEF CloudInv
<1>3. \A n \in Cloud!Keys : Costs(n)' => Costs(n)
    BY <1>1 DEF CloudInv, Costs
<1> QED BY <1>1, <1>2, <1>3 DEF CloudInv, Cloud!Managed, Cloud!Awaited

LEMMA CloudNext == ASSUME CloudInv, [Cloud!Next]_cloudVars PROVE CloudInv'
<1>1. CASE UNCHANGED cloudVars
    BY <1>1 DEF cloudVars, CloudInv, Costs, Cloud!Managed, Cloud!Awaited
<1>2. ASSUME NEW k \in Cloud!Keys, Cloud!Survives(k) PROVE CloudInv'
    BY <1>2, LoseKeeps DEF Cloud!Survives
<1>3. CASE Cloud!Next
    BY <1>2, <1>3, ProvisionKeeps, RaisesKeeps, SpotKeeps, ForgetKeeps, TurnsKeeps DEF Cloud!Next
<1> QED BY <1>1, <1>3

LEMMA CloudImplied == ASSUME CloudInv PROVE Cloud!LeaksAreKnown
BY DEF CloudInv, Costs, Cloud!LeaksAreKnown, Cloud!Alive

-----------------------------------------------------------------------------
(* The instances that are paid for.                                        *)

CostInv ==
    /\ \A i \in DOMAIN running :
        "jobs" \in DOMAIN running[i] /\ running[i].jobs \in [PaidJobs -> Nat]
    /\ Cost!NoneIdle
    /\ submissions \in [PaidJobs -> Nat] /\ charges \in [PaidJobs -> Nat]
    /\ \A j \in PaidJobs : IsFiniteSet(Cost!Listings(j))
    /\ Cost!ChargedOnce

LEMMA CostCount == \A S : Cost!Cardinality(S) = Cardinality(S)
BY Zenon DEF Cost!Cardinality, Cardinality

\* A job is listed as often as the instances count.
LEMMA ListingsAre ==
    \A j \in PaidJobs : \A i, n : <<i, n>> \in Cost!Listings(j) <=> i \in DOMAIN running /\ n \in 1..running[i].jobs[j]
BY DEF Cost!Listings

LEMMA ListingsPairs ==
    \A j \in PaidJobs : \A x \in Cost!Listings(j) : x = <<x[1], x[2]>>
BY DEF Cost!Listings

LEMMA CostInit == ASSUME Cost!Init PROVE CostInv
<1>1. DOMAIN running = {}
    BY DEF Cost!Init
<1>2. \A j \in PaidJobs : Cost!Listings(j) = {}
    <2> SUFFICES ASSUME NEW j \in PaidJobs, NEW x \in Cost!Listings(j) PROVE FALSE
        OBVIOUS
    <2>1. <<x[1], x[2]>> \in Cost!Listings(j)
        BY ListingsPairs
    <2>2. x[1] \in DOMAIN running
        BY <2>1, ListingsAre
    <2> QED BY <1>1, <2>2
<1>3. submissions = [j \in PaidJobs |-> 0] /\ charges = [j \in PaidJobs |-> 0]
    BY DEF Cost!Init
<1>4. Cost!ChargedOnce
    BY <1>2, <1>3, CostCount, FS_EmptySet DEF Cost!ChargedOnce
<1>5. \A j \in PaidJobs : IsFiniteSet(Cost!Listings(j))
    BY <1>2, FS_EmptySet
<1> QED BY <1>1, <1>3, <1>4, <1>5 DEF CostInv, Cost!NoneIdle

LEMMA ScheduleKeeps ==
    ASSUME CostInv, NEW j \in PaidJobs, Cost!ScheduleJob(j) PROVE CostInv'
<1>1. PICK c \in Cost!ChoicesFor(j) :
        running' = [i \in DOMAIN running \union {c.name} |->
            IF i = c.name
            THEN [IF c.name \in DOMAIN running THEN running[c.name]
                  ELSE [price |-> c.price, start |-> now, jobs |-> [k \in PaidJobs |-> 0]]
                    EXCEPT !.jobs[j] = @ + 1]
            ELSE running[i]]
    BY DEF Cost!ScheduleJob
<1> DEFINE there == IF c.name \in DOMAIN running THEN running[c.name]
                    ELSE [price |-> c.price, start |-> now, jobs |-> [k \in PaidJobs |-> 0]]
<1>2. "jobs" \in DOMAIN there /\ there.jobs \in [PaidJobs -> Nat]
    BY DEF CostInv
<1>a. \A k \in PaidJobs : \A n : <<c.name, n>> \in Cost!Listings(k) <=> n \in 1..there.jobs[k]
    <2>1. CASE c.name \in DOMAIN running
        BY <2>1, ListingsAre
    <2>2. CASE c.name \notin DOMAIN running
        <3>1. \A k \in PaidJobs : there.jobs[k] = 0
            BY <2>2
        <3> QED BY <2>2, <3>1, ListingsAre
    <2> QED BY <2>1, <2>2
<1> DEFINE more == [there EXCEPT !.jobs[j] = @ + 1]
<1>3. running' = [i \in DOMAIN running \union {c.name} |-> IF i = c.name THEN more ELSE running[i]]
    BY <1>1
<1> HIDE DEF there
<1>4. /\ "jobs" \in DOMAIN more /\ more.jobs \in [PaidJobs -> Nat]
      /\ more.jobs[j] = there.jobs[j] + 1 /\ \A k \in PaidJobs \ {j} : more.jobs[k] = there.jobs[k]
    BY <1>2
<1> HIDE DEF more
<1>5. \A i \in DOMAIN running' : "jobs" \in DOMAIN running'[i] /\ running'[i].jobs \in [PaidJobs -> Nat]
    BY <1>3, <1>4 DEF CostInv
<1>6. Cost!NoneIdle'
    BY <1>2, <1>3, <1>4 DEF CostInv, Cost!NoneIdle, Cost!Used
<1> DEFINE new == <<c.name, there.jobs[j] + 1>>
<1>7. Cost!Listings(j)' = Cost!Listings(j) \union {new} /\ new \notin Cost!Listings(j)
    <2>1. \A i, n : <<i, n>> \in Cost!Listings(j)' <=> i \in DOMAIN running' /\ n \in 1..running'[i].jobs[j]
        BY DEF Cost!Listings
    <2>2. \A x \in Cost!Listings(j)' : x = <<x[1], x[2]>>
        BY DEF Cost!Listings
    <2>3. \A i, n : <<i, n>> \in Cost!Listings(j)' <=> <<i, n>> \in Cost!Listings(j) \/ <<i, n>> = new
        <3> TAKE i, n
        <3>1. CASE i = c.name
            <4>1. there.jobs[j] \in Nat /\ 1..(there.jobs[j] + 1) = (1..there.jobs[j]) \union {there.jobs[j] + 1}
                BY <1>2
            <4> QED BY <1>a, <1>3, <1>4, <2>1, <3>1, <4>1
        <3>2. CASE i # c.name
            BY <1>3, <2>1, <3>2, ListingsAre
        <3> QED BY <3>1, <3>2
    <2>4. new \notin Cost!Listings(j)
        BY <1>a, <1>2
    <2>5. \A x : x \in Cost!Listings(j)' <=> x \in Cost!Listings(j) \/ x = new
        BY <2>2, <2>3, ListingsPairs
    <2> QED BY <2>4, <2>5
<1>8. ASSUME NEW k \in PaidJobs \ {j} PROVE Cost!Listings(k)' = Cost!Listings(k)
    <2>1. \A i, n : <<i, n>> \in Cost!Listings(k)' <=> i \in DOMAIN running' /\ n \in 1..running'[i].jobs[k]
        BY DEF Cost!Listings
    <2>2. \A x \in Cost!Listings(k)' : x = <<x[1], x[2]>>
        BY DEF Cost!Listings
    <2>3. \A i, n : <<i, n>> \in Cost!Listings(k)' <=> <<i, n>> \in Cost!Listings(k)
        <3> TAKE i, n
        <3>1. CASE i = c.name
            BY <1>a, <1>3, <1>4, <2>1, <3>1
        <3>2. CASE i # c.name
            BY <1>3, <2>1, <3>2, ListingsAre
        <3> QED BY <3>1, <3>2
    <2>4. \A x : x \in Cost!Listings(k)' <=> x \in Cost!Listings(k)
        BY <2>2, <2>3, ListingsPairs
    <2> QED BY <2>4
<1> HIDE DEF new
<1>9. submissions' = [submissions EXCEPT ![j] = @ + 1] /\ charges' = charges
    BY DEF Cost!ScheduleJob
<1>10. /\ \A k \in PaidJobs : IsFiniteSet(Cost!Listings(k)')
       /\ Cardinality(Cost!Listings(j)') = Cardinality(Cost!Listings(j)) + 1
    BY <1>7, <1>8, FS_AddElement DEF CostInv
<1>11. \A k \in PaidJobs : Cardinality(Cost!Listings(k)) \in Nat
    BY FS_CardinalityType DEF CostInv
<1>12. \A k \in PaidJobs : charges'[k] + Cardinality(Cost!Listings(k)') = submissions'[k]
    BY <1>8, <1>9, <1>10, <1>11, CostCount DEF CostInv, Cost!ChargedOnce
<1>13. Cost!ChargedOnce'
    BY <1>12, CostCount DEF Cost!ChargedOnce
<1> QED BY <1>5, <1>6, <1>9, <1>10, <1>13 DEF CostInv

\* The last job to be complete takes its instance with it.
LEMMA CompleteKeeps ==
    ASSUME CostInv, NEW j \in PaidJobs, Cost!CompleteJob(j) PROVE CostInv'
<1> DEFINE i == scheduled[j]
           less == [running[i] EXCEPT !.jobs[j] = @ - 1]
           rest == [running EXCEPT ![i] = less]
<1>1. i \in DOMAIN running /\ running[i].jobs[j] > 0
    BY DEF Cost!CompleteJob
<1>2. running' = IF Cost!Used(i, rest) THEN rest ELSE Cost!Restrict(rest, DOMAIN rest \ {i})
    BY DEF Cost!CompleteJob, Cost!Without
<1>3. /\ "jobs" \in DOMAIN less /\ less.jobs \in [PaidJobs -> Nat]
      /\ less.jobs[j] = running[i].jobs[j] - 1
      /\ \A k \in PaidJobs \ {j} : less.jobs[k] = running[i].jobs[k]
    BY <1>1 DEF CostInv
<1>a. submissions' = submissions /\ charges' = [charges EXCEPT ![j] = @ + 1]
    BY DEF Cost!CompleteJob
<1> HIDE DEF less, i
<1>4. /\ DOMAIN rest = DOMAIN running /\ rest[i] = less
      /\ \A n \in DOMAIN running : n # i => rest[n] = running[n]
    BY <1>1
<1>5. \A n \in DOMAIN running : n # i => Cost!Used(n, rest)
    BY <1>4 DEF CostInv, Cost!NoneIdle, Cost!Used
<1>6. \A n \in DOMAIN rest : "jobs" \in DOMAIN rest[n] /\ rest[n].jobs \in [PaidJobs -> Nat]
    BY <1>3, <1>4 DEF CostInv
<1> HIDE DEF rest
<1>b. ~Cost!Used(i, rest) => running' = [n \in DOMAIN rest \ {i} |-> rest[n]]
    BY <1>2 DEF Cost!Restrict
<1>7. /\ \A n \in DOMAIN running' : "jobs" \in DOMAIN running'[n] /\ running'[n].jobs \in [PaidJobs -> Nat]
      /\ Cost!NoneIdle'
    <2>1. CASE Cost!Used(i, rest)
        BY <1>2, <1>4, <1>5, <1>6, <2>1 DEF Cost!NoneIdle
    <2>2. CASE ~Cost!Used(i, rest)
        BY <1>b, <1>4, <1>5, <1>6, <2>2 DEF Cost!NoneIdle, Cost!Used
    <2> QED BY <2>1, <2>2
\* An instance that is taken away lists nothing.
<1>8. ASSUME NEW k \in PaidJobs, NEW n, NEW m
      PROVE  <<n, m>> \in Cost!Listings(k)' <=> n \in DOMAIN rest /\ m \in 1..rest[n].jobs[k]
    <2>1. <<n, m>> \in Cost!Listings(k)' <=> n \in DOMAIN running' /\ m \in 1..running'[n].jobs[k]
        BY DEF Cost!Listings
    <2>2. CASE Cost!Used(i, rest)
        BY <1>2, <2>1, <2>2
    <2>3. CASE ~Cost!Used(i, rest)
        <3>1. rest[i].jobs[k] \in Nat /\ ~(rest[i].jobs[k] > 0)
            BY <1>1, <1>4, <1>6, <2>3 DEF Cost!Used
        <3>2. m \notin 1..rest[i].jobs[k]
            BY <3>1
        <3> QED BY <1>b, <2>1, <2>3, <3>2
    <2> QED BY <2>2, <2>3
<1> DEFINE last == <<i, running[i].jobs[j]>>
<1>c. \A k \in PaidJobs : \A x \in Cost!Listings(k)' : x = <<x[1], x[2]>>
    BY DEF Cost!Listings
<1>9. Cost!Listings(j)' = Cost!Listings(j) \ {last} /\ last \in Cost!Listings(j)
    <2>1. \A n, m : <<n, m>> \in Cost!Listings(j)' <=> <<n, m>> \in Cost!Listings(j) /\ <<n, m>> # last
        <3> TAKE n, m
        <3>1. CASE n = i
            <4>1. /\ running[i].jobs[j] \in Nat
                  /\ 1..(running[i].jobs[j] - 1) = (1..running[i].jobs[j]) \ {running[i].jobs[j]}
                BY <1>1 DEF CostInv
            <4> QED BY <1>1, <1>3, <1>4, <1>8, <3>1, <4>1, ListingsAre
        <3>2. CASE n # i
            BY <1>4, <1>8, <3>2, ListingsAre
        <3> QED BY <3>1, <3>2
    <2>2. last \in Cost!Listings(j)
        <3>1. running[i].jobs[j] \in 1..running[i].jobs[j]
            BY <1>1 DEF CostInv
        <3> QED BY <1>1, <3>1, ListingsAre
    <2>3. \A x : x \in Cost!Listings(j)' <=> x \in Cost!Listings(j) /\ x # last
        BY <1>c, <2>1, ListingsPairs
    <2> QED BY <2>2, <2>3
<1>10. ASSUME NEW k \in PaidJobs \ {j} PROVE Cost!Listings(k)' = Cost!Listings(k)
    <2>1. \A n, m : <<n, m>> \in Cost!Listings(k)' <=> <<n, m>> \in Cost!Listings(k)
        <3> TAKE n, m
        <3>1. CASE n = i
            BY <1>1, <1>3, <1>4, <1>8, <3>1, ListingsAre
        <3>2. CASE n # i
            BY <1>4, <1>8, <3>2, ListingsAre
        <3> QED BY <3>1, <3>2
    <2>2. \A x : x \in Cost!Listings(k)' <=> x \in Cost!Listings(k)
        BY <1>c, <2>1, ListingsPairs
    <2> QED BY <2>2
<1> HIDE DEF last
<1>11. /\ \A k \in PaidJobs : IsFiniteSet(Cost!Listings(k)')
       /\ Cardinality(Cost!Listings(j)') = Cardinality(Cost!Listings(j)) - 1
    BY <1>9, <1>10, FS_RemoveElement DEF CostInv
<1>12. \A k \in PaidJobs : Cardinality(Cost!Listings(k)) \in Nat
    BY FS_CardinalityType DEF CostInv
<1>13. \A k \in PaidJobs : charges'[k] + Cardinality(Cost!Listings(k)') = submissions'[k]
    BY <1>a, <1>10, <1>11, <1>12, CostCount DEF CostInv, Cost!ChargedOnce
<1>14. Cost!ChargedOnce'
    BY <1>13, CostCount DEF Cost!ChargedOnce
<1> QED BY <1>7, <1>a, <1>11, <1>14 DEF CostInv

\* The rest of a call that changes no instance.
LEMMA CostRests ==
    ASSUME CostInv, UNCHANGED <<running, submissions, charges>> PROVE CostInv'
BY DEF CostInv, Cost!NoneIdle, Cost!Used, Cost!ChargedOnce, Cost!Listings

\* There is nothing to terminate.
LEMMA OptimizeKeeps == ASSUME CostInv, Cost!Optimize PROVE CostInv'
<1>1. PICK aged : running' =
        Cost!Restrict(running, {i \in DOMAIN running : Cost!Used(i, running) \/ i \notin aged})
    BY DEF Cost!Optimize
<1>2. \A i \in DOMAIN running : Cost!Used(i, running)
    BY DEF CostInv, Cost!NoneIdle
<1>3. {i \in DOMAIN running : Cost!Used(i, running) \/ i \notin aged} = DOMAIN running
    BY <1>2
<1>4. running' = [i \in DOMAIN running |-> running[i]]
    BY <1>1, <1>3 DEF Cost!Restrict
<1>5. UNCHANGED <<submissions, charges>>
    BY DEF Cost!Optimize
<1>6. \A k \in PaidJobs : Cost!Listings(k)' = Cost!Listings(k)
    BY <1>4 DEF Cost!Listings
<1> QED BY <1>4, <1>5, <1>6 DEF CostInv, Cost!NoneIdle, Cost!Used, Cost!ChargedOnce

LEMMA CostNext == ASSUME CostInv, [Cost!Next]_costVars PROVE CostInv'
<1>1. CASE UNCHANGED costVars \/ (\E o \in Offers : Cost!AddPricing(o)) \/ Cost!Tick
    BY <1>1, CostRests DEF costVars, Cost!AddPricing, Cost!Tick
<1> QED BY <1>1, ScheduleKeeps, CompleteKeeps, OptimizeKeeps DEF Cost!Next

-----------------------------------------------------------------------------
(* Backups.                                                                *)

\* A cleanup comes after a backup that has succeeded, and nothing comes in between: with a
\* retention of a day the backup has not expired.
BackupInv ==
    /\ archive = [i \in Backup!Ids |-> archive[i]] /\ metadata = [i \in Backup!Ids |-> metadata[i]]
    /\ loop = "cleanup" => second \in Backup!Complete /\ (keeps => second \notin expired)

LEMMA BackupInit == ASSUME Backup!Init PROVE BackupInv
BY DEF Backup!Init, BackupInv

\* What making a backup does to the files.
LEMMA BackupFiles ==
    ASSUME BackupInv, NEW i \in Backup!Ids, Backup!Created(i) \/ Backup!Failed(i) \/ Backup!Crashed(i)
    PROVE  /\ archive' = [j \in Backup!Ids |-> archive'[j]]
           /\ metadata' = [j \in Backup!Ids |-> metadata'[j]]
           /\ Backup!Created(i) => /\ archive'[i].kind = "whole" /\ metadata'[i] = "whole"
                                   /\ keeps => i \notin expired'
BY DEF BackupInv, Backup!Created, Backup!Failed, Backup!Crashed

LEMMA BackupNext == ASSUME BackupInv, [Backup!Next]_backupVars PROVE BackupInv'
<1>1. CASE UNCHANGED backupVars
    BY <1>1 DEF backupVars, BackupInv, Backup!Complete
<1>2. CASE Backup!Cleanup \/ Backup!CrashInCleanup
    BY <1>2 DEF BackupInv, Backup!Cleanup, Backup!CrashInCleanup, Backup!Cleans, Backup!Removed
<1>3. CASE loop # "cleanup" /\ (Backup!BackupByHand \/ Backup!Scheduled \/ Backup!CrashInBackup)
    <2>1. PICK i \in Backup!Ids : /\ second' = i /\ keeps' = keeps
                                  /\ Backup!Created(i) \/ Backup!Failed(i) \/ Backup!Crashed(i)
                                  /\ loop' = "cleanup" => loop = "cleanup" \/ Backup!Created(i)
        BY <1>3 DEF Backup!BackupByHand, Backup!Scheduled, Backup!CrashInBackup, Backup!Now
    <2>2. /\ archive' = [j \in Backup!Ids |-> archive'[j]]
          /\ metadata' = [j \in Backup!Ids |-> metadata'[j]]
          /\ Backup!Created(i) => i \in Backup!Complete' /\ (keeps => i \notin expired')
        BY <2>1, BackupFiles DEF Backup!Complete
    <2> QED BY <1>3, <2>1, <2>2 DEF BackupInv
<1>4. CASE /\ loop # "cleanup"
           /\ \/ Backup!Start \/ Backup!Wakes \/ Backup!Stop
              \/ \E i \in Backup!Ids : Backup!Restore(i) \/ Backup!Ages(i)
              \/ \E p \in Contents : Backup!Change(p)
    BY <1>4 DEF BackupInv, Backup!Start, Backup!Wakes, Backup!Stop, Backup!Restore, Backup!Ages,
       Backup!Change
<1> QED BY <1>1, <1>2, <1>3, <1>4 DEF Backup!Next

LEMMA LastBackupImplied ==
    ASSUME BackupInv, [Backup!Next]_backupVars, keeps, loop = "cleanup", loop' # "cleanup"
    PROVE  Backup!Complete' # {}
<1>1. Backup!Cleans
    BY DEF Backup!Next, backupVars, Backup!Cleanup, Backup!CrashInCleanup
<1>2. second \in Backup!Complete /\ second \notin Backup!Outdated
    BY DEF BackupInv, Backup!Outdated
<1>3. second \in Backup!Complete'
    BY <1>1, <1>2 DEF Backup!Cleans, Backup!Removed, Backup!Complete
<1> QED BY <1>3

-----------------------------------------------------------------------------
(* Types: what the invariants above do not say of the values of the        *)
(* variables, component by component.                                      *)

\* A sequence of different elements of a finite set is no longer than the set.
LEMMA DifferentFit ==
    ASSUME NEW T, IsFiniteSet(T), NEW s \in Seq(T),
           \A i, k \in 1..Len(s) : s[i] = s[k] => i = k
    PROVE  Len(s) <= Cardinality(T) /\ Cardinality(T) \in Nat
<1>1. s \in Injection(1..Len(s), T)
    BY DEF Injection, IsInjective
<1>2. Cardinality(1..Len(s)) = Len(s)
    BY FS_Interval
<1> QED BY <1>1, <1>2, FS_Injection, FS_CardinalityType

\* The queue of the cluster holds each job once.
QueueOnce ==
    /\ queue \in Seq(Jobs)
    /\ \A i, k \in 1..Len(queue) : queue[i] = queue[k] => i = k

HostTypes ==
    /\ host \in [Hosts -> {"new", "up", "down", "left"}]
    /\ nodes \in [Hosts -> [fresh : BOOLEAN, status : {"none", "healthy", "offline"}]]
    /\ activeSet \subseteq Hosts /\ models \subseteq Hosts
    /\ local \in [Hosts -> SUBSET Jobs]
    /\ timedOut \in [Hosts -> SUBSET Hosts]
    /\ popped \in [Hosts -> SUBSET Jobs]
    /\ QueueOnce

WorkerTypes ==
    /\ report \in {"none", "completed", "failed"}
    /\ lost \in [Tasks -> 0..MaxLost]

LEMMA ClusterTypesInit == ASSUME Cluster!Init PROVE HostTypes /\ WorkerTypes
<1>1. nodes \in [Hosts -> [fresh : BOOLEAN, status : {"none", "healthy", "offline"}]]
    BY HostInit DEF HostInv
<1>2. QueueOnce
    BY DEF QueueOnce, Cluster!Init
<1> QED BY <1>1, <1>2, ClusterParameters DEF Cluster!Init, HostTypes, WorkerTypes

LEMMA SubmitTypes ==
    ASSUME HostTypes, NEW h \in Hosts, NEW j \in Jobs, Cluster!SubmitJob(h, j) PROVE QueueOnce'
<1>1. queue \in Seq(Jobs) /\ queue' = Append(queue, j)
    BY DEF HostTypes, QueueOnce, Cluster!SubmitJob
<1>2. \A i \in 1..Len(queue) : queue[i] # j
    BY <1>1 DEF Cluster!SubmitJob, Cluster!ToSet
<1> QED BY <1>1, <1>2 DEF HostTypes, QueueOnce

LEMMA ScheduleTypes ==
    ASSUME HostTypes, NEW h \in Hosts, Cluster!Schedule(h) PROVE QueueOnce' /\ Head(queue) \in Jobs
<1>1. queue \in Seq(Jobs) /\ queue # <<>> /\ queue' = Tail(queue)
    BY DEF HostTypes, QueueOnce, Cluster!Schedule
<1>2. /\ Len(queue') = Len(queue) - 1 /\ \A i \in 1..Len(queue') : queue'[i] = queue[i + 1] /\ i + 1 \in 1..Len(queue)
      /\ queue' \in Seq(Jobs)
    BY <1>1
<1>3. QueueOnce'
    BY <1>1, <1>2 DEF HostTypes, QueueOnce
<1> QED BY <1>1, <1>3

LEMMA HostTypesNext ==
    ASSUME HostInv, HostTypes, [Cluster!Next]_clusterVars PROVE HostTypes'
<1> DEFINE Nodes1 == nodes' \in [Hosts -> [fresh : BOOLEAN, status : {"none", "healthy", "offline"}]]
<1>1. Nodes1
    BY HostNext DEF HostInv
<1> HIDE DEF Nodes1
<1>2. CASE UNCHANGED <<host, activeSet, models, local, timedOut, popped, queue>>
    BY <1>1, <1>2 DEF HostTypes, QueueOnce, Nodes1
<1>3. CASE \E h \in Hosts : \/ Cluster!Initialize(h) \/ Cluster!Die(h) \/ Cluster!Shutdown(h)
                           \/ Cluster!ReadNodes(h) \/ Cluster!RegisterModel(h)
                           \/ \E n \in Hosts : Cluster!MarkOffline(h, n)
    <2>1. UNCHANGED <<queue, popped>>
        BY <1>3 DEF Cluster!Initialize, Cluster!Die, Cluster!Shutdown, Cluster!ReadNodes,
           Cluster!RegisterModel, Cluster!MarkOffline, Cluster!redis
    <2>2. QueueOnce'
        BY <2>1 DEF HostTypes, QueueOnce
    <2> USE <1>3 DEF HostTypes, Cluster!Initialize, Cluster!Die, Cluster!Shutdown, Cluster!ReadNodes,
           Cluster!RegisterModel, Cluster!MarkOffline, Cluster!redis
    <2>3. host' \in [Hosts -> {"new", "up", "down", "left"}]
        OBVIOUS
    <2>4. activeSet' \subseteq Hosts /\ models' \subseteq Hosts
        OBVIOUS
    <2>5. local' \in [Hosts -> SUBSET Jobs]
        OBVIOUS
    <2>6. timedOut' \in [Hosts -> SUBSET Hosts]
        <3>1. \E h \in Hosts, S \in SUBSET Hosts : timedOut' \in {timedOut, [timedOut EXCEPT ![h] = S]}
            <4>1. CASE \E h \in Hosts, n \in Hosts : Cluster!MarkOffline(h, n)
                <5>1. PICK h \in Hosts, n \in Hosts : timedOut' = [timedOut EXCEPT ![h] = timedOut[h] \ {n}]
                    BY <4>1
                <5>2. timedOut[h] \ {n} \in SUBSET Hosts
                    OBVIOUS
                <5> QED BY <5>1, <5>2
            <4>2. CASE ~\E h \in Hosts, n \in Hosts : Cluster!MarkOffline(h, n)
                BY <4>2
            <4> QED BY <4>1, <4>2
        <3> QED BY <3>1 DEF HostTypes
    <2> QED BY <1>1, <2>1, <2>2, <2>3, <2>4, <2>5, <2>6 DEF Nodes1
<1>4. ASSUME NEW h \in Hosts, NEW j \in Jobs, Cluster!SubmitJob(h, j) PROVE HostTypes'
    <2>1. QueueOnce'
        BY <1>4, SubmitTypes
    <2> QED BY <1>1, <1>4, <2>1 DEF HostTypes, Nodes1, Cluster!SubmitJob
<1>5. ASSUME NEW h \in Hosts, Cluster!Schedule(h) PROVE HostTypes'
    <2>1. QueueOnce' /\ Head(queue) \in Jobs
        BY <1>5, ScheduleTypes
    <2> QED BY <1>1, <1>5, <2>1 DEF HostTypes, Nodes1, Cluster!Schedule, Cluster!Scheduled
<1>6. Cluster!WorkerNext \/ Cluster!Expire \/ UNCHANGED clusterVars
        \/ (\E h \in Hosts : Cluster!SendHeartbeat(h) \/ Cluster!MissHeartbeats(h))
        => UNCHANGED <<host, activeSet, models, local, timedOut, popped, queue>>
    BY DEF Cluster!WorkerNext, Cluster!Poll, Cluster!Execute, Cluster!Report, Cluster!Expire,
       Cluster!SendHeartbeat, Cluster!MissHeartbeats, Cluster!cluster, Cluster!redis, clusterVars
<1> QED BY <1>2, <1>3, <1>4, <1>5, <1>6 DEF Cluster!Next, Cluster!HostNext

LEMMA WorkerTypesNext ==
    ASSUME WorkerInv, WorkerTypes, [Cluster!Next]_clusterVars PROVE WorkerTypes'
<1>1. CASE UNCHANGED <<report, lost>>
    BY <1>1 DEF WorkerTypes
<1>2. CASE Cluster!Execute
    BY <1>2 DEF WorkerTypes, Cluster!Execute
<1>3. ASSUME NEW d \in BOOLEAN, Cluster!Report(d) PROVE WorkerTypes'
    <2>1. executing \in Tasks /\ lost[executing] \in 0..MaxLost
        BY <1>3 DEF WorkerInv, WorkerTypes, Cluster!Report, Cluster!NoTask
    <2>2. lost' \in [Tasks -> 0..MaxLost]
        BY <1>3, <2>1, ClusterParameters DEF WorkerTypes, Cluster!Report
    <2> QED BY <1>3, <2>2 DEF WorkerTypes, Cluster!Report
<1>4. Cluster!HostNext \/ Cluster!Poll \/ UNCHANGED clusterVars => UNCHANGED <<report, lost>>
    BY DEF Cluster!HostNext, Cluster!Poll, clusterVars, Cluster!Initialize, Cluster!SendHeartbeat,
       Cluster!MissHeartbeats, Cluster!Expire, Cluster!Die, Cluster!Shutdown, Cluster!ReadNodes,
       Cluster!MarkOffline, Cluster!RegisterModel, Cluster!SubmitJob, Cluster!Schedule, Cluster!worker
<1> QED BY <1>1, <1>2, <1>3, <1>4 DEF Cluster!Next, Cluster!WorkerNext

LEMMA ClusterTyped ==
    ASSUME HostTypes, WorkerTypes, WorkerInv PROVE Cluster!TypeOK
<1>1. \A T : \A s \in Seq(T) : Len(s) <= Cardinality(T) /\ Cardinality(T) \in Nat =>
        s \in Cluster!SeqOf(T, Cluster!Cardinality(T))
    <2> SUFFICES ASSUME NEW T, NEW s \in Seq(T), Len(s) <= Cardinality(T), Cardinality(T) \in Nat
                 PROVE  s \in Cluster!SeqOf(T, Cardinality(T))
        BY ClusterCount
    <2>1. s \in [1..Len(s) -> T] /\ Len(s) \in 0..Cardinality(T)
        OBVIOUS
    <2> QED BY <2>1 DEF Cluster!SeqOf
<1>2. queue \in Cluster!SeqOf(Jobs, Cluster!Cardinality(Jobs))
    BY <1>1, ClusterParameters, DifferentFit DEF HostTypes, QueueOnce
<1>3. work \in Cluster!SeqOf(Tasks, Cluster!Cardinality(Tasks))
    BY <1>1, ClusterParameters, DifferentFit DEF WorkerInv, TaskOnce
<1> QED BY <1>2, <1>3 DEF Cluster!TypeOK, HostTypes, WorkerTypes, WorkerInv, Cluster!NoTask

\* What is still to be replicated and what has been are no more than the rules.
RegionTypes ==
    /\ full \in [Region!Names -> BOOLEAN] /\ active \in [Region!Names -> BOOLEAN]
    /\ checking \subseteq Region!Names
    /\ routed \in Region!Names \union {"none"}
    /\ pending \in Seq(Rules) /\ success \in Nat
    /\ success + Len(pending) <= Cardinality(Rules)
    /\ writes \in 0..MaxWrites

LEMMA RegionCount == \A S : Region!Cardinality(S) = Cardinality(S)
BY Zenon DEF Region!Cardinality, Cardinality

LEMMA RulesInOrder ==
    ASSUME NEW S \in SUBSET Rules
    PROVE  Region!SetToSeq(S) \in Seq(Rules) /\ Len(Region!SetToSeq(S)) <= Cardinality(Rules)
<1>1. IsFiniteSet(S) /\ Cardinality(S) <= Cardinality(Rules)
    BY RegionParameters, FS_Subset
<1>2. Cardinality(S) \in Nat /\ ExistsBijection(1..Cardinality(S), S)
    BY <1>1, FS_CardinalityType
<1>3. \E f \in [1..Cardinality(S) -> S] : Region!IsInjective(f)
    BY <1>2 DEF ExistsBijection, Bijection, Injection, Surjection, IsInjective, Region!IsInjective
<1>4. Region!SetToSeq(S) = CHOOSE f \in [1..Cardinality(S) -> S] : Region!IsInjective(f)
    BY RegionCount, Zenon DEF Region!SetToSeq
<1>5. Region!SetToSeq(S) \in [1..Cardinality(S) -> S]
    BY <1>3, <1>4, Zenon
<1> HIDE DEF Region!SetToSeq
<1> QED BY <1>1, <1>2, <1>5

LEMMA RegionTypesInit == ASSUME Region!Init PROVE RegionTypes
<1>1. Cardinality(Rules) \in Nat
    BY RegionParameters, FS_CardinalityType
<1> QED BY <1>1, RegionParameters DEF Region!Init, RegionTypes, Region!NoRegion

LEMMA BestIsRegion == Region!BestRegion \in Region!Names \union {"none"}
<1>1. CASE Region!Candidates # {}
    <2> DEFINE best == {r \in Region!Candidates : \A q \in Region!Candidates : ~Region!Before(q, r)}
    <2>1. best \in SUBSET Region!Names /\ best # {}
        BY <1>1, BestExists DEF Region!Candidates
    <2> QED BY <1>1, <2>1, FirstOfRegions DEF Region!BestRegion
<1>2. CASE Region!Candidates = {}
    BY <1>2, FirstOfRegions DEF Region!BestRegion, Region!Fallback, Region!NoRegion
<1> QED BY <1>1, <1>2

LEMMA RegionTypesNext == ASSUME RegionTypes, [Region!Next]_regionVars PROVE RegionTypes'
<1>1. CASE UNCHANGED <<full, active, checking, pending, success, writes>> /\ routed' \in {routed, Region!BestRegion}
    BY <1>1, BestIsRegion DEF RegionTypes
<1>2. CASE /\ UNCHANGED <<routed, pending, success, writes>>
           /\ \/ Region!CheckAllRegions
              \/ \E r \in Region!Names : \/ Region!Healthy(r) \/ Region!Degraded(r)
                                         \/ Region!RecordFailure(r)
                                         \/ \E on \in BOOLEAN : Region!SetMaintenance(r, on)
    <2>1. /\ full' \in [Region!Names -> BOOLEAN] /\ active' \in [Region!Names -> BOOLEAN]
          /\ checking' \subseteq Region!Names
        BY <1>2 DEF RegionTypes, Region!CheckAllRegions, Region!Healthy, Region!Degraded,
           Region!Answers, Region!RecordFailure, Region!Checked, Region!SetMaintenance, Region!health
    <2> QED BY <1>2, <2>1 DEF RegionTypes
<1>3. ASSUME NEW r \in Region!Names, Region!ReplicateData(r) PROVE RegionTypes'
    <2> DEFINE rules == {rule \in Rules : rule[1] = r}
    <2>1. pending' = Region!SetToSeq(rules) /\ success' = 0
        BY <1>3 DEF Region!ReplicateData
    <2>2. rules \in SUBSET Rules
        OBVIOUS
    <2> HIDE DEF rules
    <2>3. pending' \in Seq(Rules) /\ success' + Len(pending') <= Cardinality(Rules)
        BY <2>1, <2>2, RulesInOrder
    <2>4. /\ writes' \in 0..MaxWrites /\ success' \in Nat
          /\ UNCHANGED <<full, active, checking, routed>>
        BY <1>3, RegionParameters DEF RegionTypes, Region!ReplicateData, Region!health
    <2> QED BY <2>3, <2>4 DEF RegionTypes
<1>4. ASSUME NEW d \in BOOLEAN, Region!ReplicateToRegion(d) PROVE RegionTypes'
    <2>1. pending \in Seq(Rules) /\ pending # <<>> /\ pending' = Tail(pending)
        BY <1>4 DEF RegionTypes, Region!ReplicateToRegion
    <2>2. pending' \in Seq(Rules) /\ Len(pending') = Len(pending) - 1
        BY <2>1
    <2>3. success' \in {success, success + 1} /\ UNCHANGED <<full, active, checking, routed, writes>>
        BY <1>4 DEF Region!ReplicateToRegion, Region!health
    <2>4. Cardinality(Rules) \in Nat
        BY RegionParameters, FS_CardinalityType
    <2>5. success' + Len(pending') <= Cardinality(Rules)
        BY <2>1, <2>2, <2>3, <2>4 DEF RegionTypes
    <2> QED BY <2>2, <2>3, <2>5 DEF RegionTypes
<1>5. /\ UNCHANGED regionVars \/ Region!RouteJob =>
            /\ UNCHANGED <<full, active, checking, pending, success, writes>>
            /\ routed' \in {routed, Region!BestRegion}
      /\ \/ Region!CheckAllRegions
         \/ \E r \in Region!Names : \/ Region!Healthy(r) \/ Region!Degraded(r)
                                    \/ Region!RecordFailure(r)
                                    \/ \E on \in BOOLEAN : Region!SetMaintenance(r, on)
         => UNCHANGED <<routed, pending, success, writes>>
    BY DEF regionVars, Region!RouteJob, Region!CheckAllRegions, Region!Healthy, Region!Degraded,
       Region!Answers, Region!RecordFailure, Region!Checked, Region!SetMaintenance, Region!health,
       Region!replication
<1> QED BY <1>1, <1>2, <1>3, <1>4, <1>5 DEF Region!Next

LEMMA RegionTyped == ASSUME RegionInv, RegionTypes PROVE Region!TypeOK
<1>1. Cardinality(Rules) \in Nat
    BY RegionParameters, FS_CardinalityType
<1>2. pending \in [1..Len(pending) -> Rules] /\ Len(pending) \in 0..Cardinality(Rules)
    BY <1>1 DEF RegionTypes
<1>3. pending \in Region!SeqOf(Rules, Region!Cardinality(Rules))
    BY <1>2, RegionCount DEF Region!SeqOf
<1>4. success \in 0..Region!Cardinality(Rules)
    BY <1>1, RegionCount DEF RegionTypes
<1> QED BY <1>3, <1>4 DEF Region!TypeOK, RegionTypes, RegionInv, Region!Unknown, Region!NoRegion

ClearingTypes == clearing \in [Hosts -> SUBSET (Redis!Windows \union {0})]

LEMMA ClearingNext == ASSUME ClearingTypes, [Redis!Next]_redisVars PROVE ClearingTypes'
<1>1. CASE \E h \in Hosts : Redis!Scan(h) \/ Redis!ClearAll(h)
    BY <1>1 DEF ClearingTypes, Redis!Scan, Redis!ClearAll, Redis!Present, Redis!Value
<1>2. CASE UNCHANGED clearing
    BY <1>2 DEF ClearingTypes
<1> QED BY <1>1, <1>2 DEF Redis!Next, Redis!CacheNext, Redis!LimitNext, redisVars, Redis!Miss,
       Redis!Compute, Redis!Store, Redis!Change, Redis!Invalidate, Redis!Expire, Redis!Tick,
       Redis!Ask, Redis!Decide, Redis!AskFails, Redis!CounterExpires

LEMMA RedisTyped == ASSUME CacheInv, LimitInv, ClearingTypes PROVE Redis!TypeOK
BY DEF CacheInv, LimitInv, LimitTypes, ClearingTypes, Redis!TypeOK, Redis!Value

\* What a round of the monitor may still launch: no more than three machines at once.
ScalerTypes ==
    /\ IsFiniteSet(cloud) /\ scalerNodes \subseteq cloud
    /\ old \subseteq Machines /\ hot \subseteq {"up", "down"}
    /\ left \in 0..3 /\ scalerAsked \in Machines \union {0}

LEMMA ScalerTypesInit == ASSUME Scaler!Init PROVE ScalerTypes
BY FS_EmptySet DEF Scaler!Init, ScalerTypes, Scaler!Nil

LEMMA DecisionAdds ==
    ASSUME NEW depth, NEW late, NEW n \in Nat, Scaler!Decision(depth, late, n).action # "maintain"
    PROVE  Scaler!Decision(depth, late, n).add \in 0..3
BY ScalerParameters DEF Scaler!Decision

LEMMA EvaluateTypes ==
    ASSUME ScalerInv, ScalerTypes, NEW depth, NEW late, Scaler!Evaluate(depth, late)
    PROVE  ScalerTypes'
<1> DEFINE d == Scaler!Decision(depth, late, Cardinality(scalerNodes))
<1>1. /\ at = "asleep" /\ d.action # "maintain" /\ left' = d.add
      /\ scalerAsked' = IF d.action = "down" THEN Scaler!Victim ELSE 0
      /\ UNCHANGED <<cloud, scalerNodes, old, hot>>
    BY DEF Scaler!Evaluate, Scaler!world, Scaler!Nil, Scaler!Cardinality, Cardinality
<1>2. Cardinality(scalerNodes) \in Nat
    BY FS_Subset, FS_CardinalityType DEF ScalerTypes
<1>3. left' \in 0..3
    BY <1>1, <1>2, DecisionAdds
<1>4. d.action = "down" => Scaler!Idle # {}
    BY DEF Scaler!Decision
<1> HIDE DEF d
<1>5. scalerAsked' \in Machines \union {0}
    BY <1>1, <1>4, VictimKnown DEF ScalerTypes
<1> QED BY <1>1, <1>3, <1>5 DEF ScalerTypes

LEMMA ScalerTypesNext ==
    ASSUME ScalerInv, ScalerTypes, [Scaler!Next]_scalerVars PROVE ScalerTypes'
<1>1. CASE UNCHANGED <<cloud, scalerNodes, old, hot, left, scalerAsked>>
    BY <1>1 DEF ScalerTypes
<1>2. ASSUME NEW depth, NEW late, Scaler!Evaluate(depth, late) PROVE ScalerTypes'
    BY <1>2, EvaluateTypes
<1>3. ASSUME NEW m \in Machines, NEW launched, Scaler!Launch(m, launched) PROVE ScalerTypes'
    <2>1. cloud' = cloud \union {m} /\ hot' = hot \union {"up"} /\ left' = 0
          /\ UNCHANGED <<scalerNodes, old, scalerAsked>>
        BY <1>3 DEF Scaler!Launch, Scaler!Cool
    <2> QED BY <2>1, FS_AddElement DEF ScalerTypes
<1>4. ASSUME NEW m \in Machines, Scaler!LaunchTogether(m) PROVE ScalerTypes'
    <2>1. cloud' = cloud \union {m} /\ left > 0 /\ left' = left - 1
          /\ UNCHANGED <<scalerNodes, old, hot, scalerAsked>>
        BY <1>4 DEF Scaler!LaunchTogether
    <2> QED BY <2>1, FS_AddElement DEF ScalerTypes
<1>13. ASSUME NEW m \in Machines, Scaler!LaunchUnseen(m) \/ Scaler!LaunchTogetherUnseen(m)
       PROVE  ScalerTypes'
    <2>1. /\ UNCHANGED <<cloud, scalerNodes, old, scalerAsked>>
          /\ hot' \in {hot, hot \union {"up"}}
          /\ left' = 0 \/ (left > 0 /\ left' = left - 1)
        BY <1>13 DEF Scaler!LaunchUnseen, Scaler!LaunchTogetherUnseen, Scaler!Cool, Scaler!world
    <2>2. left' \in 0..3
        BY <2>1 DEF ScalerTypes
    <2>3. hot' \subseteq {"up", "down"}
        BY <2>1 DEF ScalerTypes
    <2> QED BY <2>1, <2>2, <2>3 DEF ScalerTypes
<1>5. CASE Scaler!LaunchFails \/ Scaler!LaunchTogetherFails \/ \E s \in Launched : Scaler!RecordTogether(s)
    BY <1>5 DEF ScalerTypes, Scaler!LaunchFails, Scaler!LaunchTogetherFails, Scaler!RecordTogether,
       Scaler!Cool, Scaler!world
<1>6. ASSUME NEW gone, cloud' = cloud \ gone, scalerNodes' = scalerNodes \intersect cloud',
             UNCHANGED old, hot' \in {hot, hot \union {"down"}}, left' \in {left, 0},
             scalerAsked' \in {scalerAsked, 0}
      PROVE  ScalerTypes'
    <2>1. IsFiniteSet(cloud')
        BY <1>6, FS_Subset DEF ScalerTypes
    <2> QED BY <1>6, <2>1 DEF ScalerTypes
<1>7. CASE \E ok \in BOOLEAN : Scaler!Terminate(ok)
    <2>1. cloud' = cloud \ (cloud \ cloud')
        BY <1>7 DEF Scaler!Terminate
    <2> QED BY <1>6, <1>7, <2>1 DEF Scaler!Terminate, Scaler!Cool, Scaler!Nil
<1>8. ASSUME NEW failed, Scaler!Cleanup(failed) PROVE ScalerTypes'
    BY <1>6, <1>8 DEF Scaler!Cleanup
<1>9. CASE Scaler!Start \/ Scaler!Shutdown
    <2>1. /\ UNCHANGED <<cloud, scalerNodes, old, hot>>
          /\ left' \in {left, 0} /\ scalerAsked' \in {scalerAsked, 0}
        BY <1>9 DEF Scaler!Start, Scaler!Shutdown, Scaler!world, Scaler!Nil
    <2> QED BY <2>1 DEF ScalerTypes
<1>11. ASSUME NEW m \in Machines, Scaler!Boots(m) \/ Scaler!Ages(m) PROVE ScalerTypes'
    BY <1>11 DEF ScalerInv, ScalerTypes, Scaler!Boots, Scaler!Ages, Scaler!world
<1>14. ASSUME NEW m \in Machines, Scaler!Fulfils(m) \/ Scaler!Vanishes(m) PROVE ScalerTypes'
    <2>1. IsFiniteSet(cloud')
        BY <1>14, FS_AddElement, FS_RemoveElement DEF ScalerTypes, Scaler!Fulfils, Scaler!Vanishes
    <2> QED BY <1>14, <2>1 DEF ScalerTypes, Scaler!Fulfils, Scaler!Vanishes
<1>12. ASSUME NEW dir, Scaler!CoolsDown(dir) PROVE ScalerTypes'
    BY <1>12 DEF ScalerTypes, Scaler!CoolsDown, Scaler!world
<1>10. Scaler!Over \/ UNCHANGED scalerVars =>
        UNCHANGED <<cloud, scalerNodes, old, hot, left, scalerAsked>>
    BY DEF Scaler!Over, Scaler!vars, scalerVars
<1> QED BY <1>1, <1>2, <1>3, <1>4, <1>5, <1>7, <1>8, <1>9, <1>10, <1>11, <1>12, <1>13, <1>14
        DEF Scaler!Next

LEMMA ScalerTyped == ASSUME ScalerInv, ScalerTypes PROVE Scaler!TypeOK
BY DEF ScalerInv, ScalerTypes, Scaler!TypeOK, Scaler!Nil

\* Whoever is registered under an identifier is one of the providers; a spot request is waited
\* for only at AWS.
CloudTypes ==
    /\ price \in [Cloud!Keys -> Nat]
    /\ DOMAIN managed \subseteq MachineNames \union MachineIds
    /\ \A i \in DOMAIN managed : managed[i] \in Cloud!Given
    /\ \A c \in Callers : waiting[c] # "none" => "aws" \in Cloud!Given
    /\ abandoned \subseteq Cloud!Keys

LEMMA CloudTypesInit == ASSUME Cloud!Init PROVE CloudTypes
BY DEF Cloud!Init, CloudTypes

LEMMA BestOffers ==
    ASSUME NEW w, NEW s \in Cloud!Best(w) PROVE s.provider \in Cloud!Given /\ s.price \in Nat
<1> DEFINE all == UNION {Cloud!Available(p, w) : p \in Cloud!Given}
           fit == {x \in all : w.limit = 0 \/ x.price <= w.limit}
<1>1. ASSUME NEW x \in all PROVE x.provider \in Cloud!Given /\ x.price \in Nat
    <2>1. PICK p \in Cloud!Given : x \in Cloud!Available(p, w)
        OBVIOUS
    <2>2. PICK i \in Catalog[p] :
            x = [provider |-> p, price |-> IF w.spot THEN 3 * i.price ELSE 10 * i.price]
        BY <2>1 DEF Cloud!Available
    <2>3. i.price \in Nat
        BY CatalogParameters
    <2> QED BY <2>2, <2>3
<1>2. fit \in SUBSET all /\ fit # {}
    BY DEF Cloud!Best
<1> HIDE DEF fit, all
<1> DEFINE rank(p) == CHOOSE i \in DOMAIN Providers : Providers[i] = p
           First(x, t) == x.price < t.price \/ (x.price = t.price /\ rank(x.provider) <= rank(t.provider))
<1>3. \A x \in fit : rank(x.provider) \in Nat
    <2> SUFFICES ASSUME NEW x \in fit PROVE rank(x.provider) \in Nat
        OBVIOUS
    <2>1. \E i \in DOMAIN Providers : Providers[i] = x.provider
        BY <1>1, <1>2 DEF Cloud!Given, Cloud!ToSet
    <2>2. rank(x.provider) \in DOMAIN Providers
        BY <2>1
    <2>3. DOMAIN Providers \subseteq Nat
        BY CloudParameters
    <2> QED BY <2>2, <2>3
<1> HIDE DEF rank
<1>4. PICK n \in {x.price : x \in fit} : \A x \in fit : n <= x.price
    <2> DEFINE P == {x.price : x \in fit}
    <2>1. P \in SUBSET Nat /\ P # {}
        BY <1>1, <1>2
    <2>2. PICK n \in P : \A m \in P : n <= m
        <3> HIDE DEF P
        <3> QED BY <2>1, LeastExists
    <2> QED BY <2>2
<1>5. PICK k \in {rank(x.provider) : x \in {y \in fit : y.price = n}} :
            \A x \in fit : x.price = n => k <= rank(x.provider)
    <2> DEFINE ranks == {rank(x.provider) : x \in {y \in fit : y.price = n}}
    <2>1. ranks \in SUBSET Nat /\ ranks # {}
        BY <1>3, <1>4
    <2>2. PICK k \in ranks : \A m \in ranks : k <= m
        <3> HIDE DEF ranks
        <3> QED BY <2>1, LeastExists
    <2> QED BY <2>2
<1>6. \E x \in fit : \A t \in fit : First(x, t)
    <2>1. PICK x \in fit : x.price = n /\ rank(x.provider) = k
        OBVIOUS
    <2> QED BY <1>1, <1>2, <1>4, <1>5, <2>1
<1>7. Cloud!Best(w) = {CHOOSE x \in fit : \A t \in fit : First(x, t)}
    BY <1>2 DEF Cloud!Best, fit, all, rank
<1> HIDE DEF First
<1>8. s \in fit
    BY <1>6, <1>7
<1> QED BY <1>1, <1>2, <1>8

LEMMA ManageTypes ==
    ASSUME CloudTypes, NEW id \in MachineNames \union MachineIds, NEW p \in Cloud!Given, Cloud!Manage(id, p)
    PROVE  /\ DOMAIN managed' \subseteq MachineNames \union MachineIds
           /\ \A i \in DOMAIN managed' : managed'[i] \in Cloud!Given
           /\ abandoned' \subseteq Cloud!Keys
<1>1. managed' = [i \in DOMAIN managed \union {id} |-> IF i = id THEN p ELSE managed[i]]
    BY DEF Cloud!Manage
<1>2. id \in DOMAIN managed => <<managed[id], id>> \in Cloud!Keys
    BY DEF CloudTypes, Cloud!Keys
<1>3. abandoned' \subseteq Cloud!Keys
    BY <1>2 DEF CloudTypes, Cloud!Manage
<1> QED BY <1>1, <1>3 DEF CloudTypes

\* Provisioning, whoever the provider is.
LEMMA ProvisionTypes ==
    ASSUME CloudTypes, NEW id \in MachineNames \union MachineIds, NEW p \in Cloud!Given, NEW cost \in Nat,
           NEW state, Cloud!Create(<<p, id>>, cost, state), Cloud!Manage(id, p), UNCHANGED waiting
    PROVE  CloudTypes'
<1>1. price' = [price EXCEPT ![<<p, id>>] = cost]
    BY DEF Cloud!Create
<1>2. price' \in [Cloud!Keys -> Nat]
    BY <1>1 DEF CloudTypes
<1>3. \A c \in Callers : waiting'[c] # "none" => "aws" \in Cloud!Given
    BY DEF CloudTypes
<1> QED BY <1>2, <1>3, ManageTypes DEF CloudTypes

LEMMA ProvisionBestTypes ==
    ASSUME CloudTypes, NEW c \in Callers, NEW name \in MachineNames, NEW w \in Wanted,
           Cloud!ProvisionBest(c, name, w)
    PROVE  CloudTypes'
<1>1. PICK s \in Cloud!Best(w) :
        \/ s.provider = "aws" /\ ~w.spot /\ Cloud!ProvisionAws(s)
        \/ s.provider = "aws" /\ w.spot /\ Cloud!RequestSpot(c, s)
        \/ s.provider = "gcp" /\ Cloud!ProvisionGcp(name, s)
        \/ s.provider = "azure" /\ Cloud!ProvisionAzure(name, s)
    BY DEF Cloud!ProvisionBest
<1>2. s.provider \in Cloud!Given /\ s.price \in Nat
    BY BestOffers
<1>3. CASE s.provider = "aws" /\ Cloud!ProvisionAws(s)
    <2>1. PICK id \in MachineIds : /\ Cloud!Create(<<"aws", id>>, s.price, "pending")
                                   /\ Cloud!Manage(id, "aws") /\ UNCHANGED waiting
        BY <1>3 DEF Cloud!ProvisionAws, Cloud!FreeIds
    <2> QED BY <1>2, <1>3, <2>1, ProvisionTypes
<1>4. CASE s.provider = "aws" /\ Cloud!RequestSpot(c, s)
    <2>1. PICK id \in MachineIds : /\ price' = [price EXCEPT ![<<"aws", id>>] = s.price]
                                   /\ waiting' = [waiting EXCEPT ![c] = id]
                                   /\ UNCHANGED <<managed, abandoned>>
        BY <1>4 DEF Cloud!RequestSpot, Cloud!FreeIds, Cloud!Create
    <2>2. price' \in [Cloud!Keys -> Nat]
        BY <1>2, <2>1 DEF CloudTypes
    <2>3. "aws" \in Cloud!Given
        BY <1>2, <1>4
    <2> QED BY <2>1, <2>2, <2>3 DEF CloudTypes
<1>5. CASE s.provider = "gcp" /\ Cloud!ProvisionGcp(name, s)
    BY <1>2, <1>5, ProvisionTypes DEF Cloud!ProvisionGcp
<1>6. CASE s.provider = "azure" /\ Cloud!ProvisionAzure(name, s)
    BY <1>2, <1>6, ProvisionTypes DEF Cloud!ProvisionAzure
<1> QED BY <1>1, <1>3, <1>4, <1>5, <1>6

LEMMA LoseTypes ==
    ASSUME CloudTypes, NEW k \in Cloud!Keys, Cloud!Lose(k) PROVE abandoned' \subseteq Cloud!Keys
BY DEF CloudTypes, Cloud!Lose

LEMMA CloudTypesNext ==
    ASSUME CloudInv, CloudTypes, [Cloud!Next]_cloudVars PROVE CloudTypes'
<1>1. CASE UNCHANGED <<price, managed, abandoned>> /\ \A c \in Callers : waiting'[c] \in {waiting[c], "none"}
    BY <1>1 DEF CloudTypes
<1>2. ASSUME NEW c \in Callers, Cloud!SpotFulfilled(c) PROVE CloudTypes'
    <2>1. /\ waiting[c] # "none" /\ Cloud!Manage(waiting[c], "aws")
          /\ waiting' = [waiting EXCEPT ![c] = "none"] /\ UNCHANGED price
        BY <1>2 DEF Cloud!SpotFulfilled
    <2>2. waiting[c] \in MachineIds /\ "aws" \in Cloud!Given
        BY <2>1 DEF CloudInv, CloudTypes
    <2> QED BY <2>1, <2>2, ManageTypes DEF CloudTypes
<1>3. ASSUME NEW c \in Callers, Cloud!SpotGivenUp(c) PROVE CloudTypes'
    <2>1. /\ waiting[c] # "none" /\ abandoned' = abandoned \union {<<"aws", waiting[c]>>}
          /\ waiting' = [waiting EXCEPT ![c] = "none"] /\ UNCHANGED <<price, managed>>
        BY <1>3 DEF Cloud!SpotGivenUp
    <2>2. <<"aws", waiting[c]>> \in Cloud!Keys
        BY <2>1 DEF CloudInv, CloudTypes, Cloud!Keys
    <2> QED BY <2>1, <2>2 DEF CloudTypes
<1>4. ASSUME NEW id, NEW ok, Cloud!Terminate(id, ok) PROVE CloudTypes'
    <2>1. UNCHANGED <<price, waiting, abandoned>> /\ (UNCHANGED managed \/ Cloud!Forget(id))
        BY <1>4 DEF Cloud!Terminate
    <2> QED BY <2>1 DEF CloudTypes, Cloud!Forget
<1>5. ASSUME NEW c, NEW name, NEW w, Cloud!ProvisionRaises(c, name, w) PROVE CloudTypes'
    <2>1. PICK s \in Cloud!Best(w), k \in Cloud!Keys : price' = [price EXCEPT ![k] = s.price] /\ Cloud!Lose(k)
        BY <1>5 DEF Cloud!ProvisionRaises, Cloud!Create
    <2>2. UNCHANGED <<managed, waiting>>
        BY <1>5 DEF Cloud!ProvisionRaises
    <2>3. price' \in [Cloud!Keys -> Nat]
        BY <2>1, BestOffers DEF CloudTypes
    <2> QED BY <2>1, <2>2, <2>3, LoseTypes DEF CloudTypes
<1>7. ASSUME NEW k \in Cloud!Keys, Cloud!Survives(k) PROVE CloudTypes'
    <2>1. UNCHANGED <<price, managed, waiting>> /\ Cloud!Lose(k)
        BY <1>7 DEF Cloud!Survives
    <2> QED BY <2>1, LoseTypes DEF CloudTypes
<1>6. (\E k \in Cloud!Keys : Cloud!Fulfils(k) \/ Cloud!Closes(k) \/ Cloud!Boots(k) \/ Cloud!Vanishes(k)
                                \/ Cloud!Reclaims(k))
        \/ UNCHANGED cloudVars => UNCHANGED <<price, managed, abandoned, waiting>>
    BY DEF cloudVars, Cloud!Fulfils, Cloud!Closes, Cloud!Boots, Cloud!Vanishes, Cloud!Reclaims, Cloud!Turns
<1> QED BY <1>1, <1>2, <1>3, <1>4, <1>5, <1>6, <1>7, ProvisionBestTypes DEF Cloud!Next

LEMMA CloudTyped == ASSUME CloudInv, CloudTypes PROVE Cloud!TypeOK
BY DEF CloudInv, CloudTypes, Cloud!TypeOK, Cloud!Range

\* An instance lists a job no more often than it was accepted.
CostTypes ==
    /\ now \in 0..MaxTime /\ pricing \subseteq Offers
    /\ scheduled \in [PaidJobs -> Cost!Instances \union {Cost!NoInstance}]
    /\ DOMAIN running \subseteq Cost!Instances
    /\ \A i \in DOMAIN running :
        /\ {"start", "jobs"} \subseteq DOMAIN running[i]
        /\ running[i].start = i[3] /\ running[i].jobs \in [PaidJobs -> Nat]
        /\ \A j \in PaidJobs : running[i].jobs[j] <= submissions[j]
    /\ submissions \in [PaidJobs -> 0..MaxSubmissions]

LEMMA CostTypesInit == ASSUME Cost!Init PROVE CostTypes
<1>1. DOMAIN running = {}
    BY DEF Cost!Init
<1> QED BY <1>1, CostParameters DEF Cost!Init, CostTypes

LEMMA ChoicesAre ==
    ASSUME CostTypes, NEW j \in PaidJobs, NEW c \in Cost!ChoicesFor(j)
    PROVE  c.name \in Cost!Instances /\ c.name[3] = now
<1> DEFINE Good(x) == \E kind \in Cost!Kinds, o \in Offers : x.name = <<kind, o.region, now>>
<1>1. \A b \in Cost!BestInstances(j) : Good(b)
    BY DEF CostTypes, Cost!BestInstances, Cost!Cheapest, Cost!Kinds
<1>2. ASSUME NEW max PROVE \A b \in Cost!CheaperInstances(j, max) : Good(b)
    BY DEF CostTypes, Cost!CheaperInstances, Cost!Cheapest, Cost!Kinds
<1>3. Good(c)
    BY <1>1, <1>2 DEF Cost!ChoicesFor
<1>4. PICK kind \in Cost!Kinds, o \in Offers : c.name = <<kind, o.region, now>>
    BY <1>3
<1> QED BY <1>4 DEF CostTypes, Cost!Instances

LEMMA ScheduleTypes1 ==
    ASSUME CostTypes, NEW j \in PaidJobs, Cost!ScheduleJob(j) PROVE CostTypes'
<1>1. PICK c \in Cost!ChoicesFor(j) :
        /\ scheduled' = [scheduled EXCEPT ![j] = c.name]
        /\ running' = [i \in DOMAIN running \union {c.name} |->
            IF i = c.name
            THEN [IF c.name \in DOMAIN running THEN running[c.name]
                  ELSE [price |-> c.price, start |-> now, jobs |-> [k \in PaidJobs |-> 0]]
                    EXCEPT !.jobs[j] = @ + 1]
            ELSE running[i]]
    BY DEF Cost!ScheduleJob
<1> DEFINE there == IF c.name \in DOMAIN running THEN running[c.name]
                    ELSE [price |-> c.price, start |-> now, jobs |-> [k \in PaidJobs |-> 0]]
           more == [there EXCEPT !.jobs[j] = @ + 1]
<1>2. c.name \in Cost!Instances /\ c.name[3] = now
    BY ChoicesAre
<1>3. /\ submissions[j] < MaxSubmissions /\ submissions' = [submissions EXCEPT ![j] = @ + 1]
      /\ UNCHANGED <<now, pricing>>
    BY DEF Cost!ScheduleJob
<1>4. submissions' \in [PaidJobs -> 0..MaxSubmissions] /\ \A k \in PaidJobs : submissions[k] \in Nat
    BY <1>3, CostParameters DEF CostTypes
<1>5. running' = [i \in DOMAIN running \union {c.name} |-> IF i = c.name THEN more ELSE running[i]]
    BY <1>1
<1>6. /\ {"start", "jobs"} \subseteq DOMAIN there
      /\ there.start = c.name[3] /\ there.jobs \in [PaidJobs -> Nat]
      /\ \A k \in PaidJobs : there.jobs[k] <= submissions[k]
    <2>1. CASE c.name \in DOMAIN running
        BY <2>1 DEF CostTypes
    <2>2. CASE c.name \notin DOMAIN running
        <3>1. there = [price |-> c.price, start |-> now, jobs |-> [k \in PaidJobs |-> 0]]
            BY <2>2
        <3> HIDE DEF there
        <3> QED BY <1>2, <1>4, <3>1
    <2> QED BY <2>1, <2>2
<1> HIDE DEF there
<1>7. /\ {"start", "jobs"} \subseteq DOMAIN more
      /\ more.start = c.name[3] /\ more.jobs \in [PaidJobs -> Nat]
      /\ \A k \in PaidJobs : more.jobs[k] = IF k = j THEN there.jobs[k] + 1 ELSE there.jobs[k]
    BY <1>6
<1>8. \A k \in PaidJobs : more.jobs[k] <= submissions'[k]
    BY <1>3, <1>4, <1>6, <1>7 DEF CostTypes
<1> HIDE DEF more
<1>9. \A k \in PaidJobs : submissions[k] <= submissions'[k] /\ submissions'[k] \in Nat
    BY <1>3, <1>4 DEF CostTypes
<1>10. /\ DOMAIN running' \subseteq Cost!Instances
       /\ \A i \in DOMAIN running' :
            /\ {"start", "jobs"} \subseteq DOMAIN running'[i]
            /\ running'[i].start = i[3] /\ running'[i].jobs \in [PaidJobs -> Nat]
            /\ \A k \in PaidJobs : running'[i].jobs[k] <= submissions'[k]
    BY <1>2, <1>4, <1>5, <1>7, <1>8, <1>9 DEF CostTypes
<1> QED BY <1>1, <1>2, <1>3, <1>4, <1>10 DEF CostTypes

\* Instances that lose jobs, or go.
LEMMA InstancesShrink ==
    ASSUME CostTypes, UNCHANGED <<now, pricing, scheduled, submissions>>,
           DOMAIN running' \subseteq DOMAIN running,
           \A i \in DOMAIN running' :
                \/ running'[i] = running[i]
                \/ \E j \in PaidJobs : /\ running[i].jobs[j] > 0
                                       /\ running'[i] = [running[i] EXCEPT !.jobs[j] = @ - 1]
    PROVE  CostTypes'
<1>1. \A k \in PaidJobs : submissions[k] \in Nat
    BY CostParameters DEF CostTypes
<1>2. ASSUME NEW i \in DOMAIN running'
      PROVE  /\ {"start", "jobs"} \subseteq DOMAIN running'[i]
             /\ running'[i].start = i[3] /\ running'[i].jobs \in [PaidJobs -> Nat]
             /\ \A k \in PaidJobs : running'[i].jobs[k] <= submissions[k]
    <2>1. CASE running'[i] = running[i]
        BY <2>1 DEF CostTypes
    <2>2. ASSUME NEW j \in PaidJobs, running[i].jobs[j] > 0,
                 running'[i] = [running[i] EXCEPT !.jobs[j] = @ - 1]
          PROVE  /\ {"start", "jobs"} \subseteq DOMAIN running'[i]
                 /\ running'[i].start = i[3] /\ running'[i].jobs \in [PaidJobs -> Nat]
                 /\ \A k \in PaidJobs : running'[i].jobs[k] <= submissions[k]
        <3>1. /\ {"start", "jobs"} \subseteq DOMAIN running[i] /\ running[i].start = i[3]
              /\ running[i].jobs \in [PaidJobs -> Nat]
              /\ \A k \in PaidJobs : running[i].jobs[k] <= submissions[k]
            BY DEF CostTypes
        <3>2. /\ DOMAIN running'[i] = DOMAIN running[i] /\ running'[i].start = running[i].start
              /\ running'[i].jobs = [running[i].jobs EXCEPT ![j] = @ - 1]
            BY <2>2, <3>1
        <3> QED BY <1>1, <2>2, <3>1, <3>2
    <2> QED BY <2>1, <2>2
<1> QED BY <1>2 DEF CostTypes

LEMMA CostTypesNext ==
    ASSUME CostTypes, [Cost!Next]_costVars PROVE CostTypes'
<1>1. CASE UNCHANGED <<scheduled, running, submissions>> /\ now' \in 0..MaxTime /\ pricing' \subseteq Offers
    BY <1>1 DEF CostTypes
<1>2. ASSUME NEW j \in PaidJobs, Cost!CompleteJob(j) PROVE CostTypes'
    <2> DEFINE i == scheduled[j]
               one == [running[i] EXCEPT !.jobs[j] = @ - 1]
               less == [running EXCEPT ![i] = one]
    <2>1. /\ i \in DOMAIN running /\ running[i].jobs[j] > 0
          /\ running' = IF Cost!Used(i, less) THEN less ELSE Cost!Restrict(less, DOMAIN less \ {i})
          /\ UNCHANGED <<now, pricing, scheduled, submissions>>
        BY <1>2 DEF Cost!CompleteJob, Cost!Without
    <2>2. /\ DOMAIN running' \subseteq DOMAIN running
          /\ \A k \in DOMAIN running' : running'[k] = less[k]
        BY <2>1 DEF Cost!Restrict
    <2>3. ASSUME NEW k \in DOMAIN running
          PROVE  less[k] \in {running[k], [running[k] EXCEPT !.jobs[j] = @ - 1]} /\ (k # i => less[k] = running[k])
        <3> HIDE DEF one, i
        <3>1. less[k] = IF k = i THEN one ELSE running[k]
            OBVIOUS
        <3> QED BY <3>1 DEF one
    <2> HIDE DEF less, i
    <2> QED BY <2>1, <2>2, <2>3, InstancesShrink
<1>3. CASE Cost!Optimize
    <2>1. /\ DOMAIN running' \subseteq DOMAIN running
          /\ \A k \in DOMAIN running' : running'[k] = running[k]
          /\ UNCHANGED <<now, pricing, scheduled, submissions>>
        BY <1>3 DEF Cost!Optimize, Cost!Restrict
    <2> QED BY <2>1, InstancesShrink
<1>4. Cost!Tick \/ (\E o \in Offers : Cost!AddPricing(o)) \/ UNCHANGED costVars =>
        UNCHANGED <<scheduled, running, submissions>> /\ now' \in 0..MaxTime /\ pricing' \subseteq Offers
    BY CostParameters DEF CostTypes, Cost!Tick, Cost!AddPricing, costVars
<1> QED BY <1>1, <1>2, <1>3, <1>4, ScheduleTypes1 DEF Cost!Next

LEMMA CostTyped == ASSUME CostInv, CostTypes PROVE Cost!TypeOK
<1>1. \A j \in PaidJobs : submissions[j] \in Nat /\ submissions[j] <= MaxSubmissions
    BY CostParameters DEF CostTypes
<1>2. ASSUME NEW i \in DOMAIN running PROVE running[i].jobs \in [PaidJobs -> 0..MaxSubmissions]
    <2>1. /\ running[i].jobs \in [PaidJobs -> Nat]
          /\ \A j \in PaidJobs : running[i].jobs[j] <= submissions[j]
        BY DEF CostTypes
    <2> QED BY <1>1, <2>1, CostParameters
<1> QED BY <1>2 DEF CostInv, CostTypes, Cost!TypeOK

NodeTypes ==
    /\ revision \in [Nodes -> 0..MaxUpdates] /\ packages \subseteq Nodes
    /\ said \in Node!Report \union Node!Advice \union Node!Verdict \union {Node!Nothing}

LEMMA NodeTypesInit == ASSUME Node!Init PROVE NodeTypes
BY NodeParameters DEF Node!Init, NodeTypes

LEMMA SaidTypes ==
    ASSUME \/ Node!GenerateReport
           \/ \E workflow \in SUBSET Nodes : Node!Recommend(workflow)
           \/ \E low, high \in Node!Limit : Node!CheckVersion(low, high)
    PROVE  said' \in Node!Report \union Node!Advice \union Node!Verdict
<1>1. CASE Node!GenerateReport
    <2>1. PICK found \in Node!Scanned :
            said' = [kind |-> "report", found |-> found, missing |-> {n \in found : n \in Demanding \ packages}]
        BY <1>1 DEF Node!GenerateReport
    <2>2. found \in SUBSET Nodes
        BY DEF Node!Scanned
    <2> QED BY <2>1, <2>2 DEF Node!Report
<1>2. ASSUME NEW workflow \in SUBSET Nodes, Node!Recommend(workflow)
      PROVE  said' \in Node!Advice
    BY <1>2 DEF Node!Recommend, Node!Advice
<1>3. ASSUME NEW low \in Node!Limit, NEW high \in Node!Limit, Node!CheckVersion(low, high)
      PROVE  said' \in Node!Verdict
    <2>1. Node!Meets(comfyui, low, high) \in BOOLEAN
        BY DEF Node!Meets
    <2> QED BY <1>3, <2>1 DEF Node!CheckVersion, Node!Verdict
<1> QED BY <1>1, <1>2, <1>3

LEMMA NodeTypesNext ==
    ASSUME InstallInv, NodeTypes, [Node!Next]_nodeVars PROVE NodeTypes'
<1>1. CASE UNCHANGED <<revision, packages, said>>
    BY <1>1 DEF NodeTypes
<1>2. ASSUME NEW p \in Processes, Node!Packages(p) PROVE NodeTypes'
    <2>1. target[p] \in Nodes
        BY <1>2 DEF InstallInv, Node!Packages
    <2> QED BY <1>2, <2>1 DEF NodeTypes, Node!Packages
<1>3. ASSUME NEW p \in Processes, Node!PullEnds(p) PROVE NodeTypes'
    <2>1. target[p] \in Nodes
        BY <1>3 DEF InstallInv, Node!PullEnds
    <2>2. revision' \in [Nodes -> 0..MaxUpdates] /\ UNCHANGED <<packages, said>>
        BY <1>3, <2>1, NodeParameters DEF NodeTypes, Node!PullEnds
    <2> QED BY <2>2 DEF NodeTypes
<1>4. CASE \/ Node!GenerateReport
           \/ \E workflow \in SUBSET Nodes : Node!Recommend(workflow)
           \/ \E low, high \in Node!Limit : Node!CheckVersion(low, high)
    <2>1. UNCHANGED <<revision, packages>>
        BY <1>4 DEF Node!GenerateReport, Node!Recommend, Node!CheckVersion
    <2> QED BY <1>4, <2>1, SaidTypes DEF NodeTypes
<1>5. UNCHANGED nodeVars \/ (\E p \in Processes : Node!CloneEnds(p))
        \/ (\E p \in Processes, n \in Nodes : (\E m \in Node!Methods : Node!Install(p, n, m)) \/ Node!Update(p, n))
        => UNCHANGED <<revision, packages, said>>
    BY DEF nodeVars, Node!CloneEnds, Node!Install, Node!Update
<1> QED BY <1>1, <1>2, <1>3, <1>4, <1>5 DEF Node!Next, Node!NodesNext, Node!VersionsNext

LEMMA NodeTyped == ASSUME InstallInv, VerdictInv, NodeTypes PROVE Node!TypeOK
BY DEF InstallInv, VerdictInv, NodeTypes, Node!TypeOK, Node!NoNode

PluginTypes ==
    /\ requires \in Requirements
    /\ disk \in [Plugins -> BOOLEAN] /\ touched \subseteq Plugins /\ edits \in 0..MaxEdits
    /\ handlers \subseteq UNION {Hooks[n] \X {n} : n \in Plugins}
    /\ pluginLeft \in [Plugins -> Nat] /\ sound \in BOOLEAN
    /\ todo \in [Plugin!Agents -> Seq(Plugin!Step)]
    /\ phase \in {"new", "running", "stopping", "over"}

LEMMA PluginTypesInit == ASSUME Plugin!Init PROVE PluginTypes
BY PluginParameters DEF Plugin!Init, PluginTypes

LEMMA StepsTypes ==
    ASSUME NEW op \in {"load", "unload"}, NEW names \in Seq(Plugins)
    PROVE  Plugin!Steps(op, names) \in Seq(Plugin!Step)
<1>1. \A n \in Plugins : [op |-> op, name |-> n] \in Plugin!Step
    BY DEF Plugin!Step
<1>2. \A i \in DOMAIN names : names[i] \in Plugins
    OBVIOUS
<1>3. Plugin!Steps(op, names) = [i \in 1..Len(names) |-> [op |-> op, name |-> names[i]]]
    BY DEF Plugin!Steps
<1> QED BY <1>1, <1>2, <1>3

LEMMA ReloadTypes ==
    ASSUME NEW n \in Plugins
    PROVE  Plugin!Reload(n) \in Seq(Plugin!Step) /\ Plugin!Steps("unload", <<n>>) \in Seq(Plugin!Step)
<1>1. <<n>> \in Seq(Plugins)
    OBVIOUS
<1>2. Plugin!Steps("load", <<n>>) \in Seq(Plugin!Step) /\ Plugin!Steps("unload", <<n>>) \in Seq(Plugin!Step)
    BY <1>1, StepsTypes
<1> HIDE DEF Plugin!Steps
<1> QED BY <1>2 DEF Plugin!Reload

\* What agents are given to do.
LEMMA GivenTypes ==
    ASSUME PluginInv, PluginTypes,
           \/ Plugin!Initialize \/ Plugin!Shutdown
           \/ \E a \in Reloaders, n \in Plugins : Plugin!CallUnload(a, n) \/ Plugin!CallReload(a, n)
           \/ \E n \in Plugins : Plugin!WatcherNotices(n)
    PROVE  todo' \in [Plugin!Agents -> Seq(Plugin!Step)]
<1>1. ASSUME NEW a, NEW steps \in Seq(Plugin!Step), todo' = [todo EXCEPT ![a] = steps]
      PROVE  todo' \in [Plugin!Agents -> Seq(Plugin!Step)]
    BY <1>1 DEF PluginTypes
<1>2. CASE Plugin!Initialize
    <2>1. PICK iteration \in Plugin!Iterations :
            todo' = [todo EXCEPT !["discovery"] = Plugin!Steps("load", Plugin!Resolved(iteration))]
        BY <1>2 DEF Plugin!Initialize
    <2>2. Plugin!Resolved(iteration) \in Seq(Plugins)
        BY ResolvedOrdered DEF Ordered, Covers
    <2> HIDE DEF Plugin!Resolved
    <2> QED BY <1>1, <2>1, <2>2, StepsTypes
<1>3. CASE Plugin!Shutdown
    <2>1. todo' = [todo EXCEPT !["watcher"] = <<>>, !["shutdown"] = Plugin!Steps("unload", Plugin!InOrder(plugins))]
        BY <1>3 DEF Plugin!Shutdown
    <2>2. Plugin!InOrder(plugins) \in Seq(Plugins)
        <3>1. plugins \in SUBSET Plugins
            BY DEF PluginInv
        <3>2. Plugin!InOrder(plugins) \in Seq(plugins)
            BY <3>1, InOrderCovers DEF Covers
        <3> HIDE DEF Plugin!InOrder
        <3> QED BY <3>1, <3>2
    <2>3. Plugin!Steps("unload", Plugin!InOrder(plugins)) \in Seq(Plugin!Step)
        BY <2>2, StepsTypes
    <2> HIDE DEF Plugin!Steps, Plugin!InOrder, Plugin!Agents, Plugin!Step
    <2>4. <<>> \in Seq(Plugin!Step)
        OBVIOUS
    <2> QED BY <2>1, <2>3, <2>4 DEF PluginTypes
<1>4. ASSUME NEW a, NEW n \in Plugins, Plugin!CallUnload(a, n) \/ Plugin!CallReload(a, n)
      PROVE  todo' \in [Plugin!Agents -> Seq(Plugin!Step)]
    BY <1>1, <1>4, ReloadTypes DEF Plugin!CallUnload, Plugin!CallReload
<1>5. ASSUME NEW n \in Plugins, Plugin!WatcherNotices(n)
      PROVE  todo' \in [Plugin!Agents -> Seq(Plugin!Step)]
    <2>1. (IF n \in plugins THEN Plugin!Reload(n) ELSE <<>>) \in Seq(Plugin!Step)
        <3>1. <<>> \in Seq(Plugin!Step)
            OBVIOUS
        <3> QED BY <3>1, ReloadTypes
    <2> QED BY <1>1, <1>5, <2>1 DEF Plugin!WatcherNotices
<1> QED BY <1>2, <1>3, <1>4, <1>5

LEMMA PluginTypesNext ==
    ASSUME PluginInv, PluginTypes, [Plugin!Next]_pluginVars PROVE PluginTypes'
<1>1. CASE UNCHANGED <<requires, disk, touched, edits, handlers, pluginLeft, sound, todo>> /\ phase' \in {phase, "over"}
    BY <1>1 DEF PluginTypes
<1>2. CASE \/ Plugin!Initialize
           \/ \E a \in Reloaders, n \in Plugins : Plugin!CallUnload(a, n) \/ Plugin!CallReload(a, n)
           \/ \E n \in Plugins : Plugin!WatcherNotices(n)
    <2>1. /\ UNCHANGED <<requires, disk, edits, handlers, pluginLeft, sound>>
          /\ touched' \subseteq touched /\ phase' \in {phase, "running"}
        BY <1>2 DEF Plugin!Initialize, Plugin!CallUnload, Plugin!CallReload, Plugin!WatcherNotices,
           Plugin!instances
    <2> QED BY <1>2, <2>1, GivenTypes DEF PluginTypes
<1>3. CASE Plugin!Shutdown
    <2>1. pluginLeft' \in [Plugins -> Nat]
        BY <1>3 DEF PluginTypes, Plugin!Shutdown
    <2>2. UNCHANGED <<requires, disk, touched, edits, handlers, sound>> /\ phase' = "stopping"
        BY <1>3 DEF Plugin!Shutdown
    <2> QED BY <1>3, <2>1, <2>2, GivenTypes DEF PluginTypes
<1>4. ASSUME NEW a \in Plugin!Agents, NEW n \in Plugins,
             \/ Plugin!LoadRefused(a, n) \/ Plugin!LoadBegins(a, n) \/ Plugin!LoadEnds(a, n)
             \/ Plugin!UnloadRefused(a, n) \/ Plugin!UnloadBegins(a, n) \/ Plugin!UnloadEnds(a, n)
      PROVE  PluginTypes'
    <2> USE DEF Plugin!LoadRefused, Plugin!LoadBegins, Plugin!LoadEnds, Plugin!UnloadRefused,
                Plugin!UnloadBegins, Plugin!UnloadEnds
    <2>1. /\ todo[a] # <<>> /\ todo' \in {todo, [todo EXCEPT ![a] = Tail(todo[a])]}
          /\ UNCHANGED <<requires, disk, touched, edits, phase>>
        BY <1>4 DEF Plugin!Doing, Plugin!Done, Plugin!instances
    <2>2. todo' \in [Plugin!Agents -> Seq(Plugin!Step)]
        <3>1. todo[a] \in Seq(Plugin!Step)
            BY DEF PluginTypes
        <3>2. Tail(todo[a]) \in Seq(Plugin!Step)
            BY <2>1, <3>1
        <3> QED BY <2>1, <3>2 DEF PluginTypes
    <2>3. handlers' \subseteq handlers \union Hooks[n] \X {n}
        BY <1>4 DEF Plugin!Registered
    <2>4. handlers' \subseteq UNION {Hooks[m] \X {m} : m \in Plugins}
        BY <2>3 DEF PluginTypes
    <2>5. pluginLeft' \in [Plugins -> Nat]
        BY <1>4 DEF PluginTypes, Plugin!instances
    <2>6. sound' \in BOOLEAN
        BY <1>4 DEF PluginTypes, Plugin!instances
    <2> QED BY <2>1, <2>2, <2>4, <2>5, <2>6 DEF PluginTypes
<1>5. ASSUME NEW n \in Plugins, NEW works \in BOOLEAN, Plugin!Edit(n, works) PROVE PluginTypes'
    <2>1. /\ edits' = edits + 1 /\ edits < MaxEdits
          /\ disk' = [disk EXCEPT ![n] = works] /\ touched' = touched \union {n}
          /\ UNCHANGED <<requires, handlers, pluginLeft, sound, todo, phase>>
        BY <1>5 DEF Plugin!Edit, Plugin!instances
    <2> QED BY <2>1, PluginParameters DEF PluginTypes
<1>6. Plugin!ShutdownEnds \/ Plugin!Over \/ UNCHANGED pluginVars =>
        UNCHANGED <<requires, disk, touched, edits, handlers, pluginLeft, sound, todo>> /\ phase' \in {phase, "over"}
    BY DEF Plugin!ShutdownEnds, Plugin!Over, Plugin!vars, Plugin!instances, pluginVars
<1> QED BY <1>1, <1>2, <1>3, <1>4, <1>5, <1>6 DEF Plugin!Next

LEMMA PluginTyped == ASSUME PluginInv, PluginTypes PROVE Plugin!TypeOK
<1>1. alive \in [Plugins -> Nat]
    <2>1. \A n \in Plugins : alive[n] \in {pluginLeft[n], pluginLeft[n] + 1} /\ pluginLeft[n] \in Nat
        BY DEF PluginInv, PluginTypes, InstancesAccounted
    <2> QED BY <2>1 DEF PluginInv
<1> QED BY <1>1 DEF PluginInv, PluginTypes, Plugin!TypeOK, Plugin!Free

\* An archive unpacks to places, and a whole one holds all of the contents.
Archived(a) ==
    /\ {"kind", "holds"} \subseteq DOMAIN a /\ a.kind \in {"none", "whole", "broken"}
    /\ DOMAIN a.holds \subseteq Places /\ a.holds \in [DOMAIN a.holds -> 0..MaxVersion]
    /\ a.kind = "whole" => DOMAIN a.holds = {ArcName[p] : p \in Contents}

BackupTypes ==
    /\ live \in [Places -> 0..MaxVersion]
    /\ \A i \in Backup!Ids : Archived(archive[i])
    /\ metadata \in [Backup!Ids -> {"none", "whole", "broken"}]
    /\ expired \subseteq Backup!Ids /\ keeps \in BOOLEAN /\ second \in 0..MaxBackups
    /\ loop \in {"off", "due", "cleanup", "asleep"}
    /\ restored \in [DOMAIN restored -> 0..MaxVersion]

LEMMA NoArchiveType == Archived(Backup!NoArchive)
BY DEF Archived, Backup!NoArchive

LEMMA BackupTypesInit == ASSUME Backup!Init PROVE BackupTypes
<1>1. live \in [Places -> 0..MaxVersion]
    BY RedisParameters DEF Backup!Init
<1>2. \A i \in Backup!Ids : Archived(archive[i])
    BY NoArchiveType DEF Backup!Init
<1> QED BY <1>1, <1>2, BackupParameters DEF Backup!Init, BackupTypes

LEMMA PackedType ==
    ASSUME BackupTypes
    PROVE  /\ DOMAIN Backup!Packed = {ArcName[p] : p \in Contents}
           /\ DOMAIN Backup!Packed \subseteq Places
           /\ Backup!Packed \in [DOMAIN Backup!Packed -> 0..MaxVersion]
<1>1. \A a \in {ArcName[p] : p \in Contents} : live[CHOOSE p \in Contents : ArcName[p] = a] \in 0..MaxVersion
    <2> SUFFICES ASSUME NEW a \in {ArcName[p] : p \in Contents}
                 PROVE  live[CHOOSE p \in Contents : ArcName[p] = a] \in 0..MaxVersion
        OBVIOUS
    <2>1. \E p \in Contents : ArcName[p] = a
        OBVIOUS
    <2>2. (CHOOSE p \in Contents : ArcName[p] = a) \in Places
        BY <2>1, BackupParameters
    <2> QED BY <2>2 DEF BackupTypes
<1> QED BY <1>1, BackupParameters DEF Backup!Packed

LEMMA FilesTypes ==
    ASSUME BackupInv, BackupTypes, NEW i \in Backup!Ids,
           Backup!Created(i) \/ Backup!Failed(i) \/ Backup!Crashed(i)
    PROVE  /\ \A j \in Backup!Ids : Archived(archive'[j])
           /\ metadata' \in [Backup!Ids -> {"none", "whole", "broken"}]
           /\ expired' \subseteq Backup!Ids
<1> DEFINE whole == [kind |-> "whole", holds |-> Backup!Packed]
           part(S) == [kind |-> "broken", holds |-> Backup!Restrict(Backup!Packed, S)]
<1>1. Archived(whole)
    BY PackedType DEF Archived
<1>2. ASSUME NEW S \in SUBSET DOMAIN Backup!Packed PROVE Archived(part(S))
    <2>1. DOMAIN Backup!Restrict(Backup!Packed, S) = S
          /\ Backup!Restrict(Backup!Packed, S) \in [S -> 0..MaxVersion]
        BY PackedType DEF Backup!Restrict
    <2>2. part(S).kind = "broken" /\ part(S).holds = Backup!Restrict(Backup!Packed, S)
          /\ DOMAIN part(S) = {"kind", "holds"}
        OBVIOUS
    <2> HIDE DEF part
    <2> QED BY <2>1, <2>2, PackedType DEF Archived
<1>3. \E a : Archived(a) /\ archive' = [archive EXCEPT ![i] = a]
    <2>1. CASE Backup!Created(i) \/ Backup!Failed(i)
        BY <1>1, <2>1, NoArchiveType DEF Backup!Created, Backup!Failed
    <2>2. CASE Backup!Crashed(i)
        BY <1>1, <1>2, <2>2 DEF Backup!Crashed
    <2> QED BY <2>1, <2>2
<1>4. \A j \in Backup!Ids : Archived(archive'[j])
    BY <1>3 DEF BackupInv, BackupTypes
<1>5. metadata' \in [Backup!Ids -> {"none", "whole", "broken"}] /\ expired' \subseteq Backup!Ids
    BY DEF BackupTypes, Backup!Created, Backup!Failed, Backup!Crashed
<1> QED BY <1>4, <1>5

LEMMA RestoreTypes ==
    ASSUME BackupTypes, NEW i \in Backup!Ids, Backup!Restore(i) PROVE BackupTypes'
<1>1. Archived(archive[i])
    BY DEF BackupTypes
<1>2. live' \in [Places -> 0..MaxVersion]
    <2> DEFINE holds == archive[i].holds
    <2>1. live' = [p \in Places |-> IF p \in DOMAIN holds THEN holds[p] ELSE live[p]]
        BY DEF Backup!Restore
    <2>2. \A p \in DOMAIN holds : holds[p] \in 0..MaxVersion
        BY <1>1 DEF Archived
    <2>3. \A p \in Places : live[p] \in 0..MaxVersion
        BY DEF BackupTypes
    <2> HIDE DEF holds
    <2> QED BY <2>1, <2>2, <2>3
<1>3. restored' \in [DOMAIN restored' -> 0..MaxVersion]
    <2>1. CASE archive[i].kind = "whole"
        <3>1. \A p \in Contents : archive[i].holds[ArcName[p]] \in 0..MaxVersion
            BY <1>1, <2>1 DEF Archived
        <3> QED BY <2>1, <3>1 DEF Backup!Restore
    <2>2. CASE archive[i].kind # "whole"
        BY <2>2 DEF Backup!Restore
    <2> QED BY <2>1, <2>2
<1> QED BY <1>2, <1>3 DEF BackupTypes, Backup!Restore

LEMMA BackupTypesNext ==
    ASSUME BackupInv, BackupTypes, [Backup!Next]_backupVars PROVE BackupTypes'
<1>1. CASE UNCHANGED <<live, archive, metadata, expired, keeps, second, restored>> /\ loop' \in {loop, "off", "due"}
    BY <1>1 DEF BackupTypes
<1>2. CASE Backup!Cleanup \/ Backup!CrashInCleanup
    <2>1. \A i \in Backup!Ids : archive'[i] \in {archive[i], Backup!NoArchive}
        BY <1>2 DEF Backup!Cleanup, Backup!CrashInCleanup, Backup!Cleans, Backup!Removed, BackupInv
    <2>2. \A i \in Backup!Ids : Archived(archive'[i])
        BY <2>1, NoArchiveType DEF BackupTypes
    <2>3. /\ metadata' \in [Backup!Ids -> {"none", "whole", "broken"}] /\ expired' \subseteq Backup!Ids
          /\ loop' \in {"asleep", "off"} /\ UNCHANGED <<live, keeps, second, restored>>
        BY <1>2 DEF BackupTypes, Backup!Cleanup, Backup!CrashInCleanup, Backup!Cleans, Backup!Removed
    <2> QED BY <2>2, <2>3 DEF BackupTypes
<1>3. CASE Backup!BackupByHand \/ Backup!Scheduled \/ Backup!CrashInBackup
    <2>1. PICK i \in Backup!Ids : /\ second' = i
                                  /\ Backup!Created(i) \/ Backup!Failed(i) \/ Backup!Crashed(i)
                                  /\ UNCHANGED <<live, keeps, restored>> /\ loop' \in {loop, "off", "cleanup", "asleep"}
        BY <1>3 DEF Backup!BackupByHand, Backup!Scheduled, Backup!CrashInBackup, Backup!Now
    <2>2. second' \in 0..MaxBackups
        BY <2>1 DEF Backup!Ids
    <2> QED BY <2>1, <2>2, FilesTypes DEF BackupTypes
<1>4. ASSUME NEW p \in Contents, Backup!Change(p) PROVE BackupTypes'
    <2>1. p \in Places /\ live[p] \in 0..MaxVersion /\ live[p] < MaxVersion
        BY <1>4, BackupParameters DEF BackupTypes, Backup!Change
    <2>2. live' = [live EXCEPT ![p] = @ + 1] /\ restored' = <<>>
          /\ UNCHANGED <<archive, metadata, expired, keeps, second, loop>>
        BY <1>4 DEF Backup!Change
    <2>3. live' \in [Places -> 0..MaxVersion]
        BY <2>1, <2>2, RedisParameters DEF BackupTypes
    <2> QED BY <2>2, <2>3 DEF BackupTypes
<1>5. ASSUME NEW i \in Backup!Ids, Backup!Ages(i) PROVE BackupTypes'
    BY <1>5 DEF BackupTypes, Backup!Ages
<1>6. Backup!Start \/ Backup!Wakes \/ Backup!Stop \/ UNCHANGED backupVars =>
        UNCHANGED <<live, archive, metadata, expired, keeps, second, restored>> /\ loop' \in {loop, "off", "due"}
    BY DEF Backup!Start, Backup!Wakes, Backup!Stop, backupVars
<1> QED BY <1>1, <1>2, <1>3, <1>4, <1>5, <1>6, RestoreTypes DEF Backup!Next

LEMMA BackupTyped == ASSUME BackupTypes PROVE Backup!TypeOK
BY DEF BackupTypes, Archived, Backup!TypeOK

-----------------------------------------------------------------------------
(* The platform together.                                                  *)

\* Whichever component is in focus, each takes a step of its own or none.
LEMMA Steps ==
    ASSUME [Next]_vars
    PROVE  /\ [Cluster!Next]_clusterVars /\ [Region!Next]_regionVars
           /\ [Redis!Next]_redisVars /\ [Scaler!Next]_scalerVars
           /\ [Cloud!Next]_cloudVars /\ [Cost!Next]_costVars
           /\ [Node!Next]_nodeVars /\ [Plugin!Next]_pluginVars
           /\ [Backup!Next]_backupVars /\ [Security!Next]_securityVars
<1> USE DEF Next, HostsStep, WorkerStep, RegionStep, RedisStep, LimitStep, ScalerStep, CloudStep,
            CostStep, NodeStep, VersionStep, PluginStep, BackupStep, SecurityStep, AuditStep, Only, vars
<1>1. [Cluster!Next]_clusterVars
    BY DEF Cluster!Next
<1>2. [Region!Next]_regionVars
    OBVIOUS
<1>3. [Redis!Next]_redisVars
    BY DEF Redis!Next
<1>4. [Scaler!Next]_scalerVars /\ [Cloud!Next]_cloudVars /\ [Cost!Next]_costVars
    OBVIOUS
<1>5. [Node!Next]_nodeVars /\ [Plugin!Next]_pluginVars
    BY DEF Node!Next
<1>6. [Backup!Next]_backupVars /\ [Security!Next]_securityVars
    BY DEF Security!Next
<1> QED BY <1>1, <1>2, <1>3, <1>4, <1>5, <1>6

\* For any number of hosts, tasks, regions and windows: a node that was heard within
\* node_timeout is not shown as offline, whatever a monitor writes back
\* (_monitor_nodes(), cluster_manager.py:327-367); the worker runs a task again only as often as
\* its reports were lost; a region that missed three checks in a row is given up; the hosts
\* together grant no window more than max_requests; and without a value that was on its way,
\* nothing older than the last invalidation is cached.
THEOREM HostsStayAgreed == Spec => []HostsAgree
<1> DEFINE Inv == HostInv /\ WorkerInv /\ RegionInv /\ CacheInv /\ LimitInv
<1>1. Init => Inv
    BY HostInit, WorkerInit, RegionInit, CacheInit, LimitInit DEF Init
<1>2. Inv /\ [Next]_vars => Inv'
    BY Steps, HostNext, WorkerNext, RegionNext, CacheNext, LimitNext
<1>3. Inv => HostsAgree
    <2>1. HostInv => Cluster!FreshIsHealthy
        BY DEF HostInv
    <2>2. RegionInv => Region!ThreeStrikes
        BY DEF RegionInv
    <2>3. CacheInv => Redis!StaleOnlyByFlight
        BY DEF CacheInv, Redis!StaleOnlyByFlight
    <2> QED BY <2>1, <2>2, <2>3, RerunImplied, LimitImplied DEF HostsAgree
<1> QED BY <1>1, <1>2, <1>3, PTL DEF Spec

\* Whatever number of users, tokens and wrong passwords, and wherever the process is killed: a
\* refresh token is exchanged at most once and is revoked by it together with its access token,
\* and an account that has failed lockout_threshold times stays locked for its time, but for a
\* crash that forgets what _save_users() has raised for (refresh_access_token(), security.py:399;
\* authenticate(), security.py:890-982). Whatever regions, entries and backups there are: no job
\* is routed past a better region or into maintenance (get_best_region()), every audit entry is
\* written, buffered or was lost by a flush that raised, and the first shutdown of the log that
\* returns has written all of them (shutdown(), security.py:663), and a cleanup with a retention
\* of a day or more leaves a complete backup, also if it crashes (_backup_loop()).
THEOREM DoneStaysDone == Spec => DoneIsDone
<1> DEFINE Inv == SecurityInv /\ BackupInv
<1>1. Init => Inv
    BY SecurityInit, BackupInit DEF Init
<1>2. Inv /\ [Next]_vars => Inv'
    BY Steps, SecurityNext, BackupNext
<1>3. Inv => Security!RefreshedOnce /\ Security!LockSurvives /\ Security!EntriesAccounted
    BY DEF SecurityInv, FailuresSaved, EntriesCounted
<1>4. Inv /\ [Next]_vars =>
        [routed' # routed /\ routed' # Region!NoRegion =>
            /\ active[routed']
            /\ \A r \in Region!Candidates : Priority[routed'] <= Priority[r]]_(Region!vars)
    BY Steps, FailoverImplied
<1>5. Inv /\ [Next]_vars =>
        [(closing \in {"no", "cancelled"} /\ closing' = "returned") => written' = logged']_(Security!vars)
    BY Steps, AuditImplied
<1>6. Inv /\ [Next]_vars =>
        [keeps /\ loop = "cleanup" /\ loop' # "cleanup" => Backup!Complete' # {}]_(Backup!vars)
    BY Steps, LastBackupImplied
<1> HIDE DEF Inv
<1> QED BY <1>1, <1>2, <1>3, <1>4, <1>5, <1>6, PTL
        DEF Spec, DoneIsDone, Region!FailoverByPriority, Security!AuditComplete, Backup!LastBackupStays

\* For any number of machines, policies, requests and jobs: while the monitor of the scaling works
\* it knows of every machine it has launched, also those of an emergency that are not recorded
\* yet, but the ones whose launch answered nothing (auto_scaler.py:184-214) or whose termination
\* was reported and did not happen, and what it takes down has been idle (_scale_down(),
\* auto_scaler.py:651-670); a machine of a provider that costs money is managed, awaited, or was
\* lost in one of the four ways of LeaksAreKnown, an open spot request, a provision that raised,
\* a failed deletion or a name taken over (MultiCloudManager, cloud_providers.py:985); no
\* instance outlives its last job, and a job is
\* charged, or still listed, as often as it was accepted (schedule_job() and complete_job(),
\* cost_optimizer.py:176-218).
THEOREM MachinesStayAccounted == Spec => []MachinesAccounted
<1> DEFINE Inv == ScalerInv /\ CloudInv /\ CostInv
<1>1. Init => Inv
    BY ScalerInit, CloudInit, CostInit DEF Init
<1>2. Inv /\ [Next]_vars => Inv'
    BY Steps, ScalerNext, CloudNext, CostNext
<1>3. Inv => MachinesAccounted
    BY ScalerImplied, CloudImplied DEF CostInv, MachinesAccounted
<1> QED BY <1>1, <1>2, <1>3, PTL DEF Spec

\* For any processes, version strings, plugins and reloads: a node that is called cloned is a
\* whole clone unless a killed pull has torn it, two versions compare equal exactly if
\* normalize() makes the same numbers of them, whatever words and prefixes they are written
\* with, and what lies between an accepted version and a limit is accepted (install_node()
\* and _compare_versions(), node_discovery.py:517-670), and no plugin
\* has two instances (_load_plugin(), plugin_system.py:356-433).
THEOREM InstalledStaysWhole == Spec => []InstalledIsWhole
<1> DEFINE Inv == InstallInv /\ VerdictInv /\ PluginInv
<1>1. Init => Inv
    BY InstallInit, VerdictInit, PluginInit DEF Init
<1>2. Inv /\ [Next]_vars => Inv'
    BY Steps, InstallNext, VerdictNext, PluginNext
<1>3. Inv => InstalledIsWhole
    BY VersionsImplied, PluginImplied DEF InstallInv, InstalledIsWhole
<1> QED BY <1>1, <1>2, <1>3, PTL DEF Spec

\* For any plugins, graphs of requirements and orders of iteration: the order that
\* _resolve_dependencies() makes (plugin_system.py:294-328) leaves no plugin out that could be
\* loaded, also when it breaks a cycle or a requirement is not there; a discovery that nobody
\* disturbs by an edit has loaded all of them when it ends.
THEOREM PluginsAreDiscovered == Spec => DiscoveryIsComplete
<1>1. Init => DiscoveryInv
    BY DiscoveryInit DEF Init
<1>2. DiscoveryInv /\ [Next]_vars => DiscoveryInv'
    BY Steps, DiscoveryNext
<1>3. DiscoveryInv /\ [Next]_vars =>
        [edits = 0 /\ todo["discovery"] # <<>> /\ todo'["discovery"] = <<>> =>
            Plugin!Loadable \subseteq plugins']_(Plugin!vars)
    BY Steps, DiscoveryNext
<1> QED BY <1>1, <1>2, <1>3, PTL DEF Spec, DiscoveryIsComplete, Plugin!DiscoveryIsComplete

LEMMA TypesInit ==
    ASSUME Init
    PROVE  /\ HostTypes /\ WorkerTypes /\ RegionTypes /\ ClearingTypes /\ ScalerTypes
           /\ CloudTypes /\ CostTypes /\ NodeTypes /\ PluginTypes /\ BackupTypes
<1>1. ClearingTypes
    BY DEF Init, Redis!Init, ClearingTypes
<1> QED BY <1>1, ClusterTypesInit, RegionTypesInit, ScalerTypesInit, CloudTypesInit, CostTypesInit,
       NodeTypesInit, PluginTypesInit, BackupTypesInit DEF Init

\* For every value of the parameters the variables of each component have their types, with the
\* bounds these state: the queue of a cluster never holds more jobs than there are, as a job is
\* put into it once (submit_job(), cluster_manager.py:592); a replication confirms at most as many
\* writes as it has rules (replicate_data(), multi_region_manager.py:200); a round of scaling
\* launches at most three machines, of a cloud that has finitely many (_make_decision(),
\* auto_scaler.py:506); who is managed is of a provider that is registered (provision_best_instance(),
\* cloud_providers.py:1056); no instance lists a job more often than it was accepted, and an archive
\* unpacks to places there are.
THEOREM TypeCorrect == Spec => []TypeOK
<1> DEFINE Inv == /\ HostInv /\ WorkerInv /\ RegionInv /\ CacheInv /\ LimitInv /\ SecurityInv
                  /\ ScalerInv /\ CloudInv /\ CostInv /\ InstallInv /\ VerdictInv /\ PluginInv
                  /\ BackupInv
           Types == /\ HostTypes /\ WorkerTypes /\ RegionTypes /\ ClearingTypes /\ ScalerTypes
                    /\ CloudTypes /\ CostTypes /\ NodeTypes /\ PluginTypes /\ BackupTypes
<1>1. Init => Inv /\ Types
    <2>1. Init => Inv
        BY HostInit, WorkerInit, RegionInit, CacheInit, LimitInit, SecurityInit, ScalerInit,
           CloudInit, CostInit, InstallInit, VerdictInit, PluginInit, BackupInit DEF Init
    <2> QED BY <2>1, TypesInit
<1>2. Inv /\ Types /\ [Next]_vars => (Inv /\ Types)'
    <2>1. Inv /\ [Next]_vars => Inv'
        BY Steps, HostNext, WorkerNext, RegionNext, CacheNext, LimitNext, SecurityNext, ScalerNext,
           CloudNext, CostNext, InstallNext, VerdictNext, PluginNext, BackupNext
    <2>2. Inv /\ Types /\ [Next]_vars => Types'
        BY Steps, HostTypesNext, WorkerTypesNext, RegionTypesNext, ClearingNext, ScalerTypesNext,
           CloudTypesNext, CostTypesNext, NodeTypesNext, PluginTypesNext, BackupTypesNext
    <2> QED BY <2>1, <2>2
<1>3. Inv /\ Types => TypeOK
    BY ClusterTyped, RegionTyped, RedisTyped, ScalerTyped, CloudTyped, CostTyped, NodeTyped,
       PluginTyped, BackupTyped DEF TypeOK, SecurityInv
<1> HIDE DEF Inv, Types
<1> QED BY <1>1, <1>2, <1>3, PTL DEF Spec
=============================================================================
