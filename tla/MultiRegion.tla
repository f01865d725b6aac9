---------------------------- MODULE MultiRegion ----------------------------
(***************************************************************************)
(* The regions of a deployment (engine/multi_region_manager.py): their     *)
(* health as the check loop finds it, routing, maintenance, replication.   *)
(*                                                                         *)
(* The checks of a round run at the same time, the next round waits for    *)
(* all.  Latency, cost, weight and load make a score; it is a constant of  *)
(* the region here, as the capacity in use is what the last answer said.   *)
(***************************************************************************)
EXTENDS Integers, Sequences, FiniteSets, SequencesExt

CONSTANTS
    Regions,        \* the regions, a sequence in the order of the dict
    Priority,       \* region -> priority, lower is preferred
    Score,          \* region -> its score
    Rules,          \* replication rules for one data type: <<source, target>>
    MaxWrites       \* bound: calls of replicate_data()

Names == ToSet(Regions)
NoRegion == "none"
Unknown == "unknown"

VARIABLES
    status,         \* _health[name].status, Unknown without an entry
    failures,       \* _health[name].consecutive_failures
    full,           \* the last answer reported max_capacity jobs
    active,         \* is_active
    checking,       \* regions whose check of this round is under way
    missed,         \* history: checks in a row that got no answer
    routed,         \* what route_job() returned last
    pending,        \* rules replicate_data() has still to apply
    success,        \* its success_count
    writes

health == <<status, failures, full, missed>>
replication == <<pending, success, writes>>
vars == <<health, active, checking, routed, replication>>

TypeOK ==
    /\ status \in [Names -> {Unknown, "HEALTHY", "DEGRADED", "UNAVAILABLE", "MAINTENANCE"}]
    /\ failures \in [Names -> 0..3] /\ missed \in [Names -> 0..3]
    /\ full \in [Names -> BOOLEAN] /\ active \in [Names -> BOOLEAN]
    /\ checking \subseteq Names
    /\ routed \in Names \union {NoRegion}
    /\ pending \in SeqOf(Rules, Cardinality(Rules))
    /\ success \in 0..Cardinality(Rules)
    /\ writes \in 0..MaxWrites

Init ==
    /\ status = [r \in Names |-> Unknown] /\ failures = [r \in Names |-> 0]
    /\ full = [r \in Names |-> FALSE] /\ active = [r \in Names |-> TRUE]
    /\ checking = {} /\ missed = [r \in Names |-> 0]
    /\ routed = NoRegion
    /\ pending = <<>> /\ success = 0 /\ writes = 0

-----------------------------------------------------------------------------
(* Health.                                                                 *)

CheckAllRegions ==
    /\ checking = {}
    /\ checking' = {r \in Names : active[r]}
    /\ UNCHANGED <<health, active, routed, replication>>

\* Counts matter up to three.
Three(n) == IF n < 3 THEN n ELSE 3
Checked(r) ==
    /\ r \in checking
    /\ checking' = checking \ {r}
    /\ UNCHANGED <<active, routed, replication>>

Answers(r, s, isFull, n) ==
    /\ Checked(r)
    /\ status' = [status EXCEPT ![r] = s]
    /\ failures' = [failures EXCEPT ![r] = n]
    /\ full' = [full EXCEPT ![r] = isFull]
    /\ missed' = [missed EXCEPT ![r] = 0]

\* 200 with a body, or another status: then one failure, however many before.
Healthy(r) == \E isFull \in BOOLEAN : Answers(r, "HEALTHY", isFull, 0)
Degraded(r) == Answers(r, "DEGRADED", FALSE, 1)

\* A bug RecordFailure could have: one failure too many is forgiven.
RecordFailureLate(r) ==
    LET n == IF status[r] = Unknown THEN 1 ELSE Three(failures[r] + 1) IN
    /\ Checked(r)
    /\ failures' = [failures EXCEPT ![r] = n]
    /\ status' = IF status[r] = Unknown \/ failures[r] = 3
                 THEN [status EXCEPT ![r] = "UNAVAILABLE"] ELSE status
    /\ missed' = [missed EXCEPT ![r] = Three(@ + 1)]
    /\ UNCHANGED full

\* A timeout or any other exception of the check.
RecordFailure(r) ==
    LET n == IF status[r] = Unknown THEN 1 ELSE Three(failures[r] + 1) IN
    /\ Checked(r)
    /\ failures' = [failures EXCEPT ![r] = n]
    /\ status' = IF status[r] = Unknown \/ n >= 3
                 THEN [status EXCEPT ![r] = "UNAVAILABLE"] ELSE status
    /\ missed' = [missed EXCEPT ![r] = Three(@ + 1)]
    /\ UNCHANGED full

\* Also while a check of the region is under way, which then overwrites the status.
SetMaintenance(r, on) ==
    /\ active' = [active EXCEPT ![r] = ~on]
    /\ status' = IF on /\ status[r] # Unknown
                 THEN [status EXCEPT ![r] = "MAINTENANCE"] ELSE status
    /\ UNCHANGED <<failures, full, missed, checking, routed, replication>>

-----------------------------------------------------------------------------
(* Routing.                                                                *)

Candidates == {r \in Names : active[r] /\ status[r] = "HEALTHY" /\ ~full[r]}
Fallback == {r \in Names : active[r] /\ status[r] = "DEGRADED"}

\* sort() by priority and score is stable: the order of the dict decides ties.
Before(r, q) ==
    \/ Priority[r] < Priority[q]
    \/ Priority[r] = Priority[q] /\ Score[r] > Score[q]
First(rs) == Regions[CHOOSE i \in DOMAIN Regions :
                        Regions[i] \in rs /\ \A k \in 1..(i - 1) : Regions[k] \notin rs]

\* A bug BestRegion could have: maintenance is not looked at.
BestRegionAny ==
    LET rs == {r \in Names : status[r] = "HEALTHY" /\ ~full[r]} IN
    IF rs # {} THEN First({r \in rs : \A q \in rs : ~Before(q, r)})
    ELSE IF Fallback # {} THEN First(Fallback) ELSE NoRegion

BestRegion ==
    IF Candidates # {} THEN First({r \in Candidates : \A q \in Candidates : ~Before(q, r)})
    ELSE IF Fallback # {} THEN First(Fallback) ELSE NoRegion

RouteJob ==
    /\ routed' = BestRegion
    /\ UNCHANGED <<health, active, checking, replication>>

-----------------------------------------------------------------------------
(* Replication: one request after the other, none repeated.                *)

ReplicateData(source) ==
    /\ pending = <<>> /\ writes < MaxWrites
    /\ writes' = writes + 1
    /\ pending' = SetToSeq({rule \in Rules : rule[1] = source})
    /\ success' = 0
    /\ UNCHANGED <<health, active, checking, routed>>

\* The target accepts, refuses, cannot be reached or is not configured.
ReplicateToRegion(delivered) ==
    LET rule == Head(pending) IN
    /\ pending # <<>>
    /\ delivered => rule[2] \in Names
    /\ pending' = Tail(pending)
    /\ success' = IF delivered THEN success + 1 ELSE success
    /\ UNCHANGED <<health, active, checking, routed, writes>>

Next ==
    \/ CheckAllRegions \/ RouteJob
    \/ \E r \in Names :
        \/ Healthy(r) \/ Degraded(r) \/ RecordFailure(r)
        \/ \E on \in BOOLEAN : SetMaintenance(r, on)
        \/ ReplicateData(r)
    \/ \E delivered \in BOOLEAN : ReplicateToRegion(delivered)

Spec == Init /\ [][Next]_vars

-----------------------------------------------------------------------------
(* Properties.                                                             *)

\* A region that missed three checks in a row is not healthy, nor degraded, whatever
\* answers, failures and maintenance came before.
ThreeStrikes ==
    \A r \in Names : missed[r] >= 3 => status[r] \in {"UNAVAILABLE", "MAINTENANCE"}

\* "Automatic failover with priority-based routing": no job goes to a region in
\* maintenance, even when a late check has called it healthy again, and none to a
\* region while one that is preferred could take it.
FailoverByPriority ==
    [][routed' # routed /\ routed' # NoRegion =>
        /\ active[routed']
        /\ \A r \in Candidates : Priority[routed'] <= Priority[r]]_vars

\* The same promise for the degraded regions among which get_best_region() falls back.
FallbackByPriority ==
    [][routed' # routed /\ routed' \in Fallback =>
        \A r \in Fallback : Priority[routed'] <= Priority[r]]_vars
=============================================================================
