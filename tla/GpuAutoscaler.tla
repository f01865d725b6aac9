--------------------------- MODULE GpuAutoscaler ---------------------------
(***************************************************************************)
(* Node pools that grow and shrink with a load score                       *)
(* (engine/gpu_autoscaler.py).                                             *)
(*                                                                         *)
(* The loop decides and applies for one pool after the other; callers of   *)
(* the module may also fetch a decision and apply it later.  All critical  *)
(* sections are free of waits, so deciding and applying are two steps, and *)
(* between those of the loop nothing runs.  Metrics are percentages, and a *)
(* score is compared by cross-multiplying its weights, which are doubled   *)
(* here to be whole.  The cooldowns are classes of the time since the last *)
(* scaling: 0 shorter than both, 1 than the longer one only, 2 than none.  *)
(***************************************************************************)
EXTENDS Integers, FiniteSets, FiniteSetsExt

CONSTANTS
    Pools, Callers,
    MinNodes, MaxNodes, Target,     \* of each NodePoolConfig; Target in percent
    Readings        \* sets of metrics that may be reported

Kinds == {"utilization", "queue", "wait", "errors"}
Actions == {"maintain", "up", "down", "emergency"}
Decided == [action : Actions, target : Nat]
Nothing == [action |-> "maintain", target |-> 0]

VARIABLES
    size,           \* _current_nodes
    metrics,        \* _metrics; a pool starts without any
    since,          \* class of the time since _last_scale_time
    running,        \* whether the loop runs
    held,           \* the decision each caller holds for each pool
    last            \* the last decision applied and how it moved the pool

vars == <<size, metrics, since, running, held, last>>

TypeOK ==
    /\ \A p \in Pools : size[p] \in MinNodes[p]..MaxNodes[p]
    /\ metrics \in [Pools -> Readings \union {<<>>}]
    /\ since \in [Pools -> 0..2]
    /\ running \in BOOLEAN
    /\ held \in [Callers -> [Pools -> Decided]]
    /\ last \in [action : Actions, moved : {"none", "up", "down"}]

Init ==
    /\ size = MinNodes
    /\ metrics = [p \in Pools |-> <<>>]
    /\ since = [p \in Pools |-> 2]
    /\ running = FALSE
    /\ held = [c \in Callers |-> [p \in Pools |-> Nothing]]
    /\ last = [action |-> "maintain", moved |-> "none"]

-----------------------------------------------------------------------------
(* The decision.                                                           *)

Least(a, b) == IF a < b THEN a ELSE b
Greatest(a, b) == IF a < b THEN b ELSE a

\* The parts of _calculate_load_score(): each metric as a share of what counts as full, a
\* queue of ten jobs for each node the pool may have, a wait of a minute, one error in ten.
Weight == [utilization |-> 6, queue |-> 4, wait |-> 3, errors |-> 2]
Share(p, kind) ==
    LET value == metrics[p][kind] IN
    CASE kind = "utilization" -> value
      [] kind = "queue" -> Least((100 * value) \div (10 * MaxNodes[p]), 100)
      [] kind = "wait" -> Least((100 * value) \div 60, 100)
      [] kind = "errors" -> Least(10 * value, 100)

\* The score of p is at least, or at most, a percentage.  A pool without metrics scores 0.
Given(p) == DOMAIN metrics[p] \cap Kinds
Excess(p, percent) == FoldSet(LAMBDA k, sum : sum + Weight[k] * (Share(p, k) - percent), 0, Given(p))
AtLeast(p, percent) == Given(p) # {} /\ Excess(p, percent) >= 0
AtMost(p, percent) == IF Given(p) = {} THEN percent >= 0 ELSE Excess(p, percent) <= 0

\* As Decision below, never going down to the minimum.
DecisionKeepsOne(p) ==
    LET maintain == [action |-> "maintain", target |-> size[p]]
    IN  IF AtLeast(p, 95)
        THEN [action |-> "emergency", target |-> Least(size[p] + 3, MaxNodes[p])]
        ELSE IF AtLeast(p, Target[p] + 10)
        THEN IF since[p] < 1 THEN maintain
             ELSE [action |-> "up", target |-> Least(size[p] + 1, MaxNodes[p])]
        ELSE IF AtMost(p, Target[p] - 20)
        THEN IF since[p] < 2 THEN maintain
             ELSE [action |-> "down", target |-> Greatest(size[p] - 1, MinNodes[p] + 1)]
        ELSE maintain

\* get_scaling_decision()
Decision(p) ==
    LET maintain == [action |-> "maintain", target |-> size[p]]
    IN  IF AtLeast(p, 95)
        THEN [action |-> "emergency", target |-> Least(size[p] + 3, MaxNodes[p])]
        ELSE IF AtLeast(p, Target[p] + 10)
        THEN IF since[p] < 1 THEN maintain
             ELSE [action |-> "up", target |-> Least(size[p] + 1, MaxNodes[p])]
        ELSE IF AtMost(p, Target[p] - 20)
        THEN IF since[p] < 2 THEN maintain
             ELSE [action |-> "down", target |-> Greatest(size[p] - 1, MinNodes[p])]
        ELSE maintain

\* apply_scaling_decision(): the target of the decision, within the bounds of the pool,
\* whatever has happened since it was made.
Applied(p, d) == Greatest(MinNodes[p], Least(d.target, MaxNodes[p]))

Apply(p, d) ==
    LET target == Applied(p, d) IN
    /\ d.action # "maintain" /\ target # size[p]
    /\ size' = [size EXCEPT ![p] = target]
    /\ since' = [since EXCEPT ![p] = 0]
    /\ last' = [action |-> d.action, moved |-> IF target > size[p] THEN "up" ELSE "down"]

-----------------------------------------------------------------------------
(* The loop, and the calls from outside.                                   *)

StartOrStop == running' = ~running /\ UNCHANGED <<size, metrics, since, held, last>>

UpdateMetrics(p, reading) ==
    /\ reading # metrics[p]
    /\ metrics' = [metrics EXCEPT ![p] = reading]
    /\ UNCHANGED <<size, since, running, held, last>>

\* _scaling_loop(), for one pool.
Round(p) == running /\ Apply(p, Decision(p)) /\ UNCHANGED <<metrics, running, held>>

Fetch(c, p) ==
    /\ Decision(p) # held[c][p]
    /\ held' = [held EXCEPT ![c][p] = Decision(p)]
    /\ UNCHANGED <<size, metrics, since, running, last>>

ApplyHeld(c, p) ==
    /\ Apply(p, held[c][p])
    /\ held' = [held EXCEPT ![c][p] = Nothing]
    /\ UNCHANGED <<metrics, running>>

Later(p) == since[p] < 2 /\ since' = [since EXCEPT ![p] = @ + 1]
            /\ UNCHANGED <<size, metrics, running, held, last>>

Next ==
    \/ StartOrStop
    \/ \E p \in Pools : Round(p) \/ Later(p)
    \/ \E p \in Pools, reading \in Readings : UpdateMetrics(p, reading)
    \/ \E p \in Pools, c \in Callers : Fetch(c, p) \/ ApplyHeld(c, p)

\* The loop sleeps thirty seconds between its rounds, and time passes.
Fairness == \A p \in Pools : WF_vars(Round(p)) /\ WF_vars(Later(p))

Spec == Init /\ [][Next]_vars

-----------------------------------------------------------------------------
(* Properties.                                                             *)

\* A decision to grow makes a pool grow.  One applied late sets the target of its own time,
\* which may be below the present size.
GrowingGrows == last.action \in {"up", "emergency"} => last.moved = "up"

\* Once the loop runs and the load of a pool stays low, it goes down to its minimum and stays there.
QuietShrinks ==
    \A p \in Pools :
        <>[](running /\ AtMost(p, Target[p] - 20) /\ \A c \in Callers : held[c][p] = Nothing)
            => <>[](size[p] = MinNodes[p])
=============================================================================
