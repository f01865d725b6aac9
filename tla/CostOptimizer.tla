--------------------------- MODULE CostOptimizer ---------------------------
(***************************************************************************)
(* The cost optimizer (engine/cost_optimizer.py): it puts a job on the     *)
(* cheapest instance, within a budget per hour, and takes the instance     *)
(* away when its last job is complete.                                     *)
(*                                                                         *)
(* All jobs want the same type of GPU.  The name of an instance has the    *)
(* second in which it was asked for in it, so that jobs of one second      *)
(* share one.  The lock makes a step of every operation.                   *)
(***************************************************************************)
EXTENDS Integers, FiniteSets, FiniteSetsExt, Functions, TLC

CONSTANTS
    Offers,         \* the records [region, onDemand, spot, preemptible] of prices that may be added
    Jobs,
    Preemptible,    \* the jobs that may be put on an instance that can be taken away
    Budget,         \* budget_usd_per_hour
    MaxTime,        \* bound: seconds
    MaxSubmissions  \* bound: how often a job is submitted

VARIABLES
    now,
    pricing,        \* the offers that were added
    scheduled,      \* _scheduled_jobs: job -> the instance it was last put on
    running,        \* _running_instances: name -> price, start, and how often it lists each job
    submissions,    \* how often each job was accepted
    charges         \* how often each job is in _cost_history

vars == <<now, pricing, scheduled, running, submissions, charges>>

Kinds == {"spot", "ondemand", "preemptible"}
Instances == Kinds \X {o.region : o \in Offers} \X (0..MaxTime)
NoInstance == <<>>

TypeOK ==
    /\ now \in 0..MaxTime
    /\ pricing \subseteq Offers
    /\ scheduled \in [Jobs -> Instances \union {NoInstance}]
    /\ DOMAIN running \subseteq Instances
    /\ \A i \in DOMAIN running : running[i].start = i[3] /\ running[i].jobs \in [Jobs -> 0..MaxSubmissions]
    /\ submissions \in [Jobs -> 0..MaxSubmissions]
    /\ charges \in [Jobs -> Nat]

Init ==
    /\ now = 0 /\ pricing = {}
    /\ scheduled = [j \in Jobs |-> NoInstance]
    /\ running = <<>>
    /\ submissions = [j \in Jobs |-> 0] /\ charges = [j \in Jobs |-> 0]

AddPricing(o) ==
    /\ o \notin pricing /\ pricing' = pricing \union {o}
    /\ UNCHANGED <<now, scheduled, running, submissions, charges>>

-----------------------------------------------------------------------------
(* Choosing an instance.  A choice is a name and a price.                  *)

Cheapest(choices) == {c \in choices : \A d \in choices : c.price <= d.price}

BestInstances(j) ==
    Cheapest({IF j \in Preemptible
              THEN [name |-> <<"spot", o.region, now>>, price |-> o.spot]
              ELSE [name |-> <<"ondemand", o.region, now>>, price |-> o.onDemand] : o \in pricing})

\* Cheaper than max, the preemptible ones first; of a job that is not preemptible, too, a spot instance.
CheaperInstances(j, max) ==
    LET preemptible == {o \in pricing : j \in Preemptible /\ o.preemptible < max}
        spot == {o \in pricing \ preemptible : o.spot < max}
    IN  Cheapest({[name |-> <<"preemptible", o.region, now>>, price |-> o.preemptible] : o \in preemptible}
                 \union {[name |-> <<"spot", o.region, now>>, price |-> o.spot] : o \in spot})

HourlyCost(instances) == MapThenSumSet(LAMBDA i : instances[i].price, DOMAIN instances)

ChoicesFor(j) ==
    UNION {IF HourlyCost(running) + best.price > Budget THEN CheaperInstances(j, best.price) ELSE {best}
           : best \in BestInstances(j)}

-----------------------------------------------------------------------------
(* Jobs.                                                                   *)

\* As ScheduleJob below, on an instance of its own price even if one of the name is there.
ScheduleJobAnew(j) ==
    /\ submissions[j] < MaxSubmissions
    /\ \E c \in ChoicesFor(j) :
        /\ scheduled' = [scheduled EXCEPT ![j] = c.name]
        /\ running' = (c.name :> [price |-> c.price, start |-> now, jobs |-> [k \in Jobs |-> IF k = j THEN 1 ELSE 0]]) @@ running
    /\ submissions' = [submissions EXCEPT ![j] = @ + 1]
    /\ UNCHANGED <<now, pricing, charges>>

\* schedule_job(); without a choice the job is refused.
ScheduleJob(j) ==
    /\ submissions[j] < MaxSubmissions
    /\ \E c \in ChoicesFor(j) :
        /\ scheduled' = [scheduled EXCEPT ![j] = c.name]
        /\ LET there == IF c.name \in DOMAIN running THEN running[c.name]
                        ELSE [price |-> c.price, start |-> now, jobs |-> [k \in Jobs |-> 0]]
           IN  running' = [i \in DOMAIN running \union {c.name} |->
                    IF i = c.name THEN [there EXCEPT !.jobs[j] = @ + 1] ELSE running[i]]
    /\ submissions' = [submissions EXCEPT ![j] = @ + 1]
    /\ UNCHANGED <<now, pricing, charges>>

Without(j, i) == [running EXCEPT ![i].jobs[j] = @ - 1]
Used(i, instances) == \E k \in Jobs : instances[i].jobs[k] > 0

\* As CompleteJob below, for a job that the instance does not list, too.
CompleteJobTwice(j) ==
    /\ scheduled[j] \in DOMAIN running
    /\ LET i == scheduled[j]
           left == IF running[i].jobs[j] > 0 THEN Without(j, i) ELSE running
       IN  running' = IF Used(i, left) THEN left ELSE Restrict(left, DOMAIN left \ {i})
    /\ charges' = [charges EXCEPT ![j] = @ + 1]
    /\ UNCHANGED <<now, pricing, scheduled, submissions>>

\* complete_job(), which leaves the job in _scheduled_jobs.  Of a job whose instance is gone
\* nothing is recorded, and one that its instance does not list raises.
CompleteJob(j) ==
    /\ scheduled[j] \in DOMAIN running
    /\ running[scheduled[j]].jobs[j] > 0
    /\ LET i == scheduled[j]
           left == Without(j, i)
       IN  running' = IF Used(i, left) THEN left ELSE Restrict(left, DOMAIN left \ {i})
    /\ charges' = [charges EXCEPT ![j] = @ + 1]
    /\ UNCHANGED <<now, pricing, scheduled, submissions>>

\* _optimize_resources(): an idle instance is terminated, ten minutes after its start.
Optimize ==
    /\ \E old \in SUBSET DOMAIN running :
        running' = Restrict(running, {i \in DOMAIN running : Used(i, running) \/ i \notin old})
    /\ UNCHANGED <<now, pricing, scheduled, submissions, charges>>

Tick ==
    /\ now < MaxTime /\ now' = now + 1
    /\ UNCHANGED <<pricing, scheduled, running, submissions, charges>>

Next ==
    \/ \E o \in Offers : AddPricing(o)
    \/ \E j \in Jobs : ScheduleJob(j) \/ CompleteJob(j)
    \/ Optimize
    \/ Tick

Spec == Init /\ [][Next]_vars

-----------------------------------------------------------------------------
(* Properties.                                                             *)

\* The places of a job in the lists of the instances that run.
Listings(j) == UNION {{i} \X (1..running[i].jobs[j]) : i \in DOMAIN running}

\* A job is charged at most as often as it was accepted, however often it is reported
\* complete, and what was accepted and not charged is still paid for: an instance lists it.
ChargedOnce == \A j \in Jobs : charges[j] + Cardinality(Listings(j)) = submissions[j]

\* There is no idle instance to terminate: none outlives its last job.
NoneIdle == \A i \in DOMAIN running : Used(i, running)

\* A spot instance is for the jobs that may be interrupted ("Use spot if job allows
\* preemptible", cost_optimizer.py:327).
OnDemandIsKept == \A j \in Jobs \ Preemptible : scheduled[j] # NoInstance => scheduled[j][1] = "ondemand"

\* What runs costs no more than the budget (cost_optimizer.py:142).
BudgetKept == HourlyCost(running) <= Budget

\* A job that was completed as often as it was accepted is on no instance.
NothingLeftRunning == \A j \in Jobs : \A i \in DOMAIN running : running[i].jobs[j] > 0 => scheduled[j] = i
=============================================================================
