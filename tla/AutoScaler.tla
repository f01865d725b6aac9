----------------------------- MODULE AutoScaler -----------------------------
(***************************************************************************)
(* The scaling controller of a cluster (engine/auto_scaler.py).            *)
(*                                                                         *)
(* Its monitor reads the state of the cluster, decides, and launches or    *)
(* terminates machines of a cloud provider.  The provider and the cluster  *)
(* are outside: a launch or a termination succeeds or fails, or answers    *)
(* what is not so, a machine boots, after any time, and only then counts   *)
(* as a node, and a spot machine is taken back at any time.  Times are     *)
(* what the comparisons with the policy tell apart: whether a cooldown has *)
(* passed, and which machines are older than the idle time - nothing ever  *)
(* sets last_job_at, so a machine is idle by its age.                      *)
(***************************************************************************)
EXTENDS Integers, Sequences, FiniteSets, FiniteSetsExt

CONSTANTS
    Machines,       \* a set of naturals, in the order of their launches
    MinNodes, MaxNodes, QueueDepth,     \* ScalingPolicy
    Depths, Waits,  \* queue depths, and whether jobs wait too long
    Launched        \* statuses a provider gives to a new instance

Actions == {"maintain", "up", "emergency", "down"}
Nil == 0

VARIABLES
    instances,      \* status of each machine in _instances, or "none"
    cloud,          \* the machines that exist
    nodes,          \* those that are active nodes of the cluster
    old,            \* those launched longer ago than the idle time
    hot,            \* the directions whose cooldown has not passed
    at,             \* where the monitor is
    left,           \* launches left in this round
    flight,         \* machines launched by an emergency and not yet recorded
    asked,          \* the machine a termination was asked for
    unseen          \* history: what a call has begun and then told nothing of, a machine or an
                    \* open request for one, and what it has said to go and that does not

vars == <<instances, cloud, nodes, old, hot, at, left, flight, asked, unseen>>
world == <<cloud, nodes>>

TypeOK ==
    /\ instances \in [Machines -> {"none", "pending", "running", "terminating"}]
    /\ cloud \subseteq Machines /\ nodes \subseteq cloud
    /\ old \subseteq Machines /\ hot \subseteq {"up", "down"}
    /\ at \in {"off", "asleep", "up", "emergency", "down", "cleanup", "over"}
    /\ left \in 0..3 /\ flight \subseteq Machines /\ asked \in Machines \union {Nil}
    /\ unseen \subseteq Machines

Init ==
    /\ instances = [m \in Machines |-> "none"]
    /\ cloud = {} /\ nodes = {} /\ old = {} /\ hot = {}
    /\ at = "off" /\ left = 0 /\ flight = {} /\ asked = Nil /\ unseen = {}

With(status) == {m \in Machines : instances[m] \in status}
Recorded == {m \in Machines : instances[m] # "none"} \union flight
New == Machines \ (Recorded \union unseen)

-----------------------------------------------------------------------------
(* A round of the monitor.                                                 *)

\* start()
Start == at = "off" /\ at' = "asleep"
         /\ UNCHANGED <<instances, world, old, hot, left, flight, asked, unseen>>

\* _count_idle_nodes()
Idle == With({"running"}) \cap old

\* _make_decision(): the action, and how many machines it adds.
Decision(depth, late, current) ==
    LET mayGrow == "up" \notin hot /\ current < MaxNodes
        least(a, b) == IF a < b THEN a ELSE b
    IN  IF depth > 3 * QueueDepth /\ mayGrow
        THEN [action |-> "emergency", add |-> least(3, MaxNodes - current)]
        ELSE IF (depth >= QueueDepth \/ late) /\ mayGrow THEN [action |-> "up", add |-> 1]
        ELSE IF depth = 0 /\ current > MinNodes /\ "down" \notin hot /\ Idle # {}
        THEN [action |-> "down", add |-> 0]
        ELSE [action |-> "maintain", add |-> 0]

\* As Victim below, taking the newest.
VictimNewest == Max(With({"running"}))

\* The machine _scale_down() terminates: of those that run, the one launched first.  It
\* takes no other look at which ones are idle.
Victim == Min(With({"running"}))

\* _evaluate_scaling() up to its first call of the provider.
Evaluate(depth, late) ==
    LET d == Decision(depth, late, Cardinality(nodes)) IN
    /\ at = "asleep" /\ d.action # "maintain"
    /\ at' = d.action
    /\ left' = d.add
    /\ asked' = IF d.action = "down" THEN Victim ELSE Nil
    /\ UNCHANGED <<instances, world, old, hot, flight, unseen>>

\* The round is over and its cooldown begins.
Cool(direction) == at' = "asleep" /\ hot' = hot \union {direction} /\ left' = 0

\* An iteration of _scale_up(): the provider launches an instance, or does not.
Launch(m, status) ==
    /\ at = "up" /\ m \in New /\ \A n \in New : m <= n
    /\ cloud' = cloud \union {m}
    /\ instances' = [instances EXCEPT ![m] = status]
    /\ Cool("up")
    /\ UNCHANGED <<nodes, old, flight, asked, unseen>>

LaunchFails == at = "up" /\ Cool("up") /\ UNCHANGED <<instances, world, old, flight, asked, unseen>>

\* The provider has begun when the call fails: the answer to a spot request has no InstanceId
\* until it is fulfilled, which raises and leaves the request open, or the answer is lost.
LaunchUnseen(m) ==
    /\ at = "up" /\ m \in New /\ \A n \in New : m <= n
    /\ unseen' = unseen \union {m}
    /\ Cool("up")
    /\ UNCHANGED <<instances, world, old, flight, asked>>

\* _emergency_scale_up(): the launches run at once and are recorded when all have ended.
LaunchTogether(m) ==
    /\ at = "emergency" /\ left > 0 /\ m \in New /\ \A n \in New : m <= n
    /\ cloud' = cloud \union {m} /\ flight' = flight \union {m}
    /\ left' = left - 1
    /\ UNCHANGED <<instances, nodes, old, hot, at, asked, unseen>>

LaunchTogetherFails ==
    /\ at = "emergency" /\ left > 0 /\ left' = left - 1
    /\ UNCHANGED <<instances, world, old, hot, at, flight, asked, unseen>>

LaunchTogetherUnseen(m) ==
    /\ at = "emergency" /\ left > 0 /\ m \in New /\ \A n \in New : m <= n
    /\ unseen' = unseen \union {m}
    /\ left' = left - 1
    /\ UNCHANGED <<instances, world, old, hot, at, flight, asked>>

RecordTogether(status) ==
    /\ at = "emergency" /\ left = 0
    /\ instances' = [m \in Machines |-> IF m \in flight THEN status ELSE instances[m]]
    /\ flight' = {} /\ Cool("up")
    /\ UNCHANGED <<world, old, asked, unseen>>

\* The end of terminate_instance() in _scale_down(); a deletion that was begun may still fail.
Terminate(ok) ==
    /\ at = "down"
    /\ instances' = IF ok THEN [instances EXCEPT ![asked] = "terminating"] ELSE instances
    /\ \/ UNCHANGED cloud /\ unseen' = IF ok THEN unseen \union ({asked} \cap cloud) ELSE unseen
       \/ ok /\ cloud' = cloud \ {asked} /\ UNCHANGED unseen
    /\ nodes' = nodes \cap cloud'
    /\ asked' = Nil /\ Cool("down")
    /\ UNCHANGED <<old, flight>>

-----------------------------------------------------------------------------
(* shutdown(): cancels the monitor wherever it is, then terminates what    *)
(* _instances says runs or is pending.                                     *)

Shutdown ==
    /\ at \notin {"off", "cleanup", "over"}
    /\ at' = "cleanup" /\ left' = 0 /\ flight' = {} /\ asked' = Nil
    /\ UNCHANGED <<instances, world, old, hot, unseen>>

\* Its loop, of which each call may fail without a consequence.
Cleanup(failed) ==
    /\ at = "cleanup"
    /\ failed \subseteq With({"running", "pending"})
    /\ cloud' = cloud \ (With({"running", "pending"}) \ failed)
    /\ nodes' = nodes \cap cloud'
    /\ at' = "over"
    /\ UNCHANGED <<instances, old, hot, left, flight, asked, unseen>>

-----------------------------------------------------------------------------
(* The world.                                                              *)

Boots(m) == m \in cloud \ nodes /\ nodes' = nodes \union {m}
            /\ UNCHANGED <<instances, cloud, old, hot, at, left, flight, asked, unseen>>

\* A request that was left open.
Fulfils(m) == m \in unseen \ cloud /\ instances[m] = "none" /\ cloud' = cloud \union {m}
              /\ UNCHANGED <<instances, nodes, old, hot, at, left, flight, asked, unseen>>

\* Taken back by the provider, or gone although its termination seemed to fail.
Vanishes(m) == m \in cloud /\ instances[m] # "none"
               /\ cloud' = cloud \ {m} /\ nodes' = nodes \ {m}
               /\ UNCHANGED <<instances, old, hot, at, left, flight, asked, unseen>>

\* By launched_at, which its record has from the launch on.
Ages(m) == m \in Recorded \ old /\ (\A n \in Recorded : n < m => n \in old)
           /\ old' = old \union {m}
           /\ UNCHANGED <<instances, world, hot, at, left, flight, asked, unseen>>

CoolsDown(d) == d \in hot /\ hot' = hot \ {d}
                /\ UNCHANGED <<instances, world, old, at, left, flight, asked, unseen>>

Over == at = "over" /\ UNCHANGED vars

Next ==
    \/ Start \/ Shutdown \/ LaunchFails \/ LaunchTogetherFails
    \/ \E depth \in Depths, late \in Waits : Evaluate(depth, late)
    \/ \E m \in Machines : LaunchUnseen(m) \/ LaunchTogether(m) \/ LaunchTogetherUnseen(m)
    \/ \E m \in Machines : Boots(m) \/ Fulfils(m) \/ Vanishes(m) \/ Ages(m)
    \/ \E m \in Machines, status \in Launched : Launch(m, status)
    \/ \E status \in Launched : RecordTogether(status)
    \/ \E ok \in BOOLEAN : Terminate(ok)
    \/ \E failed \in SUBSET Machines : Cleanup(failed)
    \/ \E d \in {"up", "down"} : CoolsDown(d)
    \/ Over

Spec == Init /\ [][Next]_vars

-----------------------------------------------------------------------------
(* Properties.                                                             *)

\* What is terminated to shrink the cluster has been up for the idle time: the decision
\* counts idle machines and the termination sorts all of them, and the two agree.
DownOnlyIdle == asked # Nil => asked \in old /\ instances[asked] = "running"

\* While the monitor works, it knows of every machine it pays for, but for those the provider
\* has told nothing, or nothing true, about.
MachinesKnown ==
    at \notin {"cleanup", "over"} =>
        cloud \subseteq With({"pending", "running"}) \union flight \union unseen

\* It knows of every machine ("Launch a new GPU instance", auto_scaler.py:99): a launch that
\* answers None has launched nothing, and a termination that answers True ends the machine.
NoneUnseen == at \notin {"cleanup", "over"} => cloud \cap unseen = {}

\* The cluster has at most max_nodes machines (auto_scaler.py:43).  Machines that boot for
\* longer than the cooldown are not counted, which breaks this.
MaxNodesKept == Cardinality(cloud) <= MaxNodes

\* A shutdown whose calls all succeed leaves no machine ("Terminate all managed instances",
\* auto_scaler.py:729).  Machines an emergency had launched and not recorded stay.
NothingLeft == at = "over" => cloud \subseteq With({"running", "pending"})
=============================================================================
