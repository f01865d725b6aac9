--------------------------- MODULE ClusterManager ---------------------------
(***************************************************************************)
(* A cluster of GPU nodes around one Redis (engine/cluster_manager.py):    *)
(* ClusterCoordinator on every host, its scheduler on some, and one        *)
(* ClusterWorker with the coordinator it polls and the ComfyUI behind it.  *)
(*                                                                         *)
(* A record of "cluster:nodes" is fresh or stale.  Its capabilities come   *)
(* back from Redis as a plain dict, of which _filter_nodes() asks an       *)
(* attribute: scheduling a job raises whenever a node is available, and    *)
(* nothing behind that line ever runs.  No job is ever assigned, so that   *)
(* _reassign_jobs() finds nothing and a job is as good as its id.          *)
(***************************************************************************)
EXTENDS Integers, Sequences, FiniteSets, SequencesExt

CONSTANTS
    Hosts,          \* machines that run a ClusterCoordinator
    Schedulers,     \* those with is_coordinator
    Jobs,           \* jobs submitted to the cluster
    Tasks,          \* jobs the worker is given
    MaxLost         \* bound: reports lost

VARIABLES
    host,           \* what became of each host: "new", "up", "down" or "left"
    nodes,          \* Redis: cluster:nodes
    activeSet,      \* Redis: cluster:active
    queue,          \* Redis: cluster:job_queue
    models,         \* Redis: cluster:models, the hosts that have the model
    local,          \* _jobs of each host, all pending
    timedOut,       \* nodes a monitor has found stale and not marked yet
    popped,         \* history: jobs each scheduler took from the queue
    work,           \* the worker: jobs polled and not executed
    executing,      \* the job it has in hand, "none" without one
    executions,     \* history: prompts ComfyUI accepted for a task
    report,         \* what the worker has to report: "none", "completed" or "failed"
    result,         \* what the coordinator was told of a task
    lost            \* history: reports lost of a task

redis == <<nodes, activeSet, queue, models>>
cluster == <<host, redis, local, timedOut, popped>>
worker == <<work, executing, executions, report, result, lost>>
vars == <<cluster, worker>>

NoRecord == [fresh |-> FALSE, status |-> "none"]
Registered == [fresh |-> TRUE, status |-> "healthy"]
NoTask == "none"

TypeOK ==
    /\ host \in [Hosts -> {"new", "up", "down", "left"}]
    /\ nodes \in [Hosts -> [fresh : BOOLEAN, status : {"none", "healthy", "offline"}]]
    /\ activeSet \subseteq Hosts /\ models \subseteq Hosts
    /\ queue \in SeqOf(Jobs, Cardinality(Jobs))
    /\ local \in [Hosts -> SUBSET Jobs]
    /\ timedOut \in [Hosts -> SUBSET Hosts]
    /\ popped \in [Hosts -> SUBSET Jobs]
    /\ work \in SeqOf(Tasks, Cardinality(Tasks))
    /\ executing \in Tasks \union {NoTask}
    /\ executions \in [Tasks -> Nat]
    /\ report \in {"none", "completed", "failed"}
    /\ result \in [Tasks -> {"none", "completed", "failed"}]
    /\ lost \in [Tasks -> 0..MaxLost]

Init ==
    /\ host = [h \in Hosts |-> "new"]
    /\ nodes = [h \in Hosts |-> NoRecord] /\ activeSet = {} /\ queue = <<>> /\ models = {}
    /\ local = [h \in Hosts |-> {}] /\ timedOut = [h \in Hosts |-> {}]
    /\ popped = [h \in Hosts |-> {}]
    /\ work = <<>> /\ executing = NoTask /\ executions = [t \in Tasks |-> 0]
    /\ report = "none" /\ result = [t \in Tasks |-> "none"] /\ lost = [t \in Tasks |-> 0]

-----------------------------------------------------------------------------
(* The life of a host.                                                     *)

\* initialize() with _register_node().
Initialize(h) ==
    /\ host[h] = "new"
    /\ host' = [host EXCEPT ![h] = "up"]
    /\ nodes' = [nodes EXCEPT ![h] = Registered]
    /\ activeSet' = activeSet \union {h}
    /\ UNCHANGED <<queue, models, local, timedOut, popped, worker>>

\* The record is written anew; the active set is not touched.
SendHeartbeat(h) ==
    /\ host[h] = "up"
    /\ nodes' = [nodes EXCEPT ![h] = Registered]
    /\ UNCHANGED <<host, activeSet, queue, models, local, timedOut, popped, worker>>

\* node_timeout passes without a heartbeat: the host is down, busy or cut off.
MissHeartbeats(h) ==
    /\ nodes[h].fresh
    /\ nodes' = [nodes EXCEPT ![h].fresh = FALSE]
    /\ UNCHANGED <<host, activeSet, queue, models, local, timedOut, popped, worker>>

\* The whole hash expires when no host has sent a heartbeat for twice that time.
Expire ==
    /\ \A h \in Hosts : ~nodes[h].fresh
    /\ nodes' = [h \in Hosts |-> NoRecord]
    /\ UNCHANGED <<host, activeSet, queue, models, local, timedOut, popped, worker>>

Die(h) ==
    /\ host[h] = "up"
    /\ host' = [host EXCEPT ![h] = "down"]
    /\ local' = [local EXCEPT ![h] = {}]
    /\ timedOut' = [timedOut EXCEPT ![h] = {}]
    /\ UNCHANGED <<redis, popped, worker>>

Shutdown(h) ==
    /\ host[h] = "up"
    /\ host' = [host EXCEPT ![h] = "left"]
    /\ nodes' = [nodes EXCEPT ![h] = NoRecord]
    /\ activeSet' = activeSet \ {h}
    /\ local' = [local EXCEPT ![h] = {}]
    /\ timedOut' = [timedOut EXCEPT ![h] = {}]
    /\ UNCHANGED <<queue, models, popped, worker>>

\* _monitor_nodes(): hgetall, then command after command for what was stale in it.
ReadNodes(h) ==
    /\ host[h] = "up" /\ timedOut[h] = {}
    /\ timedOut' = [timedOut EXCEPT ![h] = {n \in Hosts : nodes[n].status # "none" /\ ~nodes[n].fresh}]
    /\ UNCHANGED <<host, redis, local, popped, worker>>

\* A bug MarkOffline could have: it sets the status in the record as it is by now.
MarkOfflineInPlace(h, n) ==
    /\ n \in timedOut[h]
    /\ nodes' = [nodes EXCEPT ![n].status = "offline"]
    /\ activeSet' = activeSet \ {n}
    /\ timedOut' = [timedOut EXCEPT ![h] = @ \ {n}]
    /\ UNCHANGED <<host, queue, models, local, popped, worker>>

\* The record of before is written back, over a heartbeat or a departure since.
MarkOffline(h, n) ==
    /\ n \in timedOut[h]
    /\ nodes' = [nodes EXCEPT ![n] = [fresh |-> FALSE, status |-> "offline"]]
    /\ activeSet' = activeSet \ {n}
    /\ timedOut' = [timedOut EXCEPT ![h] = @ \ {n}]
    /\ UNCHANGED <<host, queue, models, local, popped, worker>>

RegisterModel(h) ==
    /\ host[h] = "up"
    /\ models' = models \union {h}
    /\ UNCHANGED <<host, nodes, activeSet, queue, local, timedOut, popped, worker>>

-----------------------------------------------------------------------------
(* Jobs.                                                                   *)

SubmitJob(h, j) ==
    /\ host[h] = "up" /\ \A k \in Hosts : j \notin local[k]
    /\ j \notin ToSet(queue) \union UNION {popped[k] : k \in Hosts}
    /\ local' = [local EXCEPT ![h] = @ \union {j}]
    /\ queue' = Append(queue, j)
    /\ UNCHANGED <<host, nodes, activeSet, models, timedOut, popped, worker>>

\* The jobs _schedule_job() puts into _jobs.  It does so behind the choice of a node:
\* with no node available it returns before, with one _filter_nodes() raises.
Scheduled == {}

\* One round of _scheduler_loop().
Schedule(h) ==
    /\ host[h] = "up" /\ h \in Schedulers /\ queue # <<>>
    /\ queue' = Tail(queue)
    /\ popped' = [popped EXCEPT ![h] = @ \union {Head(queue)}]
    /\ local' = [local EXCEPT ![h] = @ \union Scheduled]
    /\ UNCHANGED <<host, nodes, activeSet, models, timedOut, worker>>

-----------------------------------------------------------------------------
(* The worker.                                                             *)

\* The coordinator lists what it has no result of.
Poll ==
    /\ work = <<>> /\ executing = NoTask
    /\ \E ts \in SUBSET {t \in Tasks : result[t] = "none"} : work' = SetToSeq(ts)
    /\ UNCHANGED <<cluster, executing, executions, report, result, lost>>

\* A bug Execute could have: it reports a success whatever ComfyUI answers.
ExecuteBlindly ==
    /\ work # <<>> /\ executing = NoTask
    /\ executing' = Head(work) /\ work' = Tail(work)
    /\ \E n \in 0..1 : executions' = [executions EXCEPT ![Head(work)] = @ + n]
    /\ report' = "completed"
    /\ UNCHANGED <<cluster, result, lost>>

\* ComfyUI accepts the prompt, or refuses or cannot be reached, or accepts it and the
\* answer is lost.
Execute ==
    /\ work # <<>> /\ executing = NoTask
    /\ executing' = Head(work) /\ work' = Tail(work)
    /\ \/ report' = "completed" /\ executions' = [executions EXCEPT ![Head(work)] = @ + 1]
       \/ report' = "failed" /\ UNCHANGED executions
       \/ report' = "failed" /\ executions' = [executions EXCEPT ![Head(work)] = @ + 1]
    /\ UNCHANGED <<cluster, result, lost>>

\* _report_result() logs its failure.
Report(delivered) ==
    /\ executing # NoTask
    /\ executing' = NoTask /\ report' = "none"
    /\ result' = IF delivered THEN [result EXCEPT ![executing] = report] ELSE result
    /\ ~delivered => lost[executing] < MaxLost
    /\ lost' = IF delivered THEN lost ELSE [lost EXCEPT ![executing] = @ + 1]
    /\ UNCHANGED <<cluster, work, executions>>

HostNext ==
    \/ \E h \in Hosts :
        \/ Initialize(h) \/ SendHeartbeat(h) \/ MissHeartbeats(h) \/ Die(h) \/ Shutdown(h)
        \/ ReadNodes(h) \/ \E n \in Hosts : MarkOffline(h, n)
        \/ RegisterModel(h) \/ Schedule(h) \/ \E j \in Jobs : SubmitJob(h, j)
    \/ Expire

WorkerNext == Poll \/ Execute \/ \E delivered \in BOOLEAN : Report(delivered)

Next == HostNext \/ WorkerNext

Spec == Init /\ [][Next]_vars

-----------------------------------------------------------------------------
(* Properties.                                                             *)

\* A monitor marks nodes from what it read before; still a node that says it is alive
\* is never shown as offline, at worst its last heartbeat is forgotten.
FreshIsHealthy == \A n \in Hosts : nodes[n].fresh => nodes[n].status = "healthy"

\* A task is executed again only as often as its reports were lost, and the
\* coordinator is never told of a success that ComfyUI did not accept.
RerunOnlyIfLost ==
    \A t \in Tasks :
        /\ executions[t] <= 1 + lost[t]
        /\ result[t] = "completed" => executions[t] > 0

\* "Job distribution with failover" (module docstring): a scheduler that is up has every
\* job it took from the queue.
PoppedIsKept == \A h \in Hosts : host[h] = "up" => popped[h] \subseteq local[h]

\* "Add to active set": the hosts that are alive in cluster:nodes are in it.
ActiveSetAgrees == \A n \in Hosts : nodes[n].fresh => n \in activeSet

\* A host that has left does not come back as a node.
LeftStaysGone == \A n \in Hosts : host[n] = "left" => nodes[n].status = "none"
=============================================================================
