----------------------------- MODULE MCPlatform -----------------------------
(***************************************************************************)
(* What surrounds the engine, side by side: the cluster and its regions,   *)
(* the machines, the nodes and plugins that are installed, backups and     *)
(* security. They share nothing: in a behaviour one of them runs, the one  *)
(* in focus, and the others stay as they start.                            *)
(***************************************************************************)
EXTENDS Integers, Sequences, FiniteSets

CONSTANTS
    Hosts, Schedulers, Jobs, Tasks, MaxLost,                \* of Cluster
    Regions, Priority, Score, Rules, MaxWrites,             \* of Region
    MaxVersion, MaxRequests, MaxWindow,                     \* of Redis, on the same hosts
    Machines, MinNodes, MaxNodes, QueueDepth, Depths, Waits, Launched,  \* of Scaler
    Providers, Catalog, MachineNames, MachineIds, Callers, Wanted,  \* of Cloud
    Offers, PaidJobs, Preemptible, Budget, MaxTime, MaxSubmissions,     \* of Cost
    Processes, Nodes, Known, Demanding, Versions, MaxUpdates,           \* of Node
    Plugins, Requirements, Hooks, Reloaders, MaxEdits, MaxLeft,         \* of Plugin
    Places, ArcName, Contents, MaxBackups,                  \* of Backup
    Users, LockAfter, MaxTokens, MaxEntries                 \* of Security

ASSUME ClusterParameters ==
    /\ IsFiniteSet(Jobs) /\ IsFiniteSet(Tasks)
    /\ "none" \notin Tasks /\ MaxLost \in Nat
ASSUME RedisParameters ==
    /\ IsFiniteSet(Hosts)
    /\ {MaxVersion, MaxWindow} \subseteq Nat \ {0} /\ MaxRequests \in Nat
ASSUME ScalerParameters ==
    /\ Machines \subseteq Nat \ {0} /\ Launched \subseteq {"pending", "running"}
    /\ MaxNodes \in Nat
ASSUME CostParameters == {MaxTime, MaxSubmissions} \subseteq Nat
ASSUME CloudParameters ==
    /\ Providers \in Seq({"aws", "gcp", "azure"})
    /\ "none" \notin MachineNames \union MachineIds
ASSUME NodeParameters ==
    Versions \subseteq [prefix : BOOLEAN, parts : Seq(Nat \union {-1})] /\ MaxUpdates \in Nat
ASSUME PluginParameters ==
    /\ IsFiniteSet(Plugins) /\ Plugins \subseteq Nat /\ MaxEdits \in Nat
    /\ Reloaders \intersect {"discovery", "watcher", "shutdown", "free"} = {}
ASSUME BackupParameters ==
    /\ MaxBackups \in Nat /\ Contents \subseteq Places
    /\ \A p \in Contents : ArcName[p] \in Places
ASSUME SecurityParameters ==
    LockAfter \in Nat \ {0} /\ MaxTokens \in Nat /\ MaxEntries \in Nat

VARIABLES
    focus,
    \* of Cluster:
    host, nodes, activeSet, queue, models, local, timedOut, popped, work, executing,
    executions, report, result, lost,
    \* of Region:
    status, failures, full, active, checking, missed, routed, pending, success, writes,
    \* of Redis:
    source, cached, invalidated, flying, getter, clock, counter, asked, asking, granted,
    counted, clearing,
    \* of Scaler:
    instances, cloud, scalerNodes, old, hot, at, left, flight, scalerAsked,
    unseen,
    \* of Cloud:
    machines, price, managed, waiting, abandoned,
    \* of Cost:
    now, pricing, scheduled, running, submissions, charges,
    \* of Node:
    tree, revision, packages, nodeAt, target, method, answer, comfyui, said,
    \* of Plugin:
    requires, disk, touched, edits, plugins, handlers, alive, pluginLeft, sound, todo, lock,
    phase,
    \* of Backup:
    live, archive, metadata, expired, keeps, second, loop, restored,
    \* of Security:
    users, usersFile, unsaved, securityFailures, locked, tokens, revokedTokens, buffer,
    written, securityLost, logged, flusher, closing

Cluster == INSTANCE ClusterManager
Region == INSTANCE MultiRegion
Redis == INSTANCE RedisCache
Scaler == INSTANCE AutoScaler WITH nodes <- scalerNodes, asked <- scalerAsked
Cloud == INSTANCE CloudProviders WITH Names <- MachineNames, Ids <- MachineIds
Cost == INSTANCE CostOptimizer WITH Jobs <- PaidJobs
Node == INSTANCE NodeDiscovery WITH at <- nodeAt
Plugin == INSTANCE PluginSystem WITH Callers <- Reloaders, left <- pluginLeft
Backup == INSTANCE BackupManager
Security == INSTANCE SecurityManager WITH failures <- securityFailures, lost <- securityLost

ASSUME RegionParameters ==
    /\ Regions \in Seq(Region!Names)
    /\ Priority \in [Region!Names -> Int] /\ Score \in [Region!Names -> Int]
    /\ IsFiniteSet(Rules) /\ MaxWrites \in Nat
ASSUME CatalogParameters == \A p \in Cloud!Given : \A i \in Catalog[p] : i.price \in Nat

clusterVars == <<host, nodes, activeSet, queue, models, local, timedOut, popped, work,
        executing, executions, report, result, lost>>
regionVars == <<status, failures, full, active, checking, missed, routed, pending, success,
        writes>>
redisVars == <<source, cached, invalidated, flying, getter, clock, counter, asked, asking,
        granted, counted, clearing>>
scalerVars == <<instances, cloud, scalerNodes, old, hot, at, left, flight, scalerAsked,
        unseen>>
cloudVars == <<machines, price, managed, waiting, abandoned>>
costVars == <<now, pricing, scheduled, running, submissions, charges>>
nodeVars == <<tree, revision, packages, nodeAt, target, method, answer, comfyui, said>>
pluginVars == <<requires, disk, touched, edits, plugins, handlers, alive, pluginLeft, sound,
        todo, lock, phase>>
backupVars == <<live, archive, metadata, expired, keeps, second, loop, restored>>
securityVars == <<users, usersFile, unsaved, securityFailures, locked, tokens, revokedTokens,
        buffer, written, securityLost, logged, flusher, closing>>
vars == <<focus, clusterVars, regionVars, redisVars, scalerVars, cloudVars, costVars, nodeVars,
            pluginVars, backupVars, securityVars>>

\* All the components but one stay as they are.
Only(x) ==
    /\ IF x = "hosts" \/ x = "worker" THEN TRUE ELSE UNCHANGED clusterVars
    /\ IF x = "region" THEN TRUE ELSE UNCHANGED regionVars
    /\ IF x = "redis" \/ x = "limit" THEN TRUE ELSE UNCHANGED redisVars
    /\ IF x = "scaler" THEN TRUE ELSE UNCHANGED scalerVars
    /\ IF x = "cloud" THEN TRUE ELSE UNCHANGED cloudVars
    /\ IF x = "cost" THEN TRUE ELSE UNCHANGED costVars
    /\ IF x = "node" \/ x = "version" THEN TRUE ELSE UNCHANGED nodeVars
    /\ IF x = "plugin" THEN TRUE ELSE UNCHANGED pluginVars
    /\ IF x = "backup" THEN TRUE ELSE UNCHANGED backupVars
    /\ IF x = "security" \/ x = "audit" THEN TRUE ELSE UNCHANGED securityVars
    /\ UNCHANGED focus

HostsStep == focus = "hosts" /\ Cluster!HostNext /\ Only("hosts")
WorkerStep == focus = "worker" /\ Cluster!WorkerNext /\ Only("worker")
RegionStep == focus = "region" /\ Region!Next /\ Only("region")
RedisStep == focus = "redis" /\ Redis!CacheNext /\ Only("redis")
LimitStep == focus = "limit" /\ Redis!LimitNext /\ Only("limit")
ScalerStep == focus = "scaler" /\ Scaler!Next /\ Only("scaler")
CloudStep == focus = "cloud" /\ Cloud!Next /\ Only("cloud")
CostStep == focus = "cost" /\ Cost!Next /\ Only("cost")
NodeStep == focus = "node" /\ Node!NodesNext /\ Only("node")
VersionStep == focus = "version" /\ Node!VersionsNext /\ Only("version")
PluginStep == focus = "plugin" /\ Plugin!Next /\ Only("plugin")
BackupStep == focus = "backup" /\ Backup!Next /\ Only("backup")
SecurityStep ==
    focus = "security" /\ (Security!AccountsNext \/ Security!Crash) /\ Only("security")
AuditStep == focus = "audit" /\ (Security!AuditNext \/ Security!Crash) /\ Only("audit")

Next ==
    \/ HostsStep
    \/ WorkerStep
    \/ RegionStep
    \/ RedisStep
    \/ LimitStep
    \/ ScalerStep
    \/ CloudStep
    \/ CostStep
    \/ NodeStep
    \/ VersionStep
    \/ PluginStep
    \/ BackupStep
    \/ SecurityStep
    \/ AuditStep

Init ==
    /\ focus \in {"hosts", "worker", "region", "redis", "limit", "scaler", "cloud", "cost", "node",
                 "version", "plugin", "backup", "security", "audit"}
    /\ Cluster!Init /\ Region!Init /\ Redis!Init /\ Scaler!Init /\ Cloud!Init
    /\ Cost!Init /\ Node!Init /\ Plugin!Init /\ Backup!Init /\ Security!Init
    /\ focus = "version" \/ comfyui = CHOOSE v \in Versions : TRUE
    /\ focus = "plugin" \/ requires = CHOOSE r \in Requirements : TRUE

Spec == Init /\ [][Next]_vars

-----------------------------------------------------------------------------
TypeOK ==
    /\ Cluster!TypeOK /\ Region!TypeOK /\ Redis!TypeOK /\ Scaler!TypeOK /\ Cloud!TypeOK
    /\ Cost!TypeOK /\ Node!TypeOK /\ Plugin!TypeOK /\ Backup!TypeOK /\ Security!TypeOK

\* Hosts and regions that share what they know agree: a node that has just been heard is not
\* offline, a task runs again only if its report was lost, a region is given up after three
\* strikes, no host is let in beyond the limit of a window, and what is read after an
\* invalidation is stale only if it was on its way before.
HostsAgree ==
    /\ Cluster!FreshIsHealthy /\ Cluster!RerunOnlyIfLost
    /\ Region!ThreeStrikes
    /\ Redis!LimitKept /\ Redis!StaleOnlyByFlight

\* Where machines are lost sight of is known: the scaler knows of those it pays for but the
\* ones whose provider told it nothing, or nothing true; the providers know of theirs but for
\* four ways out (LeaksAreKnown); and no instance that is paid for by the hour outlives its
\* jobs, each job that was accepted being charged or still on an instance, never both.
MachinesAccounted ==
    /\ Scaler!MachinesKnown /\ Scaler!DownOnlyIdle
    /\ Cloud!LeaksAreKnown
    /\ Cost!NoneIdle /\ Cost!ChargedOnce

\* What is installed is whole: a node that was cloned stays whole but for a pull that is
\* killed, versions are accepted in the order of their numbers, and a plugin has one
\* instance, whoever else installs, edits or reloads.
InstalledIsWhole == Node!ClonedIsComplete /\ Node!VersionsOrdered /\ Plugin!OneInstance

\* What was done is done: a token is refreshed once; a locked user stays locked, through a crash
\* and an expiry too, unless the save raised; no audit entry is lost but by a flush that raised;
\* a failover has found the best region, a first shutdown that returns has written the audit
\* trail, and a cleanup that keeps backups for a day or more leaves one.
DoneIsDone ==
    /\ [](Security!RefreshedOnce /\ Security!LockSurvives /\ Security!EntriesAccounted)
    /\ Region!FailoverByPriority
    /\ Security!AuditComplete
    /\ Backup!LastBackupStays

\* A discovery that ends has loaded every plugin that can be loaded.
DiscoveryIsComplete == Plugin!DiscoveryIsComplete

\* A job that was taken from the queue of the cluster is somewhere ("Job distribution with
\* failover", cluster_manager.py:6).
PoppedIsKept == Cluster!PoppedIsKept

-----------------------------------------------------------------------------
(* The constants that a configuration cannot write down.                   *)

MCRegions == <<"east", "west">>
MCPriority == [r \in {"east", "west"} |-> IF r = "east" THEN 2 ELSE 1]
MCScore == [r \in {"east", "west"} |-> 0]
MCRules == {<<"east", "west">>}
MCCatalog ==
    [aws |-> {[gpu |-> "t4", count |-> 1, price |-> 5], [gpu |-> "a100", count |-> 8, price |-> 33]},
     gcp |-> {[gpu |-> "t4", count |-> 1, price |-> 5], [gpu |-> "v100", count |-> 1, price |-> 4]},
     azure |-> {[gpu |-> "v100", count |-> 2, price |-> 6]}]
\* The first is met at GCP, the second and third at AWS, the last at Azure.
MCWanted ==
    {[gpu |-> "any", count |-> 1, spot |-> FALSE, limit |-> 0],
     [gpu |-> "a100", count |-> 1, spot |-> TRUE, limit |-> 0],
     [gpu |-> "a100", count |-> 1, spot |-> FALSE, limit |-> 0],
     [gpu |-> "v100", count |-> 2, spot |-> FALSE, limit |-> 99]}

MCOffers ==
    {[region |-> "east", onDemand |-> 3, spot |-> 1, preemptible |-> 1],
     [region |-> "west", onDemand |-> 2, spot |-> 2, preemptible |-> 1]}

\* A chain of requirements, a cycle, and one of something that is not there.
MCRequirements ==
    {<<{2}, {3}, {}>>, <<{2}, {1}, {}>>, <<{2}, {}, {4}>>}
MCHooks == <<{"queue.before_add"}, {}, {}>>

MCArcName == [output_models |-> "models", sessions |-> "sessions"]
MCProviders == <<"gcp", "aws", "azure">>
\* v1.0, 1.0-beta and 1.0.0.
MCVersions ==
    {[prefix |-> TRUE, parts |-> <<1, 0>>], [prefix |-> FALSE, parts |-> <<1, 0, -1>>],
     [prefix |-> FALSE, parts |-> <<1, 0, 0>>]}
=============================================================================
