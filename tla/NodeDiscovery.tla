--------------------------- MODULE NodeDiscovery ---------------------------
(***************************************************************************)
(* Custom nodes of a ComfyUI installation (engine/node_discovery.py): the  *)
(* command line processes in Processes install, update and scan the        *)
(* directories under custom_nodes, and compare versions.                   *)
(*                                                                         *)
(* A directory is absent, partial (git clone has made it and not finished),*)
(* complete, or torn (a killed git pull left it between two revisions).    *)
(* What is read from the sources of a node - description, category,        *)
(* classes - is left out; reading them never fails a scan, it marks the    *)
(* node.  A version string is its prefix, "v" or none, and its parts, each *)
(* a number or a Word.                                                     *)
(***************************************************************************)
EXTENDS Integers, Sequences, FiniteSets, FiniteSetsExt, SequencesExt

CONSTANTS
    Processes,      \* invocations of the command line tool
    Nodes,          \* names of custom nodes
    Known,          \* those in KNOWN_NODES
    Demanding,      \* those with a requirements.txt
    Versions,       \* ComfyUI versions considered
    MaxUpdates      \* bound: git pulls that bring something

Methods == {"git", "pip", "manual"}
NoNode == "none"
NoVersion == [prefix |-> FALSE, parts |-> <<>>]     \* the empty string
Word == -1                                          \* a part that is no number

VARIABLES
    tree,           \* custom_nodes/<name>
    revision,       \* commits pulled since the clone
    packages,       \* nodes whose Python dependencies pip has installed
    at, target,     \* where each process is, and for which node
    method,         \* how it installs, or that it pulls
    answer,         \* what it returned
    comfyui,        \* the version of ComfyUI
    said            \* the last report, recommendation or verdict on a node's versions

processes == <<at, target, method, answer>>
vars == <<tree, revision, packages, processes, comfyui, said>>

Report == [kind : {"report"}, found : SUBSET Nodes, missing : SUBSET Nodes]
Advice == [kind : {"advice"}, install : SUBSET Nodes, manual : SUBSET Nodes]
Limit == Versions \union {NoVersion}
Verdict == [kind : {"verdict"}, least : Limit, most : Limit, compatible : BOOLEAN]
Nothing == [kind |-> "nothing"]

TypeOK ==
    /\ tree \in [Nodes -> {"absent", "partial", "complete", "torn"}]
    /\ revision \in [Nodes -> 0..MaxUpdates]
    /\ packages \subseteq Nodes
    /\ at \in [Processes -> {"idle", "cloning", "packages", "pulling"}]
    /\ target \in [Processes -> Nodes \union {NoNode}]
    /\ method \in [Processes -> Methods \union {"pull"}]
    /\ answer \in [Processes -> {"none", "ok", "failed"}]
    /\ comfyui \in Versions
    /\ said \in Report \union Advice \union Verdict \union {Nothing}

Init ==
    /\ tree = [n \in Nodes |-> "absent"] /\ revision = [n \in Nodes |-> 0] /\ packages = {}
    /\ at = [p \in Processes |-> "idle"] /\ target = [p \in Processes |-> NoNode]
    /\ method = [p \in Processes |-> "git"] /\ answer = [p \in Processes |-> "none"]
    /\ comfyui \in Versions /\ said = Nothing

-----------------------------------------------------------------------------
(* Installing and updating.                                                *)

Goto(p, there) == at' = [at EXCEPT ![p] = there]
Answer(p, a) == Goto(p, "idle") /\ answer' = [answer EXCEPT ![p] = a]

\* install_node() up to its subprocess.  git makes the directory at once, and refuses
\* one that is there.
Install(p, n, m) ==
    /\ at[p] = "idle"
    /\ target' = [target EXCEPT ![p] = n]
    /\ method' = [method EXCEPT ![p] = m]
    /\ IF n \notin Known \/ tree[n] # "absent"
       THEN Answer(p, "failed") /\ UNCHANGED tree
       ELSE IF m = "git"
       THEN /\ Goto(p, "cloning") /\ answer' = [answer EXCEPT ![p] = "none"]
            /\ tree' = [tree EXCEPT ![n] = "partial"]
       ELSE /\ Goto(p, "packages") /\ answer' = [answer EXCEPT ![p] = "none"]
            /\ UNCHANGED tree
    /\ UNCHANGED <<revision, packages, comfyui, said>>

\* A bug CloneEnds could have: it does not look at the return code.
CloneEndsUnchecked(p) ==
    LET n == target[p] IN
    /\ at[p] = "cloning"
    /\ \E t \in {"complete", "absent"} : tree' = [tree EXCEPT ![n] = t]
    /\ Goto(p, "packages")
    /\ UNCHANGED <<revision, packages, target, method, answer, comfyui, said>>

\* git succeeds; fails, and removes the directory; or is killed by the timeout.
CloneEnds(p) ==
    LET n == target[p] IN
    /\ at[p] = "cloning"
    /\ \/ /\ tree' = [tree EXCEPT ![n] = "complete"]
          /\ Goto(p, "packages") /\ UNCHANGED answer
       \/ tree' = [tree EXCEPT ![n] = "absent"] /\ Answer(p, "failed")
       \/ UNCHANGED tree /\ Answer(p, "failed")
    /\ UNCHANGED <<revision, packages, target, method, comfyui, said>>

\* pip, if there is a requirements.txt: its failure is a warning, its timeout an error.
Packages(p) ==
    LET n == target[p]
        listed == n \in Demanding /\ tree[n] # "absent"
    IN
    /\ at[p] = "packages"
    /\ \/ listed /\ packages' = packages \union {n} /\ Answer(p, "ok")
       \/ listed /\ UNCHANGED packages /\ \E a \in {"ok", "failed"} : Answer(p, a)
       \/ ~(listed /\ tree[n] = "complete") /\ UNCHANGED packages /\ Answer(p, "ok")
    /\ UNCHANGED <<tree, revision, target, method, comfyui, said>>

\* update_node() up to its subprocess.  A clone that was killed may have no .git yet.
Update(p, n) ==
    /\ at[p] = "idle"
    /\ target' = [target EXCEPT ![p] = n] /\ method' = [method EXCEPT ![p] = "pull"]
    /\ \/ tree[n] \in {"absent", "partial"} /\ Answer(p, "failed")
       \/ tree[n] # "absent" /\ Goto(p, "pulling") /\ answer' = [answer EXCEPT ![p] = "none"]
    /\ UNCHANGED <<tree, revision, packages, comfyui, said>>

\* git pull: whether the files of the last revision are all there it does not look, so it
\* can be up to date with half a clone.  Killed by the timeout, it leaves what it has written.
PullEnds(p) ==
    LET n == target[p] IN
    /\ at[p] = "pulling"
    /\ \/ /\ tree[n] # "absent" /\ Answer(p, "ok")
          /\ \/ UNCHANGED revision
             \/ revision[n] < MaxUpdates /\ revision' = [revision EXCEPT ![n] = @ + 1]
          /\ UNCHANGED tree
       \/ UNCHANGED <<tree, revision>> /\ Answer(p, "failed")
       \/ /\ tree[n] = "complete" /\ Answer(p, "failed")
          /\ tree' = [tree EXCEPT ![n] = "torn"] /\ UNCHANGED revision
    /\ UNCHANGED <<packages, target, method, comfyui, said>>

-----------------------------------------------------------------------------
(* Reports.                                                                *)

\* scan_nodes(): every directory with a Python file is an installed, enabled node.  A
\* partial clone, or a torn one, may have some.
Scanned == {found \in SUBSET {n \in Nodes : tree[n] # "absent"} :
                \A n \in Nodes : tree[n] = "complete" => n \in found}

GenerateReport ==
    /\ \E found \in Scanned :
        said' = [kind |-> "report", found |-> found,
                 missing |-> {n \in found : n \in Demanding \ packages}]
    /\ UNCHANGED <<tree, revision, packages, processes, comfyui>>

Recommend(workflow) ==
    /\ \E found \in Scanned :
        said' = [kind |-> "advice", install |-> (workflow \ found) \intersect Known,
                 manual |-> (workflow \ found) \ Known]
    /\ UNCHANGED <<tree, revision, packages, processes, comfyui>>

-----------------------------------------------------------------------------
(* Versions.                                                               *)

\* normalize(): the prefix goes, and whatever is no number counts as 0.
Normalize(v) == [i \in DOMAIN v.parts |-> IF v.parts[i] = Word THEN 0 ELSE v.parts[i]]

\* The first part in which they differ, or 0.
Difference(a, b) ==
    LET differ == {i \in 1..Min({Len(a), Len(b)}) : a[i] # b[i]} IN
    IF differ = {} THEN 0 ELSE Min(differ)

\* A bug Compare could have: it forgets the length.
CompareShortest(v, w) ==
    LET a == Normalize(v)
        b == Normalize(w)
        i == Difference(a, b)
    IN IF i = 0 THEN 0 ELSE IF a[i] < b[i] THEN -1 ELSE 1

\* _compare_versions().
Compare(v, w) ==
    LET a == Normalize(v)
        b == Normalize(w)
        i == Difference(a, b)
    IN IF i = 0 THEN Len(a) - Len(b) ELSE IF a[i] < b[i] THEN -1 ELSE 1

Meets(v, low, high) ==
    /\ low # NoVersion => Compare(v, low) >= 0
    /\ high # NoVersion => Compare(v, high) <= 0

CheckVersion(low, high) ==
    /\ said' = [kind |-> "verdict", least |-> low, most |-> high,
                compatible |-> Meets(comfyui, low, high)]
    /\ UNCHANGED <<tree, revision, packages, processes, comfyui>>

NodesNext ==
    \/ \E p \in Processes, n \in Nodes :
        (\E m \in Methods : Install(p, n, m)) \/ Update(p, n)
    \/ \E p \in Processes : CloneEnds(p) \/ Packages(p) \/ PullEnds(p)
    \/ GenerateReport
    \/ \E workflow \in SUBSET Nodes : Recommend(workflow)

VersionsNext == \E low, high \in Limit : CheckVersion(low, high)

Next == NodesNext \/ VersionsNext

Spec == Init /\ [][Next]_vars

-----------------------------------------------------------------------------
(* Properties.                                                             *)

\* Whoever was told that git installed a node finds the clone whole, although several
\* processes install, fail and update at the same time: it is not removed again, and only a
\* pull that was killed has torn it.
ClonedIsComplete ==
    \A p \in Processes :
        answer[p] = "ok" /\ method[p] = "git" => tree[target[p]] \in {"complete", "torn"}

\* Versions are ordered totally and consistently: two versions compare equal exactly if
\* their numbers are the same, whatever prefix and words they were written with, and the
\* versions a node accepts are those between its limits.
VersionsOrdered ==
    /\ \A v \in Versions :
        (Compare(v, comfyui) = 0) = (Normalize(v) = Normalize(comfyui))
    /\ said.kind = "verdict" /\ said.compatible => \A v \in Versions :
        \/ said.least # NoVersion /\ Compare(v, said.least) > 0 /\ Compare(comfyui, v) > 0
        \/ said.most # NoVersion /\ Compare(v, said.most) < 0 /\ Compare(comfyui, v) < 0
        => Meets(v, said.least, said.most)

\* "Non-numeric parts sort after numeric" (node_discovery.py:657).
WordsSortAfter ==
    \A v \in Versions : \A i \in DOMAIN v.parts \intersect DOMAIN comfyui.parts :
        /\ v.parts[i] = Word /\ comfyui.parts[i] # Word
        /\ \A k \in 1..(i - 1) : v.parts[k] = comfyui.parts[k]
        => Compare(v, comfyui) > 0

\* install_node() "Returns: True if installation succeeded", for every method.
InstalledIsThere == \A p \in Processes : answer[p] = "ok" => tree[target[p]] # "absent"

\* A failed installation can be tried again.
FailureLeavesNothing ==
    \A p \in Processes :
        answer[p] = "failed" /\ method[p] = "git" /\ target[p] \in Known =>
            tree[target[p]] # "partial" \/ \E q \in Processes : at[q] = "cloning"
=============================================================================
