---------------------------- MODULE DeadLetters ----------------------------
(***************************************************************************)
(* The queue of failed jobs (engine/dead_letter_queue.py): a list of       *)
(* entries in the order they were made, and a file for each job.           *)
(*                                                                         *)
(* What happens under the lock suspends nowhere, so that it is one step;   *)
(* the process may crash in it, while it writes a file or before it        *)
(* removes one, and starts again by load_from_disk().  An entry is its job *)
(* and the number of its creation; the names of the files have an order of *)
(* their own.                                                              *)
(***************************************************************************)
EXTENDS Integers, Sequences, FiniteSets, SequencesExt

CONSTANTS
    Jobs,           \* numbers of jobs, in the order of their files' names
    MaxEntries,     \* max_entries
    MaxFailures     \* bound: entries ever made

VARIABLES
    entries,        \* DeadLetterQueue._entries
    files,          \* creation number in each job's file; 0 for none, -1 for a broken one
    made,           \* entries made so far
    old,            \* entries up to this number are beyond the retention
    replaying       \* replays whose handler is running: the entries they hold

vars == <<entries, files, made, old, replaying>>

Numbers == 1..MaxFailures
Entry == [job : Jobs, number : Numbers]

TypeOK ==
    /\ entries \in Seq(Entry) /\ (Len(entries) <= MaxEntries \/ Len(entries) <= Cardinality(Jobs))
    /\ files \in [Jobs -> {-1, 0} \union Numbers]
    /\ made \in 0..MaxFailures /\ old \in 0..MaxFailures
    /\ replaying \subseteq Entry

Init ==
    /\ entries = <<>> /\ files = [j \in Jobs |-> 0] /\ made = 0 /\ old = 0
    /\ replaying = {}

-----------------------------------------------------------------------------
\* What has a key, in the order of the keys.
InOrder(key) ==
    CHOOSE s \in SetToSeqs(DOMAIN key) : \A i, k \in DOMAIN s : i < k => key[s[i]] < key[s[k]]

\* _persist_entry()
Persisted(j) == [files EXCEPT ![j] = made + 1]

\* As Removed below, leaving the file to a cleanup that never sees it again.
RemovedNever(fs, e) == fs

\* _remove_persisted(), which goes by the job.
Removed(fs, e) == [fs EXCEPT ![e.job] = 0]

\* add(), with the eviction of the first entry.
Add(j) ==
    LET appended == Append(entries, [job |-> j, number |-> made + 1])
    IN  /\ made < MaxFailures /\ made' = made + 1
        /\ IF Len(appended) > MaxEntries
              THEN entries' = Tail(appended) /\ files' = Removed(Persisted(j), Head(appended))
              ELSE entries' = appended /\ files' = Persisted(j)
        /\ UNCHANGED <<old, replaying>>

\* Time passes for the oldest entries; cleanup() removes them.
Age == old < made /\ old' = old + 1 /\ UNCHANGED <<entries, files, made, replaying>>

Outdated == {j \in Jobs : \E i \in DOMAIN entries : entries[i].job = j /\ entries[i].number <= old}

Cleanup ==
    /\ LET kept == InOrder([i \in {i \in DOMAIN entries : entries[i].number > old} |-> i])
       IN  entries' = [n \in DOMAIN kept |-> entries[kept[n]]]
    /\ files' = [j \in Jobs |-> IF j \in Outdated THEN 0 ELSE files[j]]
    /\ UNCHANGED <<made, old, replaying>>

-----------------------------------------------------------------------------
(* replay() takes the first entry of a job; it stays in the queue.         *)

Replay(j) ==
    /\ \E i \in DOMAIN entries :
        /\ entries[i].job = j /\ \A k \in 1..i - 1 : entries[k].job # j
        /\ replaying' = replaying \union {entries[i]}
    /\ UNCHANGED <<entries, files, made, old>>

\* The handler returns or fails; a job that fails again is added again by whoever ran it.
Replayed(e) == e \in replaying /\ replaying' = replaying \ {e}
               /\ UNCHANGED <<entries, files, made, old>>

-----------------------------------------------------------------------------
(* load_from_disk(), of a running process or after a crash.                *)

Whole(fs) == {j \in Jobs : fs[j] > 0}
Read(fs, j) == [job |-> j, number |-> fs[j]]

\* As Loaded below, in the order of the files' names.
LoadedByName(fs) == InOrder([e \in {Read(fs, j) : j \in Whole(fs)} |-> e.job])

Loaded(fs) == InOrder([e \in {Read(fs, j) : j \in Whole(fs)} |-> e.number])

Load == /\ entries' = Loaded(files)
        /\ UNCHANGED <<files, made, old, replaying>>

\* A crash: anywhere, a cleanup included; while add() writes the file; or before it has
\* removed another.
Crash ==
    /\ \/ /\ \E js \in SUBSET Outdated : files' = [j \in Jobs |-> IF j \in js THEN 0 ELSE files[j]]
          /\ UNCHANGED made
       \/ /\ made < MaxFailures /\ made' = made + 1
          /\ \E j \in Jobs : files' \in {[files EXCEPT ![j] = -1], Persisted(j)}
    /\ entries' = Loaded(files')
    /\ replaying' = {} /\ UNCHANGED old

Next ==
    \/ \E j \in Jobs : Add(j) \/ Replay(j)
    \/ \E e \in replaying : Replayed(e)
    \/ Age \/ Cleanup \/ Load \/ Crash

Spec == Init /\ [][Next]_vars

-----------------------------------------------------------------------------
(* Properties.                                                             *)

\* The first entry is always the oldest, so that the limit evicts the oldest, also after a
\* start from files that are listed by name.
OldestFirst == \A i, k \in DOMAIN entries : i < k => entries[i].number < entries[k].number

\* What is on disk is in the queue: an entry that was evicted or cleaned up does not come
\* back when the process starts again.
RemovedStaysAway == \A j \in Whole(files) : \E i \in DOMAIN entries : entries[i] = Read(files, j)

\* What is in the queue is on disk ("Persistent storage of failed jobs",
\* dead_letter_queue.py:58), the last failure of each job at least.
LastFailureKept ==
    \A i \in DOMAIN entries :
        (\A k \in DOMAIN entries : k > i => entries[k].job # entries[i].job)
            => files[entries[i].job] = entries[i].number
=============================================================================
