--------------------------- MODULE BackupManager ---------------------------
(***************************************************************************)
(* Backups of models, sessions and configuration                           *)
(* (engine/backup_manager.py).                                             *)
(*                                                                         *)
(* Making an archive, its metadata and a cleanup suspend nowhere, so that  *)
(* each is one step for the other tasks of the process; a crash of the     *)
(* process may come in the middle.  The upload is a placeholder and left   *)
(* out.  What is backed up is a version of each of the Contents, which is  *)
(* kept in one place and may be packed under the name of another.  An      *)
(* identifier is the second at which a backup is made.                     *)
(***************************************************************************)
EXTENDS Integers, Functions

CONSTANTS
    Places,         \* where contents are kept, and where archives unpack to
    ArcName,        \* the name each of the contents is packed as: the place it unpacks to
    Contents,       \* the places that are backed up
    MaxVersion,     \* bound: changes of a content
    MaxBackups      \* bound: identifiers

Ids == 1..MaxBackups

VARIABLES
    live,           \* version of what is in each place; 0 for nothing
    archive,        \* what each archive holds, as a function, or a text
    metadata,       \* the state of each metadata file
    expired,        \* backups older than their retention
    keeps,          \* whether retention_days is above 0
    second,         \* the last identifier given
    loop,           \* where the scheduler is
    restored        \* the versions the last restore was to bring back

vars == <<live, archive, metadata, expired, keeps, second, loop, restored>>

NoArchive == [kind |-> "none", holds |-> <<>>]

TypeOK ==
    /\ live \in [Places -> 0..MaxVersion]
    /\ \A i \in Ids : /\ archive[i].kind \in {"none", "whole", "broken"}
                      /\ archive[i].holds \in [DOMAIN archive[i].holds -> 0..MaxVersion]
    /\ metadata \in [Ids -> {"none", "whole", "broken"}]
    /\ expired \subseteq Ids /\ keeps \in BOOLEAN /\ second \in 0..MaxBackups
    /\ loop \in {"off", "due", "cleanup", "asleep"}
    /\ restored \in [DOMAIN restored -> 0..MaxVersion]

Init ==
    /\ live = [p \in Places |-> IF p \in Contents THEN 1 ELSE 0]
    /\ archive = [i \in Ids |-> NoArchive] /\ metadata = [i \in Ids |-> "none"]
    /\ expired = {} /\ keeps \in BOOLEAN /\ second = 0 /\ loop = "off" /\ restored = <<>>

Complete == {i \in Ids : archive[i].kind = "whole" /\ metadata[i] = "whole"}

-----------------------------------------------------------------------------
(* Making a backup.                                                        *)

\* tar.add(), under the name each of the contents has in the archive.
Packed == [a \in {ArcName[p] : p \in Contents} |-> live[CHOOSE p \in Contents : ArcName[p] = a]]

\* The identifier: a new second, or the last one again.
Now == {second + 1, second} \cap Ids

\* create_backup() that succeeds, with a retention that may be over at once; that fails, when
\* the archive is removed and what there is of the metadata stays; a crash in the middle of
\* either file.
Created(i) ==
    /\ archive' = [archive EXCEPT ![i] = [kind |-> "whole", holds |-> Packed]]
    /\ metadata' = [metadata EXCEPT ![i] = "whole"]
    /\ \/ expired' = expired \ {i}
       \/ ~keeps /\ expired' = expired \union {i}

Failed(i) ==
    /\ archive' = [archive EXCEPT ![i] = NoArchive]
    /\ metadata' \in {metadata, [metadata EXCEPT ![i] = "broken"]}
    /\ UNCHANGED expired

Crashed(i) ==
    /\ \/ /\ \E packed \in SUBSET DOMAIN Packed :
             archive' = [archive EXCEPT ![i] = [kind |-> "broken", holds |-> Restrict(Packed, packed)]]
          /\ UNCHANGED metadata
       \/ /\ archive' = [archive EXCEPT ![i] = [kind |-> "whole", holds |-> Packed]]
          /\ metadata' \in {metadata, [metadata EXCEPT ![i] = "broken"]}
    /\ UNCHANGED expired

\* A backup by hand.
BackupByHand ==
    \E i \in Now :
        /\ second' = i
        /\ Created(i) \/ Failed(i)
        /\ UNCHANGED <<live, keeps, loop, restored>>

-----------------------------------------------------------------------------
(* The scheduler: _backup_loop() backs up, and cleans up when that has     *)
(* succeeded; after a failure it tries again later.                        *)

Start == loop = "off" /\ loop' = "due"
         /\ UNCHANGED <<live, archive, metadata, expired, keeps, second, restored>>

\* As Scheduled below, cleaning up in any case.
ScheduledAnyway ==
    /\ loop = "due"
    /\ \E i \in Now :
        /\ second' = i
        /\ Created(i) \/ Failed(i)
    /\ loop' = "cleanup"
    /\ UNCHANGED <<live, keeps, restored>>

Scheduled ==
    /\ loop = "due"
    /\ \E i \in Now :
        /\ second' = i
        /\ \/ Created(i) /\ loop' = "cleanup"
           \/ Failed(i) /\ loop' = "asleep"
    /\ UNCHANGED <<live, keeps, restored>>

Wakes == loop = "asleep" /\ loop' = "due"
         /\ UNCHANGED <<live, archive, metadata, expired, keeps, second, restored>>

\* _cleanup_old_backups(); it goes through the metadata it can read.
Outdated == {i \in Ids : metadata[i] = "whole" /\ i \in expired}

\* The backups that are gone, and those of which only the metadata is left.
Removed(gone, half) ==
    /\ archive' = [i \in Ids |-> IF i \in gone \union half THEN NoArchive ELSE archive[i]]
    /\ metadata' = [i \in Ids |-> IF i \in gone THEN "none" ELSE metadata[i]]
    /\ expired' = expired \ gone
    /\ UNCHANGED <<live, keeps, second, restored>>

\* A removal that fails is only logged; a crash leaves what was still to be removed.
Cleans == \E gone \in SUBSET Outdated : \E half \in SUBSET (Outdated \ gone) : Removed(gone, half)

Cleanup == loop = "cleanup" /\ Cleans /\ loop' = "asleep"
CrashInCleanup == loop = "cleanup" /\ Cleans /\ loop' = "off"

\* stop() or a crash, the latter perhaps while a file is written.
Stop ==
    /\ loop # "off" /\ loop' = "off"
    /\ UNCHANGED <<live, archive, metadata, expired, keeps, second, restored>>

CrashInBackup ==
    /\ loop = "due" /\ loop' = "off"
    /\ \E i \in Now : second' = i /\ Crashed(i)
    /\ UNCHANGED <<live, keeps, restored>>

-----------------------------------------------------------------------------
(* Use.                                                                    *)

\* restore_backup() into the current directory: each thing goes to the place it is packed
\* as.  A checksum that differs is only logged; metadata that cannot be read ends it, and an
\* archive that breaks off fails it after what that holds has been unpacked.
Restore(i) ==
    /\ archive[i].kind # "none" /\ metadata[i] # "broken"
    /\ live' = [p \in Places |-> IF p \in DOMAIN archive[i].holds THEN archive[i].holds[p] ELSE live[p]]
    /\ restored' = IF archive[i].kind = "whole"
                      THEN [p \in Contents |-> archive[i].holds[ArcName[p]]] ELSE <<>>
    /\ UNCHANGED <<archive, metadata, expired, keeps, second, loop>>

Change(p) ==
    /\ live[p] < MaxVersion
    /\ live' = [live EXCEPT ![p] = @ + 1] /\ restored' = <<>>
    /\ UNCHANGED <<archive, metadata, expired, keeps, second, loop>>

Ages(i) ==
    /\ metadata[i] # "none" /\ i \notin expired /\ (\A j \in 1..i - 1 : metadata[j] # "none" => j \in expired)
    /\ expired' = expired \union {i}
    /\ UNCHANGED <<live, archive, metadata, keeps, second, loop, restored>>

Next ==
    \/ Cleanup \/ CrashInCleanup
    \/ /\ loop # "cleanup"    \* which a backup runs into without suspending
       /\ \/ BackupByHand \/ Start \/ Scheduled \/ Wakes \/ Stop \/ CrashInBackup
          \/ \E i \in Ids : Restore(i) \/ Ages(i)
          \/ \E p \in Contents : Change(p)

Spec == Init /\ [][Next]_vars

-----------------------------------------------------------------------------
(* Properties.                                                             *)

\* With a retention of a day or more a cleanup, which follows a backup that has succeeded,
\* leaves a complete backup, however many have failed, crashed or expired before, and also if
\* it crashes itself.
LastBackupStays ==
    [][keeps /\ loop = "cleanup" /\ loop' # "cleanup" => Complete' # {}]_vars

\* What a restore brings back is where it was ("Point-in-time recovery",
\* backup_manager.py:64).
RestoredIsBack == \A p \in DOMAIN restored : live[p] = restored[p]
=============================================================================
