--------------------------- MODULE SessionManager ---------------------------
(***************************************************************************)
(* The persistence of one session (engine/session_manager.py): a manifest  *)
(* and a directory of checkpoints, written with Path.write_text, which     *)
(* truncates the file first.  Every method is synchronous; what can come   *)
(* between two of its writes is the death of the process, and what can     *)
(* come instead of one is an OSError.                                      *)
(*                                                                         *)
(* Of the manifest the status and the jobs are kept, of a checkpoint the   *)
(* jobs.  get_latest_checkpoint() takes the newest file by mtime or        *)
(* nothing, so only the newest is modelled; checkpoints of the same second *)
(* share a file, which makes no difference then.                           *)
(***************************************************************************)
EXTENDS Integers, FiniteSets, Sequences

CONSTANTS
    Jobs,           \* the jobs ever added; ids are random and never reused
    Interval,       \* checkpoint_interval
    MaxCrashes,     \* bound: deaths of the process
    MaxFailures     \* bound: writes that raise

ASSUME SessionAssumption ==
    /\ IsFiniteSet(Jobs)
    /\ Interval \in Nat \ {0}
    /\ MaxCrashes \in Nat
    /\ MaxFailures \in Nat

VARIABLES
    proc,       \* the process: down, starting or leaving a run, or up
    current,    \* _current_session
    since,      \* _jobs_since_checkpoint
    writes,     \* the files the running method has still to write
    truncated,  \* the first of them is already truncated
    auto,       \* the running method is the checkpoint of add_job
    manifest,   \* <session>.json
    checkpoint, \* the newest file of <session>/
    actual,     \* what became of each job
    crashes, failed

memory == <<proc, current, since, writes, truncated, auto>>
disk == <<manifest, checkpoint>>
vars == <<memory, disk, actual, crashes, failed>>

JobStatus == {"absent", "pending", "completed", "error"}
SessionStatus == {"none", "running", "paused", "completed", "failed"}
Session == [status : SessionStatus, jobs : [Jobs -> JobStatus]]
File == [kind : {"absent", "torn", "ok"}, status : SessionStatus, jobs : [Jobs -> JobStatus]]

NoJobs == [j \in Jobs |-> "absent"]
NoSession == [status |-> "none", jobs |-> NoJobs]
NoFile == [kind |-> "absent", status |-> "none", jobs |-> NoJobs]
TornFile == [NoFile EXCEPT !.kind = "torn"]
Saved(session) == [kind |-> "ok", status |-> session.status, jobs |-> session.jobs]

Known(session) == {j \in Jobs : session.jobs[j] # "absent"}

TypeOK ==
    /\ proc \in {"down", "starting", "up", "leaving"}
    /\ current \in Session
    /\ since \in 0..Interval + MaxFailures
    /\ writes \in Seq({"manifest", "checkpoint"})
    /\ truncated \in BOOLEAN
    /\ auto \in BOOLEAN
    /\ manifest \in File
    /\ checkpoint \in File
    /\ actual \in [Jobs -> JobStatus]
    /\ crashes \in 0..MaxCrashes
    /\ failed \in 0..MaxFailures

Init ==
    /\ proc = "up" /\ current = NoSession /\ since = 0
    /\ writes = <<>> /\ truncated = FALSE /\ auto = FALSE
    /\ manifest = NoFile /\ checkpoint = NoFile
    /\ actual = NoJobs
    /\ crashes = 0 /\ failed = 0

-----------------------------------------------------------------------------
(* The methods, up to their first write.                                   *)

Ready == proc = "up" /\ writes = <<>>
Active == Ready /\ current.status # "none"

Write(files) == writes' = files /\ UNCHANGED truncated

\* create_session(), also for an id that is on disk already: main.py calls it for
\* a resumed session as for a new one.
CreateSession ==
    /\ Ready /\ current.status = "none"
    /\ current' = [NoSession EXCEPT !.status = "running"]
    /\ proc' = "starting"
    /\ Write(<<"manifest">>)
    /\ UNCHANGED <<since, auto, disk, actual, crashes, failed>>

\* Forms a bug could give to the definitions below: the manifest first; a checkpoint
\* one job late; a counter that runs backwards; the wrong job updated.
CheckpointFilesSwapped == <<"manifest", "checkpoint">>

AddJobLate(j, status) ==
    /\ Active
    /\ actual[j] = "absent"
    /\ actual' = [actual EXCEPT ![j] = status]
    /\ current' = [current EXCEPT !.jobs[j] = status]
    /\ since' = since + 1
    /\ IF since + 1 > Interval
       THEN Write(<<"checkpoint", "manifest">>) /\ auto' = TRUE
       ELSE UNCHANGED <<writes, truncated, auto>>
    /\ UNCHANGED <<proc, disk, crashes, failed>>

AddJobBackwards(j, status) ==
    /\ Active
    /\ actual[j] = "absent"
    /\ actual' = [actual EXCEPT ![j] = status]
    /\ current' = [current EXCEPT !.jobs[j] = status]
    /\ since' = since - 1
    /\ UNCHANGED <<proc, writes, truncated, auto, disk, crashes, failed>>

UpdateJobAnother(j, status) ==
    /\ Active
    /\ j \in Known(current) /\ actual[j] = "pending"
    /\ actual' = [actual EXCEPT ![j] = status]
    /\ \E k \in Known(current) : current' = [current EXCEPT !.jobs[k] = status]
    /\ UNCHANGED <<proc, since, writes, truncated, auto, disk, crashes, failed>>

CheckpointFiles == <<"checkpoint", "manifest">>

\* Every checkpoint_interval-th job makes a checkpoint; the counter is reset
\* behind it.
AddJob(j, status) ==
    /\ Active
    /\ actual[j] = "absent"
    /\ actual' = [actual EXCEPT ![j] = status]
    /\ current' = [current EXCEPT !.jobs[j] = status]
    /\ since' = since + 1
    /\ IF since + 1 >= Interval
       THEN Write(CheckpointFiles) /\ auto' = TRUE
       ELSE UNCHANGED <<writes, truncated, auto>>
    /\ UNCHANGED <<proc, disk, crashes, failed>>

\* A job ends.  Of a job that is not in the session update_job() changes nothing.
UpdateJob(j, status) ==
    /\ Active
    /\ j \in Known(current) /\ actual[j] = "pending"
    /\ actual' = [actual EXCEPT ![j] = status]
    /\ current' = [current EXCEPT !.jobs[j] = status]
    /\ UNCHANGED <<proc, since, writes, truncated, auto, disk, crashes, failed>>

\* The counter of add_job is left alone.
CreateCheckpoint ==
    /\ Active
    /\ Write(CheckpointFiles)
    /\ UNCHANGED <<proc, current, since, auto, disk, actual, crashes, failed>>

PauseSession ==
    /\ Active
    /\ current' = [current EXCEPT !.status = "paused"]
    /\ Write(CheckpointFiles \o <<"manifest">>)
    /\ UNCHANGED <<proc, since, auto, disk, actual, crashes, failed>>

\* The last call of a run.
FinalizeSession(status) ==
    /\ Active
    /\ current' = [current EXCEPT !.status = status]
    /\ proc' = "leaving"
    /\ Write(<<"manifest">>)
    /\ UNCHANGED <<since, auto, disk, actual, crashes, failed>>

-----------------------------------------------------------------------------
(* path.write_text().                                                      *)

PutFile(file, content) ==
    \/ file = "manifest" /\ manifest' = content /\ UNCHANGED checkpoint
    \/ file = "checkpoint" /\ checkpoint' = content /\ UNCHANGED manifest

Truncate ==
    /\ writes # <<>> /\ ~truncated
    /\ PutFile(Head(writes), TornFile)
    /\ truncated' = TRUE
    /\ UNCHANGED <<proc, current, since, writes, auto, actual, crashes, failed>>

Down ==
    /\ proc' = "down" /\ current' = NoSession /\ since' = 0
    /\ writes' = <<>> /\ truncated' = FALSE /\ auto' = FALSE

\* The last write returns to the caller.
Finish ==
    /\ truncated
    /\ PutFile(Head(writes), Saved(current))
    /\ IF Len(writes) > 1
       THEN writes' = Tail(writes) /\ truncated' = FALSE /\ UNCHANGED <<proc, current, since, auto>>
       ELSE IF proc = "leaving"
       THEN Down
       ELSE /\ writes' = <<>> /\ truncated' = FALSE /\ auto' = FALSE
            /\ since' = IF auto THEN 0 ELSE since
            /\ proc' = "up"
            /\ UNCHANGED current
    /\ UNCHANGED <<actual, crashes, failed>>

\* An OSError goes up to the caller; the rest of the method does not run.  A run
\* that cannot create or finalize its session ends.
Raise ==
    /\ writes # <<>> /\ failed < MaxFailures
    /\ failed' = failed + 1
    /\ IF proc # "up"
       THEN Down
       ELSE /\ writes' = <<>> /\ truncated' = FALSE /\ auto' = FALSE
            /\ UNCHANGED <<proc, current, since>>
    /\ UNCHANGED <<disk, actual, crashes>>

-----------------------------------------------------------------------------
(* Death and recovery.                                                     *)

Crash ==
    /\ proc # "down" /\ crashes < MaxCrashes
    /\ crashes' = crashes + 1
    /\ Down
    /\ UNCHANGED <<disk, actual, failed>>

\* load_session() parses the manifest.
Loadable == manifest.kind = "ok"

\* get_resume_state(): the newest checkpoint if it parses, else the manifest.
Resumable == Loadable /\ manifest.status # "completed"
ResumeState == IF checkpoint.kind = "ok" THEN checkpoint ELSE manifest

\* A new process resumes the session, which makes its manifest the current
\* session; or it finds nothing to resume and may create the session anew.
Restart ==
    /\ proc = "down"
    /\ proc' = "up"
    /\ \/ Resumable /\ current' = [status |-> manifest.status, jobs |-> manifest.jobs]
       \/ UNCHANGED current
    /\ UNCHANGED <<since, writes, truncated, auto, disk, actual, crashes, failed>>

Next ==
    \/ CreateSession
    \/ \E j \in Jobs, s \in {"pending", "completed", "error"} : AddJob(j, s)
    \/ \E j \in Jobs, s \in {"completed", "error"} : UpdateJob(j, s)
    \/ CreateCheckpoint \/ PauseSession
    \/ \E s \in {"completed", "failed", "paused"} : FinalizeSession(s)
    \/ Truncate \/ Finish \/ Raise
    \/ Crash \/ Restart

Spec == Init /\ [][Next]_vars

-----------------------------------------------------------------------------
(* Properties.                                                             *)

\* Whatever a crash or a failed write left on disk, get_resume_state() never
\* reports a job completed or failed that did not end so.
ResumeTellsTruth ==
    Resumable => \A j \in Jobs :
        ResumeState.jobs[j] \in {"completed", "error"} => actual[j] = ResumeState.jobs[j]

\* Jobs of the running session that a resume at this moment would not know of.
Missing == Known(current) \ Known(ResumeState)

\* A crash loses at most checkpoint_interval jobs of a running session, and one
\* more for every write that failed - unless it hits the write of the manifest.
LossBounded ==
    current.status = "running" /\ Loadable => Cardinality(Missing) <= Interval + failed

\* What a manifest that says "running" knows of a job, the newest checkpoint that
\* parses knows as well: that is why resuming from the checkpoint is safe there.
CheckpointLeads ==
    manifest.kind = "ok" /\ manifest.status = "running" /\ checkpoint.kind = "ok" =>
        \A j \in Jobs : manifest.jobs[j] # "absent" =>
            checkpoint.jobs[j] \in {actual[j], manifest.jobs[j]} \ {"absent"}

\* finalize_session() "Mark session as complete and save final state": what it
\* saved of a job that ended is what a resume reports.
FinalStateResumed ==
    Resumable => \A j \in Jobs :
        manifest.jobs[j] \in {"completed", "error"} => ResumeState.jobs[j] = manifest.jobs[j]
=============================================================================
