------------------------ MODULE SessionManagerProofs ------------------------
(***************************************************************************)
(* Proofs about SessionManager, for every number of jobs, every            *)
(* checkpoint_interval and any number of crashes and failed writes.        *)
(*                                                                         *)
(* None of the three properties is inductive: they speak of the files,     *)
(* which change long after the method that decided on them.  The invariant *)
(* adds what a method that is still writing has in hand (Control), that    *)
(* memory never lags behind the manifest, and that a manifest write of a   *)
(* running session comes behind the checkpoint of the same state.          *)
(***************************************************************************)
EXTENDS SessionManager, FiniteSetTheorems, SequenceTheorems, TLAPS

\* What a method can have left to write.
M == <<"manifest">>
CM == <<"checkpoint", "manifest">>
MM == <<"manifest", "manifest">>
CMM == <<"checkpoint", "manifest", "manifest">>

Control ==
    /\ writes \in {<<>>, M, CM, MM, CMM}
    /\ truncated => writes # <<>>
    /\ proc = "down" => writes = <<>> /\ current = NoSession
    /\ proc = "starting" => writes = M /\ current.status = "running" /\ Known(current) = {}
    /\ proc = "leaving" => writes = M /\ current.status \notin {"none", "running"}
    /\ current.status = "none" => writes = <<>> /\ current = NoSession
    /\ auto => proc = "up" /\ writes \in {M, CM}
    /\ writes \in {MM, CMM} => current.status = "paused"
    /\ since <= (IF auto THEN Interval ELSE Interval - 1) + failed

\* What is recorded of a job is what became of it, unless it was still pending.
Truthful(session) ==
    \A j \in Jobs : session.jobs[j] # "absent" =>
        /\ actual[j] # "absent"
        /\ session.jobs[j] \in {"completed", "error"} => actual[j] = session.jobs[j]

\* a knows every job b knows, and of each no less.
Leads(a, b) ==
    \A j \in Jobs : b.jobs[j] # "absent" => a.jobs[j] \in {actual[j], b.jobs[j]} \ {"absent"}

\* A file lacks at most the jobs added since the last checkpoint.
Lacks(file) == Known(current) \ Known(file)
Behind(file) == file.kind = "ok" => Cardinality(Lacks(file)) <= since

Files ==
    /\ Truthful(current) /\ Truthful(manifest) /\ Truthful(checkpoint)
    /\ manifest.kind = "ok" /\ manifest.status = "running" /\ checkpoint.kind = "ok"
          => Leads(checkpoint, manifest)
    /\ manifest.kind = "ok" => manifest.status # "none"
    /\ manifest.kind = "ok" /\ proc = "up" /\ current.status # "none"
          => Leads(current, manifest)
    /\ proc = "up" /\ current.status = "running" /\ writes = M
          => checkpoint = Saved(current)
    /\ current.status = "running" => Behind(manifest) /\ Behind(checkpoint)

IInv == TypeOK /\ Control /\ Files

-----------------------------------------------------------------------------
(* The data.                                                               *)

\* The lists of files, and what is left of them after the first.
LEMMA Lists ==
    /\ CheckpointFiles = CM /\ CheckpointFiles \o M = CMM
    /\ Head(M) = "manifest" /\ Len(M) = 1
    /\ Head(CM) = "checkpoint" /\ Len(CM) = 2 /\ Tail(CM) = M
    /\ Head(MM) = "manifest" /\ Len(MM) = 2 /\ Tail(MM) = M
    /\ Head(CMM) = "checkpoint" /\ Len(CMM) = 3 /\ Tail(CMM) = MM
    /\ {<<>>, M, CM, MM, CMM} \subseteq Seq({"manifest", "checkpoint"})
    /\ M # <<>> /\ CM # <<>> /\ MM # <<>> /\ CMM # <<>>
    /\ M # CM /\ M # MM /\ M # CMM /\ CM # MM /\ CM # CMM /\ MM # CMM
<1> USE DEF M, CM, MM, CMM
<1>1. CheckpointFiles = CM
  BY DEF CheckpointFiles
<1>2. CM \o M = CMM
  <2> DEFINE x == CM \o M
             y == CMM
             F == {"manifest", "checkpoint"}
  <2>1. x \in Seq(F) /\ Len(x) = 3 /\ \A i \in 1..3 : x[i] = y[i]
    BY ConcatProperties
  <2>2. y \in Seq(F) /\ Len(y) = 3
    OBVIOUS
  <2> HIDE DEF x, y
  <2>3. x = y
    BY <2>1, <2>2, SeqEqual
  <2> QED BY <2>3 DEF x, y
<1>3. Head(M) = "manifest" /\ Head(CM) = "checkpoint" /\ Head(MM) = "manifest" /\ Head(CMM) = "checkpoint"
  OBVIOUS
<1>4. Len(M) = 1 /\ Len(CM) = 2 /\ Len(MM) = 2 /\ Len(CMM) = 3
  OBVIOUS
<1>5. Tail(CM) = M /\ Tail(MM) = M /\ Tail(CMM) = MM
  OBVIOUS
<1>6. {<<>>, M, CM, MM, CMM} \subseteq Seq({"manifest", "checkpoint"})
  OBVIOUS
<1>7. M # <<>> /\ CM # <<>> /\ MM # <<>> /\ CMM # <<>>
  OBVIOUS
<1>8. M # CM /\ M # MM /\ M # CMM /\ CM # MM /\ CM # CMM /\ MM # CMM
  OBVIOUS
<1> QED BY <1>1, <1>2, <1>3, <1>4, <1>5, <1>6, <1>7, <1>8

\* Recording a job in a session.
LEMMA Recorded ==
    ASSUME NEW j \in Jobs, NEW s \in JobStatus, current \in Session
    PROVE  LET c == [current EXCEPT !.jobs[j] = s] IN
           /\ c \in Session
           /\ c.status = current.status
           /\ c.jobs = [current.jobs EXCEPT ![j] = s]
           /\ s # "absent" => Known(c) = Known(current) \union {j}
BY DEF Session, Known

LEMMA Empty ==
    /\ NoSession \in Session /\ NoSession.status = "none" /\ Known(NoSession) = {}
    /\ \A j \in Jobs : NoSession.jobs[j] = "absent"
    /\ NoFile \in File /\ TornFile \in File /\ TornFile.kind = "torn" /\ NoFile.kind = "absent"
    /\ \A j \in Jobs : NoFile.jobs[j] = "absent" /\ TornFile.jobs[j] = "absent"
BY DEF NoSession, NoJobs, NoFile, TornFile, Session, File, JobStatus, SessionStatus, Known

\* A file that was written has what the session had.
LEMMA Written ==
    ASSUME current \in Session
    PROVE  /\ Saved(current) \in File /\ Saved(current).kind = "ok"
           /\ Saved(current).status = current.status
           /\ Saved(current).jobs = current.jobs
           /\ Known(Saved(current)) = Known(current)
BY DEF Saved, Session, File, Known

\* Adding a job puts a file at most one job further behind.
LEMMA OneMore ==
    ASSUME NEW L \in SUBSET Jobs, NEW N, NEW j, N \subseteq L \union {j}
    PROVE  Cardinality(L) \in Nat /\ Cardinality(N) \in Nat /\ Cardinality(N) <= Cardinality(L) + 1
<1> DEFINE LJ == L \union {j}
<1>1. IsFiniteSet(L) /\ IsFiniteSet(LJ)
  BY SessionAssumption, FS_Subset, FS_AddElement
<1>2. Cardinality(LJ) <= Cardinality(L) + 1 /\ Cardinality(L) \in Nat
  BY <1>1, FS_AddElement, FS_CardinalityType
<1> HIDE DEF LJ
<1>3. Cardinality(N) <= Cardinality(LJ) /\ Cardinality(N) \in Nat /\ Cardinality(LJ) \in Nat
  BY <1>1, FS_Subset, FS_CardinalityType DEF LJ
<1> QED BY <1>2, <1>3

-----------------------------------------------------------------------------
(* The invariant.                                                          *)

LEMMA InitIInv == Init => IInv
<1> SUFFICES ASSUME Init PROVE IInv
  OBVIOUS
<1>1. TypeOK
  <2>1. writes \in Seq({"manifest", "checkpoint"}) /\ actual \in [Jobs -> JobStatus]
    BY Lists DEF Init, NoJobs, JobStatus
  <2>2. since \in 0..Interval + MaxFailures /\ crashes \in 0..MaxCrashes /\ failed \in 0..MaxFailures
    BY SessionAssumption DEF Init
  <2>3. current \in Session /\ manifest \in File /\ checkpoint \in File
    BY Empty DEF Init
  <2> QED BY <2>1, <2>2, <2>3 DEF Init, TypeOK
<1>2. Control
  BY SessionAssumption, Empty, Lists DEF Init, Control
<1>3. Files
  BY Empty, Lists DEF Init, Files, Truthful
<1> QED BY <1>1, <1>2, <1>3 DEF IInv

\* A method that writes nothing and only starts a list of files.
LEMMA CreateIInv == ASSUME IInv, CreateSession PROVE IInv'
<1> DEFINE c == [NoSession EXCEPT !.status = "running"]
<1>1. /\ c \in Session /\ c.status = "running" /\ Known(c) = {}
      /\ \A j \in Jobs : c.jobs[j] = "absent"
  BY Empty DEF Session, SessionStatus, Known, NoSession, NoJobs
<1>2. current' = c
  BY DEF CreateSession
<1> HIDE DEF c
<1>3. TypeOK'
  BY <1>1, <1>2, Lists DEF IInv, TypeOK, CreateSession, Write, Ready, disk, M
<1>4. Control'
  BY <1>1, <1>2, Lists, Empty DEF IInv, Control, CreateSession, Write, Ready, disk, M, Known
<1>5. Files'
  <2>1. Lacks(manifest)' = {} /\ Lacks(checkpoint)' = {}
    BY <1>1, <1>2 DEF Lacks, Known
  <2>2. Cardinality({}) = 0 /\ since' \in Nat
    BY SessionAssumption, FS_EmptySet DEF IInv, TypeOK, CreateSession
  <2>3. Behind(manifest)' /\ Behind(checkpoint)'
    BY <2>1, <2>2 DEF Behind
  <2> QED BY <1>1, <1>2, <2>3 DEF IInv, Files, Truthful, Leads, CreateSession, disk
<1> QED BY <1>3, <1>4, <1>5 DEF IInv

\* Recording what became of a job: add_job and update_job.  No record of it in a
\* file contradicts it, as the file has it pending or not at all.
LEMMA RecordFiles ==
    ASSUME IInv, NEW j \in Jobs, NEW s \in {"pending", "completed", "error"},
           actual[j] \in {"absent", "pending"}, Active,
           actual' = [actual EXCEPT ![j] = s],
           current' = [current EXCEPT !.jobs[j] = s],
           UNCHANGED <<manifest, checkpoint>>
    PROVE  /\ Truthful(current)' /\ Truthful(manifest)' /\ Truthful(checkpoint)'
           /\ (manifest.kind = "ok" /\ manifest.status = "running" /\ checkpoint.kind = "ok"
                 => Leads(checkpoint, manifest))'
           /\ manifest.kind = "ok" => Leads(current, manifest)'
           /\ actual' \in [Jobs -> JobStatus] /\ current' \in Session
           /\ current'.status = current.status
           /\ Known(current)' = Known(current) \union {j}
<1>1. TypeOK /\ s \in JobStatus /\ s # "absent"
  BY DEF IInv, JobStatus
<1>2. /\ current' \in Session /\ current'.status = current.status
      /\ current'.jobs = [current.jobs EXCEPT ![j] = s]
      /\ Known(current)' = Known(current) \union {j}
  BY <1>1, Recorded DEF TypeOK
<1>3. actual' \in [Jobs -> JobStatus]
  BY <1>1 DEF TypeOK
<1>4. current.jobs \in [Jobs -> JobStatus] /\ actual \in [Jobs -> JobStatus]
  BY <1>1 DEF TypeOK, Session
<1>5. \A k \in Jobs : /\ current'.jobs[k] = IF k = j THEN s ELSE current.jobs[k]
                      /\ actual'[k] = IF k = j THEN s ELSE actual[k]
  BY <1>2, <1>4
<1>6. Truthful(current)' /\ Truthful(manifest)' /\ Truthful(checkpoint)'
  BY <1>1, <1>5 DEF IInv, Files, Truthful
<1>7. (manifest.kind = "ok" /\ manifest.status = "running" /\ checkpoint.kind = "ok"
         => Leads(checkpoint, manifest))'
  BY <1>1, <1>5 DEF IInv, Files, Truthful, Leads, TypeOK, File, JobStatus
<1>8. manifest.kind = "ok" => Leads(current, manifest)'
  BY <1>1, <1>5 DEF IInv, Files, Truthful, Leads, TypeOK, File, JobStatus, Active, Ready
<1> QED BY <1>2, <1>3, <1>6, <1>7, <1>8

LEMMA AddIInv ==
    ASSUME IInv, NEW j \in Jobs, NEW s \in {"pending", "completed", "error"}, AddJob(j, s)
    PROVE  IInv'
<1>0. TypeOK /\ Control /\ Files /\ Active
  BY DEF IInv, AddJob
<1>1. /\ UNCHANGED <<manifest, checkpoint, proc, crashes, failed, truncated>>
      /\ writes = <<>> /\ proc = "up" /\ current.status # "none" /\ ~auto /\ ~truncated
      /\ since' = since + 1 /\ since \in Nat /\ since <= Interval - 1 + failed
      /\ failed \in 0..MaxFailures
  <2>1. ~auto /\ ~truncated
    BY <1>0, Lists DEF Control, Active, Ready
  <2>2. UNCHANGED <<manifest, checkpoint, proc, crashes, failed, truncated>> /\ since' = since + 1
    BY DEF AddJob, Write, disk
  <2>3. since \in Nat /\ failed \in 0..MaxFailures
    BY <1>0, SessionAssumption DEF TypeOK
  <2> QED BY <1>0, <2>1, <2>2, <2>3 DEF Control, Active, Ready
<1>1a. \/ since + 1 >= Interval /\ writes' = CM /\ auto' = TRUE
       \/ ~(since + 1 >= Interval) /\ writes' = <<>> /\ auto' = auto
  BY <1>1, Lists DEF AddJob, Write
<1>2. /\ Truthful(current)' /\ Truthful(manifest)' /\ Truthful(checkpoint)'
      /\ (manifest.kind = "ok" /\ manifest.status = "running" /\ checkpoint.kind = "ok"
            => Leads(checkpoint, manifest))'
      /\ manifest.kind = "ok" => Leads(current, manifest)'
      /\ actual' \in [Jobs -> JobStatus] /\ current' \in Session
      /\ current'.status = current.status
      /\ Known(current)' = Known(current) \union {j}
  BY <1>0, <1>1, RecordFiles DEF IInv, AddJob
<1>3. TypeOK'
  <2>1. writes' \in Seq({"manifest", "checkpoint"}) /\ auto' \in BOOLEAN
    BY <1>0, <1>1, <1>1a, Lists DEF TypeOK
  <2>2. since' \in 0..Interval + MaxFailures
    BY <1>1, SessionAssumption
  <2> QED BY <1>0, <1>1, <1>2, <2>1, <2>2 DEF TypeOK
<1>4. Control'
  <2>1. (since <= (IF auto THEN Interval ELSE Interval - 1) + failed)'
    BY <1>1, <1>1a, SessionAssumption
  <2> QED BY <1>0, <1>1, <1>2, <1>1a, <2>1, Lists DEF Control
<1>5. (current.status = "running" => Behind(manifest) /\ Behind(checkpoint))'
  <2>1. ASSUME NEW L \in SUBSET Jobs, NEW N, N \subseteq L \union {j}, Cardinality(L) <= since
        PROVE  Cardinality(N) <= since'
    <3>1. Cardinality(L) \in Nat /\ Cardinality(N) \in Nat /\ Cardinality(N) <= Cardinality(L) + 1
      BY <2>1, OneMore
    <3> QED BY <3>1, <2>1, <1>1
  <2>2. Lacks(manifest) \in SUBSET Jobs /\ Lacks(checkpoint) \in SUBSET Jobs
    BY DEF Lacks, Known
  <2>3. Lacks(manifest)' \subseteq Lacks(manifest) \union {j}
    BY <1>1, <1>2 DEF Lacks, Known
  <2>4. Lacks(checkpoint)' \subseteq Lacks(checkpoint) \union {j}
    BY <1>1, <1>2 DEF Lacks, Known
  <2>5. Behind(manifest) => Behind(manifest)'
    <3>1. Cardinality(Lacks(manifest)) <= since => Cardinality(Lacks(manifest)') <= since'
      BY <2>1, <2>2, <2>3
    <3> QED BY <3>1, <1>1 DEF Behind
  <2>6. Behind(checkpoint) => Behind(checkpoint)'
    <3>1. Cardinality(Lacks(checkpoint)) <= since => Cardinality(Lacks(checkpoint)') <= since'
      BY <2>1, <2>2, <2>4
    <3> QED BY <3>1, <1>1 DEF Behind
  <2> QED BY <2>5, <2>6, <1>0, <1>2 DEF Files
<1>6. Files'
  BY <1>0, <1>1, <1>2, <1>1a, <1>5, Lists DEF Files
<1> QED BY <1>3, <1>4, <1>6 DEF IInv

LEMMA UpdateIInv ==
    ASSUME IInv, NEW j \in Jobs, NEW s \in {"completed", "error"}, UpdateJob(j, s)
    PROVE  IInv'
<1>0. TypeOK /\ Control /\ Files /\ Active
  BY DEF IInv, UpdateJob
<1>1. /\ UNCHANGED <<manifest, checkpoint, proc, since, writes, truncated, auto, crashes, failed>>
      /\ writes = <<>> /\ proc = "up" /\ current.status # "none"
  BY <1>0 DEF UpdateJob, disk, Active, Ready
<1>2. /\ Truthful(current)' /\ Truthful(manifest)' /\ Truthful(checkpoint)'
      /\ (manifest.kind = "ok" /\ manifest.status = "running" /\ checkpoint.kind = "ok"
            => Leads(checkpoint, manifest))'
      /\ manifest.kind = "ok" => Leads(current, manifest)'
      /\ actual' \in [Jobs -> JobStatus] /\ current' \in Session
      /\ current'.status = current.status
      /\ Known(current)' = Known(current) \union {j}
  BY <1>0, <1>1, RecordFiles DEF IInv, UpdateJob
<1>3. TypeOK'
  BY <1>0, <1>1, <1>2 DEF TypeOK
<1>4. Control'
  BY <1>0, <1>1, <1>2, Lists DEF Control
<1>5. (current.status = "running" => Behind(manifest) /\ Behind(checkpoint))'
  <2>1. Known(current)' = Known(current)
    BY <1>2 DEF UpdateJob
  <2>2. Lacks(manifest)' = Lacks(manifest) /\ Lacks(checkpoint)' = Lacks(checkpoint)
    BY <1>1, <2>1 DEF Lacks, Known
  <2> QED BY <1>0, <1>1, <1>2, <2>2 DEF Files, Behind
<1>6. Files'
  BY <1>0, <1>1, <1>2, <1>5, Lists DEF Files
<1> QED BY <1>3, <1>4, <1>6 DEF IInv

\* Changing the status of the session, or nothing, and starting to write.
LEMMA StatusIInv ==
    ASSUME IInv, CreateCheckpoint \/ PauseSession \/ \E s \in {"completed", "failed", "paused"} : FinalizeSession(s)
    PROVE  IInv'
<1>0. TypeOK /\ Control /\ Files /\ Active
  BY DEF IInv, CreateCheckpoint, PauseSession, FinalizeSession
<1>1. /\ UNCHANGED <<manifest, checkpoint, since, truncated, auto, actual, crashes, failed>>
      /\ writes = <<>> /\ proc = "up" /\ current.status # "none" /\ ~auto
  <2>1. UNCHANGED <<manifest, checkpoint, since, truncated, auto, actual, crashes, failed>>
    BY DEF CreateCheckpoint, PauseSession, FinalizeSession, Write, disk
  <2> QED BY <2>1, <1>0, Lists DEF Control, Active, Ready
<1>2. /\ current' \in Session /\ current'.jobs = current.jobs /\ Known(current)' = Known(current)
      /\ \/ current'.status = current.status /\ writes' = CM /\ proc' = proc
         \/ current'.status = "paused" /\ writes' = CMM /\ proc' = proc
         \/ current'.status \in {"completed", "failed", "paused"} /\ writes' = M /\ proc' = "leaving"
  <2>1. ASSUME NEW s \in SessionStatus
        PROVE  LET c == [current EXCEPT !.status = s] IN
               c \in Session /\ c.jobs = current.jobs /\ c.status = s /\ Known(c) = Known(current)
    BY <1>0 DEF TypeOK, Session, Known
  <2>2. CASE CreateCheckpoint
    BY <2>2, <1>0, Lists DEF CreateCheckpoint, Write, TypeOK, Known
  <2>3. CASE PauseSession
    BY <2>1, <2>3, Lists DEF PauseSession, Write, SessionStatus, Known, M
  <2>4. ASSUME NEW s \in {"completed", "failed", "paused"}, FinalizeSession(s)
        PROVE  /\ current' \in Session /\ current'.jobs = current.jobs
               /\ Known(current)' = Known(current)
               /\ current'.status = s /\ writes' = M /\ proc' = "leaving"
    BY <2>1, <2>4 DEF FinalizeSession, Write, SessionStatus, Known, M
  <2> QED BY <2>2, <2>3, <2>4
<1>3. TypeOK'
  BY <1>0, <1>1, <1>2, Lists DEF TypeOK
<1>4. Control'
  BY <1>0, <1>1, <1>2, Lists DEF Control
<1>5. Files'
  <2>1. Lacks(manifest)' = Lacks(manifest) /\ Lacks(checkpoint)' = Lacks(checkpoint)
    BY <1>1, <1>2 DEF Lacks, Known
  <2>2. current'.status = "running" => current.status = "running"
    BY <1>2
  <2>3. (current.status = "running" => Behind(manifest) /\ Behind(checkpoint))'
    BY <1>0, <1>1, <2>1, <2>2 DEF Files, Behind
  <2> QED BY <1>0, <1>1, <1>2, <2>3, Lists DEF Files, Truthful, Leads
<1> QED BY <1>3, <1>4, <1>5 DEF IInv

LEMMA TruncateIInv == ASSUME IInv, Truncate PROVE IInv'
<1>0. TypeOK /\ Control /\ Files
  BY DEF IInv
<1>1. /\ UNCHANGED <<proc, current, since, writes, auto, actual, crashes, failed>>
      /\ truncated' = TRUE /\ writes # <<>>
      /\ \/ Head(writes) = "manifest" /\ manifest' = TornFile /\ checkpoint' = checkpoint
         \/ Head(writes) = "checkpoint" /\ checkpoint' = TornFile /\ manifest' = manifest
  BY DEF Truncate, PutFile
<1>2. TypeOK' /\ Control'
  BY <1>0, <1>1, Empty DEF TypeOK, Control
<1>3. /\ manifest'.kind = "ok" => manifest' = manifest
      /\ checkpoint'.kind = "ok" => checkpoint' = checkpoint
  BY <1>1, Empty
<1>4. Truthful(current)' /\ Truthful(manifest)' /\ Truthful(checkpoint)'
  BY <1>0, <1>1, Empty DEF Files, Truthful
<1>5. (current.status = "running" => Behind(manifest) /\ Behind(checkpoint))'
  BY <1>0, <1>1, <1>3 DEF Files, Behind, Lacks, Known
<1>6. Files'
  BY <1>0, <1>1, <1>3, <1>4, <1>5, Lists DEF Files, Leads, Saved
<1> QED BY <1>2, <1>6 DEF IInv

\* The process loses what it had in memory: at its death and at the end of a run.
LEMMA DownIInv ==
    ASSUME TypeOK, Truthful(manifest)', Truthful(checkpoint)', Down, actual' = actual,
           manifest' \in File, checkpoint' \in File,
           crashes' \in 0..MaxCrashes, failed' \in 0..MaxFailures,
           (manifest.kind = "ok" /\ manifest.status = "running" /\ checkpoint.kind = "ok"
              => Leads(checkpoint, manifest))',
           (manifest.kind = "ok" => manifest.status # "none")'
    PROVE  IInv'
<1>1. TypeOK'
  <2>1. 0 \in 0..Interval + MaxFailures
    BY SessionAssumption
  <2> QED BY <2>1, Lists, Empty DEF TypeOK, Down
<1>2. Control'
  <2>1. (since <= (IF auto THEN Interval ELSE Interval - 1) + failed)'
    <3>1. Interval - 1 \in Nat /\ failed' \in Nat
      BY SessionAssumption
    <3> QED BY <3>1 DEF Down
  <2> QED BY <2>1, Lists, Empty DEF Control, Down
<1>3. Files'
  BY Empty, Lists DEF Files, Truthful, Down
<1> QED BY <1>1, <1>2, <1>3 DEF IInv

LEMMA FinishIInv == ASSUME IInv, Finish PROVE IInv'
<1>0. TypeOK /\ Control /\ Files /\ truncated /\ UNCHANGED <<actual, crashes, failed>>
  BY DEF IInv, Finish
<1>1. /\ Saved(current) \in File /\ Saved(current).kind = "ok"
      /\ Saved(current).status = current.status /\ Saved(current).jobs = current.jobs
      /\ Known(Saved(current)) = Known(current)
  BY <1>0, Written DEF TypeOK
<1>2. current.status # "none" /\ writes \in {M, CM, MM, CMM} /\ proc # "down"
  BY <1>0, Lists DEF Control
<1>3. CASE writes \in {CM, CMM}
  <2>1. /\ checkpoint' = Saved(current) /\ manifest' = manifest
        /\ writes' = Tail(writes) /\ truncated' = FALSE
        /\ UNCHANGED <<proc, current, since, auto>>
    BY <1>3, Lists DEF Finish, PutFile
  <2>2. proc = "up"
    BY <1>0, <1>2, <1>3, Lists DEF Control, TypeOK
  <2>3. TypeOK' /\ Control'
    BY <1>0, <1>1, <1>3, <2>1, <2>2, Lists DEF TypeOK, Control
  <2>4. Truthful(current)' /\ Truthful(manifest)' /\ Truthful(checkpoint)'
    BY <1>0, <1>1, <2>1 DEF Files, Truthful
  <2>5. manifest.kind = "ok" => Leads(current, manifest)' /\ Leads(checkpoint, manifest)'
    BY <1>0, <1>1, <1>2, <2>1, <2>2 DEF Files, Leads
  <2>6. (current.status = "running" => Behind(manifest) /\ Behind(checkpoint))'
    <3>1. Lacks(checkpoint)' = {} /\ Lacks(manifest)' = Lacks(manifest)
      BY <1>1, <2>1 DEF Lacks, Known
    <3>2. Cardinality({}) = 0 /\ since' \in Nat
      BY <2>1, <1>0, SessionAssumption, FS_EmptySet DEF TypeOK
    <3> QED BY <1>0, <2>1, <3>1, <3>2 DEF Files, Behind
  <2>7. Files'
    BY <1>0, <1>1, <2>1, <2>4, <2>5, <2>6 DEF Files
  <2> QED BY <2>3, <2>7 DEF IInv
<1>4. CASE writes \in {M, MM}
  <2>1. manifest' = Saved(current) /\ checkpoint' = checkpoint
    BY <1>4, Lists DEF Finish, PutFile
  <2>2. Truthful(manifest)' /\ Truthful(checkpoint)'
    BY <1>0, <1>1, <2>1 DEF Files, Truthful
  <2>3. (manifest.kind = "ok" /\ manifest.status = "running" /\ checkpoint.kind = "ok"
           => Leads(checkpoint, manifest))'
    <3>1. SUFFICES ASSUME current.status = "running"
                   PROVE  Leads(checkpoint, manifest)'
      BY <1>1, <2>1
    <3>2. CASE proc = "starting"
      BY <1>0, <1>1, <2>1, <3>2 DEF Control, Known, Leads
    <3>3. CASE proc = "up"
      BY <1>0, <1>1, <1>4, <2>1, <3>1, <3>3, Lists DEF Control, Files, Leads
    <3> QED BY <1>0, <1>2, <3>1, <3>2, <3>3 DEF Control, TypeOK
  <2>4. CASE writes = MM
    <3>1. /\ writes' = M /\ truncated' = FALSE /\ UNCHANGED <<proc, current, since, auto>>
          /\ current.status = "paused" /\ proc = "up" /\ ~auto
      BY <1>0, <2>4, Lists DEF Finish, Control, TypeOK
    <3>2. TypeOK' /\ Control'
      BY <1>0, <1>1, <2>1, <3>1, Lists DEF TypeOK, Control
    <3>3. Files'
      BY <1>0, <1>1, <2>1, <2>2, <2>3, <3>1 DEF Files, Truthful, Leads
    <3> QED BY <3>2, <3>3 DEF IInv
  <2>5. CASE writes = M /\ proc = "leaving"
    <3>1. Down
      BY <2>5, Lists DEF Finish
    <3>2. (manifest.kind = "ok" => manifest.status # "none")'
      BY <1>1, <1>2, <2>1
    <3> QED BY <3>1, <3>2, <1>0, <1>1, <2>1, <2>2, <2>3, DownIInv DEF TypeOK
  <2>6. CASE writes = M /\ proc # "leaving"
    <3>1. /\ writes' = <<>> /\ truncated' = FALSE /\ auto' = FALSE /\ proc' = "up" /\ current' = current
          /\ since' = IF auto THEN 0 ELSE since
      BY <2>6, Lists DEF Finish
    <3>2. since' \in 0..Interval + MaxFailures /\ since' <= Interval - 1 + failed
      BY <1>0, <3>1, SessionAssumption DEF TypeOK, Control
    <3>3. TypeOK'
      BY <1>0, <1>1, <2>1, <3>1, <3>2, Lists DEF TypeOK
    <3>4. Control'
      BY <1>0, <1>2, <3>1, <3>2, Lists DEF Control
    <3>5. (current.status = "running" => Behind(manifest) /\ Behind(checkpoint))'
      <4>1. SUFFICES ASSUME current.status = "running"
                     PROVE  Behind(manifest)' /\ Behind(checkpoint)'
        BY <3>1
      <4>2. Cardinality({}) = 0 /\ since' \in Nat
        BY <3>2, FS_EmptySet
      <4>3. Lacks(manifest)' = {}
        BY <1>1, <2>1, <3>1 DEF Lacks, Known
      <4>4. CASE auto
        <5>1. checkpoint = Saved(current)
          BY <1>0, <2>6, <4>1, <4>4 DEF Files, Control
        <5>2. Lacks(checkpoint)' = {}
          BY <1>1, <2>1, <3>1, <5>1 DEF Lacks, Known
        <5> QED BY <4>2, <4>3, <5>2 DEF Behind
      <4>5. CASE ~auto
        <5>1. Lacks(checkpoint)' = Lacks(checkpoint)
          BY <2>1, <3>1 DEF Lacks, Known
        <5> QED BY <1>0, <2>1, <3>1, <4>1, <4>2, <4>3, <4>5, <5>1 DEF Behind, Files
      <4> QED BY <4>4, <4>5
    <3>6. Truthful(current)' /\ Leads(current, manifest)'
      BY <1>0, <1>1, <2>1, <3>1 DEF Files, Truthful, Leads
    <3>7. Files'
      BY <1>1, <1>2, <2>1, <2>2, <2>3, <3>1, <3>5, <3>6, Lists DEF Files
    <3> QED BY <3>3, <3>4, <3>7 DEF IInv
  <2> QED BY <1>4, <2>4, <2>5, <2>6
<1> QED BY <1>2, <1>3, <1>4

LEMMA RaiseIInv == ASSUME IInv, Raise PROVE IInv'
<1>0. /\ TypeOK /\ Control /\ Files /\ UNCHANGED <<manifest, checkpoint, actual, crashes>>
      /\ failed' = failed + 1 /\ failed' \in 0..MaxFailures
  BY SessionAssumption DEF IInv, Raise, disk, TypeOK
<1>1. CASE proc # "up"
  <2>1. Down
    BY <1>1 DEF Raise
  <2> QED BY <2>1, <1>0, DownIInv DEF TypeOK, Files, Truthful, Leads
<1>2. CASE proc = "up"
  <2>1. writes' = <<>> /\ truncated' = FALSE /\ auto' = FALSE /\ UNCHANGED <<proc, current, since>>
    BY <1>2 DEF Raise
  <2>2. (since <= (IF auto THEN Interval ELSE Interval - 1) + failed)'
    BY <1>0, <2>1, SessionAssumption DEF Control, TypeOK
  <2>3. TypeOK' /\ Control'
    BY <1>0, <1>2, <2>1, <2>2, Lists DEF TypeOK, Control
  <2>4. Files'
    BY <1>0, <2>1, Lists DEF Files, Truthful, Leads, Behind, Lacks
  <2> QED BY <2>3, <2>4 DEF IInv
<1> QED BY <1>1, <1>2

LEMMA CrashIInv == ASSUME IInv, Crash PROVE IInv'
<1>1. /\ UNCHANGED <<manifest, checkpoint, actual, failed>> /\ Down
      /\ crashes' \in 0..MaxCrashes
  BY SessionAssumption DEF IInv, Crash, disk, TypeOK
<1> QED BY <1>1, DownIInv DEF IInv, TypeOK, Files, Truthful, Leads

LEMMA RestartIInv == ASSUME IInv, Restart PROVE IInv'
<1>0. /\ TypeOK /\ Control /\ Files /\ proc' = "up" /\ writes = <<>> /\ ~truncated /\ ~auto
      /\ UNCHANGED <<since, writes, truncated, auto, manifest, checkpoint, actual, crashes, failed>>
      /\ current = NoSession
  BY Lists DEF IInv, Restart, disk, Control
<1>1. CASE UNCHANGED current
  <2>1. TypeOK' /\ Control'
    BY <1>0, <1>1, Lists DEF TypeOK, Control
  <2>2. Files'
    BY <1>0, <1>1, Empty, Lists DEF Files, Truthful, Leads
  <2> QED BY <2>1, <2>2 DEF IInv
<1>2. CASE Resumable /\ current' = [status |-> manifest.status, jobs |-> manifest.jobs]
  <2>1. current' \in Session /\ current'.status = manifest.status /\ current'.jobs = manifest.jobs
    BY <1>0, <1>2 DEF TypeOK, File, Session
  <2>2. TypeOK'
    BY <1>0, <2>1 DEF TypeOK
  <2>3. manifest.kind = "ok"
    BY <1>2 DEF Resumable, Loadable
  <2>4. Control'
    BY <1>0, <2>1, <2>3, Lists DEF Control, Files
  <2>5. Truthful(current)' /\ Truthful(manifest)' /\ Truthful(checkpoint)' /\ Leads(current, manifest)'
    BY <1>0, <2>1 DEF Files, Truthful, Leads
  <2>6. (current.status = "running" => Behind(manifest) /\ Behind(checkpoint))'
    <3>1. Lacks(manifest)' = {}
      BY <1>0, <2>1 DEF Lacks, Known
    <3>2. manifest.status = "running" /\ checkpoint.kind = "ok" => Lacks(checkpoint)' = {}
      BY <1>0, <2>1, <2>3 DEF Files, Leads, Lacks, Known
    <3>3. Cardinality({}) = 0 /\ since' \in Nat
      BY <1>0, SessionAssumption, FS_EmptySet DEF TypeOK
    <3>4. Behind(manifest)'
      BY <3>1, <3>3 DEF Behind
    <3>5. current'.status = "running" => Behind(checkpoint)'
      <4> SUFFICES ASSUME current'.status = "running", checkpoint'.kind = "ok"
                   PROVE  Cardinality(Lacks(checkpoint)') <= since'
        BY DEF Behind
      <4>1. Lacks(checkpoint)' = {}
        BY <1>0, <2>1, <3>2
      <4> QED BY <3>3, <4>1
    <3> QED BY <3>4, <3>5
  <2>7. Files'
    BY <1>0, <2>3, <2>1, <2>5, <2>6, Lists DEF Files, Leads
  <2> QED BY <2>2, <2>4, <2>7 DEF IInv
<1> QED BY <1>1, <1>2 DEF Restart

LEMMA NextIInv == IInv /\ [Next]_vars => IInv'
<1> SUFFICES ASSUME IInv, [Next]_vars PROVE IInv'
  OBVIOUS
<1>1. CASE UNCHANGED vars
  BY <1>1 DEF IInv, TypeOK, Control, Files, Truthful, Leads, Behind, Lacks, vars, memory, disk
<1>2. CASE Next
  BY <1>2, CreateIInv, AddIInv, UpdateIInv, StatusIInv, TruncateIInv, FinishIInv, RaiseIInv,
     CrashIInv, RestartIInv DEF Next
<1> QED BY <1>1, <1>2

LEMMA Invariance == Spec => []IInv
BY InitIInv, NextIInv, PTL DEF Spec

-----------------------------------------------------------------------------
(* The theorems.                                                           *)

\* Memory and disk hold well-typed values, and the counter of add_job is bounded.
THEOREM TypeCorrect == Spec => []TypeOK
<1>1. IInv => TypeOK
  BY DEF IInv
<1> QED BY <1>1, Invariance, PTL

\* What get_resume_state() reports of a job that ended is how it ended, after any
\* crashes and failed writes.
THEOREM ResumeIsTruthful == Spec => []ResumeTellsTruth
<1>1. IInv => ResumeTellsTruth
  BY DEF IInv, Files, Truthful, ResumeTellsTruth, ResumeState
<1> QED BY <1>1, Invariance, PTL

\* A resume of a running session misses at most checkpoint_interval jobs, and one
\* more for each write that failed.
THEOREM LossIsBounded == Spec => []LossBounded
<1>1. IInv => LossBounded
  <2> SUFFICES ASSUME IInv, current.status = "running", Loadable
               PROVE  Cardinality(Missing) <= Interval + failed
    BY DEF LossBounded
  <2>1. since \in Nat /\ failed \in Nat /\ since <= Interval + failed
    BY SessionAssumption DEF IInv, TypeOK, Control
  <2>2. Missing = IF checkpoint.kind = "ok" THEN Lacks(checkpoint) ELSE Lacks(manifest)
    BY DEF Missing, ResumeState, Lacks
  <2>3. Missing \in SUBSET Jobs /\ Cardinality(Missing) \in Nat
    BY SessionAssumption, FS_Subset, FS_CardinalityType DEF Missing, Known
  <2>4. Cardinality(Missing) <= since
    BY <2>2 DEF IInv, Files, Behind, Loadable
  <2> QED BY <2>1, <2>3, <2>4, SessionAssumption
<1> QED BY <1>1, Invariance, PTL

\* The newest checkpoint that parses is never behind a manifest that says "running".
THEOREM CheckpointsLead == Spec => []CheckpointLeads
<1>1. IInv => CheckpointLeads
  BY DEF IInv, Files, Leads, CheckpointLeads
<1> QED BY <1>1, Invariance, PTL
=============================================================================
