----------------------------- MODULE EngineRun -----------------------------
(***************************************************************************)
(* Runs of the engine (main.py) one after the other on the same disk: the  *)
(* orchestrator, its CheckpointResumeManager (checkpoint_resume.py) and    *)
(* its OutputHandler (output_handler.py).                                  *)
(*                                                                         *)
(* A run makes a new session or is given an earlier one to resume.  It is  *)
(* told to stop by signals and killed at any moment.  What the client does *)
(* for a batch is in ApiClient, how a manifest survives a torn write in    *)
(* SessionManager.  A second is a run: ids made from the time are the      *)
(* run's number, once as a session and once as a checkpoint.  main.py      *)
(* never adds a job to the session, so that a manifest is its status.      *)
(***************************************************************************)
EXTENDS Integers, FiniteSets, FiniteSetsExt

CONSTANTS
    Jobs,           \* the positions of a batch
    Interval,       \* checkpoint_interval
    Downloads,      \* permits of _download_semaphore
    MaxRuns         \* bound: runs of the program

Runs == 1..MaxRuns
SessionId(r) == <<"session", r>>
CheckpointId(r) == <<"chk", r>>
Sessions == {SessionId(r) : r \in Runs}
Idle == <<"session", 0>>

VARIABLES
    run,            \* the number of the process
    stage,          \* where run_batch() is
    session,        \* _session_id
    result,         \* what became of each job of this batch
    tracked,        \* completed_jobs and failed_jobs of _current_checkpoint
    saves,          \* tasks of _save_checkpoint() not run yet
    asked,          \* _shutdown_event
    fetching,       \* downloads that hold a permit
    manifest,       \* disk: the status in each session's manifest
    files,          \* disk: the checkpoint files
    outputs,        \* disk: results of a run that were downloaded with metadata
    gone,           \* results of a run whose download failed
    completed,      \* history: jobs a session has completed in any run
    repeated        \* history: jobs a run has made again although it resumed

disk == <<manifest, files, outputs, gone>>
history == <<completed, repeated>>
batch == <<session, result, tracked, saves, fetching>>
vars == <<run, stage, batch, asked, disk, history>>

Path == [emergency : BOOLEAN, prefix : {CheckpointId(r) : r \in Runs} \union Sessions,
         run : Runs, completed : SUBSET Jobs, failed : SUBSET Jobs, pending : {{}}]

TypeOK ==
    /\ run \in 0..MaxRuns
    /\ stage \in {"down", "up", "batch", "outputs", "finish", "close"}
    /\ session \in Sessions \union {Idle}
    /\ result \in [Jobs -> {"pending", "completed", "error"}]
    /\ tracked \in [completed : SUBSET Jobs, failed : SUBSET Jobs]
    /\ saves \in Nat /\ asked \in BOOLEAN
    /\ fetching \subseteq Jobs
    /\ manifest \in [Sessions -> {"none", "running", "paused", "completed"}]
    /\ files \subseteq Path
    /\ outputs \subseteq Runs \X Jobs /\ gone \subseteq Runs \X Jobs
    /\ completed \in [Sessions -> SUBSET Jobs]
    /\ repeated \subseteq Sessions \X Jobs

NoneTracked == [completed |-> {}, failed |-> {}]

Init ==
    /\ run = 0 /\ stage = "down" /\ session = Idle
    /\ result = [j \in Jobs |-> "pending"]
    /\ tracked = NoneTracked /\ saves = 0 /\ asked = FALSE /\ fetching = {}
    /\ manifest = [s \in Sessions |-> "none"]
    /\ files = {} /\ outputs = {} /\ gone = {}
    /\ completed = [s \in Sessions |-> {}] /\ repeated = {}

-----------------------------------------------------------------------------
(* The process comes and goes.                                             *)

\* The checkpoint manager installs its signal handlers, then the engine its own in
\* their place.  The server may not answer the health check.
Launch ==
    /\ stage = "down" /\ run < MaxRuns
    /\ run' = run + 1
    /\ stage' \in {"up", "down"}
    /\ asked' = FALSE
    /\ UNCHANGED <<batch, disk, history>>

Gone ==
    /\ stage' = "down" /\ session' = Idle
    /\ result' = [j \in Jobs |-> "pending"]
    /\ tracked' = NoneTracked /\ saves' = 0 /\ fetching' = {}

\* Killed, or ended by an exception of the batch.
Die ==
    /\ stage # "down"
    /\ Gone
    /\ UNCHANGED <<run, asked, disk, history>>

\* SIGTERM or SIGINT sets an event nobody waits for.
Signal ==
    /\ stage # "down" /\ ~asked
    /\ asked' = TRUE
    /\ UNCHANGED <<run, stage, batch, disk, history>>

-----------------------------------------------------------------------------
(* The checkpoint manager.                                                 *)

\* _checkpoint_path(session_id, checkpoint_id) is given the checkpoint_id twice.
SavedAs(emergency) ==
    [emergency |-> emergency, prefix |-> CheckpointId(run), run |-> run,
     completed |-> tracked.completed, failed |-> tracked.failed, pending |-> {}]

Overwrite(file) == {f \in files : f.emergency # file.emergency \/ f.prefix # file.prefix} \union {file}
Matching(s) == {f \in files : f.prefix = s}

\* get_resume_state(): an emergency file first, else the latest file of a session that
\* is not completed.  Nothing fills pending_configs.
Latest(fs) == CHOOSE f \in fs : \A g \in fs : g.run <= f.run
ResumeFiles(s) ==
    LET emergency == {f \in Matching(s) : f.emergency} IN
    IF emergency # {} THEN emergency
    ELSE IF manifest[s] \in {"running", "paused"} THEN Matching(s) ELSE {}
RemainingConfigs(s) == IF ResumeFiles(s) = {} THEN {} ELSE Latest(ResumeFiles(s)).pending

\* start_batch(): create_session() overwrites the manifest of a resumed session.
StartBatch(s) ==
    /\ session' = s
    /\ manifest' = [manifest EXCEPT ![s] = "running"]
    /\ tracked' = NoneTracked

\* run_batch() up to the client's.
RunBatch(resumed) ==
    /\ stage = "up"
    /\ \E s \in IF resumed THEN {SessionId(r) : r \in 1..run} ELSE {SessionId(run)} :
        /\ resumed => manifest[s] # "none"
        /\ StartBatch(s)
        /\ LET left == RemainingConfigs(s) IN
           result' = [j \in Jobs |-> IF left = {} \/ j \in left THEN "pending" ELSE "completed"]
    /\ stage' = "batch"
    /\ UNCHANGED <<run, asked, saves, fetching, files, outputs, gone, history>>

\* The server ends a job.
EndJob(j, r) ==
    /\ stage = "batch" /\ result[j] = "pending"
    /\ result' = [result EXCEPT ![j] = r]
    /\ completed' = IF r = "completed" THEN [completed EXCEPT ![session] = @ \union {j}] ELSE completed
    /\ repeated' = IF j \in completed[session] THEN repeated \union {<<session, j>>} ELSE repeated
    /\ UNCHANGED <<run, stage, session, tracked, saves, asked, fetching, disk>>

With(r) == {j \in Jobs : result[j] = r}

\* A bug UpdateProgress could have: whatever ended counts as completed.
UpdateProgressAny ==
    /\ stage = "batch" /\ With("pending") = {}
    /\ tracked' = [completed |-> Jobs, failed |-> {}]
    /\ saves' = Cardinality(Jobs) \div Interval
    /\ stage' = IF With("completed") # {} THEN "outputs" ELSE "finish"
    /\ UNCHANGED <<run, session, result, asked, fetching, disk, history>>

\* Only now, in one go, update_progress() is called for every job; the tasks it makes
\* run at the next await.
UpdateProgress ==
    /\ stage = "batch" /\ With("pending") = {}
    /\ tracked' = [completed |-> With("completed"), failed |-> With("error")]
    /\ saves' = Cardinality(Jobs) \div Interval
    /\ stage' = IF With("completed") # {} THEN "outputs" ELSE "finish"
    /\ UNCHANGED <<run, session, result, asked, fetching, disk, history>>

SaveCheckpoint ==
    /\ saves > 0
    /\ saves' = saves - 1
    /\ files' = Overwrite(SavedAs(FALSE))
    /\ UNCHANGED <<run, stage, session, result, tracked, asked, fetching, manifest, outputs, gone, history>>

-----------------------------------------------------------------------------
(* The output handler: one file per job, at most five at a time.           *)

Handled == {j \in Jobs : <<run, j>> \in outputs \union gone}

Fetch(j) ==
    /\ stage = "outputs"
    /\ j \in With("completed") \ (Handled \union fetching)
    /\ Cardinality(fetching) < Downloads
    /\ fetching' = fetching \union {j}
    /\ UNCHANGED <<run, stage, session, result, tracked, saves, asked, disk, history>>

\* _download_single() with its metadata, or any exception in it.
Fetched(j) ==
    /\ j \in fetching
    /\ fetching' = fetching \ {j}
    /\ \/ outputs' = outputs \union {<<run, j>>} /\ UNCHANGED gone
       \/ gone' = gone \union {<<run, j>>} /\ UNCHANGED outputs
    /\ UNCHANGED <<run, stage, session, result, tracked, saves, asked, manifest, files, history>>

\* A bug ProcessBatch could have: it does not wait for the downloads.
ProcessBatchUnwaited ==
    /\ stage = "outputs"
    /\ stage' = "finish"
    /\ UNCHANGED <<run, batch, asked, disk, history>>

\* process_batch(): gather() waits for all.
ProcessBatch ==
    /\ stage = "outputs" /\ With("completed") \subseteq Handled
    /\ stage' = "finish"
    /\ UNCHANGED <<run, batch, asked, disk, history>>

-----------------------------------------------------------------------------

\* finalize_batch(): its pattern matches no file.
Finalize ==
    /\ stage = "finish"
    /\ stage' = "close"
    /\ manifest' = [manifest EXCEPT ![session] = "completed"]
    /\ files' = files \ Matching(session)
    /\ UNCHANGED <<run, batch, asked, outputs, gone, history>>

\* close(), and asyncio.run() cancels the tasks that are left.
Close ==
    /\ stage = "close"
    /\ Gone
    /\ UNCHANGED <<run, asked, disk, history>>

\* cleanup_old_checkpoints() of another process.
CleanUp(f) ==
    /\ f.run < run
    /\ files' = files \ {f}
    /\ UNCHANGED <<run, stage, batch, asked, manifest, outputs, gone, history>>

NoMoreRuns == stage = "down" /\ run = MaxRuns /\ UNCHANGED vars

Next ==
    \/ Launch \/ Die \/ Signal
    \/ \E resumed \in BOOLEAN : RunBatch(resumed)
    \/ \E j \in Jobs, r \in {"completed", "error"} : EndJob(j, r)
    \/ UpdateProgress \/ SaveCheckpoint
    \/ \E j \in Jobs : Fetch(j) \/ Fetched(j)
    \/ ProcessBatch \/ Finalize \/ Close
    \/ \E f \in files : CleanUp(f)
    \/ NoMoreRuns

Spec == Init /\ [][Next]_vars

-----------------------------------------------------------------------------
(* Properties.                                                             *)

\* Once the manifest of the session being run says "completed", whatever it said
\* before this run, its jobs have ended and what completed was downloaded or reported
\* as failed: a run that is killed before leaves a session that can be resumed.
CompletedIsWhole ==
    session # Idle /\ manifest[session] = "completed" =>
        \A j \in Jobs : result[j] = "error" \/ <<run, j>> \in outputs \union gone

\* A checkpoint file names as completed what its run completed: the download of such
\* a job is possible, and no failed job hides among them.
CheckpointIsHonest ==
    \A f \in files :
        /\ f.completed \intersect f.failed = {}
        /\ \E s \in Sessions : f.completed \subseteq completed[s]

\* README "Resume interrupted batch", and CheckpointResumeManager "Resume from last
\* checkpoint on restart": what a session has completed is not made again.
ResumedIsNotRepeated == repeated = {}

\* README "Checkpoint/Resume - Emergency on SIGTERM": a run that died after the signal
\* has left an emergency checkpoint.
SignalSaves ==
    stage = "down" /\ asked => \/ \E f \in files : f.emergency /\ f.run = run
                               \/ \E s \in Sessions : manifest[s] = "completed"
=============================================================================
