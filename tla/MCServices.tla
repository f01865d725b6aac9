----------------------------- MODULE MCServices -----------------------------
(***************************************************************************)
(* The services inside the engine, side by side.  They share nothing: in a *)
(* behaviour one of them runs, the one in focus, and the others stay as    *)
(* they start, so that the states add up instead of multiplying.           *)
(***************************************************************************)
EXTENDS Integers, Sequences, FiniteSets

CONSTANTS
    CacheCallers, Warmers, Names, ModelSize, MaxMemory, MaxModels, Policies, MaxWarming,
    MaxPressure,                                                            \* of Cache
    Ids, Topics, MaxConnections, RateLimit, MaxSockets, MaxEvents, MaxBeats,    \* of Stream
    Members, Stoppers, Priorities, MailboxSize, MaxMessages, MaxStarts,     \* of Actor
    FailedJobs, MaxEntries, MaxFailures,                                    \* of Letters
    NumItems, BatchSize,                                                    \* of Batch
    QueuedJobs, JobPriority, QueueSize, Timed, Consumers, RateInterval, QueueTime,  \* of Queue
    BatchJobs, CheckpointInterval, Downloads, MaxRuns,                      \* of Run
    NumGenes, Values, PopulationSize, EliteCount, Tournament, Generations, MaxStagnation,
    Mutating, MaxFitness, Scored,                                           \* of Genetic
    NumVariants, Counts, MaxTime, MinSamples, MaxSamples,                   \* of Trial
    Branches, Target, AutoCreate, Pushing, MaxCommits                       \* of Git

ASSUME CacheParameters ==
    /\ IsFiniteSet(CacheCallers) /\ {"monitor", "shutdown", "free"} \intersect CacheCallers = {}
    /\ IsFiniteSet(Names) /\ ModelSize \in [Names -> Nat] /\ MaxPressure \in Nat
ASSUME StreamParameters ==
    /\ IsFiniteSet(Ids) /\ MaxConnections \in Nat /\ RateLimit \in Nat
    /\ MaxSockets \in Nat /\ MaxEvents \in Nat /\ MaxBeats \in Nat
ASSUME ActorParameters == {MailboxSize, MaxMessages, MaxStarts} \subseteq Nat
ASSUME LettersParameters == IsFiniteSet(FailedJobs) /\ MaxEntries \in Nat /\ MaxFailures \in Nat
ASSUME BatchParameters == NumItems \in Nat
ASSUME QueueParameters ==
    /\ JobPriority \in [QueuedJobs -> Int]
    /\ {QueueSize, RateInterval, QueueTime} \subseteq Nat
ASSUME RunParameters ==
    MaxRuns \in Nat /\ IsFiniteSet(BatchJobs) /\ CheckpointInterval \in Nat \ {0}
ASSUME GeneticParameters ==
    /\ {PopulationSize, EliteCount, Generations} \subseteq Nat \ {0}
    /\ EliteCount <= PopulationSize /\ {MaxStagnation, MaxFitness} \subseteq Nat
ASSUME TrialParameters ==
    NumVariants \in Nat /\ MaxTime \in Nat /\ Counts \subseteq Nat /\ IsFiniteSet(Counts)
ASSUME GitParameters == Target \in Branches

VARIABLES
    focus,
    \* of Cache:
    policy, cache, ref, memory, lock, at, name, held, unloaded, victims, last, pressure,
    \* of Stream:
    running, conn, wants, aged, active, count, id, handler, broken, failed, found,
    shared, queue, events, beats,
    \* of Actor:
    registered, mailbox, expired, made, processing, stopped, run, task, hand, handled, waits,
    \* of Letters:
    entries, files, lettersMade, old, replaying,
    \* of Batch:
    read, buffer, dirty, main, mainBatch, watcher, watcherBatch, delivered, batchFailed,
    \* of Queue:
    now, created, queueQueue, waiting, refused, taken, consumer, until, lastDequeue,
    \* of Run:
    runRun, stage, session, result, tracked, saves, asked, fetching, manifest, runFiles,
    outputs, gone, completed, repeated,
    \* of Genetic:
    phase, population, bestFitness, generation, best, stagnation, lastBest, file,
    \* of Trial:
    results, winner, status, metrics, verdict,
    \* of Git:
    step, git, ignore, exposed, changed, staged, current, local, remote, commits, gitResult

Cache == INSTANCE ModelCache WITH Callers <- CacheCallers, Size <- ModelSize
Stream == INSTANCE StreamServer
Actor == INSTANCE Actors
Letters == INSTANCE DeadLetters WITH Jobs <- FailedJobs, made <- lettersMade
Batch == INSTANCE Batching WITH MaxSize <- BatchSize, failed <- batchFailed
Queue == INSTANCE JobQueue WITH Jobs <- QueuedJobs, Priority <- JobPriority,
        MaxSize <- QueueSize, Interval <- RateInterval, MaxTime <- QueueTime, queue <- queueQueue
Run == INSTANCE EngineRun WITH Jobs <- BatchJobs, Interval <- CheckpointInterval,
        run <- runRun, files <- runFiles
Genetic == INSTANCE GeneticOptimizer WITH Size <- PopulationSize
Trial == INSTANCE Experiments
Git == INSTANCE GitSync WITH Push <- Pushing, result <- gitResult

cacheVars == <<policy, cache, ref, memory, lock, at, name, held, unloaded, victims, last,
        pressure>>
streamVars == <<running, conn, wants, aged, active, count, id, handler, broken, failed, found,
        shared, queue, events, beats>>
actorVars == <<registered, mailbox, expired, made, processing, stopped, run, task, hand,
        handled, waits>>
lettersVars == <<entries, files, lettersMade, old, replaying>>
batchVars == <<read, buffer, dirty, main, mainBatch, watcher, watcherBatch, delivered,
        batchFailed>>
queueVars == <<now, created, queueQueue, waiting, refused, taken, consumer, until, lastDequeue>>
runVars == <<runRun, stage, session, result, tracked, saves, asked, fetching, manifest,
        runFiles, outputs, gone, completed, repeated>>
geneticVars == <<phase, population, bestFitness, generation, best, stagnation, lastBest, file>>
trialVars == <<results, winner, status, metrics, verdict>>
gitVars == <<step, git, ignore, exposed, changed, staged, current, local, remote, commits,
        gitResult>>
vars == <<focus, cacheVars, streamVars, actorVars, lettersVars, batchVars, queueVars, runVars,
            geneticVars, trialVars, gitVars>>

\* All the components but one stay as they are.
Only(x) ==
    /\ IF x = "cache" THEN TRUE ELSE UNCHANGED cacheVars
    /\ IF x = "stream" THEN TRUE ELSE UNCHANGED streamVars
    /\ IF x = "actor" THEN TRUE ELSE UNCHANGED actorVars
    /\ IF x = "letters" THEN TRUE ELSE UNCHANGED lettersVars
    /\ IF x = "batch" THEN TRUE ELSE UNCHANGED batchVars
    /\ IF x = "queue" THEN TRUE ELSE UNCHANGED queueVars
    /\ IF x = "run" THEN TRUE ELSE UNCHANGED runVars
    /\ IF x = "genetic" THEN TRUE ELSE UNCHANGED geneticVars
    /\ IF x = "test" \/ x = "experiment" THEN TRUE ELSE UNCHANGED trialVars
    /\ IF x = "git" THEN TRUE ELSE UNCHANGED gitVars
    /\ UNCHANGED focus

CacheStep == focus = "cache" /\ Cache!Next /\ Only("cache")
StreamStep == focus = "stream" /\ Stream!Next /\ Only("stream")
ActorStep == focus = "actor" /\ Actor!Next /\ Only("actor")
LettersStep == focus = "letters" /\ Letters!Next /\ Only("letters")
BatchStep == focus = "batch" /\ Batch!Next /\ Only("batch")
QueueStep == focus = "queue" /\ Queue!Next /\ Only("queue")
RunStep == focus = "run" /\ Run!Next /\ Only("run")
GeneticStep == focus = "genetic" /\ Genetic!Next /\ Only("genetic")
TestStep == focus = "test" /\ Trial!TestNext /\ Only("test")
ExperimentStep == focus = "experiment" /\ Trial!ExperimentNext /\ Only("experiment")
GitStep == focus = "git" /\ Git!Next /\ Only("git")

Next ==
    \/ CacheStep
    \/ StreamStep
    \/ ActorStep
    \/ LettersStep
    \/ BatchStep
    \/ QueueStep
    \/ RunStep
    \/ GeneticStep
    \/ TestStep
    \/ ExperimentStep
    \/ GitStep

Init ==
    /\ focus \in {"cache", "stream", "actor", "letters", "batch", "queue", "run", "genetic", "test", "experiment", "git"}
    /\ Cache!Init /\ Stream!Init /\ Actor!Init /\ Letters!Init /\ Batch!Init
    /\ Queue!Init /\ Run!Init /\ Genetic!Init /\ Trial!Init /\ Git!Init
    /\ focus = "cache" \/ policy = "lru"
    /\ focus = "stream" \/ \A r, s \in DOMAIN id : id[r] = id[s]
    /\ focus = "git" \/ (changed = {} /\ ignore.mentioned /\ ignore.inForce)

Spec == Init /\ [][Next]_vars

-----------------------------------------------------------------------------
TypeOK ==
    /\ Cache!TypeOK /\ Stream!TypeOK /\ Actor!TypeOK /\ Letters!TypeOK /\ Batch!TypeOK
    /\ Queue!TypeOK /\ Run!TypeOK /\ Genetic!TypeOK /\ Trial!TypeOK /\ Git!TypeOK

\* Nothing is counted twice or forgotten by tasks that share a table across an await: the
\* memory of the cached models, the items of a batch, and the messages of an actor.
NothingTwice ==
    /\ Cache!MemoryAccounted /\ Cache!CachedIsLoaded
    /\ Batch!EachItemOnce
    /\ Actor!HandledOnce

\* A client of the streaming server that is registered is served, and one that is served is
\* registered, within the limit, whatever races a broadcast or a sweep - but for those that
\* came back under an id before its earlier use was over, and the ones they met.
ServedIsRegistered == Stream!RegisteredIsServed /\ Stream!ServedIsRegistered /\ Stream!CapacityKept

\* What is on disk is true: of the checkpoint of a run, of the dead letters and their order,
\* and of what is committed to the repository under a .gitignore that means what it says.
DiskIsTrue ==
    /\ Run!CompletedIsWhole /\ Run!CheckpointIsHonest
    /\ Letters!RemovedStaysAway /\ Letters!OldestFirst
    /\ Git!OutputsStayOut

\* The first in an order is the one that is taken: a job of the queue, the winner of a test and
\* the chromosomes to keep.
FirstIsTaken ==
    /\ Queue!FirstMadeFirst
    /\ Trial!WinnerIsFastest
    /\ Genetic!EliteLives

\* The jobs of a session that was resumed are not run again ("Resume interrupted batch",
\* README.md:268, and "Resume from last checkpoint on restart", checkpoint_resume.py:62).
ResumedIsNotRepeated == Run!ResumedIsNotRepeated

\* A model that does not fit is given room ("LRU eviction policy", model_cache.py:78): the task
\* that evicts comes to its end.
EvictionEnds == Cache!EvictionEnds

-----------------------------------------------------------------------------
(* The constants that a configuration cannot write down.                   *)

MCModelSize == [n \in {"a", "b"} |-> IF n = "a" THEN 2 ELSE 1]
MCJobPriority == [j \in {1, 2, 3} |-> IF j = 1 THEN 1 ELSE 2]
=============================================================================
