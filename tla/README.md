# comfyui-engine: verification project

TLA+ models, TLC configurations and TLAPS proofs for the engine that submits
image-generation workflows to a ComfyUI GPU server. Paths below are relative to
the repository (`src/` in `PROJECT.json`).

## 1. The system

The engine is one asyncio process, or several that share a Redis. `main.py`
generates prompts, builds a batch of jobs and hands it to `ComfyUIAsyncClient`,
which posts each workflow to ComfyUI and polls `/history` for the result. Around
this path stand optional subsystems, some of them alternatives to each other.

| Component | State | Operations | Interacts with | What is hard |
|---|---|---|---|---|
| Circuit breaker (`engine/circuit_breaker.py`) | state, failure and success counters, half-open quota, time of the last failure | `call` = admit, await, record | every POST of the API client | admission and outcome are two critical sections with an await between; late and cancelled calls |
| API client, retry (`engine/api_client.py`, `retry.py`) | `_jobs`, semaphore, counters | `run_batch`, `run_job`, `submit_job`, `_poll_job` | breaker, ComfyUI server, session callbacks | lost answers and retries, timeouts, four ways out of one semaphore |
| Distributed queue (`engine/distributed_queue.py`) | Redis: hash of records, sorted sets pending, claimed, dead; per process: claim loop, tasks, cleanup loop | `enqueue`, `claim_job`, `complete_job`, `cleanup_stale_claims` | other engine processes through Redis | no transactions: other processes and crashes between any two commands |
| Session manager (`engine/session_manager.py`) | current session, counter; on disk a manifest and checkpoints | `create_`, `load_`, `pause_`, `finalize_session`, `add_job`, `update_job`, `create_checkpoint`, `get_resume_state` | `main.py` calls it from the progress callback of the client | crashes inside a write, failing writes, two files that may disagree |
| Checkpoint/resume, entry point (`engine/checkpoint_resume.py`, `main.py`, `engine/output_handler.py`) | checkpoint files, manifests, outputs | start, resume, `update_progress`, `_save_checkpoint`, downloads, signals, `cleanup` | session manager, client | kills at any moment, signal handlers that replace each other, file names |
| Actor system (`engine/actor/`) | mailboxes, registry, one processor task per start | `send`, `receive`, `start`, `stop`, routing, broadcast | actors among themselves | expiry against order, stop from inside a handler |
| WebSocket client (`engine/websocket_manager.py`) | connection state, outgoing queue, three tasks | `connect`, `disconnect`, `_receive_loop`, `_reconnect`, `_heartbeat_loop` | ComfyUI server | tasks that cancel each other, reconnect races |
| WebSocket server (`engine/websocket_stream.py`, `api_server_ws.py`) | registry of connections, subscriptions, event queue | `register`, `unregister`, `broadcast`, heartbeat sweep | UI clients | ids used again, unregistering after the lock is released |
| Cluster coordinator and worker (`engine/cluster_manager.py`) | local jobs; Redis: nodes, active set, job queue, models | `register`, heartbeats, `submit_job`, scheduler, monitor, `poll`, `report` | hosts through one Redis, ComfyUI | records written back over newer ones, reports lost |
| Regions (`engine/multi_region_manager.py`) | health of each region | check loop, routing, maintenance, replication | HTTP | checks that overtake a maintenance switch |
| Custom nodes (`engine/node_discovery.py`) | directories, package sets | `install_node`, `update_node`, scan, version checks | git, pip, other processes | two processes at one directory |
| Model cache (`engine/model_cache.py`) | cached models, memory, one `asyncio.Lock` | `get_model`, `_ensure_space`, `_unload_model`, warm-up, monitor, shutdown | GPU memory | loads outside the lock, a lock taken twice |
| Job queue, batches, dead letters (`engine/queue.py`, `batch.py`, `dead_letter_queue.py`) | heap; buffer; entries and their files | `enqueue`, `dequeue`; `run` and its watcher; `add`, `replay`, `load_from_disk` | client | two tasks at one buffer, two entries with one file |
| Worker pool, bridge (`engine/worker_pool.py`, `subprocess_bridge.py`) | child processes, pending calls | `call`, reader, health monitor, `stop` | child processes | answers against timeouts, death and stalls of a child |
| Shutdown (`engine/shutdown_manager.py`) | flag, callbacks | signal, drain, cleanup | all of the above | several signals, drains that hang |
| Auto-scalers, cloud, costs (`engine/auto_scaler.py`, `gpu_autoscaler.py`, `cloud_providers.py`, `cost_optimizer.py`) | instances, cooldowns, prices | decide, launch, terminate, wait for spot, schedule | cloud APIs | decisions on stale counts, cancellation in the middle |
| Redis cache, rate limiter (`engine/redis_cache.py`) | values and counters in Redis | `get_or_set`, `delete`, `is_allowed`, `flush_namespace` | other hosts | values computed before an invalidation, clocks |
| Experiments, genetic optimizer (`engine/ab_testing.py`, `advanced_ab_testing.py`, `genetic_optimizer.py`) | results, verdicts; population, best, file | run, score, record, decide; evaluate, evolve, save | client | empty samples, copies that lose their fitness |
| Backups, git (`engine/backup_manager.py`, `git_sync.py`) | archives and metadata; repository | backup, restore, cleanup; add, commit, push | disk, git | crashes between two files, files that change between two commands |
| Security, plugins (`engine/security.py`, `plugin_system.py`) | accounts, tokens, audit buffer; plugins, hooks | login, refresh, flush; load, unload, reload | files | crashes, cancelled flush, reload in two steps |
| REST API server (`api_server.py`) | keys, windows, webhooks | create, revoke, submit, fire | files, webhooks | a file written after the lock is released |

Configuration, validation, prompt generation, metrics, tracing, notifications, event
buses, the pages and the deployment files keep no state that the protocols above
depend on, or are I/O and data (section 5). `PROJECT.json` lists every component with
its status, and under `hazards` what is hard to test, line by line, with the property
that covers it or the reason why none does.

What makes each component correct, in a sentence: the breaker trips in time, is
tried again and never wedges; the client gives every permit back, ends every
batch and counts every job once; the queue runs a job in one place at a time,
loses none and ends each, and takes no failure for a success; the session tells the truth about jobs after a crash and
loses few; a WebSocket client that can reconnect does; a connection that is
registered is served and the reverse; an item, a message or a byte of memory that two
tasks share is accounted once; what a file says after a crash is true; a machine that
costs money is known to somebody, but where the code gives it up; who waits for an answer gets one; what was
completed for good is not undone.

## 2. The modules

| Module | Models | Extends or instantiates |
|---|---|---|
| `CircuitBreaker` | the breaker with any number of callers | |
| `ApiClient` | a batch through the client: semaphore, breaker, retries, polling; server external | `Circuit == INSTANCE CircuitBreaker` |
| `JobLifecycle` | abstract: what the queue promises for each job | |
| `DistributedQueue` | the queue, one Redis command per action | `Lifecycle == INSTANCE JobLifecycle` |
| `SessionManager` | one session's manifest and checkpoints on disk | |
| `WebSocketManager` | connecting, losing, reconnecting and disconnecting; aiohttp external | |
| `EngineRun` | runs of the engine on one disk: resume, checkpoints, outputs, signals, kills | |
| `ModelCache`, `StreamServer`, `Actors`, `JobQueue`, `Batching`, `DeadLetters`, `WorkerPool`, `Shutdown` | the services inside the process | |
| `ClusterManager`, `MultiRegion`, `RedisCache` | hosts and regions that share what they know | |
| `AutoScaler`, `GpuAutoscaler`, `CloudProviders`, `CostOptimizer` | machines that are made, paid and taken down | |
| `NodeDiscovery`, `PluginSystem`, `BackupManager`, `GitSync`, `SecurityManager`, `ApiServer` | what is installed, kept on disk and let in | |
| `Experiments`, `GeneticOptimizer` | what is decided from measurements | |
| `MCAnswers`, `MCServices`, `MCPlatform` | instances of the modules above, side by side | `INSTANCE` of each |
| `CircuitBreakerProofs`, `ApiClientProofs`, `DistributedQueueProofs`, `SessionManagerProofs`, `WebSocketProofs` | theorems about one component | its module, TLAPS, theorem libraries |
| `AnswersProofs`, `ServicesProofs`, `PlatformProofs` | theorems about the components of a composed module | `MCAnswers`, `MCServices`, `MCPlatform` |
| the other `MC*` | model values and definitions for TLC | the module |

**CircuitBreaker.** `Call`, `Reject`, `Succeed` and `Fail` are the critical sections
of `call()` (the first admits or rejects, `_on_success` and `_on_failure` record);
`Cancel` is a caller whose `CancelledError` no handler catches; `Elapse` is the
clock passing `recovery_timeout`. `state`, `failures`, `successes`, `halfOpenCalls`
are the fields of the object, `elapsed` stands for the comparison with the clock.
`inflight`, `probes` and `abandoned` are history: who was admitted and when. Metrics
and the state-change callback are left out: the breaker reads neither.

**ApiClient.** An action is what the task of a job does between two awaits other
tasks can notice: `Acquire` (the semaphore), `Admit`/`Reject` (entering the
breaker), `Post` (one attempt of `with_retry`, with the server taking the prompt or
not, and the error being one it retries or not), `RecordSuccess`/`RecordFailure`
(leaving the breaker), `SeeResult`/`TimeOut` (`_poll_job`). The breaker's part of
each is the action of `CircuitBreaker` itself. The server is external: it takes a
prompt and may end it (`ServerEnds`) or never. Assumed: the progress callback does
not raise (an exception there would be counted a second time), and nobody cancels
the tasks of a batch (`gather` without cancellation). Left open: which waiting task
the semaphore wakes. Left out: delays and polling intervals, the WebSocket listener
(it sets a gauge), downloads, session pooling.

**DistributedQueue.** `store`, `pending`, `mark` (the set `:claimed`) and `dead` are
what Redis holds, `claim`, `task` and `clean` the three activities of each process
with the command they are at and the values they have read. `EnqueueStore/Add`;
the claim loop (pop, read the record, bounce it back or store and mark it, spawn the
task); the task (wait for the semaphore, process, then `complete_job`: read,
complete or move, write, unmark); the cleanup (snapshot, then read, add, unmark,
write for each). `Expire` is `claim_timeout` passing, for a record or for its entry
in `:claimed` separately. `Crash` kills a process at any point; `ClaimError`,
`TaskError`, `CleanError` are a Redis error at any command, with what the code's
handlers make of it. A run ends with a result, with an error that has a text or with one
that has none (`outcome`): `complete_job` tests the text, and takes the last for a result
(`Failed`); `muted` remembers such jobs, and `JobLifecycle` calls them swallowed. Of a score only the priority part is kept and order
within a priority is left open, because it comes from the clocks of different
machines. Not modelled: `purge_dead_letter`, statistics, notifications (nothing
reads them), and `DistributedWorker.stop`, which takes jobs from a process as a crash
does.

**SessionManager.** Every method is synchronous, so it is one action up to its
first write and then one pair `Truncate`, `Finish` per `write_text`, between which
the process may die (`Crash`) or the write may raise (`Raise`). `writes` is the list
of files the running method has still to write. `Restart` is a new process that
loads the manifest, or creates the session anew. `actual` is history: what became of
each job. Only the newest checkpoint is kept, as `get_latest_checkpoint` reads no
other. Not modelled: listing sessions, removing old ones, `load_checkpoint` by name.

**WebSocketManager.** `connect()` creates a receive task, a receive task that loses
its connection creates a reconnect task and ends, and that one calls `connect()`
again: one task of such a chain is alive at a time, so each chain is a driver with a
`stage` (`Connect`, `DialSucceeds/Fails`, `StartTasks`, `Listen`, `Hear`,
`HearClose`, `HearNothing`, `Reconnect`, `Wake`). `disconnect()` is a sequence of five
actions, as it awaits each cancelled task and the closing of the socket; a cancelled
task does nothing more. `_receive_task` and `_reconnect_task` are kept, because
`disconnect()` cancels only the task each of them holds. `Drop` is a connection that
ends, `Age` the clock passing `2 * heartbeat_timeout`. The lock of `connect()` is
held over no await and needs no state. With autoping, aiohttp answers PING and
consumes PONG, so `_last_pong` is refreshed by connecting only, and silence for one
`message_timeout` late in a connection counts as a loss (`HearNothing`), which
leaves the socket open. Not modelled: the heartbeat loop (it sends pings), the
handlers, `send` and `flush_queue`.

The other modules follow the same rule: a critical section without a suspending
`await` is one action, and what awaits is cut there. The header of each says what its
state stands for and what it leaves out. In short:

- **EngineRun**: `Launch`, `RunBatch`, `EndJob`, `UpdateProgress`/`SaveCheckpoint`
  (every `checkpoint_interval` jobs), `Fetch`/`Fetched` (downloads behind a semaphore),
  `ProcessBatch`, `Finalize`, `Close`, `Signal`, `Die` between any two, `CleanUp` of old
  checkpoints. Manifests and checkpoint files outlive a run.
- **ModelCache**: the lock is a variable; `GetModel` looks up, `Load` runs outside the lock,
  `Insert` takes it again and evicts. The monitor, `clear` and shutdown unload in steps,
  and a weak reference dies when the last caller drops the model.
- **StreamServer**: a socket has a handler that accepts, registers, loops and
  unregisters; `Broadcast` and `Heartbeat` sweep under the lock and hand what failed
  to `CleanUp`, one at a time. `shared` is history: the sockets that registered under an id
  while another still used it or a sweep had still to unregister it, and those they met.
- **Actors**: the mailbox is the list `heapq` works on; `Round` is one turn of a
  processor, `HandlerEnds`, `StopsItself`, `StopBegins`/`StopReturns` the ways to stop.
- **JobQueue, Batching, DeadLetters**: `Put` waits for space and may time out; `run()` and
  its watcher take from one buffer; entries and files change in one step each, with a
  crash in it. A crash between the write of one file and the removal of another leaves a file
  too many, and `load_from_disk()` evicts nothing: after enough crashes the queue is longer than
  `max_entries`, though never than there are jobs, until a `cleanup()`.
- **WorkerPool**: a call registers, writes (`Dispatch`), drains, times out, returns; a child
  answers, crashes, stalls or babbles; the monitor restarts it while `max_restarts` allows.
  The timer ends the wait for the answer, not the one for `drain()`: that one ends when the
  pipe has room or its process is gone (`Drained`), and perhaps never (`Held`).
- **Shutdown**: one handler task per signal, a guard at its beginning, drains with
  timeouts, cleanups in order.
- **ClusterManager**: records in Redis are fresh or stale; `ReadNodes` and `MarkOffline` are
  two steps of the monitor; `Schedule` pops and raises, as the code does; the worker
  polls, executes and reports, and a report may be lost.
- **MultiRegion**: a round checks all regions at the same time, each answer is an action;
  **RedisCache**: one action per call of Redis, counters per window and host clock.
- **AutoScaler, GpuAutoscaler, CloudProviders, CostOptimizer**: a decision and its
  application are cut at the calls of the provider; machines boot, age and vanish by
  themselves; cooldowns and prices are classes, what the comparisons tell apart. A call of a
  provider may fail after it has begun: a launch that answers `None` with a spot request
  still open (`LaunchUnseen`, `Fulfils`), a provision that raises (`ProvisionRaises`), a wait
  for a spot machine that ends while the request lives on (`SpotGivenUp`), a deletion that
  was accepted and does not happen (`Terminate`, `Survives`). `unseen` and `abandoned` are
  history: the machines the code has lost sight of in these ways.
- **NodeDiscovery, PluginSystem**: several processes or agents at one directory; a clone,
  an `initialize()` and a `shutdown()` take time and may fail. A clone that was killed is
  partial, a pull that was killed leaves it torn, and `git pull` may say that either is up to
  date. A version is a prefix and parts, numbers or words; `Normalize` drops the one and
  counts the others as 0, as `normalize()` does.
- **BackupManager, GitSync, SecurityManager, ApiServer**: files are written in steps, a crash
  may come in between, and the process starts again from what is there. Of `.gitignore` two
  things are kept, whether its text mentions the patterns, which is all that
  `ensure_gitignore()` looks at, and whether those that are mentioned are in force; each git
  command may fail, and `git status` then reads as a clean tree. A save of the accounts may
  raise with the file untouched or cut off (`SaveRaises`), and `unsaved` remembers whose.
  `shutdown()` of the audit log is two steps, before and after its `await` of the flush task,
  between which others log, and may be called again. With a retention of no days (`~keeps`) a
  backup expires at once.
- **Experiments, GeneticOptimizer**: measurements are small numbers chosen freely;
  scores are compared without division.

Definitions introduced as "a form a bug could give", or as another definition with
something changed ("As X below, without ..."), are used by no action: `PROJECT.json`
(`mutants`) names them, and replacing the real definition by each must break the
property it is listed with.

## 3. What the runs show

Passing runs (about 4.8 million distinct states in all):

| Run | Instance | Shows |
|---|---|---|
| `circuit_breaker` | 3 callers, one cancellable; threshold 2, quota 3, 2 successes, at most 4 failures | the circuit trips in time, spends its half-open quota only on calls that are accounted for (`QuotaAccounted`), hence never wedges while it can afford the cancelled probes (`NoWedge`); an open circuit is tried again, and closes for good once the server is healthy |
| `api_client` | 3 jobs, 2 permits, 1 retry, thresholds 1 | permits balance on every way out, each job is counted once, what it leaves on the server is explained by its outcome, the shared breaker never wedges, the batch ends whatever the server does |
| `queue_chaos` | 2 workers, 1 job with 2 runs, one expiry, one crash or Redis error anywhere, cleanup in one process | only the cleanup or an error after a success can make a second copy of a job; finished jobs stay released; a submitted job is never lost except in the windows where `:claimed` does not protect it |
| `queue_orderly` | 2 workers, 2 jobs of different priority, cleanup in both, no faults | the queue implements `JobLifecycle`, liveness included; a failure without a text ends a job as swallowed there |
| `session_manager` | 3 jobs, checkpoint every 2, one crash and one failed write anywhere | what a resume finds is true, misses at most `checkpoint_interval` jobs (one more per failed write), and a checkpoint is never behind a running manifest |
| `websocket` | 3 calls of `connect`, never during a reconnection; 2 attempts, 4 sockets, 3 losses; `disconnect` at any moment | a lost connection comes back, or the attempts run out, and for no other reason; whoever calls itself CONNECTED is listened to; after `disconnect` nothing is connected and no task can change that |
| `answers` | one worker with two calls and one restart; two drains, one in a thread, two cleanups, two signals; a GPU pool of 1 to 5 nodes; two API keys, one webhook, one job, two attempts | whoever waits is answered (a call, whatever becomes of the worker, unless it writes into a pipe that stays full for good; a submission, whatever becomes of the webhooks), what was asked for comes to its end (a shutdown whose drains hang, a quiet pool), cleanups run once and a revoked key stays revoked through crashes |
| `services` | see below | nothing is handed on or accounted twice (`NothingTwice`), registered and served sockets are the same, but for ids that were taken again too early (`ServedIsRegistered`), files tell the truth and outputs stay out of commits, under a `.gitignore` that means what it says (`DiskIsTrue`), the first in an order is the one taken (`FirstIsTaken`) |
| `platform` | see below | hosts and regions agree on what they share (`HostsAgree`), machines that cost money are known, or lost in a way that has a name (`MachinesAccounted`), installations are whole but for a killed pull and versions compare as their numbers do (`InstalledIsWhole`), what was done is done: tokens, locks unless a save raised, failovers, the audit trail up to the first shutdown, backups with a retention of a day or more (`DoneIsDone`), and a discovery leaves no plugin out that could be loaded (`DiscoveryIsComplete`) |

**The three composed runs.** The components of `MCAnswers`, `MCServices` and `MCPlatform` share
no variable: in the code they meet only through the engine, not through each other.
They are put side by side in one state, and `focus`, chosen in the initial state, says
which of them runs in a behaviour (some components have two, like `NodeDiscovery`
and `SecurityManager`: installations and versions, or accounts and audit log, share no step). The states add up, and each property is a
conjunction of one named property per component, listed in the module. This checks
each component on its own instance and claims nothing about their interaction. The
parameters of the components and what is assumed of them (`WorkerParameters`,
`RegionParameters`, ...) are declared in these modules, so that the theorems of section 4
are about every value of them, and the configurations choose the instance. The
interactions that exist are modelled where they are: the client with its breaker
(`ApiClient`), processes through Redis (`DistributedQueue`, `ClusterManager`,
`RedisCache`), the two halves of the streaming server (`StreamServer`), pool and bridge
(`WorkerPool`), engine, checkpoints and outputs (`EngineRun`).

Runs that find a disagreement between the code and what its docs say
(`findings` quotes both):

| Run | Claim | What happens |
|---|---|---|
| `queue_expiry` | claiming with worker ids prevents duplicate processing | a claim that outlives `claim_timeout` is handed out again, and two workers process it |
| `engine_resume` | an interrupted batch is resumed from the last checkpoint | checkpoints are written under a name nobody looks for; the jobs that were completed are made again |
| `cache_deadlock` | LRU eviction | under `lru` and `freq` the eviction waits for the lock its own task holds, for ever (the default, `lru_memory`, evicts nothing: `WithinLimit` below) |

Three changes of a configuration refute one more claim each. `MCWebSocketManager` with
`Eager = TRUE` loses `AutoReconnects`: a `connect()` of the application that is still
dialing makes the reconnect task end with success, and when that dial fails, nobody tries
again. `MCDistributedQueue` with the invariant `NothingSwallowed` in `QueueOrderly.cfg` loses
it: a run that raises an exception without a text is recorded as completed, although failed
jobs are to go to the dead-letter queue. `MCPlatform` with the invariant `PoppedIsKept` loses
it: a job popped from the cluster's queue and not scheduled is nowhere. When the application calls `connect()`
during a reconnection, `DisconnectIsFinal` is lost as well: two chains can dial at once,
and `disconnect()` knows only the tasks and the socket of the one that came last.

The findings with no run name a property of a component module that the code does
not have; to see it, give the property to the module's configuration (for a component
of a composed run, through its instance, as `PoppedIsKept` in `MCPlatform`):
`VerdictByProbe`, `ServerLoadBounded`, `FinalStateResumed`, `SignalSaves`, `WithinLimit`,
`NothingDrainsLate`, `OnDemandIsKept`, `BudgetKept`, `BestIsBest`, `WinnerSucceeded`,
`PushedIsThere`, `NothingDropped`, `NothingWaits`, `RateKept`, `ReconnectedIsRegistered`,
`FallbackByPriority`, `UrgentFirst`, `MaxNodesKept`, `NothingLeft`, `CostIsCounted`,
`LoadedIsHooked`, `RestoredIsBack`, `InstalledIsThere`, `LastFailureKept`, `CallEnds`,
`ExclusionsProper`, `CleanIsClean`, `CleanIsPushed`, `NoneUnseen`, `ResourcesTracked`,
`WordsSortAfter`, `AuditCompleteAgain`, `PasswordEndsTokens`. Several of them are what a
property of a passing run says without its exception: `CallEnds` of `CallEndsUnlessHeld`,
`ReconnectedIsRegistered` of `ServedIsRegistered`, `ExclusionsProper` of `OutputsStayOut`,
`NoneUnseen` of `MachinesKnown`, `ResourcesTracked` of `LeaksAreKnown`, `AuditCompleteAgain`
of `AuditComplete`. The passing one says that nothing else goes wrong, the refuted one that
the exception does.

Two exceptions of `queue_chaos` are of the same kind: a job that the cleanup or an error after
success has put back (`disturbed`) is exempt from `OneKeeper` and `FinishedIsReleased`. That
the cleanup does so is what `queue_expiry` shows.

**Bounds, and why they are enough.** Three callers give a latecomer, a probe and a
cancelled probe at the same time; with quota 3 and 2 required successes one lost
probe is affordable and two are not. `MaxFailures` keeps the failure counter
finite; it only forbids failures, never another action, and exceeds the threshold by
as many calls as can be late. Three jobs on two permits give a job inside, another
retrying and one waiting; one retry gives a lost answer followed by a second
prompt. One job is enough for `queue_chaos`: the commands on different jobs touch
different keys, except for `zpopmin`, whose choice the priorities decide and
`queue_orderly` covers with two; two tasks are an old and a new holder, and one
expiry with one fault covers every pair of them at every command. `MaxTasks` in
`queue_orderly` is the number of tasks two jobs can have alive. Three jobs with an
interval of two give a checkpoint followed by an unsaved job; a crash and a failed
write in either order, inside either file, are covered, and the jobs are symmetric
(no liveness is checked there). Three losses with two
attempts each let a reconnection follow a reconnection, with the attempt counter
reset or not in between; one socket more than losses is all that can be
established without `Eager`. `Eager` is no bound: it says whether the application
calls `connect()` while the manager is reconnecting.

The instances of the composed runs are the smallest in which each hazard occurs:
`ModelCache` has two callers, one of them a warmer, two models and room for the larger
one, so that both load the same model and a second one needs an eviction;
`StreamServer` two sockets under one id or two, one place; `Actors` one actor started up
to three times and stopped by two tasks, with two messages of two priorities;
`DeadLetters` two places for four failures of three jobs; `Batching` five items in batches
of two, so that full, timed and last batches occur; `JobQueue` three jobs of two
priorities, two places, two consumers; `EngineRun` two runs of two jobs with one
download at a time and a checkpoint after both; `GitSync` two branches and two commits, so that a commit that failed to be pushed is followed
by another, with new outputs, tracked outputs and sources that change at any time;
`ClusterManager` two hosts, both scheduling; `RedisCache` two hosts with clocks of their
own; `AutoScaler` three machines, a limit of two; `CloudProviders` three providers, one
name that two of them can take, two identifiers of AWS so that a machine on demand or
another spot request follows one that nobody cancelled, and one caller that provisions,
since terminations are anyone's and the callers meet only at the provider; `NodeDiscovery` two processes at two
directories, and the versions v1.0, 1.0-beta and 1.0.0; `PluginSystem` three plugins with a chain of requirements, a cycle or a
requirement that is not there, every order in which a set of three is iterated, a
discovery, a watcher, a caller and one edit; `BackupManager` two backups; `SecurityManager`
two users, a lockout after two failures, two tokens, three log entries.

**Fairness.** Weak fairness of the steps of each task: asyncio runs every ready task
and every HTTP request has a timeout, so admitted calls return, posts fail or
succeed and polling ends. The server is given none: it may never end a prompt. In
the breaker, `Elapse` is the clock and `Call` is a system that still has work; where
there is none, an open circuit stays open and no one is harmed. In `queue_orderly`
the loops run and `processing_func` ends; a driver of the WebSocket manager and
`disconnect()` take their steps, as dialing, receiving and closing have timeouts, while
the application need call nothing; nothing is assumed of `queue_chaos`, the sessions,
`services` and `platform`, whose properties are safety. In `answers` the timers of calls
and drains fire, tasks that are ready go on, cleanup callbacks return (nothing bounds
them in the code), the scaling loop takes its rounds, and a webhook's attempt has a
timeout; a drain callback, a worker and a webhook may hang. `CHECK_DEADLOCK` stays on
where a system cannot stop, or has a step that says it rests (`Return`, `Rest`); in the
composed runs components do come to their end (a shutdown is complete, a source is
read), and it is off.

## 4. What is proved

For all values of the constants that satisfy the named assumptions (finite sets of
tasks, positive thresholds, limits and intervals), checked by `tlapm`:

| Module | Theorem | Along which argument |
|---|---|---|
| `CircuitBreakerProofs` | `TypeCorrect`, `TripsInTime`, `NeverWedged`, `QuotaIsAccounted` | `IInv` = types, `ClosedBelowThreshold`, `QuotaAccounted`. `NoWedge` is not inductive: it follows from the account of the quota, because a full quota with fewer successes than required and few losses leaves a probe out |
| `ApiClientProofs` | `ImplementsBreaker`, `NeverWedged` | every step of the client is a step of `CircuitBreaker` without cancellable callers, or leaves the breaker alone; the breaker's own theorem then carries over |
| `ApiClientProofs` | `TypeCorrect`, `PermitsNeverLost`, `MetricsAgree`, `LeftoversAreExplained` | `IInv` ties each job's stage to its outcome, its registration and its prompts on the server; the counters are then cardinalities that one step changes by one |
| `DistributedQueueProofs` | `TypeCorrect`, `OneKeeperAtATime`, `FinishedStaysReleased` | `OneKeeper` is not inductive: an `enqueue` that has not reached `:pending` must find nobody with its job. `IInv` adds that only submitted jobs are known to anybody (`Known`), that every stage that uses a job has one (`JobsNamed`), and, for each undisturbed job, that pending set, claim loops and tasks exclude each other and all are empty once it is finished (`Good`) |
| | `NothingIsLost` | a job that is only listed in `:claimed` would be lost by a `zrem` that somebody has still to do. `AllLast` says of each job that it has a keeper, or is listed with no `zrem` on its way |
| | `JobsLiveOrderly` | without expiries and faults every step is one of `JobLifecycle`, which has a swallowed end besides the completed and the dead one, or a stutter. `Orderly` says what the record of a job holds at each command of its holder: a task that has put its job back has counted its try before (`Moved`), so that a claim loop that pops the job in between bounces it and never overwrites the count |
| `SessionManagerProofs` | `TypeCorrect`, `ResumeIsTruthful`, `LossIsBounded`, `CheckpointsLead` | the properties speak of files that change long after the method that decided on them. `IInv` adds what a method can still have to write in each stage of the process (`Control`), that memory never lags behind the manifest, that a manifest write of a running session comes behind the checkpoint of the same state, and how many jobs each file may lack (`Files`) |
| `WebSocketProofs` | `TypeCorrect`, `ConnectionIsServed` | for every application: whoever is CONNECTED has a driver that listens or is about to, unless `disconnect()` has begun (`Flagged`) |
| | `DisconnectStays` | for an application that leaves reconnections alone (`~Eager`). The property speaks of the end of five awaits. `IInv` adds that one driver is active at a time (`OneActive`), that it fits the state (`StateFits`), that the two fields name it (`TasksNamed`), and what `disconnect()` has still to cancel at each await (`ToCancel`, `AllClosed`) |
| `AnswersProofs` | `TypeCorrect`, `OverForGood` | `CleanedOnce` says nothing of who calls the callbacks. `StopInv` adds that there is one handler task at most (`OneHandler`), that the calls are what it has been through (`CallsCounted`), and that it started all drains and waits for none once it cleans up (`DrainsOver`). A crash takes the table of keys from the file: `RevocationHolds` says that a revocation not yet saved is in the table, so that whoever saves first saves it, and that one that was answered is in both |
| `ServicesProofs` | `ServedAndRegistered` | a connection is taken out by id, long after somebody looked. `StreamInv` adds that a registered socket has a handler that leaves (`HandlerLeaves`), and that a socket that did not have to share its id is the only one that uses it, with no sweep about to take it out unless one found it (`GreetedIsRegistered`) |
| | `FirstStaysTaken` | action properties, proved with the invariants before the step. A first of the sorted population exists because the order has no cycle (`FirstOfFinite`); what competes for the lowest score is compared by products, which are cancelled (`FasterScores`) |
| | `DiskStaysTrue` | `RunInv`: what each stage of a run has of its session, its jobs and their outputs (`StageFits`), and that what is tracked has completed (`TrackedFits`). `LettersInv`: no two files hold the same entry (`InvDiffers`), so that what a start reads has an order (`OrderExists`, `Loads`). `GitInv`: as long as no `.gitignore` was met that mentions a pattern without having it in force, no output is staged or tracked, and while a synchronisation looks at the files they are ignored (`Unexposed`) |
| | `NothingCountedTwice` | the memory counts units, a model and a number each, so that adding and deleting an entry adds and takes away a disjoint set (`UnitsAdded`). `CacheInv`: a task about to file a model has one that nobody else knows (`LoadersFit`), and who waits for an unloader has the lock and the entry is still there (`UnloadersLock`). `BatchInv`: who hands nothing on has no batch. `ActorInv`: the numbers in mailboxes, hands and `handled` are given away and apart. That heapq loses and doubles nothing, of a list in any order, is `RiseIsPicked` and `PopRemoves`: what moves along a path of the tree is a permutation |
| | `TypeCorrect` | the invariants above, and for each service what its types rest on: a model is in the cache once and a number of memory is a model's (`CacheIsShort`, `MemoryFits`), and who unloads has something left to unload; a queue that is full takes nothing; what is left of a mailbox is not longer (`LeftIsShorter`); no more dead letters are read than there are jobs (`LoadedIsShort`) and none are added by a cleanup (`KeptIsShort`); a process that has gone fetches nothing; a file of the optimizer is as good as what was saved, and generations are left when a population evolves; the branch that is checked out exists |
| `PlatformProofs` | `HostsStayAgreed` | `WorkerInv`: the worker's list has each task once and none with a result, and each execution but one has lost a report (`ExecutionsAccounted`). `RegionInv`: a check without an answer is among the failures. `CacheInv`: without a value in flight, what is about to be stored is as new as the last invalidation. `LimitInv`: those counted and not yet let in find room together with those let in (`Counted`) |
| | `MachinesStayAccounted` | `ScalerInv`: machines are launched and age in one order, so that the oldest that runs is idle if any is, and what a call told nothing of is in `unseen` (`MachinesInOrder`). `CloudInv`: a machine that costs, or a request that may become one, is managed, awaited or in `abandoned`, which only four kinds of steps enlarge. `CostInv`: an accepted job is in as many lists as it was accepted and not charged |
| | `InstalledStaysWhole` | `InstallInv`: one process at a time clones a directory, and what goes on to packages is whole (`CloningAlone`). The order of versions is the lexicographic one of their normalized numbers (`NormalizeTypes`, `CompareOrders`, `LessTransitive`). `PluginInv`: who holds the lock loads what is not loaded, or unloads what is (`LockedStep`), so that the instances alive are counted (`InstancesAccounted`) |
| | `DoneStaysDone` | action properties, proved with the invariant before the step. `SecurityInv`: an account is in the file as it is in memory, unless its save raised or the file was cut off (`AccountsSaved`), its attempts are at least the failures its user had (`FailuresSaved`), what was logged is in the file, the buffer or lost, and a shutdown waits only for a loop that has ended (`EntriesCounted`). `BackupInv`: a cleanup follows a backup that is complete and, with a retention of a day, has not expired. A failover finds a best region because the order of regions has no cycle (`FirstOfFinite`) |
| | `PluginsAreDiscovered` | an action property about the last step of a long discovery. `DiscoveryInv`: nobody else has steps while it lasts, and of every plugin its remaining steps load, all that can be loaded and that it requires is loaded already or comes before it (`Awaited`). The first order satisfies this because a round never takes a plugin that can be loaded before what it requires, also when it breaks a cycle (`ReadyPlugins`), and the rounds come to an end because each leaves less (`RoundsExist`) |
| | `TypeCorrect` | the invariants above, and for each component what its types rest on: a queued cluster job is queued once (`QueueOnce`), a region has no more successes and pending calls than rules, a round launches three machines at most, a spot request waits only if aws is registered, no job is listed by an instance more often than it was submitted, and a whole archive holds all contents (`Archived`) |

`DisconnectStays` and `JobsLiveOrderly` have a hypothesis on the constants of their own
(`ASSUME ... PROVE`), the one under which the run checks the property: an eager application
does lose `DisconnectIsFinal` (section 3), and a claim that expires does break the life
of a job (`queue_expiry`). A step of a composed module is a step of each component or leaves
it alone (`Steps`), so that each component is proved about by itself.
A recursive function of the models is a CHOOSE to the provers: that one exists is shown from the
least counterexample (`LeastExists`, and with it `HalvingExists`, `ClimbingExists`,
`ChainExists`, `RoundsExist`), never assumed.

Only model-checked:

- liveness (`OpenIsTried`, `RecoversWhenHealthy`, `BatchEnds`, `AutoReconnects`, `WaitersAnswered`,
  `AskedIsDone`, and the fairness in `ImplementsLifecycle`): fairness and ENABLED are beyond the
  prover;
- what a recursive function computes from a given input (which message of a heap comes next, which
  round takes a plugin): the theorems say what every result keeps.

## 5. What is not modelled, and what is left

Not modelled:

- `engine/config.py`, `workflow_validator.py`, `prompt_manager.py`, `protocols.py`, `errors.py`:
  parsing, checks and assembly of data, one call at a time; nothing they hold changes.
- `engine/events.py`, `command.py`, `query.py`, `cqrs.py`, `pipeline.py`, `core.py`: dispatch tables
  in which a handler is looked up and awaited in place.
- `engine/metrics.py`, `metrics_server.py`, `health.py`, `observability.py`, `profiler.py`,
  `profiling.py`, `tracing.py`, `tracing_dashboard.py`, `notifications.py`, `mlflow_tracker.py`:
  reports that no decision reads.
- `dashboard.py`, `mobile_app.py`, `setup_wizard.py`, `engine/api_docs.py`, `generate_openapi.py`:
  pages and texts.
- `engine/msgpack_bridge.py` (the protocol of `subprocess_bridge.py` in another framing),
  `shm_channel.py`, `typed_channel.py`, `deadline.py`: wrappers with one reader and one writer.
- `engine/actor/manager.py` does not compile, and of `cluster_manager.py` nothing behind
  `_filter_nodes()` is reached (findings): there is no behaviour to model.
- Terraform, Helm and Kubernetes files: no program.

Parts of modelled components that are left out are named in their `PROJECT.json` note.

Left: the heartbeat task and the outgoing queue of `WebSocketManager`.
