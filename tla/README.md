# Verification of AI Enterprise OS

TLA+ models of `ai_company`: its concurrent and failure-handling core, the files that its commands
and API calls share, and the algorithms it computes with; model-checked with TLC on small instances,
and most of the safety properties proved with TLAPS for every instance. Source paths below are
relative to `src/ai_company/` of the repository, those of `docs/`, `config/` and `tests/` to the
repository itself.

## 1. The system

AI Enterprise OS is a Python program that plans and executes pipelines of tasks for a simulated
company, on top of a runtime that supervises its own engines. What carries its logic:

| Part | State it keeps | Operations | Hard behaviour | What makes it correct |
|---|---|---|---|---|
| Supervision (`runtime/heartbeat, health, watchdog, supervisor, recovery`) | heartbeat table and miss counters, probes, tracked tasks, isolated set, recovery attempts | passes of three loops, `isolate`, `unisolate`, `recover_engine`, `track_task` | four threads in one failure handler, each step under a different lock | recovery is bounded and ends in isolation; nothing overdue is forgotten |
| Lifecycle (`runtime/engine, startup, shutdown, lifecycle, process_manager`) | phase, worker threads and their stop events, engine status | `start`, `stop`, `restart`, `mark_ready`, `mark_stopped` | threads that outlive a bounded join, steps that fail, force | engines stop in dependency order; every call ends |
| Job scheduler (`runtime/scheduler`) | jobs, next run, run counts, the worker thread | tick, `run_now`, `register`, event jobs, restart | a job that runs while it is registered anew, or in two threads | no overlap, one run per date, every due job runs |
| Circuit breaker (`runtime/circuit_breaker`) | failure counts | `call` | none: nothing creates one | |
| Orchestration (`orchestration/engine, pipeline, executor, checkpoint, recovery, rollback, dependencies`) | plan and task statuses, checkpoints, rollback handlers | `run`, `resume`, `retry`, `rollback` | parallel waves, failure while siblings run, recovery from a checkpoint, plans side by side | dependencies first; a failure is kept; nothing is undone twice |
| Pipeline planner (`orchestration/planner, dependencies`) | the plan made of a pipeline's configuration | accept, plan, order, group into waves | none across calls | what is accepted can be run |
| Generate runs (`services/generate_runner, generate_dispatch`) | run records, child processes, history file | `start`, `cancel`, worker thread, `_load_history` | cancellation against spawn, fallback provider, restart of the server | cancelled stays cancelled; the provider told is the one that ran |
| Write API (`api/guards, write_endpoints, operational_endpoints`) | tokens, the audit trail | guard, facade call in a pool thread, audit event | a restart or a lost event between effect and record | what a write did to a run is on the record |
| Events (`events/`, `services/dashboard_events`) | routes, event store, dead letters in memory and file, the dashboard's clients | `publish`, `subscribe`, requeue, replay, connect with `?since=` | threads in one publish without a lock, handlers that fail, rewrite against append, live against replayed events | a failed delivery leaves a dead letter; a connected client misses nothing |
| Telemetry retention (`telemetry/retention`) | JSONL logs, rollups | `apply_retention` | appends during a pass, crash between steps | nothing is dropped before it is rolled up, nothing is counted twice |
| Session and action logs (`telemetry/sessions, actions`) | two capped logs | record, summary, share of operator actions | two writers at the cap | counts are of the window asked for |
| Read model (`readmodel/`) | SQLite projection with watermarks | `sync_from_jsonl`, `rebuild`, summaries | copies against writers, retention and failures | the projection is a view of its source and never skips a line |
| Decision inbox (`decision/engine, approval`, facade) | decisions in memory, index, `runtime/decisions.jsonl` | create, approve, reject, escalate, cancel, list | API threads on one object, engine built twice, torn appends | the inbox says what the file says; no verdict is unrecorded or recorded twice |
| Decision scoring (`decision/risk, policy, routing, matrix, history`) | rules, routes, policies, options | assess, rank, route, enforce, query | numeric edges, order of tables | approval is waived only by a rule |
| Memory file (`memory/engine, store, archive`) | entries per engine, tag index, `memory/store.jsonl` | save, update, delete, archive, purge, search | every command has a copy of its own; rewrites against appends | what was written is kept and found |
| Memory queries (`memory/search, embedding, retrieval, knowledge, snapshot`) | vocabulary, knowledge file, snapshot directories | search, similarity, snapshot, restore | state of one process that the next one reads | what matches is found, a whole snapshot gives its entries back |
| Company files (`company/`, facade's company calls) | `company/departments.yaml`, `config/company/company.yaml`, generated artefacts | add, remove, rename, build, export, validate | two files saved in turn, read while cut, builds side by side | the audit trail, the files and the artefacts agree |
| Organization chart (`company/organization, hierarchy, relationships, reporting`), company pages (`company/*_generator`) | none across calls | build, levels, spans, cycles; board pages, packages, documents | none | cycles are found, levels are distances |
| Generation graph (`generator/dependency, planner`) | tasks, cached order | add, remove, sort, layers, plan | stale cache | dependencies first |
| Workflow (`workflow/`) | definitions, contexts, registry | load, validate, transition, lifecycle calls | long call sequences; no caller | only legal definitions load |
| Agents (`agents/`) | agent files in two directories | plan, write | names that collide, files that appear | nothing is overwritten unasked |
| Configuration, metrics, diagnostics, legacy orchestrator, providers, CLI output, backup, audit log | presentation and I/O | | | |

How they interact: the facade (and so the API's thread pool and the CLI) calls `RuntimeEngine`; the
runtime owns the supervision threads, the job scheduler and the event bus, and registers the
orchestration engine as one of its engines. Scheduler jobs start pipelines, syncs of the read model
and retention passes in the scheduler's thread. Recovery of an engine runs in the thread that found
the failure. The generate runner, the decision inbox and the company files are shared by the threads
of the API; memory's file is shared by processes, since every command builds an engine of its own.
The write API is the door to all of these for the dashboard. Logs that one part appends are what the
retention job cuts and the read model copies.

## 2. The modules

Two kinds of modules. A component that several threads, processes or crashes can reach is a state
machine, with a run of its own and an MC module for its instance (`Supervision` needs none). A pure
algorithm, or a component that one call uses at a time, is a module of operators; its properties are
assumptions, named and commented in a module `Check...` or in the last part of the module itself,
that TLC evaluates over all small inputs at the start of the run whose MC module extends it. Proofs
are in the modules `...Proofs`, each of which extends the state machines it is about.

### Supervision.tla

State: the tables of `HeartbeatManager`, `HealthMonitor`, `Watchdog`, `Supervisor` and
`RecoveryManager` as sets and counters, the owner of the heartbeat lock, and for each of the
handlers (watchdog, supervisor, operator) the loop it is in, the step of `on_failure` it is at and
the component that is about. Time is reduced to what the code asks of it: a heartbeat is older than
its timeout (`stale`), a probe would answer UNHEALTHY or DEGRADED (`sick`), a task is over its
deadline (`overdue`).

`Supervisor.on_failure` is cut wherever a lock is released or another component is called:
`OnFailure` (isolated already?), `Recover` (policy and attempts), `Restart`, `RestartBeat`,
`Isolate`, `IsolateUnmonitor`, `IsolateUnprobe`, `Notify`. `HeartbeatManager.check` holds its lock
while it calls back into `on_failure`, which is why `hbLock` stays with the thread over those steps;
the lock is re-entrant, hence `MayLock`. `EndCheck` hands the same failures back to the caller: the
watchdog drops them, the supervisor handles them again. The public methods of the engine are calls
of an operator thread, counted by `MaxOps`.

Left out: alerts, metrics and published events; the policies of components other than engines
(they have none, so recovery fails at once, as modelled); `Supervisor.start/stop`.

### RuntimeLifecycle.tla

State: the phase and its copy in the state store, the engines that run, the dependency graph, and for
each worker (heartbeat sender, scheduler, watchdog, supervisor) its thread reference, its stop event,
its lock while `stop()` holds it, and where its threads are. One operator thread makes the calls;
`pc` and `todo` are where it is in them. `Start`, `LoadSteps`, `StartEngine`, `StartWorker`,
`RegisterJobs`, `MarkReady` follow `RuntimeEngine.start` with `StartupExecutor`; `Stop`,
`StopWorker`, `Join`, `StopEngine`, `StopEngineFails`, `StopProcesses`, `Finalize` follow `stop` with
`ShutdownExecutor`; `Restart` and `StartAgain` follow `restart`. `Kahn` is
`RuntimeDependencyGraph.topological_order`, and `StopOrder` the order of `_stop_engines` with its
fallback. A pass of a worker is reduced to what the lifecycle sees of it: that it may have to take a
lock (`NeedLock`, `PassLock`), may restart an engine, and may degrade the phase (`Report`,
`Degrade`: a read and a later write). A thread that outlives its join is recorded in `overran`; it
goes on, also beside a new thread.

Assumed about time: a join of five seconds does not time out on a thread that is between two
statements, only on one in a probe, a job or a recovery, or at a lock.

Left out: calls from two threads at once, circuit breakers around engine starts, the managed
processes' own threads, and `reload`.

### JobScheduler.tla

State: the registered jobs, each registration an object of its own (`version`), their status, runs
and next run, the ticker threads, the publisher threads, and where the restart of the worker is.
`TickStep` is a pass: `Collect` takes the due jobs under the lock, `Pick`, `Mark`, `Enter` and
`Return` run them one by one without it. `Publish` and `Run` are event jobs, which the publisher's
own thread runs, and `run_now`. `Stop`, `EndJoin`, `Start` and `Register` are the restart: the join
may time out, and the configured jobs are registered anew while the old object still runs. `Tick` is
the clock.

Left out: disabled jobs, a recurring job without an interval, what the handlers do.

### PipelineRun.tla and PipelinePlanner.tla

State of `PipelineRun`: per plan, the recorded statuses, where its thread is, the stage and the
position in it, the submitted wave and its results; the runner's shared `_stage_index`; checkpoints;
rollback handlers; and, apart from the statuses, the set of effects that stand. Actions follow
`PipelineRunner.run` (`EnterStage`, `SkipStage`, `Complete`), `_execute_sequential` (`NextTask`,
`EndSequential`), `_execute_parallel` (`SubmitWave`, `EndParallel`, `Drain`), `_apply_task_result`
(`ApplyCompleted`, `ApplyTolerated`, `ApplyFailure`), the executor (`StartTask`, `EndTask`), and
`OrchestrationEngine.run` with `RecoveryManager` and `RollbackManager` (`GiveUp`, `Recover`,
`UndoStep`, `EndRollback`, `ExecuteAgain`). A task's retries and back-off are one step whose result
is chosen; a condition is a choice (`gated`). `WriteCheckpoint` is `_write_checkpoint`, which logs and
drops any exception: such a plan is `unsaved` until its next checkpoint.

`PipelinePlanner` is what comes before: which definitions are accepted, the plan made of one, its
order and parallel groups, what is ready and what a failure blocks, the catalog of built-in and
configured pipelines, the conditions of stages. `MCPipelineRun` checks it, and that the plans of
the instance are plans the planner accepts.

Left out: timeouts of a whole pipeline, persistence of checkpoints to memory and disk,
notifications, and the same plan run twice at once.

### GenerateRuns.tla and WriteApi.tla

State of `GenerateRuns`: `GenerateRun` records, the tables `_runs` and `_procs` that are keyed by run id
(several records may have the same id, and then only one is in the table), the last status in the
history file that can be read per id, the worker threads, the child process of each run and provider,
the shared prompt file. Actions follow `start()`, `cancel()` in its four parts (look up under the lock,
test outside it, mark, terminate), `_execute`, `_run_process` (spawn and registration are two steps, the
log is a third), `dispatch_generate` with its fallback, `_outcome`, and `Restart`, which loses the
threads and rebuilds the records with `_load_history`. Children survive a restart, as they do in the
code. `Record` changes a status and appends it to the history; the append may fail (`AppendFails`),
which the code only logs, and may leave a part of a line (`torn`) that spoils the line after it. An id
is `unsaved` while its last record is not in the file.

`WriteApi` puts the guarded writes on top and composes with it: `Refuse` is the guard that turns a
request away, `GenerateStart` and `GenerateCancel` let it through into the runner, whose steps are
`RunnerStep`; the other writes (`Operate`, `OrchestrateWrite`, `CompanyRaises`) are what their facade
call can answer. `Audited` and `AuditFails` put the outcome on the trail or lose it, `ServerRestart`
ends the requests as well as the workers. The trail keeps the events about runs only. `Wired` says
whether the guards were given an event bus when the app was built, as the tests build it; under `serve`
they are not, and nothing is on record. `RunsAreOnRecord` is about the former and says nothing of the
latter, which section 5 lists.

### EventBus.tla and DashboardFeed.tla

`EventBus` is `EventBus.publish` with what it calls, for threads that publish at the same time and
take no lock: `Route` (`Router.route_event`), one `Handle` per subscriber
(`Dispatcher._deliver_to_subscriber`, the subscriber returns or raises), `Bury` and `BuryFile`
(`DeadLetterQueue.add`, memory and then file), and only then `Persist`. `Requeue` pops dead letters,
rewrites their file in `Save` and `EndSave` (open and write), and publishes what it popped; `Replay`
publishes again what `load_events` returns; `Restart` loads the dead letters from the file, which the
cap does not shorten. An event is its time stamp. `sorting` holds while `Router.add_route` sorts: a
list that Python is sorting looks empty to a thread that iterates over it.

`DashboardFeed` puts `DashboardEventBridge` on top: it extends the bus with one more subscriber, whose
handler (`BridgeHandle`) hands the event to the event loop, and with the loop: `Connect` and `EndSort`
(`subscribe_client`), the replay of stored events by a worker thread (`ReplayLoad`, `ReplayPush`,
`ReplayDone`), `Fanout` into the bounded queue, `Send` and `Disconnect` of `/api/ws`. `FeedNext` is
the composition: steps of the bus that the bridge does not take part in leave the feed alone.
`owed` is the history of what the client is entitled to.

Left out: `EXACTLY_ONCE` and `AT_MOST_ONCE` (no caller uses them; `AT_LEAST_ONCE`, the default, tries
once), middleware and filters, the priority queue that nothing fills, rotation of the store,
cancelling a replay, removal and expiry of dead letters, several clients.

### Retention.tla and TelemetryShare.tla

State of `Retention`: one telemetry log and its rollup file, the clock, and where the retention job is
in its pass over them. A record is its time stamp, so the log is a set; a row is a bucket with the
records it counted, which the code reduces to sums. `Begin` reads the clock, `Read` the log and the
rollup file (`_read_jsonl`, `_existing_rollup_keys`), `WriteRow` appends a row or skips its bucket,
`Truncate` replaces the log by what had not expired, and `BreakOff` ends the pass at any of these
points, by an exception or with the process. A row carries the cutoff of the pass that wrote it, so that
a property can tell a bucket that had expired in part only (`BucketClosedEarly`). `Record` is the writer
of the log (`log_metrics_snapshot` and the like), which takes no lock; a record it appends between the
pass's read and its replacement of the log is lost, and kept in `between`. A policy without rollup is
the instance without granularities. `TelemetryProofs` holds the proofs.

Left out: several aggregation keys in one bucket (a row each, treated alike), lines without a time
stamp (never truncated), a line that a crash left half written, a rollup file that exists and cannot
be read (the code then takes it for empty), and two passes at once, which only two processes could
run.

`TelemetryShare` has the two capped logs of sessions and operator actions: recording with the
monotonic time, pruning at the cap, the newest checkpoint per session, and the share of actions that
did not come from the command line (`RecordSession`, `RecordAction`, `SessionSummary`, `ActionShare`).

### ReadModel.tla and MaterializedView.tla

State: the logs, the tables, the watermarks, whether the store is open, and where the ticker's thread
(`sync`) and the thread of a rebuild (`build`) are. `SyncStep` is `sync_from_jsonl`, which measures a
log, reads it in batches and commits rows and watermark together; `SyncFails` leaves it at any point.
`BeginBuild` and `BuildStep` are `rebuild`: read everything, drop, import. `Writers` append, append a
line twice, or cut a log as the retention job does; `Down` closes the store or ends the process.
`View` maps the tables to `MaterializedView`, an abstract view of a source: a refresh never takes a
line from the view that its source still has, only a rebuild does, visibly.

Left out: a log file that disappears (rotation of the event store at 100 MB), corrupt lines, and the
contents of rows.

### DecisionInbox.tla and DecisionScoring.tla

State of `DecisionInbox`: the decision objects of the process, the engines with their index and
counter, the facade's reference to the current engine, the file, and per thread where its call is.
`BuildEngine`, `AssignEngine` and `UseEngine` are the facade's lazy engine with its import of the file;
`Number` and `Draft` create; `Look` finds; `Sign`, `Act` and `Record` are the approval with the status
written last; `AppendLine` and `AppendFails` add the line; `Answer` returns. `Tick` is the second of the
clock of which ids are made, `Restart` ends the process, perhaps within a line.

`DecisionScoring` is what is computed of one decision: the risk with its factors, the option matrix,
routes, approval rules, policies, explanations, queries and counts.

Left out: `defer`, which no caller uses; policies that add constraints; the export.

### MemoryStore.tla, MemoryQueries.tla and MemorySnapshots.tla

State of `MemoryStore`: the file, and per caller whether it has an engine, the entries and the tag
index of that engine, the pass it is in and what it has still to visit. `CallStep` loads, saves,
changes, archives, deletes (which rewrites the file from the caller's copy in two steps), passes over
all entries to archive or purge, clears and searches; `Crash` ends a process, also in a rewrite. What
was last written is in `truth`; `lost` has the ids whose last state the file need not have.

`MemoryQueries` has the scored search, the vectors of the embedder and the knowledge base with its
file; `MemorySnapshots` the snapshots of one process and of the next.

Left out: tiers and links, which no caller uses, summaries, snapshots while others write.

### CompanyFiles.tla, OrganizationChart.tla and CompanyPages.tla

State of `CompanyFiles`: the two YAML files, the generated artefacts, the calls, and what the audit
trail tells last. `Ask` begins a call. Adding, removing and renaming are `LoadDepartments`,
`OpenDepartments`, `CloseDepartments`, `LoadManifest`, `OpenManifest`, `CloseManifest` and `Answer`; a
file between its open and its close is empty to everybody else. A build is `BootstrapManifest`,
`Bootstrap`, `LoadRegistry`, `LoadManifestAgain` and ten times `Generate`; an export is `Export`, a
validation `ValidateManifest` and `ValidateOutput`. `SaveFails`, `GenerateFails` and `End` are an
error or the end of the process in between. A readme that the bootstrap cannot render is a warning and
no error (`_render_template`): `Bootstrap` skips any of them, at the cost of a fault, and goes on.

`OrganizationChart` builds the chart of a registry: lines, levels, chains, spans, cycles, orphans.
`CompanyPages` is what the board's packet, the executives' packages and the top-level documents are
made of, and which warnings a build gives.

Left out: the wording of the artefacts.

### GenerationGraph.tla, Workflow.tla, AgentSync.tla

`GenerationGraph`: tasks, dependencies, the cached order, layers, the resolver over one graph per
task, and the plan of a company. `Workflow`: definitions and what loading and the validators say of
them, the machine and its conditions, the calls on a context, the loader and the registry.
`AgentSync`: slugs of the personas and reported collisions, the plan for the directories of a scope,
the run that writes it, the facade's call.

### What the algorithms are checked for

| Module | Evaluated in | Inputs | Assumptions |
|---|---|---|---|
| `PipelinePlanner` (`MCPipelineRun`) | `Pipeline` | all dependencies of 3 tasks on each other and on an unknown one | `AcceptedIsAcyclic`, `OrdersRespectNeeds`, `SomethingIsReady`, `CatalogIsRunnable`, `InstanceIsAccepted`, `ConditionsExclude` |
| `OrganizationChart` (`CheckChart`) | `Company` | all graphs on 3 nodes; charts of 3 executives, 2 departments, 1 specialist, 1 workflow | `CyclesAreFound`, `ChainsEndAtTheTop`, `SubgraphIsTheWayUp`, `RanksAgree`, `SpanCountsTheTeam`, `LevelsAreDistances`, `CyclesAreReportingCycles`, `OrphansAreUnrelated` |
| `GenerationGraph` (`CheckGenerationGraph`) | `Company` | all dependencies of 3 tasks on each other, and on one of them and an unknown one | `SortRespectsDependencies`, `LayersAreDepths`, `EdgesAreMirrored`, `RemovalOfLeavesRaises`, `AddedAfterSortIsMissed`, `ResolverCombines`, `PlanOrders`, `LevelsMayBreakTheOrder`, `PlanListsEachOnce` |
| `CompanyPages` (`CheckPages`) | `ReadModel` | names with a dash, a dot, capitals; each configuration file missing, broken or a scalar | `EdgesOfThePlainlyNamed`, `CommitteesMeetTemplates`, `EmptyBoardsAreSeeded`, `GovernanceShowsDefaults`, `SkillsFollowKeywords`, `PackagesBySlug`, `WarningsNameTheMissing`, `ValidatedIsNotWarned`, `NamesOfTheCompany` |
| `AgentSync` | `ReadModel` | up to 3 personas with equal, empty, reserved and extending names and titles; files absent, current, edited, unreadable | `SlugsAreDistinct`, `SharedUnreported`, `FirstKeepsItsBase`, `NothingOverwrittenUnasked`, `SecondRunIsIdle`, `SecondDirectoryIsHidden`, `ErrorsAreSeparate`, `LateFileIsLost`, `NamesakesShareDescription` |
| `Workflow` (`CheckWorkflow`) | `Lifecycle` | definitions of 2 states with every pair of types and sections, machines of 3 with conditions, up to 4 calls on 2 contexts, small directories | `LoadedStaysValid`, `VerdictOnlyOfTheStuck`, `FirstOpenTransition`, `SomeStayStuck`, `ContextsFollowTheCalls`, `RegistryFindsWhatLoads`, `RegisteredAndUnregistered` |
| `MemoryQueries`, `MemorySnapshots` (`CheckQueries`) | `Retention` | 2 entries, texts of up to 3 tokens, up to 4 knowledge calls, snapshots of 2 entries, also cut short | `ScoredIsFound`, `BestMayBeCut`, `RecentIsNewest`, `VocabularyIsTheFirst`, `VectorsOfTwoEmbedders`, `KnowledgeIsIndexed`, `LastBaseWins`, `RestoreGivesBack`, `LastOfTheSecond`, `DeletedComesBack` |
| `TelemetryShare` | `Retention` | logs of up to 3 lines, caps of 1 to 3 | `TimesRise`, `PruneDropsTheOvertaken`, `SessionsShownOnce`, `ShareCountsTheWindow`, `SessionsBringTheirPast`, `TargetByRounding`, `CountsAreWhole` |
| `DecisionScoring` | `Decisions` | every priority, 4 categories, each budget class, some named factors; tables of up to 2 rules, routes, policies; up to 3 options under 2 criteria | `RiskIsMonotone`, `HeaviestIsUntold`, `OnlyRulesWaive`, `RiskierMayBeWaived`, `RoutesInOrder`, `LeastPolicyDecides`, `ApprovedBeforePolicies`, `PoliciesById`, `TopIsBest`, `NamesHideOptions`, `NewestOfWhatIsAsked` |

Several of them state what a reader of the code would not expect and section 5 lists
(`HeaviestIsUntold`, `LevelsMayBreakTheOrder`, `VerdictOnlyOfTheStuck`, ...): they are there so that a
change of the code that mends it is noticed by the model.

## 3. What is checked

| Run | Instance | Distinct states | Shows |
|---|---|---|---|
| `SupervisionSafety` | 1 engine, 1 task, the system check, 1 attempt, threshold 2, 1 operator call | 3.4 million | `ExhaustedIsIsolated`, `NoRecoveryLoop`: an exhausted component is isolated or on its way; recoveries are bounded by the policy and one per supervision thread |
| `SupervisionLive` | 1 engine, 1 task, 1 attempt, threshold 1, no operator | 125,000 | `SickEndsIsolated`, `OverdueIsReported` |
| `Lifecycle` | 2 engines with a dependency or a cycle, 2 workers, 2 threads each, 2 calls | 324,000 | `DependentsStopFirst`, `OneThread` per worker, `CallsEnd` |
| `Scheduler` | a recurring job, an event job, a job that depends on the event job and runs once; 2 tickers, 1 publisher, 1 restart, 1 event, times 0 and 1 | 435,000 | `NoOverlap`, `OncePerDate`, `DependencyHeld`, `DueRuns` |
| `Pipeline` | 2 plans with a shared task id, parallel, conditional and sequential stages, 2 recoveries, 2 checkpoints, 1 that is not written, 2 calls | 653,000 | `DependenciesFirst`, `NoTaskOutlivesItsRun`, `FailureIsKept`, `NothingUndoneTwice`, `CallsEnd` |
| `WriteApi` | 3 requests of 2 API threads, 1 run, fallback, 2 restarts, 2 failed appends to the history, 1 lost audit event, guards with a bus | 668,000 | `ProviderIsHonest`, `RunsAreOnRecord`, `CancelledStaysCancelled`, `RestartKeepsOutcomes`, `RunsEnd` |
| `EventFeed` | 2 threads, 2 events, 1 standing subscriber, capacity 1 of each queue and of the replay, 2 further calls, connections or restarts | 2.7 million | `NoSilentDrop`, `LettersSurvive`, `FeedComplete`: no delivery fails in silence; dead letters are in their file; a live client gets all it is entitled to |
| `Retention` | hours of 2 and days of 4 points of time, window 2, 6 points, 2 passes broken off | 250,000 | `NoDoubleCount`, `RollupBeforeTruncate`, `ExpiredLeaves` the log |
| `ReadModel` | 2 logs, one keyed, 2 lines, 2 rebuilds, 1 fault, summaries of 1 row | 71,000 | `NothingSkipped`, `AnswersAgree`, `Mirrored`, and `IsView`: the projection implements `MaterializedView` |
| `Decisions` | 2 API threads, 3 roles, 3 calls, 2 seconds, 2 faults | 2.0 million | `InboxIsFile`, `NothingUnrecorded`, `RecordedOnce` |
| `Memory` | 2 commands and the runtime's engine, 2 ids, 2 tags, 3 calls, 1 crash | 3.5 million | `WrittenIsKept`, `FoundByTag` |
| `Company` | 2 API threads, 2 departments of which one founded, 2 names, 4 calls, 1 fault | 6.6 million | `TrailTellsFiles`, `BuildIsWhole`, `OnePicture`, `PassedMeansBuildable` |

The bounds. One engine is enough for the supervision races, which are between threads about the
same component; a second component (the system check, which has no policy) and a task are there
because they take the other branches. Threshold 2 lets a miss be counted without a failure. Two
calls of the pipeline are the least that can overlap or follow one another, two checkpoints the least
at which pruning keeps something. Two calls of the lifecycle include a restart, which is a stop and a
start, after a start, and a start after a failed one. Two workers are one whose passes need only
their own lock and one that restarts engines and degrades the phase; the other two do a part of that.
Six points of time are three hours and a day and a half, so that with window 2 buckets of both kinds
expire in part and in full; after two broken passes the third finds some buckets of the same
records rolled up and others not. Two threads and two events are an event that is delivered while
the other one's failure is requeued or replayed; the two further steps of the feed are two
connections, a connection and a restart, a requeue and a replay, and so on. Two tickers are the one
that outlived its join and its successor; the jobs are one of each way to become due. Two lines of two
logs let a copy be interrupted between logs and between lines; two rebuilds can overlap a sync and
each other's remains. Three calls are, for the inbox and for memory, two that overlap and one that
finds what they left; the third request of the write API is the one that cancels or follows after a
restart, and two appends that fail are one that leaves a part of a line and one that hits the next
record. Four calls on the company are two that overlap, a build, and a validation.

Symmetry is used where threads or commands are alike and the run checks invariants only (`EventFeed`,
`Decisions`, `Memory`, `Company`). Deadlock is checked where the system never stops
(`SupervisionSafety`, `SupervisionLive`, `Retention`); in the others the bounded calls, requests or
events come to an end.

Fairness. Each supervision thread is a loop that runs for ever, and competes for a lock that its
owners release and leave free for seconds, so strong fairness of each thread is assumed, none of the
environment and none of the operator's decision to call. For generate runs and plans weak fairness
of each thread is enough: they do not compete for a lock across steps. Children and tasks are
assumed to end (tasks are given a timeout by the executor's callers; a child that never ends keeps
its run running, which the code does not prevent). The write API adds weak fairness of a request that
was let in, none of a request being made. For the lifecycle weak fairness of the call and of each
worker thread is assumed: passes end, however late, and no call is ever required. For the retention
job weak fairness of its steps: the scheduler starts it every hour, and it is broken off a bounded
number of times. For the read model weak fairness of the sync, which the ticker starts every thirty
seconds and which fails a bounded number of times, and of a rebuild that was begun, but not of its
beginning. For the scheduler weak fairness of each ticker, of a publisher's thread that is in a job,
and of a restart that was begun; the clock need not move. The inbox, memory, the company's files and
the event feed are checked for safety only.

Where the code really can lose or mix up something, the property says in which case, by an auxiliary
variable that records that the case occurred (`lost` in memory, `apart` and `halfway` in the company's
files, `lapsed`, `shifted` and `twice` in the read model, `unkept` in the write API, `unsaved` for runs
and plans, `between` in retention, `overran` in the lifecycle, ...), and holds in every other one. These
cases are in section 5.

Every property has a mutant of the code in `PROJECT.json` (the definitions marked `faulty` in the
modules) that violates it.

## 4. What is proved

The theorems hold for every value of the constants that satisfies the assumptions named in the
modules, and so for any number of threads, plans, runs, events, logs, calls and failures. Each
invariant was first checked by TLC on the instance of the run. The proofs assume nothing else.

| Module | Theorem | States |
|---|---|---|
| `SupervisionProofs` | `TypeCorrect` | `TypeOK` |
| | `ExhaustedEndsIsolated` | `ExhaustedIsIsolated` |
| | `RecoveryIsBounded` | `NoRecoveryLoop` |
| `PipelineAndMemoryProofs` | `PipelineTypeCorrect` | `TypeOK` |
| | `DependenciesComeFirst` | `DependenciesFirst` |
| | `WavesEndFirst` | `NoTaskOutlivesItsRun` |
| | `UndoneOnce` | `NothingUndoneTwice` |
| | `FailuresKept` | `FailureIsKept` |
| | `MemoryTypeCorrect` | `MemoryTypeOK` |
| | `WrittenKept` | `WrittenIsKept` |
| | `FoundByItsTag` | `FoundByTag` |
| `WriteApiProofs` | `GenerateTypeCorrect` | `TypeOK`, and no run is started by two callers |
| | `ProviderHonest` | `ProviderIsHonest` |
| | `CancelledForGood` | `CancelledStaysCancelled` (an action property) |
| | `OutcomesSurvive` | `RestartKeepsOutcomes` (an action property) |
| | `EndpointsKeepTheRules` | `ApiSpec => Spec`: the API implements the runner |
| | `RunsRecorded` | `RunsAreOnRecord` |
| `SchedulerProofs` | `SchedulerTypeCorrect` | `SchedulerTypeOK` |
| | `OverlapsSkipped` | `NoOverlap` |
| | `DependenciesHeld` | `DependencyHeld` |
| | `OncePerDateHeld` | `OncePerDate` |
| `CompanyProofs` | `CompanyTypeCorrect` | `CompanyTypeOK`, and what a call knows at each step |
| | `PassedForBuilds` | `PassedMeansBuildable` |
| | `PicturesAgree` | `OnePicture` |
| | `BuildsAreWhole` | `BuildIsWhole` |
| | `TrailIsTrue` | `TrailTellsFiles` |
| `DecisionProofs` | `InboxTypeCorrect` | `InboxTypeOK` |
| | `EveryCallRecordedOnce` | `RecordedOnce` |
| | `NoVerdictUnrecorded` | `NothingUnrecorded` |
| | `InboxTellsTheFile` | `InboxIsFile` |
| `TelemetryProofs` | `NothingDropped` | `NoSilentDrop` |
| | `LettersOutlive` | `LettersSurvive` |
| | `ClientMissesNothing` | `FeedComplete` |
| | `RetentionTypeCorrect` | `RetentionTypeOK` |
| | `RolledUpBeforeTruncation` | `RollupBeforeTruncate` |
| | `NothingCountedTwice` | `NoDoubleCount` |
| `RuntimeProofs` | `WorkersHaveOneThread` | `OneThread` |
| | `ReadTypeCorrect` | `ReadTypeOK` |
| | `WatermarkIsHonest` | `NothingSkipped` |
| | `ProjectionAgrees` | `AnswersAgree` |
| | `ViewOfTheLogs` | `IsView`: the read model implements `MaterializedView` |

Few of these properties are inductive. What had to be added, and why:

**Supervision.** `TypeOK` is inductive as it stands; besides the types it says that a stale component
is monitored, that miss counters stay below the threshold, and that a handler has a component exactly
while it is inside a call. `ExhaustedIsIsolated` is inductive relative to it; the steps that matter
are `Recover`, which sends the handler on to `Isolate` when the attempts are used up, and `Unisolate`
with `ResetAttempts`, between which a component is neither isolated nor reset. `NoRecoveryLoop` needs
`AttemptsAccounted`, which charges every attempt beyond the limit to a supervision thread that is past
the isolation test or has used its one extra attempt.

**Pipelines.** `StatusesOrdered` says of the statuses of a plan, and of every copy of them that an
execution can start from (the current ones, checkpoints, what `recover` restores), that a task that has
started (it is running, completed or failed) has its dependencies completed. `WavesOpen` says of a
thread in a parallel stage that what it submitted was ready, that its results are those of running
tasks, and that after a failure only running tasks are left to drain. For the properties that exempt
plans that run side by side, `AloneInv` says what holds as long as plans are executed one after the
other: the shared stage index is the stage of the one that is executed, the handlers belong to different
tasks, and the effect of a task that completed stands until its result is applied. `FailureSaved` says
that the last checkpoint of a failed sequential stage holds the statuses and the stage of the failure,
unless it is `unsaved`; `NoneForgotten`, that an execution which was not resumed goes on only while no
task has failed that fails the plan.

**Generate runs and the write API.** `Honest` ties the provider that a worker has noted to the child
whose exit code it holds. `HistoryAgrees` says that the history holds the status of every run that was
started, or that the run was interrupted, or that its last record is `unsaved`; with `StartedOnce` (a
run is started by one call, and what cancels it comes later) it carries a cancellation over restarts.
What compares a record with the history holds for runs that have an id of their own (`IdsApart`): ids
are a second and a count read outside the lock, so that two runs started at once can share one
(`services/generate_runner.py` 214), and then the history does not tell them apart. `ApiInv` says which
request stands behind each call into the runner; because of it each step of the API is a step of the
runner or none, and the theorems about the runner hold behind the guards.

**Scheduler.** `Marked` says that a job that is executed is marked as running, and by one thread.
`Upstream` says that whoever has a dependency job in hand has found what it needs completed, and that it
stays so. `Alone` says that there is one ticker unless one outlived its join, and that publishers have
event jobs only; `Pace`, which needs it, counts the runs of a timed job, and the ticker that has still
to move its next date on, against the dates there have been.

**Company.** `CallsOK` says at which steps each operation can be. `VouchInv` says what the validation
whose verdict stands has seen, `BuildInv` what a build has loaded (`Loaded`) and what the outputs it has
written so far show (`Outs`). `TrailInv` says, as long as `apart` holds, that no two calls are in one
file or at one department (`Alone`), that each file tells of every department no call is at what the
trail tells (`FileInv`, `ListInv`), and that a call that has cut a file holds what was in it.

**Decision inbox.** `InboxInv` is the type invariant with what a thread knows at each step: in which
engine and with which object it works, that the entry it is about to append has the id of that object,
and that nobody works before an engine is in place. `TraceInv` says of every engine, also of one that
was replaced, that each status an index leads to is in the file, has failed to get there, or is with a
thread on its way (`Coming`); it needs no exemption for engines built at once, and so
`NothingUnrecorded` has none. `InboxIsFile` needs `OneEngine` (all work with the engine in
place), `Alone` (who works on a decision works on it alone, or it is contested), `BuiltInv` (an engine
that has been built and not assigned yet shows the file) and `PlaceInv` (the engine in place shows the
last entry of every decision nobody works on, and who is about to append one has put it into the index
and copied it as it is).

**Memory.** `KeptInv` adds to `WrittenIsKept` what the lines behind a torn one say (`TrueLines`): the
last line of an id before the next torn line holds what was last written, unless the id is in `lost`.
Without it a rewrite that ends short of the old file would bring back lines nothing is known of. The
lemmas `ContentsIs`, `AppendedIs` and `OverwrittenIs` say what a file means to an engine that loads it,
after an appended line and after a rewrite. `FoundByTag` is inductive once it is said of the archived
entries as well (`LoadedInv`), which come back from the archive without being looked for again.

**Events and the feed.** `DropInv` adds to `NoSilentDrop` what a thread still owes: a subscriber that
is among the targets of an event that is yet to be stored, or has failed and is yet to be buried.
`OwedInv` says, of everything a client is entitled to, where it is: sent, in its queue, with the loop,
with a thread that will deliver it to the bridge (`Delivers`), or in what the replay has loaded or has
still to load (`ToLoad`).

**Read model.** `ReadInv` consists of `Owned` (a line belongs to one log, and a log without key has it
once), `SyncOK` and `BuildOK` (what a sync or a rebuild has read continues what was copied, unless its
log was cut since), `Copied` (`NothingSkipped` with the watermark within the log) and `Exact` (a table
without key is its log up to the watermark). `Owned` is needed because a commit takes the lines of logs
that it copied anew off the list of those that slipped through, which must not touch another log.
`ViewOfTheLogs` maps `Write` to `Produce`, `Cut` and `Commit` to `Refresh`, `Drop` to `Discard`, the end
of a rebuild, good or bad, to `Settle`, and every other step to a stutter.

**Lifecycle.** A worker's live thread is the one it refers to (`OnlyRef`), unless a join timed out.

**Retention.** `PassAccounted` says that a pass that has read the log knows exactly the buckets that
have a row, that the buckets of its expired records have a row or are still to be written, and that what
it has not read was appended behind its back. With it `BucketBeforeTruncate` (what has left the log has
a row for its bucket) is inductive, and `RowsComplete` makes the row count it: a row has every record of
its bucket from before its pass's cutoff. `RollupBeforeTruncate` follows from the two. `NoDoubleCount`
needs `OneRowPerBucket`, given `PassAccounted`: without the knowledge that `known` is what the file
holds, a skipped bucket could not be told from one that was never written.

Assumptions on the constants: limits and bounds are naturals (thresholds, capacities and intervals
positive); names of different kinds are distinct, and so are the values that stand for none of them;
tables are functions on what they are tables of; lists that the program is configured with (stages,
workers, subscribers, logs) are finite sequences, the logs without repetition; there is a ticker, a
department that was founded, and a supervisor among the workers; no bucket is empty.

Only model-checked:

* liveness (`SickEndsIsolated`, `OverdueIsReported`, `CallsEnd`, `DueRuns`, `RunsEnd`, `ExpiredLeaves`,
  `Mirrored`), which needs fairness and `ENABLED`;
* `DependentsStopFirst`, which is about the order that a recursive function computes;
* the assumptions about the algorithms of section 2, most of which are recursive.

The type invariants are proved and not listed in a run; `TypeOK` of the lifecycle, `FeedTypeOK`
and `ApiTypeOK` are neither, and TLC has found no violation of them in the instances of the runs.

## 5. Races and divergences

The models contain further behaviours that a maintainer may want to know of. Where a property would
be violated by one, it exempts that case by name.

**Supervision and lifecycle.** A failure found by the heartbeat check is handled twice, by the
watchdog inside the check and by the supervisor with its result, and the second time isolates within
the fresh window that the comment at `runtime/engine.py` 743 promises. A beat for an engine that was
just unregistered brings its heartbeat record back; an engine that is isolated and re-admitted by hand
is never probed again; a recovery that ends after an isolation marks the engine RUNNING. A restart
within a join's timeout revives the old worker thread beside the new one; a late report of a failed
engine turns STOPPING or STOPPED into DEGRADED; a failed start leaves workers and engines running
that `stop()` does not touch (`runtime/engine.py` 489); engines are started in the order of
registration. A supervision pass that outlives the five seconds of its join goes on while the engines
are stopped, though `runtime/shutdown.py` (lines 6-8) says that workers are stopped first for that
very reason.

**Scheduler.** A dependency job without `max_runs` runs again at every tick once what it depends on
has completed (`runtime/scheduler.py` 277). A job that is registered anew while it runs can run
twice at once.

**Orchestration.** A resumed plan skips a FAILED task (`orchestration/pipeline.py` 360-362) and ends
COMPLETED, where `docs/CHECKPOINTS.md` 66-67 says that failed tasks are run again; `FailureIsKept` says
what the checkpoint holds and that only a resumed execution can end so. A checkpoint that cannot be
written is only logged (`pipeline.py` 581-582), and the plan is resumed from the one before it. Plans
run side by side share the stage index and the rollback handlers; recovery undoes effects of tasks that
the restored checkpoint keeps as completed. The planner accepts duplicate task ids, and a plan whose
task depends on a later stage, which can never complete; one bad configured pipeline makes every
`get_pipeline` fail. `load_states_from_memory` lets the oldest state win; `start_scheduler` has no
caller.

**Generate runs and the write API.** A child can be started after `cancel()` has returned, though the
docstring of `services/generate_runner.py` (26) says that cancelling terminates it; a cancellation can
overwrite an outcome that was recorded a moment before; two runs started in the same second share an id;
runs share one prompt file; two first requests at once build two runners. An append to the history that
fails is only logged (`services/generate_runner.py` 405-412): after a restart the run has the outcome
before, a cancellation can be undone, or the run is forgotten; a line that follows a part of one is lost
as well (`unsaved`). Under `serve` the guards are built before the runtime has a bus
(`api/write_endpoints.py` 136), so that no write leaves an audit event, against `api/guards.py` 9-13,
the docstring of `write_endpoints.py` and `docs/DASHBOARD_GUIDE.md` 103 (the tests pass a bus that is
there already); `RunsAreOnRecord` is stated for an app with a bus and does not cover it. Refused writes
(409, 404) leave no event in any case. A write token created with hashing at rest does not verify until
the tokens are loaded again.

**Events.** An event that is published while the first dashboard client subscribes may reach only
some subscribers or none; a dead letter that is appended while another thread requeues is wiped out
of the file; a crash after a requeue has popped its letters loses them; the file of dead letters
grows beyond the cap of the queue; and an event that was delivered but not yet stored when a client
reconnects with `?since=` is missed by that client, against the wish of
`docs/dashboard/phase1-workplan.md` (line 152) for "no missed events".

**Telemetry and read model.** Retention truncates the rest of a bucket that had expired in part without
counting it (`telemetry/retention.py` 442-449, against `config/runtime/telemetry.yaml` 4-8, "raw data is
never truncated before rollup completes"): `BucketClosedEarly` in `RollupBeforeTruncate`. A record
appended while a log is replaced is lost (`between`), also at the cap of the session and action logs.
The comment in `telemetry/sessions.py` (40) says that the newest half is kept; the newest up to the cap
are. A session that reaches into the window brings all it did before into the share. The read model does
not roll back its dropped tables (`readmodel/store.py` 211-212). Its sync takes the size of a log before
it reads it to the end (158-165), so that a line appended in between is imported by this sync and again
by the next, and a line that a rebuild and a sync import at once may be there twice as well, both
against "imported exactly once" (308-309): `twice` in `AnswersAgree`.

**Decisions.** An escalated decision can neither be approved nor rejected, and escalation never goes
beyond the first level; cancelling and escalating do not ask whether the decision is pending. A
policy that requires approval is applied after the status was set. A torn line hides every later
line of the file; a torn line is what a crash within an append leaves. A cyclic hierarchy makes
`determine_path` run for ever. The policy of the lowest priority has the last word; the "escalate"
policy only reports; a rule's limit on the risk lets riskier decisions fall through to a laxer rule;
the heaviest risk factor is the one left out of urgent decisions. Options with one id are ranked by
the last and answered with the first; one without an id is never the top option.

**Memory.** A deletion or a purge rewrites the file from the copy of its engine and drops what others
appended since; a crash in the rewrite loses the rest of the file. `search --tags` still finds an
updated entry under its former tag. Snapshots live in the engine of one call, so a restore in the
next finds nothing (against `docs/USER_GUIDE.md` 236); two of one second are one; a deleted one can be
restored and is listed by the next process; a restore leaves later entries. `link_memories` raises
after it has set the parent. A structured search ignores its source, date, sort and metadata
filters and scores only what the store has cut to the limit. The embedder's vocabulary is its first
text. Two knowledge bases on one file: the last save wins.

**Company.** Changes that overlap in one file lose one of them; a call that reads while another saves
sees an empty file (`apart`); a crash between the two saves leaves a half-made change, without an audit
event, and the retry is refused (`halfway`). A department that was there from the start stays on the
manifest when it is removed, since only strings are taken off the list (`services/runtime_facade.py`
1766-1769), against the docstring at 1750, "from departments.yaml + manifest". A readme whose template
is missing, does not render or cannot be written is skipped with a warning (`bootstrap/bootstrap.py`
144-155) that `build_run` leaves out of its answer: the build succeeds without it. An added department
is a plain string in a list that `models/company.py` (256-267) wants as mappings, so every build fails
until it is removed (`tests` use a manifest of strings, which the model would refuse). Artefacts of
removed departments stay; builds at once mix their artefacts. The bootstrap ignores `output_dir`;
`registry_validator.py` (39) promises a stub that is never merged. Levels of a chart start again at 0
for every root and stay 1 on a cycle; `detect_cycles` says "all elementary cycles" and reports the back
edges of one search; `subgraph` says "sub-tree" and collects superiors. The governance page shows
defaults only, since `config/board/board.yaml` keeps the settings beside the key it reads; members whose
name has a dash or a dot lose their committee edges; executives whose names share a slug share a
directory; a validation passes where every configuration file is missing.

**Generator, workflow, agents.** The generation graph keeps a cached order over additions, and
`remove_task` raises for leaves and roots; an order by priorities can put a task before what it needs.
Workflows have no caller: `TransitionValidator` raises for any workflow that can leave its initial
state, `ExecutionValidator` whenever there is a schema, calls on a context do not ask for its status,
and `config/workflows/sprint_planning.yaml` does not load. Two personas of one name can get the same
slug unreported; what is written was decided when the plan was made, so that a file that appears in
between is overwritten; a conflict in the second of two directories is hidden.

## 6. Plan

Done: the inventory above, the modules of section 2 and the proofs of section 4. Left, in this order,
each with its mutants and map entries:

1. Proof: `DependentsStopFirst`, by induction over the places of an order.
2. Abstract specifications: a task runs at most once per execution after its dependencies,
   implemented by `PipelineRun`; bounded recovery, implemented by `Supervision`.
3. Concurrent prunes of the session and action logs, and two agent syncs at once, as state machines.
4. The generator's writer, the backup, memory's summaries and tiers.

Not modelled: the circuit breaker (nothing creates one), configuration, metrics and diagnostics (parsing
and reports with little control), the legacy orchestrator (its `execute` has no caller), the graph
engine (wrappers of a graph library), the providers (HTTP clients of external services), the audit log
(appended only), the integrity scripts (read only), and the wording of everything that is rendered.
