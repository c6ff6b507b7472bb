# TLA+ models of BrainDashboard

BrainDashboard is a dashboard for one GPU machine: a FastAPI service reads
sensors and services, keeps job definitions, and a scheduler runs the jobs that
are queued. This directory holds models of the parts of it that keep state over
time or decide what runs, the configurations that check them with TLC, and
proofs checked by TLAPS. Everything is translated from the Python under
`src/braindashboard` and from the GPU wrapper under `deploy/`; the paths below
are relative to `src/braindashboard` where no other directory is named.

Contents: [inventory](#1-inventory), [modules](#2-modules),
[runs](#3-runs-and-bounds), [fairness](#4-fairness), [proofs](#5-proofs),
[known divergences](#6-what-the-code-does-differently),
[limits](#7-what-is-not-modelled-and-what-the-models-leave-out), [plan](#8-plan).

## 1. Inventory

Two processes share a PostgreSQL database: the API (`main.py`) and, unless the
scheduler is embedded in the API, the worker (`worker.py`). Nothing else is
shared but files; the processes never call one another. Inside a process
everything is asyncio tasks, so code between two awaits is atomic within the
process and nothing is atomic against the other process except a database
commit. Sessions run at READ COMMITTED and take no row locks by hand, with one
exception (`claim_next_queued_run`).

| component | state it keeps | operations | talks to |
|---|---|---|---|
| Scheduler service, `scheduler/service.py` | loop task, `_handles`, one supervision task per run, stop event | reconcile, tick (sweep, count, claim, launch), supervise, finalize, start, stop | job-run store, native executor, output capture |
| Native executor, `executors/native.py` | `_processes`, the children | start, cancel (SIGTERM, grace, SIGKILL), forget | operating system |
| Job-run store, `db/job_runs.py` | tables `job_runs`, `job_events` | insert, request cancel, count, claim, mark starting / running / final / lost, append event | both processes |
| Output capture, `service.py:_capture_stream`, `executors/events.py` | per stream: buffer, record number, last progress signature; the log files | read a chunk, append to the log, cut records, store events | child's pipes, job-run store |
| Event views, `api/routes/jobs.py`, `db/job_runs.py`, `executors/events.py` | none (derived from `job_events`) | subjob status for the list and for one run, progress of a run | job-run store |
| Job catalog, `db/job_definitions.py`, `api/routes/jobs.py` | tables `job_definitions`, `job_parameters` | list and seed, create, update, delete, read for queueing | API clients, job-run store |
| Queue parameters, `api/routes/jobs.py:795-906` | none (a loop over the definition) | effective parameters and command of a run | job catalog |
| Hardware monitor, `monitoring/hardware.py` | the bucket under way, stop event | tick, fold a sample, flush, start, stop | collectors, usage store |
| Hardware usage store, `db/hardware.py` | tables `hardware_sample_buckets`, `job_hardware_usage` | write a bucket, choose the run to charge, add to its usage | job-run store (reads states) |
| GPU profiles, `collectors/gpu_profiles.py`, `api/routes/gpu.py`, `deploy/sbin/braindashboard-gpu-profile` | the wrapper process; outside it, the settings of the GPU | list, apply, reset | `nvidia-smi`, LACT, sudo |
| vLLM metrics, `collectors/vllm_metrics.py` | a ring of samples, the address that answered last | collect, list | vLLM, llama-swap |
| llama-swap and Docker status, `collectors/llama_swap.py`, `collectors/docker.py` | none (five questions, one after the other) | collect, unload models | HTTP, docker |
| Hardware API history, `api/routes/hardware.py`, `collectors/host.py`, `gpu.py`, `network.py` | none | read sensors and stored buckets | usage store |
| Frontend, migrations, systemd units | - | - | HTTP API, `nvidia-smi` |

What is hard, and what makes each component correct:

* **Admission.** The number of active runs is read in one statement, the next
  run claimed in another, and the API commits cancel requests in between
  without locks. Correct means: no run is executed twice, at most
  `job_max_active_runs` are active, a child that runs occupies a slot, a slot
  that is occupied will be given back, a recorded end is the true one and stays.
* **Cancel and timeout.** The sweep, the timeout of the supervision task, the
  exit of the child and a stop of the worker race for one process. Correct
  means: whoever comes first, a cancelled or overdue child ends, and the run
  gets a verdict that says what happened.
* **Crash and restart.** The worker may disappear at any point of a launch;
  its children may or may not go with it. `reconcile` must release what was
  held and start nothing again.
* **Errors of the database** cut a handler short between two of its steps.
* **Output.** Two tasks copy two pipes, cut anywhere, into a log, records and
  rows; the child blocks when nobody reads. Correct means: the rows are those
  of the text, whatever the chunks, and nobody waits for ever.
* **Views.** The same question (how is this subjob doing?) is answered by two
  functions over rows in an order nobody controls.
* **Catalog.** Requests read and write several rows in several statements.
  Correct means: a definition has the parameters of one save, a run has a
  definition and was made from one version of it.
* **Parameters.** What a client sends is checked, converted and turned into a
  command, parameter by parameter, with a different exit for each mistake.
  Correct means: exactly the acceptable requests make a run, what is stored with
  the run is what the job is told, and it could be submitted again.
* **GPU settings.** Six kinds of commands and two calls to a daemon, each of which
  can fail or hang, run in a process that is killed, or that cannot be killed,
  while the event loop waits. Correct means: an answer says what the GPU is set
  to, a failure leaves a beginning of the profile, and the loop is released.
* **Service pages.** Collections overlap and put together answers of different
  moments, of backends that are loaded, evicted and restarted between them.
  Correct means: nothing is counted twice, rates and ratios stay meaningful, and
  a page shows nothing that was never there.
* **Accounting.** Samples are folded, flushed, and added to a running total,
  over errors, restarts and a wall clock that may go back. Correct means: the
  total is the sum of the rows, no sample counts twice.

PROJECT.json lists the hazards one by one, at the line where each bites.

## 2. Modules

    JobSlots                what the scheduler promises (abstract)
      ^ implemented by
    JobSchedulerSlots       the refinement mapping
      | EXTENDS
    JobScheduler            scheduler service + native executor + job_runs + API cancel
      ^ EXTENDS
    JobSchedulerProofs      type, single start, admission, slots, ends, the refinement

    JobOutput               capture of the output of one run          <- JobOutputProofs
    SubjobViews             what the API derives from job_events      <- SubjobViewsProofs
    JobCatalog              definitions and the requests on them      <- JobCatalogProofs
    QueueParameters         parameters and command of one request     <- QueueParametersProofs
    HardwareMonitor         sampling, buckets, usage of a run         <- HardwareMonitorProofs
    GpuProfile              requests to change the GPU's settings     <- GpuProfileProofs

    LlamaSwapServer         the model server that is watched (external)
      ^ EXTENDS
    VllmMetrics             metric collections, ring of samples
    ServiceStatus           snapshots, unload
      ^ EXTENDS both
    Services                the two of them in one API                <- ServicesProofs

Each specification that is run has an `MC...` module that gives the constants
their values.

The modules meet where the components do. `SupDrained` of JobScheduler (the
capture tasks have ended) is what JobOutput is about; `Finalize` of JobOutput is
`FinalRead` of JobScheduler. The order in which JobOutput inserts `events` is any
interleaving of two streams, which is what SubjobViews assumes of `stored`.
`Queue` of JobCatalog is `Queue` of JobScheduler, and what happens in it before the
insert is QueueParameters: between its two reads and the insert the API has no
await, so the loop over the parameters is atomic for the other requests of
the process. `phase` of HardwareMonitor is the state column of JobScheduler,
reduced to "active or not"; any number of runs may be active, and a bucket is
charged if exactly one is. GpuProfile shares the event loop with all of them:
while the wrapper runs, nothing else in the process does, which is a stutter of
the other modules as long as it ends (`LoopReturns`).

### JobScheduler

An action is one stretch of code between awaits that another task, the API, or a
child can observe. A handler that reads a row and commits later is two actions,
because another commit may come in between.

| variable | code |
|---|---|
| `row` | the committed `state` column |
| `pending` | the cancel requests in flight, by run and by the state each has decided on; any number may overlap |
| `loop`, `cur`, `todo` | where `_run_loop` is, the run it works on, what is left of the sweep or of reconcile |
| `handles` | keys of `_handles` and of `_processes`, which always change together between awaits |
| `sup`, `result` | where `_supervise_run` of a run is; the verdict it will write |
| `proc` | the child, as the operating system sees it |
| `stopping` | `_stop_event` |
| `starts`, `stale`, `faulted` | history: processes started; rows over which a late cancel was committed; runs an error cut short |

| actions | code |
|---|---|
| `Queue`, `CancelRead`, `CancelCommit`, `CancelFails` | `create_job_run_record`, `request_cancel_job_run` (API) |
| `Start`, `ReconcileRead`, `ReconcileCommit`, `ReconcileFails` | `start`, `reconcile`, `mark_active_runs_lost` |
| `TickBegin`, `SweepNext`, `SweepKill`, `SweepExitSeen`, `SweepDone` | `_cancel_requested_runs`, `NativeJobExecutor.cancel` |
| `Count`, `Claim`, `ClaimNothing`, `TickFails` | `tick`, `count_active_job_runs`, `claim_next_queued_run` |
| `MarkStarting`, `Spawn`, `SpawnFails`, `RecordStartFailure`, `MarkRunning`, `LaunchFails` | `_launch_run` |
| `SupInit`, `SupExitSeen`, `SupTimeout`, `SupKill`, `SupDrained`, `FinalRead`, `FinalCommit`, `SupFails` | `_supervise_run`, `_finalize_run` |
| `ProcExit`, `OrphanExit` | the child |
| `RequestStop`, `CancelTasks`, `Exit`, `Crash` | signal handler, `asyncio.run` closing its tasks, kill |

`JobSlots` is the contract: a run waits, holds one of `MaxActive` slots for one
period, and is over; its job is started once, and not while it waits. A run whose
row a late cancel has overwritten is *disowned*: the record no longer says
whether it holds a slot, and the contract says nothing about it but that its job
is started once. `JobSchedulerSlots` maps `row`, `stale` and `proc` to it.

### JobOutput

One run, two streams. The child writes byte by byte into a pipe of `Capacity`
bytes and blocks when it is full. `ReadChunk` takes any part of what is there,
appends it to the log, and cuts the buffer into records (`CompletedRecords`,
`Remainder`: `_split_completed_stream_records`). `TakeRecord` goes through them
up to the await of the insert, `Store` inserts. `EndOfStream` and `CaptureDone`
are the code after the loop. `LogFails` and `StoreFails` end a task by an
exception that `gather(return_exceptions=True)` swallows. Which records are
events is a constant: a set of records `parse_job_event_line` accepts and a
function from tqdm bars to their progress signature.

Records, cut off but not yet looked at (`pending`) or stored (`events`), carry the
place in the output where they end, `at`. It is history: the code keeps them in a
list, in that order, and no step depends on it otherwise. With it the reference is
stated place by place, and from the whole text at once, without buffer, chunks or
order of steps: `Expected` is the set of places of a text where a record ends that
must be stored (an event, or a bar unlike the one before it), `RowIsRecord` says that
a row is the record that ends there, with its number.

### SubjobViews

`Emit` is the job, `Store` a capture task. `ListView` folds
`_subjob_status_from_event` over the rows, `DetailView` folds `_subjob_status` with
the merged metadata, `RunProgress` is `_latest_run_progress_from_record`. A status is a
string, a number, blank (`""` or `null`) or not given: the query of the list turns a
number into its text (`IsText`), Python does not take it (`IsString`), and a blank one
replaces what was given before in the merged metadata.

### JobCatalog

A request is a small program over statements: `ReadRow`, `ReadChildren`
(the `selectinload`, a statement of its own), `ReadPosition`, and one write at
its commit. Writes take effect at the commit because a row that a
transaction has changed makes other writers wait. The guards of the writes are
the constraints of the schema: primary key (`Create`), unique parameter name
(`NameTaken`), foreign keys (`RowMissing`, `HasRuns`, `Queue`). A definition is its
`contents`, a model value that determines its parameter names.

### QueueParameters

One request. `CheckNames`, `RefuseUnknown`, `RefuseParameter`, `ConversionBreaks` and
`TakeParameter` are the loop of `_build_effective_parameters`, with its exits;
`CreateRun` is `_build_effective_command` and the insert. A value is a pair of its
JSON type and its content, since Python tells `True`, `1`, `1.0` and `"1"` apart and
the conversions do so differently. Floats are tenths, with one infinite value:
`int()` raises an error for it that nothing catches (`Overflow`), and the JSON
column does not store it (`Storable`). A parameter's name stands for its flag.

### GpuProfile

One GPU. `gpu[s]` names the profile that setting `s` was last set by. The wrapper's
process is `stage` and `left`, the commands it still has to run, in the order
of `build_apply_commands` (`Rank`).

| actions | code |
|---|---|
| `Call`, `CallRefused` | the route and `_run_wrapper`; the checks before the first command |
| `RunCommand`, `CommandHangs`, `CommandFails`, `DriverReturns` | `run_commands` of the wrapper and its timeout of 20 s, which ends a command that hangs but not one that is stuck in the driver |
| `LactSet`, `LactFails`, `LactConfirm`, `ConfirmFails`, `Settled` | `apply_lact_offsets`, the pause, and the commands asserted again |
| `Answer`, `TimesOut` | the end of `subprocess.run` in the API, or its timeout of 15 s |
| `OrphanEnds`, `LactReverts`, `ApiDies` | the driver, LACT, the end of the API process |

With `sudo` the API may not kill the wrapper, so the timeout makes the request wait
for the wrapper's own end and then fail (`overdue`); without it the wrapper
is killed and the command it was waiting for becomes an orphan, which may still
take effect. LACT may do what it was asked although its answer was lost, at once or
in the course of a later request (the orphans `"offsets"` and `"confirm"`), may
change the power limit, and takes back what was not confirmed.

### LlamaSwapServer, VllmMetrics, ServiceStatus, Services

LlamaSwapServer is the world: models are loaded and evicted, and a process counts
the requests it served since it was started, by latency class. `life` and `before`
identify the moment of a reading; only properties look at them.

VllmMetrics: `Begin`, `Discovered`, `Fetched` and `Record` are the awaits of
`collect()`; `RecordOffline` is every way to fail, `DiscoveryBreaks` the one that
leaves no sample. Discovery and answer of one collection may be separated by any
steps of another one, and of the server. `Rate`, `HitShare`, `Interval` and `Quantile`
are `_counter_rate`, `_counter_ratio_percent`, `_interval_histograms` and
`_histogram_quantile`, as fractions.

ServiceStatus: a snapshot is five questions in a row, each answered, failed or
garbled, with the status rules as operators (`SwapStatus`, `BackendStatus`). An answer
that is JSON of another shape, or has entries of one, is read as a list that lacks
them, and no error is noted: `AskModels` and `AskRunning` may get any subset of the
truth. `misread` is history and remembers which list was not the whole one.

Services composes them. A dashboard page polls one route at a time, so `page` is
chosen once; the other page's requests would be independent, as the two collectors
share no state.

### HardwareMonitor

`Collect`, `Fold`, `BeginFlush`, `Attribute` and `Commit` are the awaits of `tick`
and `record_hardware_buckets`; `Refused` is the unique constraint,
`DatabaseFails` a SQLAlchemy error (swallowed by the flush), `TickFails` any
other one (swallowed by the loop, which drops the sample in hand too). `TimePasses`
and `ClockSetBack` move the wall clock, `RunBegins` and `RunEnds` the state column.
`rows` and `usage` are the two tables. Of all metrics only the power of a
GPU is kept: it has the longest path (average, energy, cost, merged average).

## 3. Runs and bounds

| run | specification, instance | what it shows | states |
|---|---|---|---|
| SchedulerRaces | `Spec`; 2 runs, 1 slot, 2 cancels, 1 crash or stop that children survive, 1 error | all safety properties of the scheduler; the refinement of JobSlots | 1,258,836 |
| SchedulerEnds | `FairSpec`; 2 runs, 1 slot, any two of: 2 cancels, a crash or stop, an error | a cancel and a timeout end a child; the queue moves and claimed runs end | 195,523 |
| SchedulerLoopDies, SchedulerCancelLost, SchedulerTwoJobs | `Spec`; 2 runs, 1 slot | three statements of the documentation that the code does not keep (section 6) | |
| OutputRaces | `CooperativeSpec`; all 341 texts of at most 4 bytes next to a silent stream, 16 pairs of longer ones, pipes of 2 bytes, 1 error, 1 kill | stored events, numbers and logs are those of the text; the run is finalized | 162,086 |
| SubjobHistories | `Spec`; 3 events of 18 kinds on 2 streams | the two views agree, progress is the latest | 366,841 |
| CatalogRequests | `Spec`; 3 requests, 2 ids (one seeded), 3 contents | parameters, runs and definitions stay consistent | 126,373 |
| QueueRequests | `Spec`; every definition of two parameters over 5 types, 13 defaults and 3 lists of choices, every submission over 14 values for one of them and some for both or for an unknown name | the acceptable requests make a run; the stored parameters convert to themselves; the command tells them | 643,114 |
| MonitorHours | `Spec`; 2 GPUs, 2 runs, 4 samples, clock to 3 s, an error, a stop or crash, a clock set back | the usage is the sum of the rows, the merged average exact, samples accounted for, buckets whole, energy bounded | 1,312,476 |
| GpuRequests | `FairSpec`; 2 profiles and the reset, 3 requests, 1 end of the API, with and without sudo | an answer is true, a failure leaves a prefix, nothing else changes, the loop returns unless a command is stuck behind sudo | 550,389 |
| ServicePages | `Spec`; 2 overlapping requests of 3, 2 vLLM models and 1 of llama.cpp, 2 loads, 2 served requests, 2 samples kept, clock 1 | rates, ratios, quantiles and addresses are right; snapshots show nothing that was not there and hide nothing that was | 928,837 |

Why these bounds are enough for the cases that matter. Two runs and one slot are
the least that can break admission; what more runs and more slots would add is
proved (section 5). A late cancel needs one request; with a second one, two overlap,
or the second meets the trace of the first. One error, one stop and two cancels can
fall on every step, in every order; SchedulerEnds has every two of them together
(`MaxTrouble`), which is what a cancel that ends nothing takes: a second cancel, an
error or a stop. Children survive a stop in SchedulerRaces,
so that orphans occur, and are killed with the worker in SchedulerEnds, as its unit
has it. Four bytes give two records with a
separator of two bytes, or one repeated bar and a rest; capacity 2 makes the child
block. Three events give a status, an event that leaves it out (or gives a number
or a blank one), and one in between. Three requests give two that conflict and one that profits. Two
parameters give one that is checked after another one was taken; the second varies
only in what may interact with the first. Four samples
give two full buckets, or three with a flush each; a bucket is two seconds
long, so that full and partial ones occur, and the first sample after a clock set
back may fall into a bucket that has rows. Three GPU requests give one whose
orphan or unconfirmed offsets meet the second, and a third that repairs it; one
profile has every kind of step, the other one shares the power limit with it and
has settings of its own. Two loads give a restart of one backend or a change to
another; two kept samples let the ring overflow in three requests, of which two
overlap. Runs, catalog requests, collections and vLLM models are symmetric in
their runs; no liveness property is checked with symmetry.

Bounds are constants named `Max...`; they cap counters in guards and nothing else,
except `MaxSamples` of VllmMetrics, which is the setting of the code. `Scale` makes
the average an integer and is checked by the ASSUME of the module.
Deadlock is not checked: a run of a model ends when all bounds are used up.

Properties, and the exceptions they name:

* `StartedAtMostOnce`, `AdmissionBound`, `ChildHoldsSlot`, `SlotHasOwner`,
  `OutcomeIsTrue`, `EndIsFinal`, `ImplementsSlots`. The exceptions are `stale` (a
  cancel that committed over a newer state) and, where a slot may leak,
  `faulted`. They are history variables, set exactly by the step that does the
  damage, so the properties also say that nothing else can do it.
* `CancelEndsChild`, `TimeoutEndsChild`, `QueueMoves`, `RunsEnd`: liveness.
  The first two hold with errors and stops. An accepted cancel ends the child unless
  a second cancel that overlaps it, and had read `queued`, commits `canceled` over it:
  the sweep looks for `cancel_requested` only (section 6). The last two exclude errors and late
  cancels, and a run that has no timeout, is not cancelled and does not end by
  itself (`RunsOn`): nothing in the code ends it.
* `EventsFollowOutput` (a line number is exact unless the text has a `\r\n`; from
  there on it may be greater by one for each of them, which is what a chunk that
  ends between the two bytes makes of it: `RowIsRecord`),
  `LogIsComplete` (of a stream whose task has not failed), `RunIsFinalized` (or the
  child is abandoned by a failed task). The `TypeOK` of JobOutput is
  checked by its run too, since it says that no end of line stays in the buffer. Those of
  the other modules are proved only; what a type invariant of QueueParameters would say is
  in `StoredIsStable`.
* `ViewsAgree` (or a status was left out after it had been given, or is a number),
  `ProgressIsLatest` (if the job numbers all or none of its progress events).
* `ParametersFollowContents` (or two writes of the definition overlapped),
  `RunHasDefinition`, `RunIsOfOneDefinition` (or a write overlapped).
* `UsageMatchesRows`, `AverageIsExact` (if no reading is missing),
  `SamplesAccountedFor`, `BucketsAreWhole`, `EnergyIsBounded` (by a reading over the
  length of the bucket, also if a clock set back put more samples into it).
* `AppliedMeansSet`, `NothingElseChanges` (both leave out the settings that an orphaned
  command, or LACT by itself or for an earlier request, changed late, `late`; the first
  one also what a warning is about), `PrefixApplied`, `ClocksBeforeOffsets`,
  `LoopReturns` (or the wrapper runs under sudo and its command stays stuck in the
  driver for ever).
* `RateIsProgress` (its upper bound leaves out comparisons of two backends and of
  readings recorded in the wrong order), `CountedOnce` (if readings are recorded in
  the order in which they were made), `ShareIsRatio` (at most 100 % if both readings are
  of one process), `QuantilesInOrder`, `EndpointAnswered`, `ActiveWasLoaded`,
  `BackendsAreShown` (on a page that shows llama-swap healthy, and except for a list
  whose answer had another shape, `misread`: that is passed off as an empty one).
* `QueuedIfAcceptable`, `StoredIsStable`, `CommandTellsParameters`. The reference of
  the first, `Acceptable`, looks at each parameter alone and in no order.

## 4. Fairness

`FairSpec` of the scheduler: asyncio runs every task that can go on, so the loop
and each supervision task are weakly fair; SIGKILL works; an API request is
finished or fails; a worker that is down is started again (`Restart=on-failure`
in the worker's unit covers a crash, an operator a stop). `PipesClose` adds that
whatever a job started has closed its pipes some time after the job ended;
without it the code waits for ever, and no end of a run could be promised. Jobs
are adversarial otherwise: they may ignore SIGTERM and run for ever. The
claim of a run whose row is locked by a cancel (`SKIP LOCKED`) is retried by the
next tick.

`CooperativeSpec` of JobOutput: the capture tasks are scheduled and the
database answers (it may answer with an error), the job writes on when it can
and exits when it has written everything. The kill is not fair.

`FairSpec` of GpuProfile: the wrapper goes on or its own timeouts (20 s for a
command, 5 s for LACT) fire, the route's timeout fires, and the output of a
process that exited is read. The timeout ends a command that hangs because a kill
ends an ordinary process; nothing is asked of one that is stuck in the driver
(`DriverReturns` is not fair), for which the wrapper waits after the kill without
a limit, nor of LACT.

Errors, crashes, stops, cancels, hanging commands and the clock are never fair.
The other modules state safety only.

## 5. Proofs

All theorems hold for every value of the constants that satisfies the named ASSUMEs
of the modules, which TLC evaluates in every run: any number of runs, slots,
requests, models, GPUs and profiles, and any bounds. Every property below is also
checked by TLC, on the instances of section 3.

**JobSchedulerProofs.**

* `TypeCorrect == Spec => []TypeOK`. `TypeOK` is inductive with the addition
  that the loop names a run whenever it cancels or launches one (`TypeInv`).
* `StartedOnce == Spec => []StartedAtMostOnce`. The claim takes only queued runs
  and no step writes `queued` on a row that had another state; so `OnceInv` says
  that a run which is absent or queued was never started, nor the run in the
  launch before its spawn, and that a supervised run was started once and is not
  being launched.
* `AdmissionIsBounded == Spec => []AdmissionBound`. The count is stale when the
  claim uses it. The invariant (`AdmissionInv`) says that from the
  count to the claim the active runs that are not `stale` are fewer than
  `MaxActive`: only the claim can make another run active that is not `stale`.
  `SlotsShrink` shows that every other step can only shrink the set of active runs
  that are not stale, using `LaunchHoldsSlot`: the run being launched is active or
  stale, so `mark_job_run_starting` and `mark_job_run_running`, which write blindly,
  do not add a holder. It rests on the cardinality facts of `FiniteSetTheorems`.
* `SlotsAreOwned`. `SlotHasOwner` is inductive with `ReconcileSeesAll`: when reconcile
  commits, every active run is in its list or was touched by a late cancel.
* `OutcomesAreTrue`, `ChildrenHoldSlots`. `EndInv` says, for each run, what its row,
  process, handle and supervision task say of one another (`EndOf`); that what is
  not supervised has no live child unless it was cut off (`NothingLost`); and that
  a stop was asked for if the loop is closing.
* `EndsAreFinal`: no step but the commit of a late cancel overwrites a final state,
  because launch and supervision work on rows that are not final (`EndsKept`).
* `SchedulerImplementsSlots == Spec => ImplementsSlots`, the refinement: initial
  states map to initial states (`Phase`, `Job`), and each action is shown to be an
  admission, a release, a withdrawal, a disowning, the start or end of jobs, or a
  stutter (`StepMaps`). `PendingInv` is what it needs of a cancel request under
  way.

So every safety property of SchedulerRaces is a theorem.

**GpuProfileProofs.** `TypeCorrect`; `FailureLeavesAPrefix` from `WrittenInv` (what took
effect is what was run of the first list, and all of it later); `ClocksAreFirst`;
`OthersAreKept`; `AppliedProfilesAreSet`. The last one needs, during the first list, that
a setting is what the last command run for it made of it (`LastCommandCounts`: a
profile may reset and lock the same clocks), and after it that everything is as
wanted but a power limit LACT took away, which is still to be run again
(`SettingsFollow`). Every safety property of GpuRequests is a theorem.

**JobOutputProofs.** For any two texts, pipes of any size, any chunks and any
number of errors.

* `ChunkIsCut`, about the operators: if the buffer is the remainder of the text read
  so far, then cutting buffer and chunk gives the records that end in the chunk, but
  for a `\n` that completes a `\r\n`, which was an end already, and leaves the remainder of the
  longer text. It rests on `RecordsStay` (what follows an end of line changes no record
  before it) and `Window` (the ends of a part of a text are those of the text, shifted).
* `TypeCorrect` and `LogsAreComplete == Spec => []LogIsComplete`, from `TypeInv`. Its
  part `LogFollows`: what was read, what was logged and what waits in the buffer are
  parts of one text, and a task leaves its loop only over an empty pipe that is closed.
* `EventsAreTheOutput == Spec => []EventsFollowOutput`. `EventsFollowOutput` speaks of rows;
  inductive is `TasksFit`, which says of a task where it stands in its text: the records
  ahead of it are those after the ones it has passed (`AheadFits`); the last signature
  is that of the last bar passed (`LastFits`), without which a repeated bar would be stored
  when a chunk ends between the two; the number of the next record counts them
  (`CountFits`); what it holds over its await and what it has stored are records that should
  be (`HeldFits`, `RowsFit`); and whatever should be stored is stored, held, or ahead, unless
  the task has failed before it (`NoneLost`). One lemma per step of a task (`TaskReads`,
  `TaskSeesEnd`, `TaskIsDone`, `TaskTakes`, `TaskStores`, `TaskFailsWell`) shows it for one
  stream, `TasksNext` for both.

**ServicesProofs.** `TypeCorrect`, with the ring never over its limit; `ActiveIsTrue` and
`BackendsShown` from `SnapshotInv`: what runs now or was reported to run was loaded when
the snapshot began or has been loaded since (`life` has grown); once a list was asked
for on a healthy page, it holds every model that was loaded all the time, or every
model, unless it was misread (`RunningRead`, `ModelsRead`). The five properties of
metric samples rest on two invariants:

* `KnownInv`: every reading that a collection holds or the ring keeps is one of the past
  (`Past`: no count is above what the process has now, if it is still the same), and
  any two of one address are ordered: same process and one below the other, or
  of different lives. `RatesAreProgress` and `SharesAreRatios` follow by arithmetic on two
  readings, `QuantilesAreInOrder` with lemmas about the least bucket that holds a rank.
* `StoreInv`: each online sample was compared with the online sample before it, if
  the ring still has that one, and the last one gives the address that is tried
  first. `EndpointsAreTrue` follows, and `RequestsAreCountedOnce`: consecutive intervals
  share an end, so that the sum over the ring telescopes.

**SubjobViewsProofs.** `TypeCorrect`; `LatestIsShown == Spec => []ProgressIsLatest` for any number
of events. The rows of each stream are a prefix of what it emitted, in its order
(`InStreamOrder`), so the greatest key, which exists in a finite set of rows, is that of
the latest event if all are numbered, or if none is and they share a stream.
`ViewsAlwaysAgree == Spec => []ViewsAgree`: the two views are recursive functions over the rows
(`ListViews`, `DetailViews`). They differ in what they keep, so the proof goes row by row
with a relation between the two (`ViewsRelated`): a status given as a string makes them equal,
a row that implies one keeps them equal, and they come apart only where a status is left out
after a string or is a number (`MayDiffer`), until the next string.

**JobCatalogProofs.** `ShapeInv` types the tables, the programs and the place of each
request. `OverlapInv` says that the history holds every two requests that are under
way together, `ReadInv` that what a request has read is still so unless it was
disturbed. `TypeCorrect`, `SavesAreWhole`, `RunsKeepTheirDefinition` and `RunsAreOfOneDefinition`
follow for any number of requests: all properties of CatalogRequests.

**QueueParametersProofs.** `ConversionStable`: a value converts to nothing, to an
error, or to a value that converts to itself. `LoopInv`: the parameters passed so far are
acceptable and have their effective values, a refused request has one that is not.
From them `AcceptableIsQueued`, `StoredConvertToThemselves` and `CommandIsReadBack ==
Spec => []CommandTellsParameters`, for definitions of any length. The last one rests on `TextTellsValue`: converting the text that a value is
written as gives the value back, if the value converts to itself.

**HardwareMonitorProofs.** `BucketInv`: of the bucket under way, the batch in flight and
the sample in hand, no device has more samples than the host, and the sum of its
readings is at most its count times one of them. `TypeCorrect`, `BucketsStayWhole` and
`EnergyStaysBounded` follow, with lemmas about products and quotients (`QuotientBound`).

* `SamplesStayAccountedFor`, from `AccountInv`: the samples taken are those in the rows, in flight,
  or lost by an error or a stop, and as long as nothing went wrong the buckets come in
  order (`InOrder`), so that the unique constraint refuses none.
* `UsageIsTheSum` and `AveragesAreExact`, from `UsageInv`: of each run, energy, cost,
  number of samples and merged average are those of the rows charged to it (`Charges`).
  The sums over rows are folds over a set. A total is the cardinality of a set with one
  element for each unit of each row (`TotalCountsUnits`), which gives what it is of no row, of
  one, and of two disjoint sets (`TotalOfNone`, `TotalOfOne`, `TotalsAdd`).

What a recursive function computes is proved without an induction theorem: if a statement fails for some number, it fails for a least
one, which exists by a fact about sets of naturals (`LeastExists`), and that case is refuted.

So every invariant of a passing run is a theorem, and so are `EndIsFinal`, `ClocksBeforeOffsets`
and the refinement. Only model-checked: the liveness properties `CancelEndsChild`,
`TimeoutEndsChild`, `QueueMoves`, `RunsEnd`, `LoopReturns` and `RunIsFinalized`, since liveness under
fairness (ENABLED) is out of the prover's reach. The properties of the three violation
runs are refuted by TLC.

## 6. What the code does differently

Three runs show statements of the documentation violated, one property each:

* `LoopSurvives`. `_run_loop` awaits `reconcile()` before its `try`. A database
  error at startup ends the scheduler while its process stays up
  (architecture/README.md:108 says that loops catch such exceptions).
* `CancelIsKept`. A cancel accepted between the claim and `mark_job_run_running`
  is overwritten and the job runs (README.md:69).
* `OneJobAtATime`. A cancel request that read `queued` commits `canceled` over the
  claim: the child runs on without a slot and the next job is started beside it
  (DEPLOYMENT.md:88). If a second cancel was accepted in the meantime, it is undone
  as well: the sweep no longer sees the run and a child without a timeout goes on
  (the exception in `CancelEndsChild`).

Others were met while modelling and are the named exceptions of the properties:

* An error of the event store ends the capture of a stream, so that the raw log
  stops as well (JOB_EVENT_CONTRACT.md:3 promises raw logs), and a child that
  goes on writing blocks (`Abandoned`).
* A `\r\n` that two chunks cut in the middle is two ends of line, so line numbers
  depend on timing (the upper bound in `RowIsRecord`).
* In the view of one run, a status once given in the metadata hides what later
  events imply; the list of runs shows something else (`LeavesStatusOut`).
  A numeric `subjob_id` or `subjob_status` counts in the list only (`GivesNumber`).
* A progress event without sequence number hides every later numbered one
  (`UniformlyNumbered`).
* A bucket is charged to the run that is active when it is written, even if that
  run began after the bucket had ended; this is why no property says that a
  charged run was active.
* Two overlapping saves of a definition may leave the parameters of both
  (`WritesOverlapped`).
* The wrapper's warning path (LACT failed or refused) leaves without asserting the
  power limit again, although LACT may have changed it; DEPLOYMENT.md:141
  describes the assertion without that exception (`AppliedMeansSet` has it). An empty
  map of offsets, which asks LACT for nothing, still asserts again.
* The client waits 15 s, a single command may take 20: a request is reported as
  failed while its wrapper goes on (with sudo) or has been killed over a command that
  takes effect later, even during the next request (`late`). With sudo the kill
  fails with a PermissionError, which nothing catches: the request waits for
  the wrapper and ends with status 500. All this time the event loop stands still,
  and for ever if the command is stuck in the driver: the wrapper kills it and then
  waits for it without a limit.
* LACT may carry out a request whose answer was given up during the next one, and
  set the offsets of an older profile over it (`late`).
* An answer of llama-swap with status 200 that is not JSON ends a snapshot or a
  collection with status 500 instead of a degraded page (`DiscoveryBreaks`, `"garbled"`
  answers in `Ask`). JSON of another shape is taken for an empty list without an
  error: llama-swap is shown healthy and its backends offline (`misread`).
* The previous sample is looked up after the await and whichever backend it is of.
  A slow answer is compared with a newer one, two backends are compared as if they
  were one: a rate may then belong to nothing, and a hit ratio exceed 100 %.
* `int(float("inf"))` raises an OverflowError, which nothing catches (status 500); an
  infinite float is accepted and then cannot be stored (503); `1.5` for an integer
  is cut to `1` without a word.
* A submitted `null` replaces the default instead of asking for it. Defaults are not
  checked when a definition is saved: one outside its choices or type refuses
  every run that relies on it.
* An error in `mark_job_run_running`, after the spawn, leaves a child that nobody
  supervises until it is cancelled (`faulted`).

## 7. What is not modelled, and what the models leave out

Not modelled: the frontend (it polls and displays), migrations, settings, the
schema as such, the sensors (they read and return), the Docker executor and the
adapters (placeholders), and the history of the hardware API (it reads and
formats stored buckets). Of modelled components: the list of GPU profiles and the
parsing of the wrapper's config file, the exposition format of the metrics and
its gauges, the texts, latencies and counts of the status pages.

Abstractions:

* JobScheduler: one worker at a time; the
  order of the queue is a constant rank, since no operation changes priority or
  time of a run; time appears only as "the timeout may fire"; the branch of
  `_supervise_run` for an unknown process cannot be reached, as nothing forgets
  a process before its supervision ends.
* JobOutput: one byte per character; a process that inherits the pipes is left
  out here (in JobScheduler it is a child that does not close its pipes).
* SubjobViews: rows have distinct `created_at`, in the order of the inserts.
* JobCatalog: position and contents of a definition, names of its parameters; the
  deletion of a parameter row that is gone is not an error (SQLAlchemy warns).
* QueueParameters: integers 0 and 1, three finite floats and an infinite one, a set of
  texts; the conversions are given for these. NaN behaves like the infinite one,
  except that `int()` refuses it with an error that is caught.
* GpuProfile: one GPU; a command sets its setting or does not; the driver
  remembers nothing but the settings. The reset is always of `default_gpu`.
* VllmMetrics: one histogram of three buckets stands for all counters; the clock
  is read at the begin of a collection, as in the code, but is not set back.
* ServiceStatus: an answer of another shape is a list from which some or all
  entries are missing; it never adds one.
* HardwareMonitor: integer power and time, a sample counts for one second; the
  clock moves between samples by any number of seconds, or not at all.

## 8. Plan

The parts of the plan about the existing modules are done: each has its run, and its
invariants are proved. What would extend it, in order:

1. The history of the hardware API: its limit on points and the choice of the
   resolution, as operators with a reference.
2. Two schedulers on one database (an embedded one beside the worker), which
   nothing in the code prevents.
3. Safety facts behind the liveness properties, which a prover can reach: that
   a supervised run that is not over always has a step of its task enabled, stated on the
   guards instead of with ENABLED.
