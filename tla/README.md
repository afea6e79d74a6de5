# Verification of the inference benchmarking tool

TLA+ models of this repository's control logic, TLC runs that check them on
small instances, and TLAPS proofs for every instance. Paths are relative to the
repository root; `orchestrator.py` is `tools/benchmarker/orchestrator.py`.

## 1. Inventory

The tool measures LLM inference deployments. From a laptop, the **Coordinator**
stages a rendered run directory on a cluster, submits a **Benchmarker** job there
and polls it; the Benchmarker's **driver** submits an **engine** (a second SLURM
job, or a Kubernetes deployment) whose container first runs the **pre-checks**,
then serves; the driver's **load generator** sweeps request rates and everything
measured goes into a per-run SQLite DB, which the Coordinator fetches and merges
into a central one. **Reports** read that. Before all this the **Planner** renders
the run directories from a YAML, and after it the **Cleaner** removes what runs
left behind.

| Component | State it keeps | Operations | Talks to | What makes it hard |
|---|---|---|---|---|
| Coordinator (`tools/coordinator`) | `RunState` in memory and in `coordinator_state.json`; a downloaded DB | `run` = stage, submit, monitor, collect, merge, teardown; resume | the backend (async calls), the state file, the central DB | killed between an effect and its record; a failing call starts salvage and teardown; jobs and engines act on their own meanwhile |
| Driver (`orchestrator.py`, `launchers.py`) | phase, `smoke`, `db`, `consec_saturated`, engine job id | dataset, submit, readiness, gate detection, primer, Stage A, sweep, Stage B, finalise, finally block | engine by HTTP, SLURM/kubectl, `results.json` on a shared file system | engine dies or aborts at any time; the file is read while others write it; SIGKILL skips `finally` |
| Load generator (`load_gen/`) | pool, session tasks, transcripts, result rows | `run_step`, `_SessionRunner.run`, `execute_request` | engine by HTTP | dozens of tasks in one event loop; state read before an await and written after; cancellation at the drain deadline |
| Results DB (`common/results_db.py`, `coordinator/merge.py`) | SQLite file in WAL mode; central DB | insert, close, merge | all of the above | file copied while the log holds rows; merge repeated |
| Pre-checks (`prechecks/`) | capture files, `results.json`, the shared build cache | run, build, grade | engine job, driver, Coordinator | written while read; the cache shared by ranks and runs |
| Quality evaluation | none between calls | Stage A gate, Stage B comparison | driver, engine | failures abort the run |
| Dataset generation (`dataset_gen/`) | the pool of each class | `generate`, `load_pool`, consumption | the steps of the sweep | budget in turns, draws in sessions; shared by all steps |
| Hardware sampler (`hw_sampler.py`) | the readings of the tick before, an NDJSON file | `tick` | read by the driver's finalisation | failed reads; read while written |
| Planner (`planner/render.py`, `common/config.py`) | the experiment directory of the day | validate, render; later staging and start by index | YAML, `global.yaml`, run directories | the directory is reused by a second rendering; one engine's jobs on two clusters |
| Cleaner (`tools/cleaner.py`) | a report of unused resources | identify, approve, prune | cluster state | what was approved may be in use by the time it is pruned |
| Reports (`reports/analysis.py`) | none | SLOs, lambda*, load figures | the DB | decides again what the driver decided during the sweep |
| MCP server, images, pre-flight checks | none | - | - | pure I/O or read-only |

What makes each correct:

- **Coordinator**: phases are not skipped; a run on record as torn down holds
  nothing it knew of; a merged run without an error has every row its
  Benchmarkers committed; repetition neither doubles nor mixes rows; `run()`
  returns; a run is torn down in the end.
- **Driver**: an aborting gate is told from a crash; a smoke test leaves nothing;
  the engine is released on every path; a successful run's DB is whole; the sweep
  is cut only for good reason; the driver ends.
- **Load generator**: one row per issued request, and no request lost but by an error
  out of `execute_request`; `final_turn` and `sessions_truncated` can be believed; a
  prompt carries only what was answered; the step ends.
- **Pre-checks**: a sentinel never names a half-built cache; a job that builds is
  a smoke test; an engine whose gate is not skipped serves only behind a verdict that
  lets it; a gate ends.
- **Reports**: the driver's judgement of a level and the report's agree, so that
  the saturated levels behind an early stop could not have been lambda*; two figures
  said to be equal are.
- **Cleaner**: nothing that an active run uses is pruned; nothing leaks for good.
- **Planner**: a rendered run can be placed, and records the engine it starts.
- **Dataset**: no class of prompts runs dry early, and no two sessions share a header.
- **Hardware sampler**: rates stay right in total when reads fail.

## 2. Plan

| Order | Module | State |
|---|---|---|
| 1 | `RunContract` - what a run promises, seen through durable state | done |
| 2 | `Coordinator`, `MCCoordinator` - implements `RunContract` | done |
| 3 | `CoordinatorProofs` | done: invariants and refinement |
| 4 | `SweepStep` - one sweep level | done |
| 5 | `BenchmarkerJob`, `Experiment` - the driver implements what the Coordinator relies on | done |
| 6 | `ExperimentProofs` - safety invariants and refinement | done |
| 7 | `SweepStepProofs` - its safety invariants | done |
| 8 | `Grading`, `PrecheckGate`, `MCPrecheckGate`, `PrecheckGateProofs` - the gate and the build cache that jobs share | done |
| 9 | `Cleaner`, `Planner`, `Judgement`, `MCLaptopTools`, `CleanerProofs`, `JudgementProofs` | done |
| 10 | `Dataset`, `Sampler`, `ToolsProofs` (with `Planner`), `ToolsTypeProofs` | done |
| 11 | the staged Python environment (`benchmarker.sbatch.j2:24`) as a second shared cache | open |
| 12 | the Kubernetes launcher beside the SLURM one in `Experiment` | open |

`Coordinator` is checked against `RunContract`, `Experiment` against
`BenchmarkerJob`, both by `INSTANCE ... WITH`. `BenchmarkerJob` is the
Coordinator's cluster actions (`LaunchEngine`, `OpenDB`, `CommitRow`, `JobEnds`,
`JobKilled`, `EngineEnds`) for one job; that these agree is by reading, the two
refinements are checked. `PrecheckGate` is the gate that
`Experiment` sees from outside as `GateEnds`: its `verdict` is what becomes
`written`. `MCLaptopTools` puts the sequential parts of rows 9 and 10 side by side;
they share no state, and a behaviour uses one of them.

## 3. Modules and the code

### RunContract

The abstract specification: `phase`, `error` and the rows of the run in the
central DB. Phases are completed one at a time (`Advance`); an error may be
recorded (`Fail`), after which a run may jump to collection (`Salvage`); rows
appear only after collection (`Publish`) and a repetition leaves their number;
a run is closed merged or with its error (`Close`).

### Coordinator

`pc` is the backend call that `Coordinator.run` is suspended in (`stage`,
`submit`, `status`, `discover`, `precheck`, `verdict`, `fetch`, `merge`,
`teardown`; `off` without a process); between two awaits the coroutine runs
alone, so one action is what happens from one to the next. Calls with an effect
are two steps, `Serve...` (the cluster or the file changes; `reply` is set) and
the continuation (`Staged`, `Submitted`, `Collected`, `Merged`, or
`CallFailed`), and a call may take effect and still report an error. `Kill`
takes the process away at any step; what is left is `disk` (the state file),
`local`, `central` and the cluster. `Start` is `--resume`.

`mem`/`disk` are the `RunState` (phase, error, Benchmarker handle, engine
handles); `Await` is the chain of `is_before` tests of `run()`. `failing` is its
except block: error saved, salvage (fetch, merge, best effort), teardown.
`TeardownPlan` is `teardown_plan`, carried out by `TearDown`: jobs, then
engines in any order, then the directory; each action may fail, or take effect and report a failure.

The cluster: `job`, `engine` per handle; the per-run DB is counted in rows, in
the file (`db`) and in the write-ahead log (`wal`), and a fetch copies the file
only. A job that leaves through its finally block checkpoints; a killed one
does not. Of two jobs in one run directory (a kill between submission and its
record makes a resume submit twice) only one can insert the `experiments` row,
whose key is `run_id`.

### SweepStep

`run_step` and its session tasks: `StartSession` is an arrival that draws a pool
session (order of draws and arrival times are free), `Send` a turn whose wait is
over, `Answer` its outcome with row, transcript and what follows, `Drain` the end
of arrivals, `Deadline` the cancellation of what is running, `Return` the gather.
`CancelledError` is caught inside `execute_request`, so cancellation is an
ordinary failure of the turn in flight; turns that sleep are dropped. Each turn's
`messages` are the exchanges it carries. `PoolExhausted` ends the model: the
error leaves `run_step` and its tasks are not followed further.

A request ends in one of three ways (`Outcomes`). The third, `raised`, is the TypeError of
the join of the chunks (`client.py:102` and `:116`) when a delta's content was null
(`:73`); it may come with a complete stream, with a failure and with a cancellation, for
which `Deadline` chooses the set `raising` among the requests it cuts. It leaves no row,
and ends the session's task (`TaskAfter`): the session has `died`. A sequential session
sends nothing more. In an open-loop one `gather` hands the error on and leaves the other
turns to themselves; they go on to send and answer (`Send`, `Answer` ask for no running
session) but are in no set that `run_step` waits for or cancels: `Deadline` takes the
`Running` sessions only, `Return` waits for those only.

### BenchmarkerJob and Experiment

`Experiment` is `run_experiment` with a SLURM engine of one instance. `pc` is the
await again; `written` is `results.json` as the gate left it, `seen` as the
driver's node sees it (absent, torn - both read as no verdict - or whole).
`ReadVerdict`, `Probe`, `DeadEngine` are one round of `_await_ready`;
`GateAborted` and `OpenDB` open the DB, in memory for a smoke test; `RunLevel`
is one rate level, judged saturated or not; `Close` is the finally block;
`Kill` skips it. `EngineDies` may happen at any time, also during the sweep,
which the driver does not notice. `signals` is history, for
`EarlyStopJustified`. `BenchmarkerJob` sees of it: status, engine, which DB was
opened, how much is in it.

### Grading and PrecheckGate

`Grading` holds the pure part: `grade`, `outcome_exit_code` (`grade.py`) and
`proceed` (`decide_on_precheck` of `policy.py`).

`PrecheckGate` has one program counter per rank of each engine job. All ranks run
`run_system_prechecks.sh`; rank 0 looks at the sentinel (`Check`: the smoke flag),
all enter `build-nccl-tests.sh` (`EnterBuild`: hit, wait or build), rank 0 installs
tools, makes and publishes, the others poll (`Polled`, `WaitTimesOut`). Each command
of `build-nccl-tests.sh:150-155` is an action of its own, and `rm -rf` is two: a tree is torn before
it is gone, and the sentinel may go first or last. `Collect` is the MPI program of
all ranks, `Grade` is `grade.py` on rank 0, `JobEnds` is srun's exit code in
`engine.sbatch.j2`. `Kill` stops a job anywhere; the cache stays as it is.
`skipped` are the jobs with `SKIP_SYSTEM_PRECHECKS`: all their ranks exit 0 at once, no
verdict is written, and the engine starts.

`References` are the collectives, whose capture always makes a row, an error in it a
failed one. `OptionalReferences` are NVSHMEM and storage, which make a row only if
`collect_measurements` finds something to read. No row is made of an NVSHMEM capture that
is absent, empty or without a table (`nvshmem_max_busbw` is 0 then, as for a single
process), also when NVSHMEM is required: the script checks again for "perftest not found"
only (`NvshmemAbsent`). `Grade` therefore adds the rows of any subset of them.

A cache directory is named by a fingerprint of the software stack; what changes it
within a job is `mpicxx`, which `Install` may add to rank 0's container and to those
ranks that share it (`together`). `overlapped` is history: two jobs have been building
for one stack at a time. The build protocol has no lock between jobs.

### Judgement

`SweepLevel` is one turn of the driver's loop with `stop_on: slo_breach`: any
set of requests comes back, `step_slo_breaches` judges it, the streak is counted.
`Report` is `lambda_star` on everything that was stored. The two sides are written
as their code is: the driver sorts and interpolates by index
(`percentile_linear`), the report takes order statistics as pandas does (`quantile`);
the driver's spans are per session index, the report's sessions are completed ones
per rate, class and index. `applied_load` and `supportable_users` are the two load
figures, one filtering sessions before rates, the other after. `Ascending` is a sort:
the values in the order of any enumeration of the keys in which they ascend
(`SortedKeys`); which one is chosen among equal values shows in no result.

`JudgementAssumption` says what the code gives: the metrics and percentiles that
`config.py` admits, a non-empty list of rates in any order and with repetitions, a
finite set of requests per level, and sessions that are of one class and one level,
since every step of a sweep draws from one pool. That thresholds and times are integers
is the model's unit, not a restriction: orders and interpolations scale.

### Cleaner

`age` is everything that exists; runs start, end (with or without teardown) and are
resumed under the same names at any time. `Identify` lists and applies
`skipped`, the policy of `_skip_reason`; `Decide` is the approval; `Delete` is one
deletion of `prune`, which may fail, or succeed and answer with an error. `listed`
and `resumed` are history. Approval is taken to be of the whole report.

### Planner

`Edit` changes the YAML, `Render` is `render_experiment`: the copy of the YAML is
replaced and run directories are added, those of the same day included. `Stage` and
`Start` are what the operator's assistant and `benchmarker/main.py` do with a run
directory and the copy next to it. A deployment is its cluster and its two sizes
that matter: GPUs per tensor-parallel group, and the number of groups.

### Dataset

`num_sessions` is the split of `_plan_classes`, in integers: the expected turns that
multiply a class's share and divide it again cancel out, and `Round` is Python's. The
pool is the numbering of `generate`, grouped by class as `load_pool` does; a session's
number stands for its header. `StartSession` and `PoolExhausted` are the two ways a draw
goes in `run_step`, over all steps of a sweep; any class may be drawn, so
`PromptsOutlast` speaks of a dry class in terms of what was drawn of it.
`Sums` holds the running sums of a sequence, of the shares for `next_session_idx` and of
the weighted turns for the denominator. `DatasetAssumption` has each class in a mix once
(see section 7), and weights and turns positive, as `config.py` and the scenarios demand.

### Sampler

`Tick` lets the node move and any subset of the reads fail, and `tick` is the method:
`Kept` is why a failed read does not lose the last reading, `_prev_cpu` is replaced
by nothing instead. A rate is kept as a fraction. One counter stands for disk and
network in the run; the theorem is for any number. `reads` and `integral` are history.

## 4. Runs

| Run | Instance | States | Shows |
|---|---|---|---|
| `coordinator_safety` | 2 jobs, SLURM, `MaxPolls` 1, 2 rows, 1 kill; handles symmetric | 2.1 M | `TypeOK`, `KnownReleased`, `CompleteMerge`, `MergedIsLocal` hold, and every step is a step of `RunContract` |
| `coordinator_liveness` | 1 job, Kubernetes, no poll limit, 1 row, 2 kills | 21 668 | `RunReturns`, `EventuallyTornDown` |
| `prechecks` | 2 jobs of 2 ranks, any of them skipped, 1 kill, 2 collectives and an NVSHMEM test, which is required | 0.36 M | cache, smoke flag, verdict and engine agree; every gate ends |
| `laptop_tools` | `Judgement`: sweeps of 2, 3 and 4 levels, one with a rate twice, 12 sets of requests, 4 sets of SLOs; `Cleaner`: 1 run, 2 tags; `Planner`: 3 catalogues, 5 YAMLs, 2 renderings; `Dataset`: 4 mixes, 3 sizes; `Sampler`: 1 counter, 4 ticks | 0.73 M | driver and report agree, pruning is safe and complete, runs are placed and recorded, prompts outlast their share, rates add up |
| `sweep_step` | 2 arrivals, a pool of 2 sequential and 1 open-loop session, 3 turns, turn 2 without think time | 50 154 | rows, `final_turn`, truncation, transcripts, termination |
| `experiment` | 4 levels, stop after 2 saturated | 3 617 | the driver's invariants, `ImplementsJob`, `ExperimentEnds` |
| six more | small instances of the same modules | to the first violation | the disagreements of section 7 |

**Why the bounds suffice.** Two jobs are what one kill between submission and
record can produce; a third repeats the second. One kill in the safety run falls
anywhere in normal execution, in salvage or in teardown, and resumes after a
failure are not bounded by it (each failing execution ends and `Start` begins
another); the liveness run has two. Two rows tell a
partial copy from a whole one, and in the log from in the file. A poll limit of
one makes both its exhaustion and a completed poll reachable. Three turns have
one that is neither first nor last; two arrivals from a pool of three sessions put two
sequential sessions, or one and an open-loop one, at the deadline together, with any of
their requests raising, and leave a class dry; sessions share nothing but the rows and
the deadline, so a third adds no kind of step. Four levels hold a saturated pair after a reset and one
more. Two jobs
and one kill have one build die at each of its steps and another meet the result; a
second rank has someone who waits. One collective where more is better and one where
less is, measured at their thresholds or not at all, and an NVSHMEM test just beyond its
own, failed or without a row, give every set of statuses that the policies tell apart. `MCPolicies` fixes `on_warn` to abort; the proofs are for
all policies. The requests of `MCTables` put sessions before, across and after the
window's ends, with a failure and an empty class; four levels hold a full streak,
its reset and a level to skip, and the first and third of them have one rate. One run is enough for the Cleaner, as its policy takes
runs one by one; two tags and `KeepRecent` 1 have one kept and one not. Two
renderings replace the copy once. The mixes have classes of different turns, a single
class, and one so rare that it rounds to no session. Four ticks hold a failed read, or
two, between good ones.
Symmetry is used in the safety run only, whose properties do not
tell handles apart. `MaxRows`, `MaxKills`, `MaxAge`, `MaxRenders`, `MaxTicks` are bounds of the model; `MaxPolls`,
`Levels`, `StopAfter`, `NTurns`, `Arrivals`, `KeepRecent`, `AgeThreshold` are parameters of
the code. Deadlock is not checked: a run, a step, an experiment, a gate and a tool end.

**Fairness.** `Coordinator!FairSpec`: the process's own steps (asyncio resumes a
coroutine whose call has answered, and calls answer), and a job starts and ends
in the end (SLURM's queue and its time limit; the Kubernetes platform's
Benchmarker is a SLURM job too). Nothing is assumed of kills, the engine or the
order of outcomes. `OperatedSpec` adds that the operator resumes a run that is
not torn down, which only `EventuallyTornDown` needs; its premise is that
teardown actions stop failing. `SweepStep!FairSpec`: tasks are resumed and
`execute_request` returns (the client bounds the first token, aiohttp the whole
request). `Experiment!FairSpec`: the driver's awaits return, a written file
becomes visible, and the clock of `_await_ready` runs out (strong fairness on
`TimesOut`, as the test is reached once per round). `PrecheckGate!FairSpec`: the processes
of a job that has started run on, and what the scripts call returns; the wait of the other
ranks has its own limit of 1200 s. Nothing is assumed of when jobs start or of kills.
`MCLaptopTools` states safety only.

**Assumption on the file system.** `Surfaced`: a read that follows
`DEAD_ENGINE_GRACE_S`, or a model load, sees a file written before. Without it
`GateDiagnosed` and `SmokeLeavesNothing` fail by delay alone; the code makes the
same assumption with a constant.

**Assumption on the launcher.** In `PrecheckGate` a collective whose ranks are not all
there ends with an error: srun does not leave the others waiting for a rank that has
ended. Without it a rank 0 that died in its build would hang the rest.

**What the exceptions in the properties say.** Some properties carry a condition, and each
is necessary; without it TLC finds a counterexample:

- `SentinelMeansWhole`, `BuilderIsSmoke` hold `~overlapped`: when two cold jobs build for
  one stack together, the second `mv` can move a tree into the first one's, or the
  sentinel of one stand while the other removes the tree.
- `BreachMeansFail`, `StopCostsNoStar` except levels with a session that the window cut:
  the driver counts its span, the report leaves it out, and an early stop may then skip
  past lambda*. They also except a level whose rate another level has
  (`OnlyOfItsRate`): the report judges the two together, so that a good level can make up
  for a breached one.
- `RecordsWhatItStarts` excepts a run whose copy of the YAML was replaced by another
  rendering before it was staged.
- `LeaksAreReclaimed` excepts the ConfigMap, which `KINDS` does not list.
- `FinalMeansWhole` needs a last turn with think time (turn 2 has none in the run).
- `IssuedRecorded`, `FinalMeansWhole`, `UntruncatedIsWhole` except what an error out of
  `execute_request` takes (`Lost`, `Broken`): the request that raised has no row, nor has
  what an open-loop session that died of it leaves in flight, and a session that died is
  not counted as truncated although it has not sent all its turns. They say that nothing
  else is lost: every other request of every session, of the died ones too, has its one
  row with its outcome, and a died sequential session sent just the turns up to the one
  that raised.
- `EngineVouched` excepts jobs whose gate is skipped, which serve without a verdict. For
  the others it speaks of the rows there are: the collectives are all among them, an
  NVSHMEM test that measured nothing is not, even if it is required.
- `EngineReleased` excepts a killed driver, which runs no finally block.

**Mutants.** For each property of a passing run `PROJECT.json` names a mutated
form of one definition (marked `mutant` in the modules) under which TLC finds the
property violated.

## 5. Proofs

Eight modules hold the theorems; each EXTENDS the modules it is about.

### CoordinatorProofs

From `JobsAssumption` (None is no handle), `PlatformAssumption` and `BoundsAssumption`
(the bounds are naturals; 0 polls is no limit), for any set of handles and any number of
polls, rows and kills:

- `TypeCorrect` `Spec => []TypeOK`
- `TornDownReleases` `Spec => []KnownReleased`
- `MergeIsComplete` `Spec => []CompleteMerge`
- `MergeIsIdempotent` `Spec => []MergedIsLocal`
- `ContractKept` `Spec => KeepsContract`

None of the invariants is inductive. `IInv == TypeOK /\ Control /\ Release /\ Rows`:

- `Control` ties the await to the phase and the memory to the file: they differ
  only in the handle that `submit` returned and `run()` has not saved. Without it
  a kill could resume anywhere.
- `Release` keeps, during teardown, that each action of the plan is still to do,
  has failed, or has done its work. `torn_down` is written only when nothing is
  to do and nothing failed, so everything has been released; and released things
  stay so, since only the Coordinator's submission makes new ones
  (`ReleasedStable`, `KnownReleasedKept`).
- `Rows` follows rows from commit to central DB. `Flow` holds always (nothing is
  created on the way); `Complete` holds while no error is on record: the
  completed writer's log is empty when its job has ended through the finally
  block, so the file that is fetched holds all that was ever committed, and no
  other job can add to it.

Each part has one lemma, one step per action (`TypeStep`, `ControlStep`,
`ReleaseStep`, `RowsStep`); `Invariance` combines them. `ContractStep` maps each
step to one of `RunContract` or a stutter, using `IInv` of the state before.

### ExperimentProofs

From `ConfigAssumption` (`Levels`, `StopAfter` positive, two switches), for any number of
levels: `TypeOK`, `EngineReleased`, `DBIsWhole`, `EarlyStopJustified` as invariants, and
`JobImplemented`, the refinement of `BenchmarkerJob`. `GateIsDiagnosed` and
`SmokeKeepsNothing` are proved under `~Leftover`: with a verdict of an earlier job in the
run directory they are false, which is what `experiment_abort_is_own` shows.
`IInv == TypeOK /\ Course /\ Kept /\ Streak`: where the driver is tells how far its engine
can be and whether a DB is open (`Course`); while the sweep goes on the rows so far are all
there (`Kept`); `consec` is the length of the run of saturated levels at the end
(`Streak`), so that stopping and going on are both justified by the history. `Verdict`
joins under `~Leftover`: the gate writes once, and the driver sees that or nothing.

### SweepStepProofs

From `ModesAssumption` (the sessions are a finite set, split into two modes), for any
sessions and turns: `TypeOK`, `TranscriptSound`, `SequentialTranscript`, `IssuedRecorded`,
`UntruncatedIsWhole`; `FinalMeansWhole` where the last turn has think time (`NTurns \notin ZeroThink`).
`Inv == TypeOK /\ Shape /\ Ends /\ Recorded /\ Sound`: `Shape` says which states of the turns
go with the state of their session, for each mode (a sequential session dies with the
turn it is at, those before it answered and those after it not begun; an open-loop one
dies with its other turns going on); `Recorded` is one row per answered
turn at every moment, of which `IssuedRecorded` is the case at the end. `LastIsLast`
(whoever sends the last turn has sent the others) is what think time buys. `Lined` is the
strengthening of `SequentialTranscript`: the transcript of a sequential session holds what
it has completed, in order, and the message of the turn in flight is that transcript, so
that the answer appends where it must.

### PrecheckGateProofs

From `GateAssumption`, for any jobs, ranks, kills, policies and graded benchmarks: all
five invariants of the run. `IInv == TypeOK /\ Gate /\ (~overlapped => Cache)`. `Gate` follows
the verdict of a job from its statuses to its engine; a skipped job never has one, and its
rank 0 is never in the scripts. `Cache` says, for each place in the
publication, what must already be in the tree (`Published`), that two builders have
different targets, and that whoever may still enter the build has the smoke flag or a
sentinel in front of it.

### CleanerProofs

From `CleanerAssumption`, for any runs, tags and thresholds: `CleanerTypeOK`,
`LeaksAreReclaimed` and the two
action properties. What makes `RecentTagsKept` inductive is `Spared`: while there are tags
to delete, some `KeepRecent` tags exist that are not to be deleted and are no older than
any that are, whatever has been pushed; ages grow together, so the order stays.
`PruneIsSafe` rests on `Prunable` (what the report may name) and `Awake`.

### JudgementProofs

From `JudgementAssumption`, for any requests, objectives, rates and stop limit:
`JudgementTypeOK`, `BreachMeansFail`, `SkippedIsNotStar`, `StopCostsNoStar`,
`LoadFiguresAgree`. The state's part is small, `JInv == JudgementTypeOK /\ Halted /\ Counted /\
Reported`: why the sweep has ended, that each level of the streak has a breach, that
lambda* is attained. The rest is about the operators:

- Extrema and sorting exist on finite sets (`FiniteMax`, `FiniteMin`, `Sortable`), by a
  counterexample that is least under strict inclusion, which cannot be.
- `OrderStatistic`: the k-th value of an ascending enumeration is the one value with at
  most k values below it and more than k not above it. Hence `SamePercentile`: the
  driver's sorted list with an index and a fraction, and pandas' order statistics with
  the next lower and upper position, interpolate to the same number.
- `SameQuantile`: relabelling the keys changes no quantile, so that the driver's spans per
  session index and the report's per rate, class and index agree (`SameSpans`), as long as
  every session in the window has its final row in it and a session has one class.
- `LevelRows`: the report's rows of a rate are the level's requests, if no other level
  has the rate. `NoDataNoPass`, `OnlySweptRows`: a rate without rows attains nothing,
  which is why skipped levels cannot be lambda*.

### ToolsProofs

From `DatasetAssumption`, for any mixes that name each class once and any sizes: `DatasetTypeOK`, `PromptsOutlast`. `Numbered`
is the strengthening: what is left of a class and what was drawn of it make up its share,
the sessions left are numbered on from those drawn, and those drawn lie in the class's own
interval. Two classes' intervals are apart because running sums only grow
(`SumsMonotone`, `ApartClasses`); that the recursive `Sums` is a function at all is
`SumsRecursion`. Both are inductions over the length, by a least counterexample
(`NatLeast`). `Rounded` bounds Python's `round` from below by half a session.
`Numbered` was checked by TLC on mixes of up to three classes before it was proved.

From `PlannerAssumption` (sizes are positive), for any catalogue and any YAML:
`PlannerTypeOK`, `Placed`,
whose arithmetic is that rounding up covers and does not exceed by a node, and
`RecordsWhatItStarts`, by following a run directory from rendering through staging to
its start.

From `SamplerAssumption`, for any counters and periods: `SamplerTypeOK`, `RatesAddUp`.
`Remembered` says
that what the sampler keeps is the last good reading and the clock of the last tick.

### ToolsTypeProofs

`ToolsTypeOK` of the composition that `laptop_tools` checks: every behaviour of
`MCLaptopTools!Spec` is one of each part's specification (`PartsBehave`), as a tool in use
takes its own steps and the others stand still. The theorems of the parts hold in
the composition for the same reason.

### Model-checked only

The liveness properties (`RunReturns`, `EventuallyTornDown`, `StepReturns`,
`ExperimentEnds`, `GateEnds`): fairness is beyond the prover's reach. Every invariant and
action property of the passing runs is stated by a theorem; for `FinalMeansWhole`,
`GateDiagnosed` and `SmokeLeavesNothing` under the condition named above, for the first
because it is false without, and the other two because an earlier job's verdict breaks
them. The six violation runs show traces and have nothing to prove.

## 6. What is not modelled, and why

- **Time.** Orders of events are free where the code uses a clock; the lengths
  of waits matter only through the assumption above.
- **Callbacks between a turn's task and its session's.** The end of a turn's task and what
  it does to its session's task are one step; in asyncio a round of the loop lies between.
- **Orphans after the step.** When an open-loop session has died, its other turns may
  still answer after `run_step` has returned; `Return` ends the model, and rows appended
  later are stored by nobody. The same holds for the tasks behind `PoolExhausted`.
- **A torn merge.** `merge_run_db` is one SQLite transaction (`merge.py:38`) and one step
  of `Coordinator`; that a transaction is applied as a whole is assumed, its repetition is
  modelled.
- **Torn state file.** `RunState.save` is one step; a kill inside `write_text`
  leaves a file no resume can load.
- **Two Coordinators** on one run, or `run` without `--resume` on a run in
  flight: nothing in the code prevents them, and the code assumes one operator.
- **Smoke tests in `CompleteMerge`.** `Kept` excludes runs whose Benchmarker on
  record had its DB in memory: such a run has no rows to merge. When, after a
  double submission, the recorded job is a smoke test and the other is not, the
  property says nothing.
- **A second instance, the Kubernetes launcher** in `Experiment`: `v1` launchers
  return one instance; on Kubernetes `results.json` is in the pod's own volume
  (`TODOs.md:91`), so that none of the gate detection applies.
- **The queue fraction, metrics scraper, latency arithmetic, routing, arrival
  sampling, scoring, parsing, rendering**: pure functions; their results are
  arbitrary choices in the models.
- **The torch launcher** of the pre-checks: on Kubernetes the collectives are one torch
  program, graded the same way.
- **The staged Python environment** (`benchmarker.sbatch.j2:24`), built by whichever job
  comes first: a guard of the shell in front of the driver.
- **Field validators** of `config.py` that look at one value, template texts, slugs.
- **Quality evaluation**: sequential functions with no state between calls; their outcomes
  are choices in `Experiment`. Of dataset generation the lengths, texts, sources and the
  manifest, which are seeded sampling.
- **Parsers, memory and GPU rows** of the hardware sampler, which carry no state; the torn
  last line of its file is in `Experiment`.
- **MCP server** (`firecrest-mcp/server.py`): each tool call is one REST request, nothing
  is kept between calls. Images and pre-flight checks: scripts without run-time state.

The definitions name the control code of the tool. A large part of the repository's
lines is of other kinds: executed notebooks under `experiments/`, the MCP server, plots,
prompts and samplers, schema declarations, parsers.

## 7. Disagreements found

| Run | What the text says | What the code does |
|---|---|---|
| `coordinator_failure_keeps_phase` | `state.py:8`: after a failure the phase stays, "so a resume retries from there" | the same execution salvages and tears down; the run is closed as `torn_down` |
| `coordinator_no_orphan_engine` | `SPECIFICATIONS.md:73`, `:151`: no orphaned cluster state | an engine that the last poll did not discover is in no teardown plan; if the Benchmarker is killed rather than ending, it survives |
| `coordinator_submits_staged` | `state.py:25`: `staged` means artifacts are on scratch | a teardown that removed the directory but failed elsewhere keeps the phase; the resume submits without staging |
| `sweep_truncated_has_no_final` | `scheduler.py:11`: a session cancelled at the deadline is left without its `final_turn` row | the cancellation fails one turn; the session goes on and gets the row |
| `sweep_transcript_complete` | `scheduler.py:8`: open-loop follow-ups carry what has completed | overlapping turns overwrite each other's exchange |
| `experiment_abort_is_own` | `orchestrator.py:18`: `results.json` tells that this run's gate aborted | a file left by an earlier job in the run directory aborts the run before its own gate has run |

Others were met while modelling and are not runs of their own. Where a property would
catch one, its exception in section 4 is the place.

- `client.py:34` says that `execute_request` never raises; a delta whose content is null
  passes `.get("content", "")` as None (`client.py:73`), and the join of the chunks, outside
  the `try` at `:102` and in the failure path at `:116`, raises TypeError. So a request can
  be sent and have no row, although `scheduler.py:12` has issued requests recorded, and its
  session is counted neither as whole nor as truncated.
- `run-nvshmem.sh:28` has `NVSHMEM_REQUIRED=1` fail when the binaries are absent or there
  are no processes to run them; the caller masks that exit code with `|| true`
  (`run_system_prechecks.sh:98`), checks again for "perftest not found" alone (`:103`), and
  `grade.py:232-250` makes no row of such a capture: with one process, or a missing test
  binary, the gate passes without the required measurement.
- `rate_levels` may list a rate twice (`config.py:314` asks only that rates be positive); the
  driver judges the levels one by one, the report groups by rate (`analysis.py:289`).
- `_step_slo_breaches` says that it mirrors the report's window (`orchestrator.py:366`), but
  counts sessions without their final row; a session's span in both is cut at the window,
  while `SPECIFICATIONS.md` (boundary rule of section 13.2) wants sessions from warmup to
  drain end whole.
- `engine.yaml.j2:2` says that labels let the Cleaner discover everything; `KINDS`
  (`cleaner.py:172`) has no ConfigMap.
- `cleaner.py:12` promises to delete exactly the approved candidates; `--prune --yes` lists
  again and deletes what that execution finds.
- `build-nccl-tests.sh:149` calls the publication atomic: with one builder it is safe, with
  two it is not.
- `_stack-fingerprint.sh:7` says that both scripts compute the same value in one container
  session; the install of `mpicxx` in between changes it, so that the build is published
  under the old name while the collectives of the same job look under the new one.
- With fail continued and warn aborted, a run with both statuses exits 3 at the gate, and
  `decide_on_precheck` says that it proceeds.
- `SPECIFICATIONS.md:941` splits the pool so that no class is exhausted early; a mix that
  lists a class twice (with other overrides, which validation allows) has sessions for
  both entries, but the driver keys weights by class (`orchestrator.py:468`) and keeps the
  last, so that every other class is drawn beyond its share.
- The first rate after a failed read divides the movement of several ticks by the last
  one's length (`hw_sampler.py:246`): totals are right, that row is a peak that was not.
- `runid.py:4` relies on the suffix against collisions; `render_experiment` makes the directory
  with `exist_ok`, so that one would go unnoticed.

## 8. Running it

    tlc -config CoordinatorSafety.cfg MCCoordinator
    tlc -config CoordinatorLiveness.cfg Coordinator
    tlc -config SweepStep.cfg SweepStep
    tlc -config Experiment.cfg Experiment
    tlc -config Prechecks.cfg MCPrecheckGate
    tlc -config LaptopTools.cfg MCLaptopTools
    for m in *Proofs.tla; do tlapm $m; done

`PROJECT.json` lists every run, the source lines of every definition, the
hazards of the code with the properties that watch them, and the theorems.
