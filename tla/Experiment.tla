----------------------------- MODULE Experiment -----------------------------
(***************************************************************************)
(* The Benchmarker's driver (tools/benchmarker/orchestrator.py): one       *)
(* run_experiment from the dataset to the finally block, beside the engine *)
(* job that first runs the system pre-checks and then serves.              *)
(*                                                                         *)
(* The two share results.json on the cluster file system: the pre-check    *)
(* gate writes it, and the driver reads what the file system shows it of   *)
(* it.  The engine is a SLURM job with one instance (v1).                  *)
(***************************************************************************)
EXTENDS Naturals, Sequences, FiniteSets

CONSTANTS
  Levels,     \* number of rate_levels
  EarlyStop,  \* rate_sweep.early_stop
  StopAfter,  \* rate_sweep.stop_after_saturated_levels
  None,       \* no verdict: results.json is absent or cannot be parsed
  Leftover    \* the run directory may hold the results.json of an earlier job

ASSUME ConfigAssumption ==
  /\ Levels \in Nat \ {0} /\ StopAfter \in Nat \ {0}
  /\ EarlyStop \in BOOLEAN /\ Leftover \in BOOLEAN

VARIABLES
  \* The driver.
  pc,        \* the await it is suspended in; "done", "killed"
  outcome,   \* how run_experiment ends: ok, or why it raises
  db,        \* the per-run DB: none, file, memory (smoke test)
  rows,      \* what has been committed to its file,
  stored,    \* ... and the sweep levels whose rows have
  level,     \* sweep levels run
  consec,    \* consec_saturated
  signals,   \* history: whether each level run was found saturated
  \* The engine job and the file system.
  engine,    \* none, queued, gate, starting, serving, ended
  uncancelled, \* scancel has failed
  written,   \* results.json as last written
  seen       \* results.json as the driver's node sees it

sweepVars == <<level, consec, signals, stored>>
driverVars == <<pc, outcome, db, rows, sweepVars>>
engineVars == <<engine, uncancelled, written>>
vars == <<driverVars, engineVars, seen>>

\* A verdict: smoke_test_mode, gate_exit_code # 0, and whether it is that of
\* this run's own engine job.
Verdicts == [own : BOOLEAN, smoke : BOOLEAN, abort : BOOLEAN]
Aborting(v) == v # None /\ v.abort
IsSmoke(v)  == v # None /\ v.smoke

\* There is no per-run DB yet: a results.json that is already there was left
\* by a job that was a smoke test or ended before it opened one.
Init ==
  /\ pc = "dataset" /\ outcome = "none" /\ db = "none" /\ rows = {}
  /\ level = 0 /\ consec = 0 /\ signals = <<>> /\ stored = {}
  /\ engine = "none" /\ uncancelled = FALSE
  /\ written \in {None} \cup (IF Leftover THEN {v \in Verdicts : ~v.own} ELSE {})
  /\ seen = written

(***************************************************************************)
(* The engine job: pre-checks, then the server; and the file system.       *)
(***************************************************************************)

EngineStarts ==
  /\ engine = "queued"
  /\ engine' = "gate"
  /\ UNCHANGED <<driverVars, uncancelled, written, seen>>

\* The gate ends: grade.py writes its verdict, and an aborting one ends the
\* job; with skip_system_prechecks nothing is written.
GateEnds ==
  /\ engine = "gate"
  /\ \/ \E v \in Verdicts :
          /\ v.own
          /\ written' = v
          /\ engine' = IF v.abort THEN "ended" ELSE "starting"
     \/ engine' = "starting" /\ UNCHANGED written
  /\ UNCHANGED <<driverVars, uncancelled, seen>>

EngineServes ==
  /\ engine = "starting"
  /\ engine' = "serving"
  /\ UNCHANGED <<driverVars, uncancelled, written, seen>>

\* A crash, the time limit, a node failure.
EngineDies ==
  /\ engine \in {"queued", "gate", "starting", "serving"}
  /\ engine' = "ended"
  /\ UNCHANGED <<driverVars, uncancelled, written, seen>>

\* A new results.json becomes visible, at first perhaps torn.
Surfaces ==
  /\ seen # written
  /\ seen' \in {written, None}
  /\ UNCHANGED <<driverVars, engineVars>>

(***************************************************************************)
(* The driver until the engine is ready.                                   *)
(***************************************************************************)

Raise(why) == outcome' = why /\ pc' = "closing"

\* Before the try block: nothing is launched, nothing to tear down.
DatasetFailed ==
  /\ pc = "dataset"
  /\ outcome' = "error" /\ pc' = "done"
  /\ UNCHANGED <<db, rows, sweepVars, engineVars, seen>>

DatasetReady ==
  /\ pc = "dataset"
  /\ pc' = "submit"
  /\ UNCHANGED <<outcome, db, rows, sweepVars, engineVars, seen>>

Submit ==
  /\ pc = "submit"
  /\ engine' = "queued" /\ pc' = "node"
  /\ UNCHANGED <<outcome, db, rows, sweepVars, uncancelled, written, seen>>

SubmitFailedIgnored ==                                          \* mutant
  /\ pc \in {"submit", "node"}
  /\ Raise("ok")
  /\ UNCHANGED <<db, rows, sweepVars, engineVars, seen>>
\* sbatch fails, or no node is assigned in time.
SubmitFailed ==
  /\ pc \in {"submit", "node"}
  /\ Raise("error")
  /\ UNCHANGED <<db, rows, sweepVars, engineVars, seen>>

NodeAssigned ==
  /\ pc = "node" /\ engine \notin {"queued", "ended"}
  /\ pc' = "ready"
  /\ UNCHANGED <<outcome, db, rows, sweepVars, engineVars, seen>>

\* _await_ready begins each round with the verdict ...
ReadVerdict ==
  /\ pc = "ready"
  /\ pc' = IF Aborting(seen) THEN "abort" ELSE "probe"
  /\ UNCHANGED <<outcome, db, rows, sweepVars, engineVars, seen>>

ProbeUntimed ==                                                 \* mutant
  /\ pc = "probe"
  /\ \/ engine = "serving" /\ pc' = "opendb" /\ UNCHANGED outcome
     \/ engine = "ended" /\ pc' = "grace" /\ UNCHANGED outcome
     \/ pc' = "ready" /\ UNCHANGED outcome
  /\ UNCHANGED <<db, rows, sweepVars, engineVars, seen>>
\* ... then asks for /health, then whether the job is alive (squeue may not
\* tell), then looks at the clock.
Probe ==
  /\ pc = "probe"
  /\ \/ engine = "serving" /\ pc' = "opendb" /\ UNCHANGED outcome
     \/ engine = "ended" /\ pc' = "grace" /\ UNCHANGED outcome
     \/ pc' = "ready" /\ UNCHANGED outcome
     \/ Raise("notready")
  /\ UNCHANGED <<db, rows, sweepVars, engineVars, seen>>

\* Assumed of the file system: a wait of DEAD_ENGINE_GRACE_S, or of a whole
\* model load, is longer than it takes to show a file that was written.
Surfaced == seen = written

DeadWithoutReread ==                                            \* mutant
  /\ pc = "grace" /\ Surfaced
  /\ Raise("dead")
  /\ UNCHANGED <<db, rows, sweepVars, engineVars, seen>>
\* DEAD_ENGINE_GRACE_S later: a gate abort, or an engine crash.
DeadEngine ==
  /\ pc = "grace" /\ Surfaced
  /\ IF Aborting(seen) THEN pc' = "abort" /\ UNCHANGED outcome ELSE Raise("dead")
  /\ UNCHANGED <<db, rows, sweepVars, engineVars, seen>>

\* The DB is opened, in memory for a smoke test, and these rows committed.
OpenFor(smoke, committed) ==
  /\ db' = IF smoke THEN "memory" ELSE "file"
  /\ rows' = IF smoke THEN rows ELSE rows \cup committed

\* An aborting verdict names the rows it aborts for.
PrecheckRows(v) == IF v = None THEN {} ELSE {"prechecks"}

\* The gate's measurements are kept before the run is aborted.
GateAborted ==
  /\ pc = "abort"
  /\ OpenFor(IsSmoke(seen), {"experiment"} \cup PrecheckRows(seen))
  /\ Raise("gate")
  /\ UNCHANGED <<sweepVars, engineVars, seen>>

OpenPersisting ==                                               \* mutant
  /\ pc = "opendb" /\ Surfaced
  /\ OpenFor(FALSE, {"experiment", "instance"} \cup PrecheckRows(seen))
  /\ pc' = "gate"
  /\ UNCHANGED <<outcome, sweepVars, engineVars, seen>>
\* Phase 4; the primer that follows changes nothing and never raises.
OpenDB ==
  /\ pc = "opendb" /\ Surfaced
  /\ OpenFor(IsSmoke(seen), {"experiment", "instance"} \cup PrecheckRows(seen))
  /\ pc' = "gate"
  /\ UNCHANGED <<outcome, sweepVars, engineVars, seen>>

(***************************************************************************)
(* Quality gate, sweep, comparison, finalisation.                          *)
(***************************************************************************)

Committed(known, more) == IF db = "file" THEN known \cup more ELSE known
Persist(tables) == rows' = Committed(rows, tables)

\* Stage A: skipped, passed, failed and continued; or failed and aborted, or
\* the evaluation itself fails.
QualityGate ==
  /\ pc = "gate"
  /\ \/ Persist({}) /\ pc' = "sweep" /\ UNCHANGED outcome
     \/ Persist({"gate"}) /\ pc' = "sweep" /\ UNCHANGED outcome
     \/ Persist({"gate"}) /\ Raise("error")
     \/ Persist({}) /\ Raise("error")
  /\ UNCHANGED <<db, sweepVars, engineVars, seen>>

RunLevelCountingAll(saturated) ==                               \* mutant
  /\ pc = "sweep"
  /\ level' = level + 1
  /\ stored' = Committed(stored, {level'})
  /\ signals' = Append(signals, saturated)
  /\ consec' = IF EarlyStop /\ saturated THEN consec + 1 ELSE consec
  /\ pc' = IF level' = Levels \/ (EarlyStop /\ consec' >= StopAfter)
           THEN "compare" ELSE "sweep"
  /\ UNCHANGED <<outcome, db, rows, engineVars, seen>>
RunLevelStoppingLate(saturated) ==                              \* mutant
  /\ pc = "sweep"
  /\ level' = level + 1
  /\ stored' = Committed(stored, {level'})
  /\ signals' = Append(signals, saturated)
  /\ consec' = IF EarlyStop /\ saturated THEN consec + 1 ELSE 0
  /\ pc' = IF level' = Levels \/ (EarlyStop /\ consec' > StopAfter)
           THEN "compare" ELSE "sweep"
  /\ UNCHANGED <<outcome, db, rows, engineVars, seen>>
RunLevelPersistingLate(saturated) ==                            \* mutant
  /\ pc = "sweep"
  /\ level' = level + 1
  /\ signals' = Append(signals, saturated)
  /\ consec' = IF EarlyStop /\ saturated THEN consec + 1 ELSE 0
  /\ LET stop == EarlyStop /\ consec' >= StopAfter IN
       /\ pc' = IF level' = Levels \/ stop THEN "compare" ELSE "sweep"
       /\ stored' = Committed(stored, IF stop THEN {} ELSE {level'})
  /\ UNCHANGED <<outcome, db, rows, engineVars, seen>>
\* One rate level: its rows are committed, then it is judged, and enough
\* consecutive saturated levels end the sweep.
RunLevel(saturated) ==
  /\ pc = "sweep"
  /\ level' = level + 1
  /\ stored' = Committed(stored, {level'})
  /\ signals' = Append(signals, saturated)
  /\ consec' = IF EarlyStop /\ saturated THEN consec + 1 ELSE 0
  /\ pc' = IF level' = Levels \/ (EarlyStop /\ consec' >= StopAfter)
           THEN "compare" ELSE "sweep"
  /\ UNCHANGED <<outcome, db, rows, engineVars, seen>>

\* run_step raises (the prompt pool is exhausted).
LevelFailed ==
  /\ pc = "sweep"
  /\ Raise("error")
  /\ UNCHANGED <<db, rows, sweepVars, engineVars, seen>>

\* Stage B.
Compare ==
  /\ pc = "compare"
  /\ \/ Persist({}) /\ pc' = "finalise" /\ UNCHANGED outcome
     \/ Persist({"compare"}) /\ pc' = "finalise" /\ UNCHANGED outcome
     \/ Persist({}) /\ Raise("error")
  /\ UNCHANGED <<db, sweepVars, engineVars, seen>>

\* The sampler's lines are mapped to levels; a line it is still writing
\* cannot be parsed and fails the run.
Finalise ==
  /\ pc = "finalise"
  /\ \/ Persist({"hardware"}) /\ Raise("ok")
     \/ Persist({}) /\ Raise("ok")
     \/ Persist({}) /\ Raise("error")
  /\ UNCHANGED <<db, sweepVars, engineVars, seen>>

CloseOnSuccess ==                                               \* mutant
  /\ pc = "closing"
  /\ pc' = "done"
  /\ engine' = IF outcome = "ok" THEN "ended" ELSE engine
  /\ UNCHANGED <<outcome, db, rows, sweepVars, uncancelled, written, seen>>
\* The finally block: the DB is closed and the engine job, if there is one,
\* cancelled; a scancel that fails is only logged.
Close ==
  /\ pc = "closing"
  /\ pc' = "done"
  /\ \/ engine' = (IF engine = "none" THEN "none" ELSE "ended") /\ UNCHANGED uncancelled
     \/ engine # "none" /\ uncancelled' = TRUE /\ UNCHANGED engine
  /\ UNCHANGED <<outcome, db, rows, sweepVars, written, seen>>

\* SIGKILL, node failure, time limit of the Benchmarker's own job.
Kill ==
  /\ pc \notin {"done", "killed"}
  /\ pc' = "killed"
  /\ UNCHANGED <<outcome, db, rows, sweepVars, engineVars, seen>>

(***************************************************************************)
(* The specification.                                                      *)
(***************************************************************************)

EngineJob == EngineStarts \/ GateEnds \/ EngineServes \/ EngineDies

Driver ==
  \/ DatasetFailed \/ DatasetReady \/ Submit \/ SubmitFailed \/ NodeAssigned
  \/ ReadVerdict \/ Probe \/ DeadEngine \/ GateAborted \/ OpenDB
  \/ QualityGate \/ (\E saturated \in BOOLEAN : RunLevel(saturated)) \/ LevelFailed
  \/ Compare \/ Finalise \/ Close

Next == EngineJob \/ Surfaces \/ Driver \/ Kill

Spec == Init /\ [][Next]_vars

\* The driver's awaits return, the file system shows a file in the end, and
\* the clock runs: a job that is always probed again runs into
\* server_ready_timeout_s.
TimesOut == pc = "probe" /\ Probe /\ pc' = "closing"
FairSpec == Spec /\ WF_vars(Driver) /\ WF_vars(Surfaces) /\ SF_vars(TimesOut)

(***************************************************************************)
(* Properties.                                                             *)
(***************************************************************************)

Awaits == {"dataset", "submit", "node", "ready", "probe", "grace", "abort", "opendb",
           "gate", "sweep", "compare", "finalise", "closing", "done", "killed"}
Tables == {"experiment", "instance", "prechecks", "gate", "compare", "hardware"}

\* TypeOK: every variable keeps its type, the sweep its levels, and the count
\* of saturated levels stays within what ends the sweep.
TypeOK ==
  /\ pc \in Awaits
  /\ outcome \in {"none", "ok", "gate", "dead", "notready", "error"}
  /\ db \in {"none", "file", "memory"} /\ rows \subseteq Tables /\ stored \subseteq 1 .. Levels
  /\ level \in 0 .. Levels /\ consec \in 0 .. StopAfter
  /\ signals \in Seq(BOOLEAN) /\ Len(signals) = level
  /\ engine \in {"none", "queued", "gate", "starting", "serving", "ended"}
  /\ uncancelled \in BOOLEAN
  /\ written \in Verdicts \cup {None} /\ seen \in Verdicts \cup {None}

\* GateDiagnosed: the engine that an aborting gate kept from starting is not
\* taken for one that crashed, and what the gate measured is in the DB when
\* the driver aborts for it, but for a smoke test.
GateDiagnosed ==
  /\ outcome = "dead" => ~Aborting(written)
  /\ outcome = "gate" => db = "memory" \/ {"experiment", "prechecks"} \subseteq rows

\* SmokeLeavesNothing: a run whose own gate found a cold cache commits no row
\* to the per-run DB file, however it ends.
SmokeLeavesNothing == IsSmoke(written) => rows = {} /\ stored = {}

\* EngineReleased: run_experiment does not return or raise with its engine
\* alive, whatever failed, unless scancel did.
EngineReleased == pc = "done" => engine \in {"none", "ended"} \/ uncancelled

\* DBIsWhole: a run that returns its summary has every level it ran, and the
\* rows that identify them, in the file, unless it was a smoke test.
DBIsWhole ==
  outcome = "ok" /\ db = "file" =>
    {"experiment", "instance"} \subseteq rows /\ stored = 1 .. level

\* EarlyStopJustified: levels are skipped only after StopAfter consecutive
\* saturated ones, and then always.
SaturatedRun(i) == i >= StopAfter /\ \A k \in i - StopAfter + 1 .. i : signals[k]
EarlyStopJustified ==
  /\ outcome = "ok" /\ level < Levels => EarlyStop /\ SaturatedRun(level)
  /\ EarlyStop => \A i \in 1 .. level - 1 : ~SaturatedRun(i)

\* ImplementsJob: what the Coordinator relies on about a Benchmarker job holds
\* of this driver: it opens its DB once and after the launch, commits nothing
\* before, and completes only with a DB open.
Job == INSTANCE BenchmarkerJob WITH
  status <- IF pc = "killed" THEN "failed"
            ELSE IF pc # "done" THEN "running"
            ELSE IF outcome = "ok" THEN "completed" ELSE "failed",
  engine <- CASE engine = "none" -> "none" [] engine = "ended" -> "gone"
              [] OTHER -> "live",
  opened <- db,
  rows   <- Cardinality(rows) + Cardinality(stored)
ImplementsJob == Job!Spec

\* ExperimentEnds: the driver ends, whatever the engine does.
ExperimentEnds == <>(pc \in {"done", "killed"})

(***************************************************************************)
(* What the documentation says and the code does not keep.                 *)
(***************************************************************************)

\* AbortIsOwn: "an aborting gate means the engine never starts.  This
\* orchestrator detects that from prechecks/results.json" (orchestrator.py
\* module comment): a run aborted for its gate is one whose gate aborted.
AbortIsOwn == outcome = "gate" => written # None /\ written.own /\ written.abort

=============================================================================
