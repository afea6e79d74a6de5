---------------------------- MODULE Coordinator ----------------------------
(***************************************************************************)
(* The Coordinator's orchestration loop over a cluster backend             *)
(* (tools/coordinator): stage, submit, monitor, collect, merge, tear down, *)
(* with the run's state file, kills of the laptop process and resumes from *)
(* that file.                                                              *)
(*                                                                         *)
(* The coroutine is cut at its awaits: pc names the backend call it is     *)
(* suspended in.  A call that changes the cluster or a file is two steps,  *)
(* the effect (Serve...) and the continuation, so that a kill can fall     *)
(* between what happened and its being recorded; a read is one step.       *)
(* The backend, the Benchmarker job and its engine are the environment.    *)
(***************************************************************************)
EXTENDS Naturals, FiniteSets

CONSTANTS
  Jobs,       \* handles the cluster can issue for Benchmarker jobs
  None,       \* Python's None
  Platform,   \* RunState.platform
  MaxPolls,   \* Coordinator.max_polls; 0 stands for None, no limit
  MaxRows,    \* bound: commits to the per-run DB
  MaxKills    \* bound: times the laptop process is killed

ASSUME JobsAssumption     == None \notin Jobs
ASSUME PlatformAssumption == Platform \in {"slurm", "k8s"}
ASSUME BoundsAssumption   == /\ MaxPolls \in Nat
                             /\ MaxRows \in Nat
                             /\ MaxKills \in Nat

VARIABLES
  \* The Coordinator process.
  pc,         \* the await run() is suspended in; "off" when no process runs
  mem,        \* its RunState object
  reply,      \* outcome of the call it is suspended in: none yet, ok, error
  failing,    \* it is in run()'s except block
  status,     \* the job status read by the current poll
  reported,   \* _precheck_reported
  polls,      \* polls made by _monitor
  todo,       \* teardown actions not yet attempted
  tdFailed,   \* a teardown action of this execution failed
  \* The laptop's disk.
  disk,       \* coordinator_state.json
  local,      \* rows of the downloaded per-run DB; 0 when there is none to read
  central,    \* rows of this run in the central DB
  \* The cluster.
  job,        \* status of each Benchmarker job
  engine,     \* engine deployment launched by each job
  staged,     \* the run directory with its artifacts is on scratch
  db, wal,    \* rows in the per-run DB file, and in its write-ahead log
  opened,     \* the per-run DB each job has opened: none, its file, or memory
  writer,     \* the job whose experiments row is in the per-run DB file
  \* History and bounds.
  produced,   \* rows ever committed for this run
  kills

memVars     == <<mem, disk>>
callVars    == <<pc, reply, failing, todo>>
monitorVars == <<status, reported, polls>>
dataVars    == <<local, central>>
jobVars     == <<job, engine>>
scratchVars == <<staged, db, wal, opened, writer, produced>>
clusterVars == <<jobVars, scratchVars>>
vars == <<memVars, callVars, monitorVars, tdFailed, dataVars, clusterVars, kills>>

(***************************************************************************)
(* The run state (state.py).                                               *)
(***************************************************************************)

\* PHASES, each with its place in the order.
Rank == [created |-> 0, staged |-> 1, submitted |-> 2, completed |-> 3,
         collected |-> 4, merged |-> 5, torn_down |-> 6]
PhaseNames == DOMAIN Rank

RunStates == [phase : PhaseNames, bm : Jobs \cup {None},
              engines : SUBSET Jobs, error : BOOLEAN]

NewRun == [phase |-> "created", bm |-> None, engines |-> {}, error |-> FALSE]

IsBefore(s, p)  == Rank[s.phase] < Rank[p]
Advance(s, p)   == [s EXCEPT !.phase = p]
WithError(s)    == [s EXCEPT !.error = TRUE]

(***************************************************************************)
(* The teardown plan (teardown.py).                                        *)
(***************************************************************************)

Actions == [kind : {"job", "engine", "dir"}, target : Jobs \cup {None}]

CancelJobs(s)    == {[kind |-> "job", target |-> j] : j \in {s.bm} \ {None}}
CancelEngines(s) == {[kind |-> "engine", target |-> j] : j \in s.engines}
RemoveDirs       == IF Platform = "slurm"
                    THEN {[kind |-> "dir", target |-> None]} ELSE {}

PlanWithoutEngines(s) == CancelJobs(s) \cup RemoveDirs          \* mutant
TeardownPlan(s) == CancelJobs(s) \cup CancelEngines(s) \cup RemoveDirs

\* The plan is a list: the job, then the engines, then the directory.
IsNext(a) ==
  /\ a \in todo
  /\ a.kind = "engine" => \A b \in todo : b.kind # "job"
  /\ a.kind = "dir"    => todo = {a}

(***************************************************************************)
(* run(): what it awaits next, given the run state.                        *)
(***************************************************************************)

\* The phase checks of run(), in order, decide by the phase alone.
AwaitAfter == [created   |-> "stage",  staged    |-> "submit",
               submitted |-> "status", completed |-> "fetch",
               collected |-> "merge",  merged    |-> "teardown",
               torn_down |-> "off"]

AwaitSkippingMerge(s, f) ==                                     \* mutant
  IF IsBefore(s, "collected") /\ f THEN "fetch"
  ELSE IF s.phase = "collected" THEN "teardown" ELSE AwaitAfter[s.phase]
AwaitNoRetry(s, f) ==                                           \* mutant
  IF f /\ IsBefore(s, "collected") THEN "fetch"
  ELSE IF s.phase = "merged" /\ ~f /\ pc = "off" THEN "off" ELSE AwaitAfter[s.phase]

\* In the except block _salvage skips what precedes the collection.
Await(s, f) ==
  IF f /\ IsBefore(s, "collected") THEN "fetch" ELSE AwaitAfter[s.phase]

\* The coroutine runs on to the await at.
Suspend(at, s, f) ==
  /\ pc' = at
  /\ reply' = "none"
  /\ failing' = f
  /\ todo' = IF at = "teardown" THEN TeardownPlan(s) ELSE {}

Continue(s, f) ==
  /\ mem' = s
  /\ Suspend(Await(s, f), s, f)

\* RunState.advance saves, then run() goes on.
AdvanceTo(p) ==
  /\ disk' = Advance(mem, p)
  /\ Continue(Advance(mem, p), failing)

RaiseUnrecorded ==                                              \* mutant
  /\ disk' = mem
  /\ Continue(mem, TRUE)
\* An exception reaches run(): record it, save, start the salvage.
Raise ==
  /\ disk' = WithError(mem)
  /\ Continue(WithError(mem), TRUE)

Init ==
  /\ pc = "off" /\ reply = "none" /\ failing = FALSE /\ todo = {}
  /\ status = "none" /\ reported = FALSE /\ polls = 0 /\ tdFailed = FALSE
  /\ mem = NewRun /\ disk = NewRun
  /\ local = 0 /\ central = 0
  /\ job = [j \in Jobs |-> "none"] /\ engine = [j \in Jobs |-> "none"]
  /\ staged = FALSE /\ db = 0 /\ wal = 0
  /\ opened = [j \in Jobs |-> "none"] /\ writer = None
  /\ produced = 0 /\ kills = 0

(***************************************************************************)
(* Starting, resuming and losing the process.                              *)
(***************************************************************************)

\* RunState.load, a new Coordinator, run().  A torn-down run returns at once.
Start ==
  /\ pc = "off"
  /\ disk.phase # "torn_down"
  /\ Continue(disk, FALSE)
  /\ status' = "none" /\ reported' = FALSE /\ polls' = 0 /\ tdFailed' = FALSE
  /\ UNCHANGED <<disk, dataVars, clusterVars, kills>>

\* The process is gone; only the files and the cluster remain.
Kill ==
  /\ pc # "off"
  /\ kills < MaxKills
  /\ kills' = kills + 1
  /\ mem' = disk
  /\ Suspend("off", disk, FALSE)
  /\ UNCHANGED <<disk, monitorVars, tdFailed, dataVars, clusterVars>>

(***************************************************************************)
(* The backend carries out the call the coroutine is suspended in.  An     *)
(* error may come before or after the effect.                              *)
(***************************************************************************)

Serving(call) == pc = call /\ reply = "none"

ServeStage ==
  /\ Serving("stage")
  /\ \/ reply' = "ok"    /\ staged' = TRUE
     \/ reply' = "error" /\ staged' \in {staged, TRUE}
  /\ UNCHANGED <<pc, failing, todo, memVars, monitorVars, tdFailed, dataVars,
                 jobVars, db, wal, opened, writer, produced, kills>>

Unused == {j \in Jobs : job[j] = "none"}

ServeSubmit ==
  /\ Serving("submit")
  /\ \/ \E j \in Unused :
          /\ job' = [job EXCEPT ![j] = "pending"]
          /\ \/ reply' = "ok"    /\ mem' = [mem EXCEPT !.bm = j]
             \/ reply' = "error" /\ mem' = mem
     \/ reply' = "error" /\ UNCHANGED <<job, mem>>
  /\ UNCHANGED <<pc, failing, todo, disk, monitorVars, tdFailed, dataVars,
                 engine, scratchVars, kills>>

\* Only run_<id>.db is copied, not its write-ahead log, so that a copy may
\* hold fewer rows than were committed, or none.  A transfer that fails leaves
\* the local file as it was or unreadable.
ServeFetch ==
  /\ Serving("fetch")
  /\ \/ reply' = "ok"    /\ writer # None /\ local' = db
     \/ reply' = "error" /\ local' \in {local, 0}
  /\ UNCHANGED <<pc, failing, todo, memVars, monitorVars, tdFailed, central,
                 clusterVars, kills>>

\* merge_run_db: one transaction replaces this run's rows, or nothing; the
\* DETACH after the commit may raise.
ServeMerge ==
  /\ Serving("merge")
  /\ \/ reply' = "ok"    /\ local > 0 /\ central' = local
     \/ reply' = "error" /\ central' \in {central, local}
  /\ UNCHANGED <<pc, failing, todo, memVars, monitorVars, tdFailed, local,
                 clusterVars, kills>>

(***************************************************************************)
(* The phases.                                                             *)
(***************************************************************************)

Returned(call) == pc = call /\ reply = "ok"

Staged ==
  /\ Returned("stage")
  /\ AdvanceTo("staged")
  /\ UNCHANGED <<monitorVars, tdFailed, dataVars, clusterVars, kills>>

Submitted ==
  /\ Returned("submit")
  /\ AdvanceTo("submitted")
  /\ UNCHANGED <<monitorVars, tdFailed, dataVars, clusterVars, kills>>

CollectedUnsaved ==                                             \* mutant
  /\ Returned("fetch")
  /\ Continue(Advance(mem, "collected"), failing)
  /\ UNCHANGED <<disk, monitorVars, tdFailed, dataVars, clusterVars, kills>>
Collected ==
  /\ Returned("fetch")
  /\ AdvanceTo("collected")
  /\ UNCHANGED <<monitorVars, tdFailed, dataVars, clusterVars, kills>>

Merged ==
  /\ Returned("merge")
  /\ AdvanceTo("merged")
  /\ UNCHANGED <<monitorVars, tdFailed, dataVars, clusterVars, kills>>

\* A call of stage, submit, fetch or merge raised: run() fails, or, if it
\* already has, _salvage gives up and the teardown begins.
CallFailed ==
  /\ reply = "error"
  /\ IF failing
     THEN Suspend("teardown", mem, TRUE) /\ UNCHANGED memVars
     ELSE Raise
  /\ UNCHANGED <<monitorVars, tdFailed, dataVars, clusterVars, kills>>

(***************************************************************************)
(* _monitor: one poll is status, discovery, pre-check report, verdict.     *)
(***************************************************************************)

AtAwait(next) == pc' = next /\ UNCHANGED <<reply, failing, todo>>

ReadStatus ==
  /\ pc = "status"
  /\ status' = job[mem.bm]
  /\ AtAwait(IF mem.engines = {} THEN "discover"
             ELSE IF reported THEN "verdict" ELSE "precheck")
  /\ UNCHANGED <<memVars, reported, polls, tdFailed, dataVars, clusterVars, kills>>

\* Handles are looked up until some are found, and then kept.
DiscoverEngines ==
  /\ pc = "discover"
  /\ mem' = [mem EXCEPT !.engines = {j \in Jobs : engine[j] = "live"}]
  /\ disk' = IF mem'.engines = {} THEN disk ELSE mem'
  /\ AtAwait(IF reported THEN "verdict" ELSE "precheck")
  /\ UNCHANGED <<monitorVars, tdFailed, dataVars, clusterVars, kills>>

\* results.json is absent or unparsable, or its verdict is logged once.
ReportPrecheck ==
  /\ pc = "precheck"
  /\ reported' \in BOOLEAN
  /\ AtAwait("verdict")
  /\ UNCHANGED <<memVars, status, polls, tdFailed, dataVars, clusterVars, kills>>

ReadFailed ==
  /\ pc \in {"status", "discover", "precheck"}
  /\ Raise
  /\ UNCHANGED <<monitorVars, tdFailed, dataVars, clusterVars, kills>>

SweepCompleted ==
  /\ pc = "verdict" /\ status = "completed"
  /\ AdvanceTo("completed")
  /\ UNCHANGED <<monitorVars, tdFailed, dataVars, clusterVars, kills>>

SweepFailedIgnored ==                                           \* mutant
  /\ pc = "verdict" /\ status = "failed"
  /\ AtAwait("status")
  /\ UNCHANGED <<memVars, monitorVars, tdFailed, dataVars, clusterVars, kills>>
SweepFailed ==
  /\ pc = "verdict" /\ status = "failed"
  /\ Raise
  /\ UNCHANGED <<monitorVars, tdFailed, dataVars, clusterVars, kills>>

StillRunning == pc = "verdict" /\ status \notin {"completed", "failed"}

PollAgainUncapped ==                                            \* mutant
  /\ StillRunning
  /\ polls' = IF MaxPolls = 0 THEN 0 ELSE polls + 1
  /\ MaxPolls # 0 => polls <= MaxPolls
  /\ AtAwait("status")
  /\ UNCHANGED <<memVars, status, reported, tdFailed, dataVars, clusterVars, kills>>
\* Polls are counted only against a limit.
PollAgain ==
  /\ StillRunning
  /\ polls' = IF MaxPolls = 0 THEN 0 ELSE polls + 1
  /\ MaxPolls # 0 => polls' < MaxPolls
  /\ AtAwait("status")
  /\ UNCHANGED <<memVars, status, reported, tdFailed, dataVars, clusterVars, kills>>

PollsExceeded ==
  /\ StillRunning
  /\ MaxPolls # 0 /\ polls + 1 >= MaxPolls
  /\ Raise
  /\ UNCHANGED <<monitorVars, tdFailed, dataVars, clusterVars, kills>>

(***************************************************************************)
(* The teardown.                                                           *)
(***************************************************************************)

\* A cancelled Benchmarker job does not take its engine with it.
Cancel(a) ==
  \/ /\ a.kind = "job"
     /\ job' = [job EXCEPT ![a.target] =
                  IF @ \in {"pending", "running"} THEN "failed" ELSE @]
     /\ UNCHANGED <<engine, scratchVars>>
  \/ /\ a.kind = "engine"
     /\ engine' = [engine EXCEPT ![a.target] = "gone"]
     /\ UNCHANGED <<job, scratchVars>>

RemoveDir(a) ==
  /\ a.kind = "dir"
  /\ staged' = FALSE /\ db' = 0 /\ wal' = 0 /\ writer' = None
  /\ UNCHANGED <<jobVars, opened, produced>>

\* One action of the plan; a failure is noted and the next one attempted.
TearDown(a) ==
  /\ pc = "teardown" /\ IsNext(a)
  /\ todo' = todo \ {a}
  /\ \/ (Cancel(a) \/ RemoveDir(a)) /\ UNCHANGED tdFailed
     \/ (Cancel(a) \/ RemoveDir(a) \/ UNCHANGED clusterVars) /\ tdFailed' = TRUE
  /\ UNCHANGED <<pc, reply, failing, memVars, monitorVars, dataVars, kills>>

TornDownRegardless ==                                           \* mutant
  /\ pc = "teardown" /\ todo = {}
  /\ disk' = Advance(mem, "torn_down")
  /\ mem' = disk'
  /\ Suspend("off", mem, FALSE)
  /\ UNCHANGED <<monitorVars, tdFailed, dataVars, clusterVars, kills>>
\* Every action succeeded: the run is over.
TornDown ==
  /\ pc = "teardown" /\ todo = {} /\ ~tdFailed
  /\ disk' = Advance(mem, "torn_down")
  /\ mem' = disk'
  /\ Suspend("off", mem, FALSE)
  /\ UNCHANGED <<monitorVars, tdFailed, dataVars, clusterVars, kills>>

\* Some action failed: the message goes to the RunState in memory only,
\* the phase is kept and run() ends.
TeardownIncomplete ==
  /\ pc = "teardown" /\ todo = {} /\ tdFailed
  /\ mem' = disk
  /\ Suspend("off", mem, FALSE)
  /\ UNCHANGED <<disk, monitorVars, tdFailed, dataVars, clusterVars, kills>>

(***************************************************************************)
(* The cluster: Benchmarker jobs and the engines they launch.              *)
(***************************************************************************)

Environment == UNCHANGED <<memVars, callVars, monitorVars, tdFailed, dataVars, kills>>

JobStarts(j) ==
  /\ job[j] = "pending"
  /\ job' = [job EXCEPT ![j] = "running"]
  /\ Environment /\ UNCHANGED <<engine, scratchVars>>

LaunchEngine(j) ==
  /\ job[j] = "running" /\ staged /\ engine[j] = "none"
  /\ engine' = [engine EXCEPT ![j] = "live"]
  /\ Environment /\ UNCHANGED <<job, scratchVars>>

\* The engine's pre-checks are in: a smoke test (cold cache) keeps its rows in
\* memory.  The experiments row is keyed by run_id, so that of two jobs in one
\* run directory the second cannot insert it.
OpenDB(j) ==
  /\ job[j] = "running" /\ engine[j] # "none" /\ opened[j] = "none"
  /\ \/ /\ opened' = [opened EXCEPT ![j] = "memory"]
        /\ UNCHANGED <<writer, wal, produced>>
     \/ /\ staged /\ writer = None /\ produced < MaxRows
        /\ opened' = [opened EXCEPT ![j] = "file"]
        /\ writer' = j
        /\ wal' = wal + 1
        /\ produced' = produced + 1
  /\ Environment /\ UNCHANGED <<jobVars, staged, db>>

CommitRow(j) ==
  /\ job[j] = "running" /\ opened[j] = "file"
  /\ staged /\ writer = j /\ produced < MaxRows
  /\ wal' = wal + 1
  /\ produced' = produced + 1
  /\ Environment /\ UNCHANGED <<jobVars, staged, db, opened, writer>>

\* SQLite moves the log into the database file.
Checkpoint ==
  /\ staged /\ wal > 0 /\ job[writer] = "running"
  /\ db' = db + wal /\ wal' = 0
  /\ Environment /\ UNCHANGED <<jobVars, staged, opened, writer, produced>>

\* The Benchmarker leaves through its finally block: the DB is closed, which
\* checkpoints it, and the engine torn down, unless that fails.
JobEnds(j, outcome) ==
  /\ job[j] = "running"
  /\ outcome = "completed" => opened[j] # "none"
  /\ job' = [job EXCEPT ![j] = outcome]
  /\ engine' \in {engine, [engine EXCEPT ![j] = IF @ = "live" THEN "gone" ELSE @]}
  /\ IF writer = j THEN db' = db + wal /\ wal' = 0 ELSE UNCHANGED <<db, wal>>
  /\ Environment /\ UNCHANGED <<staged, opened, writer, produced>>

\* Time limit, node failure, SIGKILL: no finally block runs.
JobKilled(j) ==
  /\ job[j] \in {"pending", "running"}
  /\ job' = [job EXCEPT ![j] = "failed"]
  /\ Environment /\ UNCHANGED <<engine, scratchVars>>

EngineEnds(j) ==
  /\ engine[j] = "live"
  /\ engine' = [engine EXCEPT ![j] = "gone"]
  /\ Environment /\ UNCHANGED <<job, scratchVars>>

(***************************************************************************)
(* The specification.                                                      *)
(***************************************************************************)

Backend == ServeStage \/ ServeSubmit \/ ServeFetch \/ ServeMerge

Monitor ==
  \/ ReadStatus \/ DiscoverEngines \/ ReportPrecheck \/ ReadFailed
  \/ SweepCompleted \/ SweepFailed \/ PollAgain \/ PollsExceeded

\* One run of run(): every step the process takes on its own.
Running ==
  \/ Backend \/ Monitor
  \/ Staged \/ Submitted \/ Collected \/ Merged \/ CallFailed
  \/ (\E a \in todo : TearDown(a)) \/ TornDown \/ TeardownIncomplete

Cluster ==
  \E j \in Jobs :
    \/ JobStarts(j) \/ LaunchEngine(j) \/ OpenDB(j) \/ CommitRow(j)
    \/ (\E outcome \in {"completed", "failed"} : JobEnds(j, outcome))
    \/ JobKilled(j) \/ EngineEnds(j)

Next == Start \/ Kill \/ Running \/ Cluster \/ Checkpoint

Spec == Init /\ [][Next]_vars

\* asyncio keeps resuming the coroutine and the backend answers; SLURM starts
\* a queued job and its time limit ends a running one.
JobProgress(j) ==
  JobStarts(j) \/ \E outcome \in {"completed", "failed"} : JobEnds(j, outcome)
FairSpec == Spec /\ WF_vars(Running) /\ \A j \in Jobs : WF_vars(JobProgress(j))

\* Besides, the operator resumes a run that has not been torn down.
OperatedSpec == FairSpec /\ WF_vars(Start)

(***************************************************************************)
(* Properties.                                                             *)
(***************************************************************************)

Awaits == {"off", "stage", "submit", "status", "discover", "precheck",
           "verdict", "fetch", "merge", "teardown"}
Statuses == {"none", "pending", "running", "completed", "failed"}

\* Every variable keeps its type; the polls of one execution stay below
\* max_polls (_monitor).
TypeOK ==
  /\ pc \in Awaits /\ reply \in {"none", "ok", "error"}
  /\ failing \in BOOLEAN /\ reported \in BOOLEAN /\ tdFailed \in BOOLEAN
  /\ mem \in RunStates /\ disk \in RunStates
  /\ status \in Statuses
  /\ polls \in Nat /\ (MaxPolls = 0 \/ polls < MaxPolls \/ polls = 0)
  /\ todo \subseteq Actions
  /\ job \in [Jobs -> Statuses] /\ engine \in [Jobs -> {"none", "live", "gone"}]
  /\ staged \in BOOLEAN /\ writer \in Jobs \cup {None}
  /\ opened \in [Jobs -> {"none", "file", "memory"}]
  /\ db \in Nat /\ wal \in Nat /\ produced \in Nat
  /\ local \in Nat /\ central \in Nat /\ kills \in 0 .. MaxKills

Ended(j) == job[j] \in {"completed", "failed"}

\* A run whose state file says torn_down holds nothing it knew of: its
\* Benchmarker job has ended, every engine whose handle was saved is gone,
\* and on SLURM the scratch directory is removed, however many executions,
\* kills and failed teardown actions it took to get there.
KnownReleased ==
  disk.phase = "torn_down" =>
    /\ disk.bm # None => Ended(disk.bm)
    /\ \A j \in disk.engines : engine[j] = "gone"
    /\ Platform = "slurm" => ~staged

\* The Benchmarker on record keeps its results: it was no smoke test.
Kept == disk.bm \in Jobs /\ opened[disk.bm] = "file"

\* A run that is merged or torn down with no error on record, and was not a
\* smoke test, has in the central DB every row its Benchmarkers ever committed,
\* not only those that were checkpointed or collected when a kill or a resume
\* intervened.
CompleteMerge ==
  disk.phase \in {"merged", "torn_down"} /\ ~disk.error /\ Kept
    => central = produced

\* The central DB holds nothing of the run, or exactly the downloaded DB that
\* lies beside the state file: a merge repeated after a kill neither doubles
\* rows nor mixes two downloads.
MergedIsLocal == central # 0 => central = local

\* Seen through the state file and the central DB the loop keeps the run's
\* contract: no phase is skipped without an error on record, rows appear only
\* between collected and merged, nothing is closed half way.
Contract == INSTANCE RunContract WITH phase <- disk.phase, error <- disk.error
KeepsContract == Contract!Spec

\* Once started, run() returns or raises: it never polls for ever.
RunReturns == (pc # "off") ~> (pc = "off")

\* If teardown actions stop failing at some time, the run is torn down.
EventuallyTornDown ==
  (<>[][tdFailed' => tdFailed]_vars) => <>(disk.phase = "torn_down")

(***************************************************************************)
(* What the documentation says and the code does not do.                   *)
(***************************************************************************)

\* state.py: "phase stays at the last good step, so a resume retries from
\* there": an error on record leaves a phase that a resume continues from.
FailureKeepsPhase == disk.error => disk.phase # "torn_down"

\* SPECIFICATIONS.md section 1: everything deployed is cleaned up on success
\* and failure, no orphaned jobs: the engine launched by the run's own,
\* recorded Benchmarker job is not left behind by the teardown.
NoOrphanEngine ==
  disk.phase = "torn_down" /\ disk.bm # None => engine[disk.bm] # "live"

\* state.py: phase "staged" means that the artifacts are on cluster scratch:
\* the Benchmarker is submitted only to a directory that holds them.
SubmitsStaged == pc = "submit" /\ reply = "none" => staged

=============================================================================
