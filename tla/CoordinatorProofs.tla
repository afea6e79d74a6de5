------------------------- MODULE CoordinatorProofs -------------------------
(***************************************************************************)
(* Theorems of the Coordinator, for any set of job handles, either         *)
(* platform and any poll limit, number of rows and number of kills.        *)
(*                                                                         *)
(* The inductive invariant has three parts beside TypeOK: Control relates  *)
(* the await the process is suspended in, its RunState and the state file; *)
(* Release follows the teardown plan; Rows follows the rows from the       *)
(* Benchmarker's commits to the central DB.                                *)
(***************************************************************************)
EXTENDS Coordinator, TLAPS

Monitoring == {"status", "discover", "precheck", "verdict"}

\* The saved RunState is the one in memory, but for the handle that submit
\* has returned and run() has not yet saved; and the phase tells the await.
Control ==
  /\ \/ mem = disk
     \/ pc = "submit" /\ reply = "ok" /\ mem = [disk EXCEPT !.bm = mem.bm]
  /\ pc = "off" => mem = disk /\ ~failing
  /\ disk.phase = "torn_down" => pc = "off"
  /\ failing => disk.error /\ pc \in {"fetch", "merge", "teardown"}
  /\ pc = "stage" => disk.phase = "created"
  /\ pc = "submit" => disk.phase = "staged"
  /\ pc \in Monitoring => disk.phase = "submitted"
  /\ pc = "discover" => mem.engines = {}
  /\ pc = "fetch" => disk.phase = "completed" \/ (failing /\ IsBefore(disk, "collected"))
  /\ pc = "merge" => disk.phase = "collected"
  /\ pc = "teardown" => disk.phase = "merged" \/ disk.error
  /\ reply # "none" => pc \in {"stage", "submit", "fetch", "merge"}
  /\ pc = "submit" /\ reply = "ok" => mem.bm # None
  /\ disk.phase \in {"submitted", "completed"} => disk.bm # None
  /\ mem.bm # None => job[mem.bm] # "none"
  /\ disk.bm # None => job[disk.bm] # "none"

\* What an action of the teardown plan leaves behind.
Released(a) ==
  CASE a.kind = "job"    -> Ended(a.target)
    [] a.kind = "engine" -> engine[a.target] = "gone"
    [] a.kind = "dir"    -> ~staged

\* An action of the plan is still to do, has failed, or has done its work.
Progress ==
  /\ todo \subseteq TeardownPlan(mem)
  /\ \A a \in TeardownPlan(mem) \ todo : tdFailed \/ Released(a)

\* The teardown keeps account of its plan, and a closed run holds nothing.
Release ==
  /\ pc = "teardown" => Progress
  /\ KnownReleased

\* The Benchmarker whose rows are in the per-run DB has completed, so that
\* no row is committed any more.
Closed == staged => writer \in Jobs /\ job[writer] = "completed"

\* The phases before "collected".
Uncollected == {"created", "staged", "submitted", "completed"}

\* The rows of the run on their way to the central DB, with or without an
\* error on record ...
Flow ==
  /\ produced <= MaxRows /\ db + wal <= produced /\ local <= produced
  /\ disk.phase \in Uncollected => central = 0
  /\ MergedIsLocal
  /\ pc = "merge" /\ reply = "ok" => central = local /\ central > 0
  /\ disk.phase = "merged" => central > 0
  /\ pc \in {"precheck", "discover", "verdict"} /\ status = "completed"
       => job[mem.bm] = "completed"

\* ... and the account of a run without one: none is lost on the way.
Complete ==
  ~disk.error =>
    /\ disk.phase \in Uncollected \cup {"collected"} =>
         /\ db + wal = produced
         /\ \A j \in Jobs : opened[j] = "file" => writer = j
         /\ \A j \in Jobs : job[j] = "completed" /\ opened[j] = "file" => wal = 0
    /\ disk.phase \in {"completed", "collected", "merged", "torn_down"} =>
         disk.bm \in Jobs /\ job[disk.bm] = "completed"
    /\ Kept =>
         /\ pc = "fetch" /\ reply = "ok" => local = produced
         /\ disk.phase = "collected" => local = produced
         /\ disk.phase \in {"merged", "torn_down"} => central = produced /\ Closed

Rows == Flow /\ Complete

IInv == TypeOK /\ Control /\ Release /\ Rows

(***************************************************************************)
(* Types.                                                                  *)
(***************************************************************************)

\* RunState operations keep the type of a RunState.
LEMMA RunStateOps ==
  ASSUME NEW s \in RunStates, NEW p \in PhaseNames
  PROVE  /\ Advance(s, p) \in RunStates
         /\ WithError(s) \in RunStates
         /\ \A j \in Jobs : [s EXCEPT !.bm = j] \in RunStates
         /\ \A E \in SUBSET Jobs : [s EXCEPT !.engines = E] \in RunStates
<1>2. /\ s.phase \in PhaseNames /\ s.bm \in Jobs \cup {None}
      /\ s.engines \in SUBSET Jobs /\ s.error \in BOOLEAN
  BY DEF RunStates
<1>3. TRUE \in BOOLEAN /\ FALSE \in BOOLEAN
  OBVIOUS
<1>5. Advance(s, p) \in RunStates
  BY DEF Advance, RunStates
<1>6. WithError(s) \in RunStates
  BY <1>2, <1>3 DEF WithError, RunStates
<1>7. \A j \in Jobs : [s EXCEPT !.bm = j] \in RunStates
  BY DEF RunStates
<1>8. \A E \in SUBSET Jobs : [s EXCEPT !.engines = E] \in RunStates
  BY DEF RunStates
<1> QED
  BY <1>5, <1>6, <1>7, <1>8

\* The plan holds teardown actions of known handles.
LEMMA PlanType ==
  ASSUME NEW s \in RunStates
  PROVE  TeardownPlan(s) \subseteq Actions
BY DEF TeardownPlan, CancelJobs, CancelEngines, RemoveDirs, Actions, RunStates

\* The phase and the except block determine an await of run().
LEMMA AwaitType ==
  ASSUME NEW s \in RunStates, NEW f \in BOOLEAN
  PROVE  Await(s, f) \in {"off", "stage", "submit", "status", "fetch", "merge", "teardown"}
<1>1. s.phase \in DOMAIN Rank
  BY DEF RunStates, PhaseNames
<1>2. s.phase \in {"created", "staged", "submitted", "completed", "collected", "merged", "torn_down"}
  BY <1>1 DEF Rank
<1> QED
  BY <1>2 DEF Await, AwaitAfter

\* Suspending in an await keeps the types of what it assigns.
LEMMA ContinueType ==
  ASSUME NEW s \in RunStates, NEW f \in BOOLEAN, Continue(s, f)
  PROVE  /\ pc' \in Awaits /\ reply' \in {"none", "ok", "error"}
         /\ failing' \in BOOLEAN /\ mem' \in RunStates /\ todo' \subseteq Actions
BY AwaitType, PlanType DEF Continue, Suspend, Awaits

LEMMA SuspendType ==
  ASSUME NEW s \in RunStates, NEW f \in BOOLEAN, NEW at \in Awaits, Suspend(at, s, f)
  PROVE  /\ pc' \in Awaits /\ reply' \in {"none", "ok", "error"}
         /\ failing' \in BOOLEAN /\ todo' \subseteq Actions
BY PlanType DEF Suspend

\* Every step keeps the types.
LEMMA TypeStep == TypeOK /\ Control /\ [Next]_vars => TypeOK'
<1> SUFFICES ASSUME TypeOK, Control, [Next]_vars PROVE TypeOK'
  OBVIOUS
<1> USE JobsAssumption, PlatformAssumption, BoundsAssumption
<1> USE DEF TypeOK, memVars, callVars, monitorVars, dataVars, jobVars, scratchVars,
            clusterVars, Awaits, Statuses
<1>1. CASE Start
  BY <1>1, ContinueType DEF Start
<1>2. CASE Kill
  <2>1. Suspend("off", disk, FALSE) /\ disk \in RunStates /\ "off" \in Awaits
    BY <1>2 DEF Kill
  <2>2. kills' \in 0 .. MaxKills
    BY <1>2 DEF Kill
  <2> QED
    BY <1>2, <2>1, <2>2, SuspendType DEF Kill
<1>3. CASE ServeStage
  BY <1>3 DEF ServeStage, Serving
<1>4. CASE ServeSubmit
  <2>1. mem' \in RunStates
    BY <1>4, RunStateOps DEF ServeSubmit, Unused, PhaseNames, Rank
  <2> QED
    BY <1>4, <2>1 DEF ServeSubmit, Serving, Unused
<1>5. CASE ServeFetch
  BY <1>5 DEF ServeFetch, Serving
<1>6. CASE ServeMerge
  BY <1>6 DEF ServeMerge, Serving
<1>7. CASE ReadStatus
  <2>1. mem.bm \in Jobs
    BY <1>7 DEF ReadStatus, Control, Monitoring, RunStates
  <2> QED
    BY <1>7, <2>1 DEF ReadStatus, AtAwait
<1>8. CASE DiscoverEngines
  <2>1. mem' \in RunStates
    BY <1>8, RunStateOps DEF DiscoverEngines, PhaseNames, Rank
  <2> QED
    BY <1>8, <2>1 DEF DiscoverEngines, AtAwait
<1>9. CASE ReportPrecheck
  BY <1>9 DEF ReportPrecheck, AtAwait
<1>10. CASE ReadFailed
  BY <1>10, RunStateOps, ContinueType DEF ReadFailed, Raise, PhaseNames, Rank
<1>11. CASE SweepCompleted
  BY <1>11, RunStateOps, ContinueType
     DEF SweepCompleted, Returned, AdvanceTo, PhaseNames, Rank
<1>12. CASE SweepFailed
  BY <1>12, RunStateOps, ContinueType DEF SweepFailed, Raise, PhaseNames, Rank
<1>13. CASE PollAgain
  BY <1>13 DEF PollAgain, StillRunning, AtAwait
<1>14. CASE PollsExceeded
  BY <1>14, RunStateOps, ContinueType DEF PollsExceeded, Raise, PhaseNames, Rank
<1>15. CASE Staged
  BY <1>15, RunStateOps, ContinueType DEF Staged, Returned, AdvanceTo, PhaseNames, Rank
<1>16. CASE Submitted
  BY <1>16, RunStateOps, ContinueType DEF Submitted, Returned, AdvanceTo, PhaseNames, Rank
<1>17. CASE Collected
  BY <1>17, RunStateOps, ContinueType DEF Collected, Returned, AdvanceTo, PhaseNames, Rank
<1>18. CASE Merged
  BY <1>18, RunStateOps, ContinueType DEF Merged, Returned, AdvanceTo, PhaseNames, Rank
<1>19. CASE CallFailed
  <2>1. CASE failing
    BY <1>19, <2>1, SuspendType DEF CallFailed
  <2>2. CASE ~failing
    BY <1>19, <2>2, RunStateOps, ContinueType DEF CallFailed, Raise, PhaseNames, Rank
  <2> QED
    BY <2>1, <2>2
<1>20. CASE TornDown
  BY <1>20, RunStateOps, SuspendType DEF TornDown, PhaseNames, Rank
<1>21. CASE TeardownIncomplete
  BY <1>21, RunStateOps, SuspendType DEF TeardownIncomplete, PhaseNames, Rank
<1>22. CASE Checkpoint
  BY <1>22 DEF Checkpoint, Environment
<1>23. ASSUME NEW a \in todo, TearDown(a) PROVE TypeOK'
  <2>1. CASE Cancel(a)
    <3>1. job' \in [Jobs -> Statuses]
      BY <2>1 DEF Cancel
    <3>2. engine' \in [Jobs -> {"none", "live", "gone"}]
      BY <2>1 DEF Cancel
    <3>3. UNCHANGED scratchVars
      BY <2>1 DEF Cancel
    <3> QED
      BY <1>23, <3>1, <3>2, <3>3 DEF TearDown
  <2>2. CASE RemoveDir(a)
    BY <1>23, <2>2 DEF TearDown, RemoveDir
  <2>3. CASE UNCHANGED clusterVars
    BY <1>23, <2>3 DEF TearDown
  <2> QED
    BY <1>23, <2>1, <2>2, <2>3 DEF TearDown
<1>24. ASSUME NEW j \in Jobs, JobStarts(j) PROVE TypeOK'
  BY <1>24 DEF JobStarts, Environment
<1>25. ASSUME NEW j \in Jobs, LaunchEngine(j) PROVE TypeOK'
  BY <1>25 DEF LaunchEngine, Environment
<1>26. ASSUME NEW j \in Jobs, OpenDB(j) PROVE TypeOK'
  BY <1>26 DEF OpenDB, Environment
<1>27. ASSUME NEW j \in Jobs, CommitRow(j) PROVE TypeOK'
  BY <1>27 DEF CommitRow, Environment
<1>28. ASSUME NEW j \in Jobs, JobKilled(j) PROVE TypeOK'
  BY <1>28 DEF JobKilled, Environment
<1>29. ASSUME NEW j \in Jobs, EngineEnds(j) PROVE TypeOK'
  BY <1>29 DEF EngineEnds, Environment
<1>30. ASSUME NEW j \in Jobs, NEW outcome \in {"completed", "failed"}, JobEnds(j, outcome)
       PROVE  TypeOK'
  BY <1>30 DEF JobEnds, Environment
<1>31. CASE UNCHANGED vars
  BY <1>31 DEF vars
<1> QED
  BY <1>1, <1>2, <1>3, <1>4, <1>5, <1>6, <1>7, <1>8, <1>9, <1>10, <1>11, <1>12, <1>13,
     <1>14, <1>15, <1>16, <1>17, <1>18, <1>19, <1>20, <1>21, <1>22, <1>23, <1>24, <1>25,
     <1>26, <1>27, <1>28, <1>29, <1>30, <1>31
     DEF Next, Running, Backend, Monitor, Cluster

(***************************************************************************)
(* The process, its RunState and the state file.                           *)
(***************************************************************************)

\* What the await run() reaches says about the phase.
LEMMA AwaitMeaning ==
  ASSUME NEW s \in RunStates, NEW f \in BOOLEAN, s.phase # "torn_down"
  PROVE  LET at == Await(s, f) IN
         /\ at \in {"stage", "submit", "status", "fetch", "merge", "teardown"}
         /\ at = "stage"    => s.phase = "created" /\ ~f
         /\ at = "submit"   => s.phase = "staged" /\ ~f
         /\ at = "status"   => s.phase = "submitted" /\ ~f
         /\ at = "fetch"    => s.phase = "completed" \/ (f /\ IsBefore(s, "collected"))
         /\ at = "merge"    => s.phase = "collected"
         /\ at = "teardown" => s.phase = "merged"
<1>1. s.phase \in DOMAIN Rank
  BY DEF RunStates, PhaseNames
<1>2. s.phase \in {"created", "staged", "submitted", "completed", "collected", "merged"}
  BY <1>1 DEF Rank
<1>3. Await(s, f) = IF f /\ IsBefore(s, "collected") THEN "fetch" ELSE AwaitAfter[s.phase]
  BY DEF Await
<1>4. f /\ s.phase \in {"created", "staged", "submitted", "completed"} => IsBefore(s, "collected")
  BY DEF IsBefore, Rank
<1> QED
  BY <1>2, <1>3, <1>4 DEF AwaitAfter

\* run() going on with the state it has just saved keeps Control.
LEMMA ContinueControl ==
  ASSUME NEW s \in RunStates, NEW f \in BOOLEAN, Continue(s, f), disk' = s,
         s.phase # "torn_down", f => s.error,
         s.phase \in {"submitted", "completed"} => s.bm # None,
         s.bm # None => job'[s.bm] # "none"
  PROVE  Control'
BY AwaitMeaning DEF Continue, Suspend, Control, Monitoring, IsBefore

\* Every step keeps the process in agreement with its state file.
LEMMA ControlStep == TypeOK /\ Control /\ [Next]_vars => Control'
<1> SUFFICES ASSUME TypeOK, Control, [Next]_vars PROVE Control'
  OBVIOUS
<1> USE JobsAssumption, PlatformAssumption, BoundsAssumption
<1> USE DEF TypeOK, Control, memVars, callVars, monitorVars, dataVars, jobVars,
            scratchVars, clusterVars
<1>1. CASE Start
  BY <1>1, ContinueControl DEF Start
<1>2. CASE Kill
  BY <1>2 DEF Kill, Suspend, Monitoring
<1>3. CASE ServeStage
  BY <1>3 DEF ServeStage, Serving, Monitoring
<1>4. CASE ServeSubmit
  BY <1>4, JobsAssumption DEF ServeSubmit, Serving, Unused, Monitoring, RunStates
<1>5. CASE ServeFetch
  BY <1>5 DEF ServeFetch, Serving, Monitoring
<1>6. CASE ServeMerge
  BY <1>6 DEF ServeMerge, Serving, Monitoring
<1>7. CASE ReadStatus
  BY <1>7 DEF ReadStatus, AtAwait, Monitoring
<1>8. CASE DiscoverEngines
  <2>1. mem = disk /\ mem.engines = {} /\ disk.phase = "submitted" /\ mem.bm # None
    BY <1>8 DEF DiscoverEngines, Monitoring
  <2>2. mem' = disk'
    BY <1>8, <2>1 DEF DiscoverEngines, RunStates
  <2>3. mem'.phase = mem.phase /\ mem'.bm = mem.bm /\ mem'.error = mem.error
    BY <1>8 DEF DiscoverEngines, RunStates
  <2> QED
    BY <1>8, <2>1, <2>2, <2>3 DEF DiscoverEngines, AtAwait, Monitoring, RunStates
<1>9. CASE ReportPrecheck
  BY <1>9 DEF ReportPrecheck, AtAwait, Monitoring
<1>10. CASE ReadFailed
  <2> DEFINE s == WithError(mem)
  <2>1. s \in RunStates /\ s.error /\ s.phase = mem.phase /\ s.bm = mem.bm
    BY RunStateOps DEF WithError, RunStates, PhaseNames, Rank
  <2>2. Continue(s, TRUE) /\ disk' = s /\ job' = job
    BY <1>10 DEF ReadFailed, Raise
  <2>3. mem = disk /\ disk.phase = "submitted"
    BY <1>10 DEF ReadFailed, StillRunning, Monitoring
  <2> QED
    BY <2>1, <2>2, <2>3, ContinueControl
<1>11. CASE SweepCompleted
  <2> DEFINE s == Advance(mem, "completed")
  <2>1. s \in RunStates /\ s.phase = "completed" /\ s.bm = mem.bm /\ s.error = mem.error
    BY RunStateOps DEF Advance, RunStates, PhaseNames, Rank
  <2>2. Continue(s, failing) /\ disk' = s /\ job' = job
    BY <1>11 DEF SweepCompleted, AdvanceTo
  <2>3. mem = disk /\ mem.bm # None /\ (failing => mem.error)
    BY <1>11 DEF SweepCompleted, Returned, Monitoring, RunStates
  <2> QED
    BY <2>1, <2>2, <2>3, ContinueControl
<1>12. CASE SweepFailed
  <2> DEFINE s == WithError(mem)
  <2>1. s \in RunStates /\ s.error /\ s.phase = mem.phase /\ s.bm = mem.bm
    BY RunStateOps DEF WithError, RunStates, PhaseNames, Rank
  <2>2. Continue(s, TRUE) /\ disk' = s /\ job' = job
    BY <1>12 DEF SweepFailed, Raise
  <2>3. mem = disk /\ disk.phase = "submitted"
    BY <1>12 DEF SweepFailed, StillRunning, Monitoring
  <2> QED
    BY <2>1, <2>2, <2>3, ContinueControl
<1>13. CASE PollAgain
  BY <1>13 DEF PollAgain, StillRunning, AtAwait, Monitoring
<1>14. CASE PollsExceeded
  <2> DEFINE s == WithError(mem)
  <2>1. s \in RunStates /\ s.error /\ s.phase = mem.phase /\ s.bm = mem.bm
    BY RunStateOps DEF WithError, RunStates, PhaseNames, Rank
  <2>2. Continue(s, TRUE) /\ disk' = s /\ job' = job
    BY <1>14 DEF PollsExceeded, Raise
  <2>3. mem = disk /\ disk.phase = "submitted"
    BY <1>14 DEF PollsExceeded, StillRunning, Monitoring
  <2> QED
    BY <2>1, <2>2, <2>3, ContinueControl
<1>15. CASE Staged
  <2> DEFINE s == Advance(mem, "staged")
  <2>1. s \in RunStates /\ s.phase = "staged" /\ s.bm = mem.bm /\ s.error = mem.error
    BY RunStateOps DEF Advance, RunStates, PhaseNames, Rank
  <2>2. Continue(s, failing) /\ disk' = s /\ job' = job
    BY <1>15 DEF Staged, AdvanceTo
  <2>3. mem = disk /\ (failing => mem.error)
    BY <1>15 DEF Staged, Returned, Monitoring, RunStates
  <2> QED
    BY <2>1, <2>2, <2>3, ContinueControl
<1>16. CASE Submitted
  <2> DEFINE s == Advance(mem, "submitted")
  <2>1. s \in RunStates /\ s.phase = "submitted" /\ s.bm = mem.bm /\ s.error = mem.error
    BY RunStateOps DEF Advance, RunStates, PhaseNames, Rank
  <2>2. Continue(s, failing) /\ disk' = s /\ job' = job
    BY <1>16 DEF Submitted, AdvanceTo
  <2>3. mem.bm # None /\ ~failing
    BY <1>16 DEF Submitted, Returned, Monitoring, RunStates
  <2> QED
    BY <2>1, <2>2, <2>3, ContinueControl
<1>17. CASE Collected
  <2> DEFINE s == Advance(mem, "collected")
  <2>1. s \in RunStates /\ s.phase = "collected" /\ s.bm = mem.bm /\ s.error = mem.error
    BY RunStateOps DEF Advance, RunStates, PhaseNames, Rank
  <2>2. Continue(s, failing) /\ disk' = s /\ job' = job
    BY <1>17 DEF Collected, AdvanceTo
  <2>3. mem = disk /\ (failing => mem.error)
    BY <1>17 DEF Collected, Returned, Monitoring, RunStates
  <2> QED
    BY <2>1, <2>2, <2>3, ContinueControl
<1>18. CASE Merged
  <2> DEFINE s == Advance(mem, "merged")
  <2>1. s \in RunStates /\ s.phase = "merged" /\ s.bm = mem.bm /\ s.error = mem.error
    BY RunStateOps DEF Advance, RunStates, PhaseNames, Rank
  <2>2. Continue(s, failing) /\ disk' = s /\ job' = job
    BY <1>18 DEF Merged, AdvanceTo
  <2>3. mem = disk /\ (failing => mem.error)
    BY <1>18 DEF Merged, Returned, Monitoring, RunStates
  <2> QED
    BY <2>1, <2>2, <2>3, ContinueControl
<1>19. CASE CallFailed
  <2> DEFINE s == WithError(mem)
  <2>1. s \in RunStates /\ s.error /\ s.phase = mem.phase /\ s.bm = mem.bm
    BY RunStateOps DEF WithError, RunStates, PhaseNames, Rank
  <2>2. mem = disk /\ disk.phase # "torn_down" /\ job' = job
    BY <1>19 DEF CallFailed
  <2>3. CASE ~failing
    <3>1. Continue(s, TRUE) /\ disk' = s
      BY <1>19, <2>3 DEF CallFailed, Raise
    <3> QED
      BY <2>1, <2>2, <3>1, ContinueControl
  <2>4. CASE failing
    BY <1>19, <2>2, <2>4 DEF CallFailed, Suspend, Monitoring, IsBefore
  <2> QED
    BY <2>3, <2>4
<1>20. CASE TornDown
  BY <1>20 DEF TornDown, Suspend, Advance, Monitoring, RunStates
<1>21. CASE TeardownIncomplete
  BY <1>21 DEF TeardownIncomplete, Suspend, Monitoring
<1>22. CASE Checkpoint
  BY <1>22 DEF Checkpoint, Environment
<1>23. ASSUME NEW a \in todo, TearDown(a) PROVE Control'
  BY <1>23 DEF TearDown, Cancel, RemoveDir, Actions, Monitoring, RunStates
<1>24. ASSUME NEW j \in Jobs, JobStarts(j) PROVE Control'
  BY <1>24 DEF JobStarts, Environment
<1>25. ASSUME NEW j \in Jobs, LaunchEngine(j) PROVE Control'
  BY <1>25 DEF LaunchEngine, Environment
<1>26. ASSUME NEW j \in Jobs, OpenDB(j) PROVE Control'
  BY <1>26 DEF OpenDB, Environment
<1>27. ASSUME NEW j \in Jobs, CommitRow(j) PROVE Control'
  BY <1>27 DEF CommitRow, Environment
<1>28. ASSUME NEW j \in Jobs, JobKilled(j) PROVE Control'
  BY <1>28 DEF JobKilled, Environment
<1>29. ASSUME NEW j \in Jobs, EngineEnds(j) PROVE Control'
  BY <1>29 DEF EngineEnds, Environment
<1>30. ASSUME NEW j \in Jobs, NEW outcome \in {"completed", "failed"}, JobEnds(j, outcome)
       PROVE  Control'
  BY <1>30 DEF JobEnds, Environment
<1>31. CASE UNCHANGED vars
  BY <1>31 DEF vars
<1> QED
  BY <1>1, <1>2, <1>3, <1>4, <1>5, <1>6, <1>7, <1>8, <1>9, <1>10, <1>11, <1>12, <1>13,
     <1>14, <1>15, <1>16, <1>17, <1>18, <1>19, <1>20, <1>21, <1>22, <1>23, <1>24, <1>25,
     <1>26, <1>27, <1>28, <1>29, <1>30, <1>31
     DEF Next, Running, Backend, Monitor, Cluster

(***************************************************************************)
(* The teardown.                                                           *)
(***************************************************************************)

\* An ended job has ended for good, a gone engine is never live again, and
\* no step but staging creates the run directory.
LEMMA ReleasedStable ==
  TypeOK /\ [Next]_vars =>
    /\ \A j \in Jobs : Ended(j) => Ended(j)'
    /\ \A j \in Jobs : engine[j] = "gone" => engine'[j] = "gone"
    /\ ~staged /\ pc # "stage" => ~staged'
<1> SUFFICES ASSUME TypeOK, [Next]_vars
           PROVE  /\ \A j \in Jobs : Ended(j) => Ended(j)'
                  /\ \A j \in Jobs : engine[j] = "gone" => engine'[j] = "gone"
                  /\ ~staged /\ pc # "stage" => ~staged'
  OBVIOUS
<1> USE DEF TypeOK, memVars, callVars, monitorVars, dataVars, jobVars, scratchVars,
            clusterVars, Ended
<1>1. CASE UNCHANGED clusterVars
  BY <1>1
<1>2. CASE ServeStage
  BY <1>2 DEF ServeStage, Serving
<1>3. CASE ServeSubmit
  BY <1>3 DEF ServeSubmit, Unused
<1>4. ASSUME NEW a \in todo, TearDown(a)
      PROVE  /\ \A j \in Jobs : Ended(j) => Ended(j)'
             /\ \A j \in Jobs : engine[j] = "gone" => engine'[j] = "gone"
             /\ ~staged /\ pc # "stage" => ~staged'
  BY <1>4 DEF TearDown, Cancel, RemoveDir
<1>5. CASE Checkpoint
  BY <1>5 DEF Checkpoint
<1>6. ASSUME NEW i \in Jobs, JobStarts(i)
      PROVE  /\ \A j \in Jobs : Ended(j) => Ended(j)'
             /\ \A j \in Jobs : engine[j] = "gone" => engine'[j] = "gone"
             /\ ~staged /\ pc # "stage" => ~staged'
  BY <1>6 DEF JobStarts
<1>7. ASSUME NEW i \in Jobs, LaunchEngine(i)
      PROVE  /\ \A j \in Jobs : Ended(j) => Ended(j)'
             /\ \A j \in Jobs : engine[j] = "gone" => engine'[j] = "gone"
             /\ ~staged /\ pc # "stage" => ~staged'
  BY <1>7 DEF LaunchEngine
<1>8. ASSUME NEW i \in Jobs, OpenDB(i)
      PROVE  /\ \A j \in Jobs : Ended(j) => Ended(j)'
             /\ \A j \in Jobs : engine[j] = "gone" => engine'[j] = "gone"
             /\ ~staged /\ pc # "stage" => ~staged'
  BY <1>8 DEF OpenDB
<1>9. ASSUME NEW i \in Jobs, CommitRow(i)
      PROVE  /\ \A j \in Jobs : Ended(j) => Ended(j)'
             /\ \A j \in Jobs : engine[j] = "gone" => engine'[j] = "gone"
             /\ ~staged /\ pc # "stage" => ~staged'
  BY <1>9 DEF CommitRow
<1>10. ASSUME NEW i \in Jobs, JobKilled(i)
      PROVE  /\ \A j \in Jobs : Ended(j) => Ended(j)'
             /\ \A j \in Jobs : engine[j] = "gone" => engine'[j] = "gone"
             /\ ~staged /\ pc # "stage" => ~staged'
  BY <1>10 DEF JobKilled
<1>11. ASSUME NEW i \in Jobs, EngineEnds(i)
      PROVE  /\ \A j \in Jobs : Ended(j) => Ended(j)'
             /\ \A j \in Jobs : engine[j] = "gone" => engine'[j] = "gone"
             /\ ~staged /\ pc # "stage" => ~staged'
  BY <1>11 DEF EngineEnds
<1>12. ASSUME NEW i \in Jobs, NEW outcome \in {"completed", "failed"}, JobEnds(i, outcome)
      PROVE  /\ \A j \in Jobs : Ended(j) => Ended(j)'
             /\ \A j \in Jobs : engine[j] = "gone" => engine'[j] = "gone"
             /\ ~staged /\ pc # "stage" => ~staged'
  BY <1>12 DEF JobEnds
<1> QED
  BY <1>1, <1>2, <1>3, <1>4, <1>5, <1>6, <1>7, <1>8, <1>9, <1>10, <1>11, <1>12
     DEF Next, Running, Backend, Monitor, Cluster, Start, Kill, ServeFetch, ServeMerge,
         ReadStatus, DiscoverEngines, ReportPrecheck, ReadFailed, SweepCompleted,
         SweepFailed, PollAgain, PollsExceeded, Staged, Submitted, Collected, Merged,
         CallFailed, TornDown, TeardownIncomplete, vars

\* Once every action of the plan of s is released, s holds nothing.
LEMMA PlanCovers ==
  ASSUME NEW s \in RunStates, \A a \in TeardownPlan(s) : Released(a)
  PROVE  /\ s.bm # None => Ended(s.bm)
         /\ \A j \in s.engines : engine[j] = "gone"
         /\ Platform = "slurm" => ~staged
<1>1. ASSUME s.bm # None PROVE Ended(s.bm)
  <2> DEFINE a == [kind |-> "job", target |-> s.bm]
  <2>1. a \in TeardownPlan(s)
    BY <1>1 DEF TeardownPlan, CancelJobs
  <2> QED
    BY <2>1 DEF Released
<1>2. ASSUME NEW j \in s.engines PROVE engine[j] = "gone"
  <2> DEFINE a == [kind |-> "engine", target |-> j]
  <2>1. a \in TeardownPlan(s)
    BY DEF TeardownPlan, CancelEngines
  <2> QED
    BY <2>1 DEF Released
<1>3. ASSUME Platform = "slurm" PROVE ~staged
  <2> DEFINE a == [kind |-> "dir", target |-> None]
  <2>1. a \in TeardownPlan(s)
    BY <1>3 DEF TeardownPlan, RemoveDirs
  <2> QED
    BY <2>1 DEF Released
<1> QED
  BY <1>1, <1>2, <1>3

\* A planned action names a handle, unless it is the directory's.
LEMMA PlanTargets ==
  ASSUME NEW s \in RunStates, NEW a \in TeardownPlan(s)
  PROVE  (a.kind \in {"job", "engine"} /\ a.target \in Jobs) \/ a.kind = "dir"
BY DEF TeardownPlan, CancelJobs, CancelEngines, RemoveDirs, RunStates

\* What a planned action has released stays released during a teardown.
LEMMA PlanStable ==
  ASSUME TypeOK, [Next]_vars, pc = "teardown", NEW a \in TeardownPlan(mem), Released(a)
  PROVE  Released(a)'
<1>1. mem \in RunStates
  BY DEF TypeOK
<1>2. CASE a.kind = "job" /\ a.target \in Jobs
  <2>1. Ended(a.target)
    BY <1>2 DEF Released
  <2>2. Ended(a.target)'
    BY <1>2, <2>1, ReleasedStable
  <2> QED
    BY <1>2, <2>2 DEF Released
<1>3. CASE a.kind = "engine" /\ a.target \in Jobs
  <2>1. engine'[a.target] = "gone"
    BY <1>3, ReleasedStable DEF Released
  <2> QED
    BY <1>3, <2>1 DEF Released
<1>4. CASE a.kind = "dir"
  <2>1. ~staged'
    BY <1>4, ReleasedStable DEF Released
  <2> QED
    BY <1>4, <2>1 DEF Released
<1> QED
  BY <1>1, <1>2, <1>3, <1>4, PlanTargets

\* A teardown action that succeeds releases its target.
LEMMA TearDownReleases ==
  ASSUME TypeOK, Control, Release, NEW a \in todo, TearDown(a), ~tdFailed'
  PROVE  Released(a)'
<1>1. a \in TeardownPlan(mem) /\ mem \in RunStates
  BY DEF TearDown, Release, Progress, TypeOK
<1>2. Cancel(a) \/ RemoveDir(a)
  BY DEF TearDown
<1>3. CASE a.kind = "job" /\ a.target \in Jobs
  <2>1. a.target = mem.bm /\ mem.bm # None
    BY <1>1, <1>3 DEF TeardownPlan, CancelJobs, CancelEngines, RemoveDirs
  <2>2. job[a.target] \in Statuses \ {"none"}
    BY <1>3, <2>1 DEF Control, TypeOK
  <2>3. job' = [job EXCEPT ![a.target] = IF @ \in {"pending", "running"} THEN "failed" ELSE @]
    BY <1>2, <1>3 DEF Cancel, RemoveDir
  <2>4. job'[a.target] \in {"completed", "failed"}
    BY <1>3, <2>2, <2>3 DEF TypeOK, Statuses
  <2> QED
    BY <1>3, <2>4 DEF Released, Ended
<1>4. CASE a.kind = "engine" /\ a.target \in Jobs
  <2>1. engine'[a.target] = "gone"
    BY <1>2, <1>4 DEF Cancel, RemoveDir, TypeOK
  <2> QED
    BY <1>4, <2>1 DEF Released
<1>5. CASE a.kind = "dir"
  <2>1. ~staged'
    BY <1>2, <1>5 DEF Cancel, RemoveDir
  <2> QED
    BY <1>5, <2>1 DEF Released
<1> QED
  BY <1>1, <1>3, <1>4, <1>5, PlanTargets

\* A run that is torn down holds nothing it knew of after any further step.
LEMMA KnownReleasedKept ==
  ASSUME TypeOK, Control, KnownReleased, [Next]_vars, disk' = disk
  PROVE  KnownReleased'
<1> SUFFICES ASSUME disk.phase = "torn_down" PROVE KnownReleased'
  BY DEF KnownReleased
<1>1. pc # "stage" /\ disk \in RunStates
  BY DEF Control, TypeOK
<1>2. \A j \in Jobs : Ended(j) => job'[j] \in {"completed", "failed"}
  BY ReleasedStable DEF Ended
<1>3. \A j \in Jobs : engine[j] = "gone" => engine'[j] = "gone"
  BY ReleasedStable
<1>4. ~staged => ~staged'
  BY <1>1, ReleasedStable
<1>5. disk.engines \subseteq Jobs /\ (disk.bm # None => disk.bm \in Jobs)
  BY <1>1 DEF RunStates
<1>6. /\ disk.bm # None => Ended(disk.bm)
      /\ \A j \in disk.engines : engine[j] = "gone"
      /\ Platform = "slurm" => ~staged
  BY DEF KnownReleased
<1>7. disk.bm # None => job'[disk.bm] \in {"completed", "failed"}
  BY <1>2, <1>5, <1>6
<1>8. \A j \in disk.engines : engine'[j] = "gone"
  BY <1>3, <1>5, <1>6
<1> QED
  BY <1>4, <1>6, <1>7, <1>8 DEF KnownReleased, Ended

\* A teardown that begins has its whole plan before it.
LEMMA TeardownBegins ==
  ASSUME NEW s, NEW f, Suspend("teardown", s, f), mem' = s
  PROVE  Progress'
<1>1. todo' = TeardownPlan(mem')
  BY DEF Suspend
<1>2. TeardownPlan(mem)' = TeardownPlan(mem')
  BY DEF TeardownPlan, CancelJobs, CancelEngines, RemoveDirs
<1> QED
  BY <1>1, <1>2 DEF Progress

\* While a teardown goes on its actions stay done.
LEMMA TeardownGoesOn ==
  ASSUME TypeOK, Release, [Next]_vars, pc = "teardown", UNCHANGED <<mem, todo, tdFailed>>
  PROVE  Progress'
<1>1. todo \subseteq TeardownPlan(mem)
  BY DEF Release, Progress
<1>2. ASSUME NEW a \in TeardownPlan(mem) \ todo PROVE tdFailed' \/ Released(a)'
  BY <1>2, PlanStable DEF Release, Progress
<1>3. TeardownPlan(mem)' = TeardownPlan(mem)
  BY DEF TeardownPlan, CancelJobs, CancelEngines, RemoveDirs
<1> QED
  BY <1>1, <1>2, <1>3 DEF Progress

\* Attempting one action leaves it released or the failure noted.
LEMMA TeardownAdvances ==
  ASSUME TypeOK, Control, Release, NEW b \in todo, TearDown(b), [Next]_vars
  PROVE  Progress'
<1>1. pc = "teardown" /\ mem' = mem /\ todo' = todo \ {b} /\ (tdFailed => tdFailed')
  BY DEF TearDown, memVars
<1>2. TeardownPlan(mem)' = TeardownPlan(mem)
  BY <1>1 DEF TeardownPlan, CancelJobs, CancelEngines, RemoveDirs
<1>3. ASSUME NEW a \in TeardownPlan(mem) \ todo' PROVE tdFailed' \/ Released(a)'
  <2>1. CASE a = b
    BY <2>1, TearDownReleases
  <2>2. CASE a # b
    BY <1>1, <1>3, <2>2, PlanStable DEF Release, Progress
  <2> QED
    BY <2>1, <2>2
<1> QED
  BY <1>1, <1>2, <1>3 DEF Release, Progress

\* Every step keeps the account of the teardown.
LEMMA ReleaseStep == TypeOK /\ Control /\ Release /\ [Next]_vars => Release'
<1> SUFFICES ASSUME TypeOK, Control, Release, [Next]_vars PROVE Release'
  OBVIOUS
<1> USE DEF memVars, callVars, monitorVars, dataVars, jobVars, scratchVars, clusterVars
<1>1. KnownReleased
  BY DEF Release
<1>2. CASE Start
  <2>1. pc' = "teardown" => Progress'
    BY <1>2, TeardownBegins DEF Start, Continue, Suspend
  <2>2. KnownReleased'
    BY <1>2, <1>1, KnownReleasedKept DEF Start
  <2> QED
    BY <2>1, <2>2 DEF Release
<1>3. CASE SweepCompleted
  <2>1. pc' = "teardown" => Progress'
    BY <1>3, TeardownBegins DEF SweepCompleted, AdvanceTo, Continue, Suspend
  <2>2. KnownReleased'
    <3>1. disk'.phase # "torn_down"
      BY <1>3 DEF SweepCompleted, AdvanceTo, Advance, TypeOK, RunStates
    <3> QED
      BY <3>1 DEF KnownReleased
  <2> QED
    BY <2>1, <2>2 DEF Release
<1>4. CASE Staged
  <2>1. pc' = "teardown" => Progress'
    BY <1>4, TeardownBegins DEF Staged, AdvanceTo, Continue, Suspend
  <2>2. KnownReleased'
    <3>1. disk'.phase # "torn_down"
      BY <1>4 DEF Staged, AdvanceTo, Advance, TypeOK, RunStates
    <3> QED
      BY <3>1 DEF KnownReleased
  <2> QED
    BY <2>1, <2>2 DEF Release
<1>5. CASE Submitted
  <2>1. pc' = "teardown" => Progress'
    BY <1>5, TeardownBegins DEF Submitted, AdvanceTo, Continue, Suspend
  <2>2. KnownReleased'
    <3>1. disk'.phase # "torn_down"
      BY <1>5 DEF Submitted, AdvanceTo, Advance, TypeOK, RunStates
    <3> QED
      BY <3>1 DEF KnownReleased
  <2> QED
    BY <2>1, <2>2 DEF Release
<1>6. CASE Collected
  <2>1. pc' = "teardown" => Progress'
    BY <1>6, TeardownBegins DEF Collected, AdvanceTo, Continue, Suspend
  <2>2. KnownReleased'
    <3>1. disk'.phase # "torn_down"
      BY <1>6 DEF Collected, AdvanceTo, Advance, TypeOK, RunStates
    <3> QED
      BY <3>1 DEF KnownReleased
  <2> QED
    BY <2>1, <2>2 DEF Release
<1>7. CASE Merged
  <2>1. pc' = "teardown" => Progress'
    BY <1>7, TeardownBegins DEF Merged, AdvanceTo, Continue, Suspend
  <2>2. KnownReleased'
    <3>1. disk'.phase # "torn_down"
      BY <1>7 DEF Merged, AdvanceTo, Advance, TypeOK, RunStates
    <3> QED
      BY <3>1 DEF KnownReleased
  <2> QED
    BY <2>1, <2>2 DEF Release
<1>8. CASE ReadFailed
  <2>1. pc' = "teardown" => Progress'
    BY <1>8, TeardownBegins DEF ReadFailed, Raise, Continue, Suspend
  <2>2. KnownReleased'
    <3>1. disk'.phase # "torn_down"
      BY <1>8
         DEF ReadFailed, Raise, WithError, TypeOK, RunStates, StillRunning, Control,
             Monitoring
    <3> QED
      BY <3>1 DEF KnownReleased
  <2> QED
    BY <2>1, <2>2 DEF Release
<1>9. CASE SweepFailed
  <2>1. pc' = "teardown" => Progress'
    BY <1>9, TeardownBegins DEF SweepFailed, Raise, Continue, Suspend
  <2>2. KnownReleased'
    <3>1. disk'.phase # "torn_down"
      BY <1>9
         DEF SweepFailed, Raise, WithError, TypeOK, RunStates, StillRunning, Control,
             Monitoring
    <3> QED
      BY <3>1 DEF KnownReleased
  <2> QED
    BY <2>1, <2>2 DEF Release
<1>10. CASE PollsExceeded
  <2>1. pc' = "teardown" => Progress'
    BY <1>10, TeardownBegins DEF PollsExceeded, Raise, Continue, Suspend
  <2>2. KnownReleased'
    <3>1. disk'.phase # "torn_down"
      BY <1>10
         DEF PollsExceeded, Raise, WithError, TypeOK, RunStates, StillRunning, Control,
             Monitoring
    <3> QED
      BY <3>1 DEF KnownReleased
  <2> QED
    BY <2>1, <2>2 DEF Release
<1>11. CASE CallFailed
  <2>1. pc' = "teardown" => Progress'
    BY <1>11, TeardownBegins DEF CallFailed, Raise, Continue, Suspend
  <2>2. disk.phase # "torn_down"
    BY <1>11 DEF CallFailed, Control
  <2>3. mem.phase = disk.phase /\ mem \in RunStates
    BY <1>11 DEF CallFailed, Control, TypeOK
  <2>4. disk' = disk \/ disk' = WithError(mem)
    BY <1>11 DEF CallFailed, Raise
  <2>5. disk'.phase # "torn_down"
    BY <2>2, <2>3, <2>4 DEF WithError, RunStates
  <2> QED
    BY <2>1, <2>5 DEF Release, KnownReleased
<1>12. CASE Kill
  <2>1. pc' # "teardown" /\ disk' = disk
    BY <1>12 DEF Kill, Suspend
  <2> QED
    BY <1>1, <2>1, KnownReleasedKept DEF Release
<1>13. CASE TeardownIncomplete
  <2>1. pc' # "teardown" /\ disk' = disk
    BY <1>13 DEF TeardownIncomplete, Suspend
  <2> QED
    BY <1>1, <2>1, KnownReleasedKept DEF Release
<1>14. CASE ServeStage
  <2>1. pc' # "teardown" /\ disk' = disk
    BY <1>14 DEF ServeStage, Serving
  <2> QED
    BY <1>1, <2>1, KnownReleasedKept DEF Release
<1>15. CASE ServeSubmit
  <2>1. pc' # "teardown" /\ disk' = disk
    BY <1>15 DEF ServeSubmit, Serving
  <2> QED
    BY <1>1, <2>1, KnownReleasedKept DEF Release
<1>16. CASE ServeFetch
  <2>1. pc' # "teardown" /\ disk' = disk
    BY <1>16 DEF ServeFetch, Serving
  <2> QED
    BY <1>1, <2>1, KnownReleasedKept DEF Release
<1>17. CASE ServeMerge
  <2>1. pc' # "teardown" /\ disk' = disk
    BY <1>17 DEF ServeMerge, Serving
  <2> QED
    BY <1>1, <2>1, KnownReleasedKept DEF Release
<1>18. CASE ReadStatus
  <2>1. pc' # "teardown" /\ disk' = disk
    BY <1>18 DEF ReadStatus, AtAwait
  <2> QED
    BY <1>1, <2>1, KnownReleasedKept DEF Release
<1>19. CASE ReportPrecheck
  <2>1. pc' # "teardown" /\ disk' = disk
    BY <1>19 DEF ReportPrecheck, AtAwait
  <2> QED
    BY <1>1, <2>1, KnownReleasedKept DEF Release
<1>20. CASE PollAgain
  <2>1. pc' # "teardown" /\ disk' = disk
    BY <1>20 DEF PollAgain, AtAwait
  <2> QED
    BY <1>1, <2>1, KnownReleasedKept DEF Release
<1>21. CASE DiscoverEngines
  <2>1. pc' # "teardown"
    BY <1>21 DEF DiscoverEngines, AtAwait
  <2>2. disk'.phase # "torn_down"
    BY <1>21 DEF DiscoverEngines, Control, Monitoring, TypeOK, RunStates
  <2> QED
    BY <2>1, <2>2 DEF Release, KnownReleased
<1>22. CASE TornDown
  <2>1. pc' = "off" /\ disk' = Advance(mem, "torn_down")
    BY <1>22 DEF TornDown, Suspend
  <2>2. mem \in RunStates /\ UNCHANGED clusterVars
    BY <1>22 DEF TornDown, TypeOK
  <2>3. \A a \in TeardownPlan(mem) : Released(a)
    BY <1>22 DEF TornDown, Release, Progress
  <2>4. /\ mem.bm # None => Ended(mem.bm)
        /\ \A j \in mem.engines : engine[j] = "gone"
        /\ Platform = "slurm" => ~staged
    BY <2>2, <2>3, PlanCovers
  <2>5. disk'.bm = mem.bm /\ disk'.engines = mem.engines
    BY <2>1, <2>2 DEF Advance, RunStates
  <2> QED
    BY <2>1, <2>2, <2>4, <2>5 DEF Release, KnownReleased, Ended
<1>23. ASSUME NEW a \in todo, TearDown(a) PROVE Release'
  <2>1. Progress'
    BY <1>23, TeardownAdvances
  <2>2. disk' = disk
    BY <1>23 DEF TearDown
  <2> QED
    BY <1>1, <2>1, <2>2, KnownReleasedKept DEF Release
<1>24. ASSUME UNCHANGED <<memVars, callVars, tdFailed>> PROVE Release'
  <2>1. pc' = "teardown" => Progress'
    BY <1>24, TeardownGoesOn
  <2> QED
    BY <1>24, <1>1, <2>1, KnownReleasedKept DEF Release
<1> QED
  BY <1>2, <1>3, <1>4, <1>5, <1>6, <1>7, <1>8, <1>9, <1>10, <1>11, <1>12, <1>13, <1>14,
     <1>15, <1>16, <1>17, <1>18, <1>19, <1>20, <1>21, <1>22, <1>23, <1>24
     DEF Next, Running, Backend, Monitor, Cluster, JobStarts, LaunchEngine, OpenDB,
         CommitRow, JobEnds, JobKilled, EngineEnds, Checkpoint, Environment, vars

(***************************************************************************)
(* The rows on their way to the central DB.                                *)
(***************************************************************************)

\* The phases before "collected".
LEMMA UncollectedMeaning ==
  ASSUME NEW s \in RunStates
  PROVE  /\ IsBefore(s, "collected") <=> s.phase \in Uncollected
         /\ s.phase \in Uncollected \cup {"collected", "merged", "torn_down"}
<1>1. s.phase \in DOMAIN Rank
  BY DEF RunStates, PhaseNames
<1> QED
  BY <1>1 DEF IsBefore, Rank, Uncollected

\* A run that goes on with the state it saved, when that state agrees with
\* the rows.
LEMMA ContinueRows ==
  ASSUME NEW st \in RunStates, NEW f \in BOOLEAN, Continue(st, f), disk' = st,
         st.phase # "torn_down",
         UNCHANGED <<dataVars, clusterVars>>, TypeOK, Rows,
         st.phase \in Uncollected => central = 0,
         st.phase = "merged" => central > 0,
         ~st.error =>
           /\ ~disk.error
           /\ st.phase \in Uncollected \cup {"collected"} => disk.phase \in Uncollected \cup {"collected"}
           /\ st.phase \in {"completed", "collected", "merged"} =>
                st.bm \in Jobs /\ job[st.bm] = "completed"
           /\ opened[st.bm] = "file" =>
                /\ st.phase = "collected" => local = produced
                /\ st.phase = "merged" => central = produced /\ Closed
  PROVE  Rows'
<1> USE DEF dataVars, clusterVars, jobVars, scratchVars
<1>1. pc' = Await(st, f) /\ reply' = "none"
  BY DEF Continue, Suspend
<1>2. pc' \in {"stage", "submit", "status", "fetch", "merge", "teardown"}
  BY <1>1, AwaitMeaning
<1>3. Flow'
  BY <1>1, <1>2 DEF Rows, Flow, MergedIsLocal
<1>4. Complete'
  BY <1>1, <1>2 DEF Rows, Complete, Closed, Kept
<1> QED
  BY <1>3, <1>4 DEF Rows

\* No step loses a row of a run without an error on record.
LEMMA RowsStep == TypeOK /\ Control /\ Rows /\ [Next]_vars => Rows'
<1> SUFFICES ASSUME TypeOK, Control, Rows, [Next]_vars PROVE Rows'
  OBVIOUS
<1> USE JobsAssumption, PlatformAssumption, BoundsAssumption
<1> USE DEF memVars, callVars, monitorVars, dataVars, jobVars, scratchVars, clusterVars
<1>1. CASE Start
  <2>1. Continue(disk, FALSE) /\ disk' = disk /\ disk \in RunStates /\ disk.phase # "torn_down"
    BY <1>1 DEF Start, TypeOK
  <2>2. UNCHANGED <<dataVars, clusterVars>>
    BY <1>1 DEF Start
  <2> QED
    BY <2>1, <2>2, ContinueRows DEF Rows, Flow, Complete, Kept
<1>2. CASE Kill
  <2>1. Flow'
    BY <1>2 DEF Rows, Flow, MergedIsLocal, Kill, Suspend
  <2>2. Complete'
    BY <1>2 DEF Rows, Complete, Closed, Kept, Kill, Suspend
  <2> QED
    BY <2>1, <2>2 DEF Rows
<1>3. CASE ServeStage
  <2>1. Flow'
    BY <1>3 DEF Rows, Flow, MergedIsLocal, ServeStage, Serving, TypeOK, Control
  <2>2. Complete'
    BY <1>3 DEF Rows, Complete, Closed, Kept, ServeStage, Serving, TypeOK, Control
  <2> QED
    BY <2>1, <2>2 DEF Rows
<1>4. CASE ServeSubmit
  <2>1. Flow'
    BY <1>4 DEF Rows, Flow, MergedIsLocal, ServeSubmit, Serving, Unused, TypeOK, Control
  <2>2. Complete'
    BY <1>4
       DEF Rows, Complete, Closed, Kept, ServeSubmit, Serving, Unused, TypeOK, Control
  <2> QED
    BY <2>1, <2>2 DEF Rows
<1>5. CASE ServeFetch
  <2>1. /\ pc = "fetch" /\ pc' = "fetch" /\ mem' = mem /\ disk' = disk
        /\ UNCHANGED <<central, clusterVars>>
        /\ (local' = db /\ reply' = "ok") \/ (local' \in {local, 0} /\ reply' = "error")
    BY <1>5 DEF ServeFetch, Serving
  <2>2. disk \in RunStates /\ disk.phase \in Uncollected /\ (~disk.error => disk.phase = "completed")
    BY <2>1, UncollectedMeaning DEF Control, TypeOK, Uncollected
  <2>3. Flow'
    BY <2>1, <2>2 DEF Rows, Flow, MergedIsLocal, TypeOK, Uncollected
  <2>4. ~disk.error /\ Kept => db = produced
    <3> SUFFICES ASSUME ~disk.error, Kept PROVE db = produced
      OBVIOUS
    <3>1. job[disk.bm] = "completed" /\ disk.bm \in Jobs /\ db + wal = produced
      BY <2>2 DEF Rows, Complete
    <3>2. wal = 0
      BY <2>2, <3>1 DEF Rows, Complete, Kept
    <3> QED
      BY <3>1, <3>2 DEF TypeOK
  <2>5. Complete'
    BY <2>1, <2>2, <2>4 DEF Rows, Complete, Closed, Kept, Uncollected
  <2> QED
    BY <2>3, <2>5 DEF Rows
<1>6. CASE ServeMerge
  <2>1. disk.phase = "collected"
    BY <1>6 DEF ServeMerge, Serving, Control
  <2>2. Flow'
    BY <1>6, <2>1 DEF ServeMerge, Serving, Rows, Flow, MergedIsLocal, TypeOK, Uncollected
  <2>3. Complete'
    BY <1>6, <2>1 DEF ServeMerge, Serving, Rows, Complete, Closed, Kept, Uncollected
  <2> QED
    BY <2>2, <2>3 DEF Rows
<1>7. CASE ReadStatus
  <2>1. Flow'
    BY <1>7 DEF Rows, Flow, MergedIsLocal, ReadStatus, AtAwait
  <2>2. Complete'
    BY <1>7 DEF Rows, Complete, Closed, Kept, ReadStatus, AtAwait
  <2> QED
    BY <2>1, <2>2 DEF Rows
<1>8. CASE DiscoverEngines
  <2>1. mem \in RunStates /\ mem = disk /\ disk.phase = "submitted" /\ mem.bm \in Jobs
    BY <1>8, JobsAssumption DEF DiscoverEngines, Control, Monitoring, TypeOK, RunStates
  <2>2. /\ mem'.bm = mem.bm /\ disk'.phase = disk.phase /\ disk'.error = disk.error /\ disk'.bm = disk.bm
        /\ UNCHANGED <<monitorVars, dataVars, clusterVars>> /\ pc' \in {"precheck", "verdict"}
    BY <1>8, <2>1 DEF DiscoverEngines, AtAwait, RunStates
  <2>3. Flow'
    BY <1>8, <2>1, <2>2 DEF DiscoverEngines, AtAwait, Rows, Flow, MergedIsLocal
  <2>4. Complete'
    BY <1>8, <2>1, <2>2 DEF DiscoverEngines, AtAwait, Rows, Complete, Closed, Kept
  <2> QED
    BY <2>3, <2>4 DEF Rows
<1>9. CASE ReportPrecheck
  <2>1. Flow'
    BY <1>9 DEF Rows, Flow, MergedIsLocal, ReportPrecheck, AtAwait
  <2>2. Complete'
    BY <1>9 DEF Rows, Complete, Closed, Kept, ReportPrecheck, AtAwait
  <2> QED
    BY <2>1, <2>2 DEF Rows
<1>10. CASE ReadFailed
  <2> DEFINE st == WithError(mem)
  <2>1. mem \in RunStates /\ st \in RunStates
    BY RunStateOps DEF TypeOK, RunStates
  <2>2. Continue(st, TRUE) /\ disk' = st /\ UNCHANGED <<dataVars, clusterVars>>
    BY <1>10 DEF ReadFailed, Raise
  <2>3. mem = disk /\ disk.phase = "submitted"
    BY <1>10 DEF ReadFailed, Control, Monitoring
  <2>4. st.phase = "submitted" /\ st.error
    BY <2>1, <2>3 DEF WithError, RunStates
  <2> QED
    BY <2>1, <2>2, <2>3, <2>4, ContinueRows DEF Rows, Flow, Uncollected
<1>11. CASE SweepCompleted
  <2> DEFINE st == Advance(mem, "completed")
  <2>1. mem = disk /\ mem \in RunStates /\ failing \in BOOLEAN /\ disk.phase = "submitted"
    BY <1>11 DEF SweepCompleted, Control, Monitoring, TypeOK
  <2>2. st \in RunStates /\ st.phase = "completed" /\ st.error = mem.error /\ st.bm = mem.bm
    BY <2>1, RunStateOps DEF Advance, RunStates, PhaseNames, Rank
  <2>3. Continue(st, failing) /\ disk' = st /\ UNCHANGED <<dataVars, clusterVars>>
    BY <1>11 DEF SweepCompleted, AdvanceTo
  <2>4. job[mem.bm] = "completed" /\ mem.bm \in Jobs
    BY <1>11, <2>1 DEF SweepCompleted, Rows, Flow, Control, RunStates
  <2> QED
    BY <2>1, <2>2, <2>3, <2>4, ContinueRows DEF Rows, Flow, Uncollected
<1>12. CASE SweepFailed
  <2> DEFINE st == WithError(mem)
  <2>1. mem \in RunStates /\ st \in RunStates
    BY RunStateOps DEF TypeOK, RunStates
  <2>2. Continue(st, TRUE) /\ disk' = st /\ UNCHANGED <<dataVars, clusterVars>>
    BY <1>12 DEF SweepFailed, Raise
  <2>3. mem = disk /\ disk.phase = "submitted"
    BY <1>12 DEF SweepFailed, Control, Monitoring
  <2>4. st.phase = "submitted" /\ st.error
    BY <2>1, <2>3 DEF WithError, RunStates
  <2> QED
    BY <2>1, <2>2, <2>3, <2>4, ContinueRows DEF Rows, Flow, Uncollected
<1>13. CASE PollAgain
  <2>1. Flow'
    BY <1>13 DEF Rows, Flow, MergedIsLocal, PollAgain, AtAwait
  <2>2. Complete'
    BY <1>13 DEF Rows, Complete, Closed, Kept, PollAgain, AtAwait
  <2> QED
    BY <2>1, <2>2 DEF Rows
<1>14. CASE PollsExceeded
  <2> DEFINE st == WithError(mem)
  <2>1. mem \in RunStates /\ st \in RunStates
    BY RunStateOps DEF TypeOK, RunStates
  <2>2. Continue(st, TRUE) /\ disk' = st /\ UNCHANGED <<dataVars, clusterVars>>
    BY <1>14 DEF PollsExceeded, Raise
  <2>3. mem = disk /\ disk.phase = "submitted"
    BY <1>14 DEF PollsExceeded, StillRunning, Control, Monitoring
  <2>4. st.phase = "submitted" /\ st.error
    BY <2>1, <2>3 DEF WithError, RunStates
  <2> QED
    BY <2>1, <2>2, <2>3, <2>4, ContinueRows DEF Rows, Flow, Uncollected
<1>15. CASE Staged
  <2> DEFINE st == Advance(mem, "staged")
  <2>1. mem \in RunStates /\ failing \in BOOLEAN /\ disk.phase = "created" /\ mem.error = disk.error
    BY <1>15 DEF Staged, Returned, Control, TypeOK, RunStates
  <2>2. st \in RunStates /\ st.phase = "staged" /\ st.error = mem.error
    BY <2>1, RunStateOps DEF Advance, RunStates, PhaseNames, Rank
  <2>3. Continue(st, failing) /\ disk' = st /\ UNCHANGED <<dataVars, clusterVars>>
    BY <1>15 DEF Staged, AdvanceTo
  <2> QED
    BY <2>1, <2>2, <2>3, ContinueRows DEF Rows, Flow, Uncollected
<1>16. CASE Submitted
  <2> DEFINE st == Advance(mem, "submitted")
  <2>1. mem \in RunStates /\ failing \in BOOLEAN /\ disk.phase = "staged" /\ mem.error = disk.error
    BY <1>16 DEF Submitted, Returned, Control, TypeOK, RunStates
  <2>2. st \in RunStates /\ st.phase = "submitted" /\ st.error = mem.error
    BY <2>1, RunStateOps DEF Advance, RunStates, PhaseNames, Rank
  <2>3. Continue(st, failing) /\ disk' = st /\ UNCHANGED <<dataVars, clusterVars>>
    BY <1>16 DEF Submitted, AdvanceTo
  <2> QED
    BY <2>1, <2>2, <2>3, ContinueRows DEF Rows, Flow, Uncollected
<1>17. CASE Collected
  <2> DEFINE st == Advance(mem, "collected")
  <2>1. mem = disk /\ mem \in RunStates /\ failing \in BOOLEAN /\ pc = "fetch" /\ reply = "ok"
    BY <1>17 DEF Collected, Returned, Control, TypeOK
  <2>2. st \in RunStates /\ st.phase = "collected" /\ st.error = mem.error /\ st.bm = mem.bm
    BY <2>1, RunStateOps DEF Advance, RunStates, PhaseNames, Rank
  <2>3. Continue(st, failing) /\ disk' = st /\ UNCHANGED <<dataVars, clusterVars>>
    BY <1>17 DEF Collected, AdvanceTo
  <2>4. disk.phase \in Uncollected /\ (~disk.error => disk.phase = "completed")
    BY <2>1, UncollectedMeaning DEF Control, Uncollected
  <2>5. ~disk.error =>
          /\ disk.bm \in Jobs /\ job[disk.bm] = "completed"
          /\ opened[disk.bm] = "file" => local = produced
    BY <2>1, <2>4 DEF Rows, Complete, Kept
  <2> QED
    BY <2>1, <2>2, <2>3, <2>4, <2>5, ContinueRows DEF Uncollected
<1>18. CASE Merged
  <2> DEFINE st == Advance(mem, "merged")
  <2>1. mem = disk /\ mem \in RunStates /\ failing \in BOOLEAN /\ pc = "merge" /\ reply = "ok"
    BY <1>18 DEF Merged, Returned, Control, TypeOK
  <2>2. st \in RunStates /\ st.phase = "merged" /\ st.error = mem.error /\ st.bm = mem.bm
    BY <2>1, RunStateOps DEF Advance, RunStates, PhaseNames, Rank
  <2>3. Continue(st, failing) /\ disk' = st /\ UNCHANGED <<dataVars, clusterVars>>
    BY <1>18 DEF Merged, AdvanceTo
  <2>4. disk.phase = "collected" /\ central = local /\ central > 0
    BY <2>1 DEF Control, Rows, Flow
  <2>5. ASSUME ~disk.error PROVE disk.bm \in Jobs /\ job[disk.bm] = "completed"
    BY <2>4, <2>5 DEF Rows, Complete
  <2>6. ASSUME ~disk.error, opened[disk.bm] = "file" PROVE central = produced /\ Closed
    <3>1. local = produced
      BY <2>4, <2>5, <2>6 DEF Rows, Complete, Kept
    <3>2. writer = disk.bm
      BY <2>4, <2>5, <2>6 DEF Rows, Complete
    <3> QED
      BY <2>4, <2>5, <2>6, <3>1, <3>2 DEF Closed
  <2> QED
    BY <2>1, <2>2, <2>3, <2>4, <2>5, <2>6, ContinueRows DEF Uncollected
<1>19. CASE CallFailed
  <2> DEFINE st == WithError(mem)
  <2>1. mem \in RunStates /\ st \in RunStates /\ st.error /\ st.phase = mem.phase
    BY RunStateOps DEF TypeOK, WithError, RunStates, PhaseNames, Rank
  <2>2. mem = disk /\ disk.phase # "torn_down" /\ UNCHANGED <<dataVars, clusterVars>>
    BY <1>19 DEF CallFailed, Control
  <2>3. CASE ~failing
    <3>1. Continue(st, TRUE) /\ disk' = st
      BY <1>19, <2>3 DEF CallFailed, Raise
    <3> QED
      BY <2>1, <2>2, <3>1, ContinueRows DEF Rows, Flow, Uncollected
  <2>4. CASE failing
    <3>1. pc' = "teardown" /\ disk' = disk /\ UNCHANGED <<dataVars, clusterVars>> /\ disk.error
      BY <1>19, <2>2, <2>4 DEF CallFailed, Suspend, Control
    <3> QED
      BY <3>1 DEF Rows, Flow, Complete, MergedIsLocal, Kept
  <2> QED
    BY <2>3, <2>4
<1>20. CASE TornDown
  <2>1. mem = disk /\ disk \in RunStates /\ (disk.phase = "merged" \/ disk.error)
    BY <1>20 DEF TornDown, Control, TypeOK
  <2>2. disk'.phase = "torn_down" /\ disk'.error = disk.error /\ disk'.bm = disk.bm
        /\ pc' = "off" /\ UNCHANGED <<monitorVars, dataVars, clusterVars>>
    BY <1>20, <2>1 DEF TornDown, Suspend, Advance, RunStates
  <2>3. Flow'
    BY <2>1, <2>2 DEF Rows, Flow, MergedIsLocal, Uncollected
  <2>4. Complete'
    BY <2>1, <2>2 DEF Rows, Complete, Closed, Kept, Uncollected
  <2> QED
    BY <2>3, <2>4 DEF Rows
<1>21. CASE TeardownIncomplete
  <2>1. Flow'
    BY <1>21 DEF Rows, Flow, MergedIsLocal, TeardownIncomplete, Suspend
  <2>2. Complete'
    BY <1>21 DEF Rows, Complete, Closed, Kept, TeardownIncomplete, Suspend
  <2> QED
    BY <2>1, <2>2 DEF Rows
<1>22. CASE Checkpoint
  <2>1. UNCHANGED <<memVars, callVars, monitorVars, dataVars>>
    BY <1>22 DEF Checkpoint, Environment
  <2>2. \A i \in Jobs : job[i] = "completed" => job'[i] = "completed" /\ opened'[i] = opened[i]
    BY <1>22 DEF Checkpoint, TypeOK
  <2>3. Flow'
    <3>1. mem.bm # None => mem.bm \in Jobs
      BY DEF TypeOK, RunStates
    <3> QED
      BY <1>22, <2>1, <2>2, <3>1
         DEF Checkpoint, Rows, Flow, MergedIsLocal, TypeOK, Control, Monitoring
  <2>4. Complete'
    BY <1>22, <2>1, <2>2 DEF Checkpoint, Rows, Complete, Closed, Kept, TypeOK
  <2> QED
    BY <2>3, <2>4 DEF Rows
<1>23. ASSUME NEW a \in todo, TearDown(a) PROVE Rows'
  <2>1. /\ pc = "teardown" /\ pc' = "teardown" /\ disk' = disk
        /\ disk.phase = "merged" \/ disk.error
    BY <1>23 DEF TearDown, Control
  <2>2. UNCHANGED <<dataVars, opened, produced>>
    BY <1>23 DEF TearDown, Cancel, RemoveDir
  <2>7. \A j \in Jobs : job[j] = "completed" => job'[j] = "completed"
    BY <1>23 DEF TearDown, Cancel, RemoveDir, TypeOK
  <2>3. db' + wal' <= produced'
    BY <1>23, <2>2 DEF TearDown, Cancel, RemoveDir, Rows, Flow, TypeOK
  <2>4. Flow'
    BY <2>1, <2>2, <2>3 DEF Rows, Flow, MergedIsLocal, Uncollected
  <2>5. Closed => Closed'
    BY <1>23 DEF TearDown, Cancel, RemoveDir, Closed, TypeOK
  <2>6. Complete'
    BY <2>1, <2>2, <2>5, <2>7 DEF Rows, Complete, Kept, Uncollected
  <2> QED
    BY <2>4, <2>6 DEF Rows
<1>24. ASSUME NEW j \in Jobs, JobStarts(j) PROVE Rows'
  <2>1. UNCHANGED <<memVars, callVars, monitorVars, dataVars>>
    BY <1>24 DEF JobStarts, Environment
  <2>2. \A i \in Jobs : job[i] = "completed" => job'[i] = "completed" /\ opened'[i] = opened[i]
    BY <1>24 DEF JobStarts, TypeOK
  <2>3. Flow'
    <3>1. mem.bm # None => mem.bm \in Jobs
      BY DEF TypeOK, RunStates
    <3> QED
      BY <1>24, <2>1, <2>2, <3>1
         DEF JobStarts, Rows, Flow, MergedIsLocal, TypeOK, Control, Monitoring
  <2>4. Complete'
    BY <1>24, <2>1, <2>2 DEF JobStarts, Rows, Complete, Closed, Kept, TypeOK
  <2> QED
    BY <2>3, <2>4 DEF Rows
<1>25. ASSUME NEW j \in Jobs, LaunchEngine(j) PROVE Rows'
  <2>1. UNCHANGED <<memVars, callVars, monitorVars, dataVars>>
    BY <1>25 DEF LaunchEngine, Environment
  <2>2. \A i \in Jobs : job[i] = "completed" => job'[i] = "completed" /\ opened'[i] = opened[i]
    BY <1>25 DEF LaunchEngine, TypeOK
  <2>3. Flow'
    <3>1. mem.bm # None => mem.bm \in Jobs
      BY DEF TypeOK, RunStates
    <3> QED
      BY <1>25, <2>1, <2>2, <3>1
         DEF LaunchEngine, Rows, Flow, MergedIsLocal, TypeOK, Control, Monitoring
  <2>4. Complete'
    BY <1>25, <2>1, <2>2 DEF LaunchEngine, Rows, Complete, Closed, Kept, TypeOK
  <2> QED
    BY <2>3, <2>4 DEF Rows
<1>26. ASSUME NEW j \in Jobs, OpenDB(j) PROVE Rows'
  <2>1. UNCHANGED <<memVars, callVars, monitorVars, dataVars>>
    BY <1>26 DEF OpenDB, Environment
  <2>2. \A i \in Jobs : job[i] = "completed" => job'[i] = "completed" /\ opened'[i] = opened[i]
    BY <1>26 DEF OpenDB, TypeOK
  <2>3. Flow'
    <3>1. mem.bm # None => mem.bm \in Jobs
      BY DEF TypeOK, RunStates
    <3> QED
      BY <1>26, <2>1, <2>2, <3>1
         DEF OpenDB, Rows, Flow, MergedIsLocal, TypeOK, Control, Monitoring
  <2>4. Complete'
    <3> SUFFICES ASSUME ~disk.error PROVE Complete'
      BY <2>1 DEF Complete
    <3>1. /\ job' = job /\ db' = db /\ staged' = staged /\ job[j] = "running"
          /\ \/ /\ UNCHANGED <<wal, writer, produced>>
                /\ opened' = [opened EXCEPT ![j] = "memory"]
             \/ /\ staged /\ writer = None /\ writer' = j
                /\ wal' = wal + 1 /\ produced' = produced + 1
                /\ opened' = [opened EXCEPT ![j] = "file"]
      BY <1>26, JobsAssumption DEF OpenDB, TypeOK
    <3>2. Kept' /\ disk.phase \in {"completed", "collected", "merged", "torn_down"} => Kept
      BY <2>1, <2>2 DEF Rows, Complete, Kept
    <3>3. Closed => UNCHANGED <<wal, writer, produced>>
      BY <3>1, JobsAssumption DEF Closed
    <3>4. ASSUME disk.phase \in Uncollected \cup {"collected"}
          PROVE  /\ db' + wal' = produced'
                 /\ \A i \in Jobs : opened'[i] = "file" => writer' = i
                 /\ \A i \in Jobs : job'[i] = "completed" /\ opened'[i] = "file" => wal' = 0
      <4>1. /\ db + wal = produced
            /\ \A i \in Jobs : opened[i] = "file" => writer = i
            /\ \A i \in Jobs : job[i] = "completed" /\ opened[i] = "file" => wal = 0
        BY <3>4 DEF Rows, Complete
      <4> QED
        BY <3>1, <4>1, JobsAssumption DEF TypeOK
    <3>5. disk.phase \in {"completed", "collected", "merged", "torn_down"} =>
            disk.bm \in Jobs /\ job[disk.bm] = "completed"
      BY DEF Rows, Complete
    <3>6. ASSUME disk.phase \in {"completed", "collected"}, Kept PROVE produced' = produced
      <4>1. writer = disk.bm
        BY <3>6 DEF Rows, Complete, Kept, Uncollected
      <4> QED
        BY <3>1, <3>5, <3>6, <4>1, JobsAssumption DEF Kept
    <3>7. pc = "fetch" => disk.phase = "completed"
      BY DEF Control
    <3>8. Closed => Closed'
      BY <2>2, <3>1, <3>3 DEF Closed
    <3> QED
      BY <2>1, <2>2, <3>2, <3>3, <3>4, <3>5, <3>6, <3>7, <3>8 DEF Rows, Complete, Kept
  <2> QED
    BY <2>3, <2>4 DEF Rows
<1>27. ASSUME NEW j \in Jobs, CommitRow(j) PROVE Rows'
  <2>1. UNCHANGED <<memVars, callVars, monitorVars, dataVars>>
    BY <1>27 DEF CommitRow, Environment
  <2>2. \A i \in Jobs : job[i] = "completed" => job'[i] = "completed" /\ opened'[i] = opened[i]
    BY <1>27 DEF CommitRow, TypeOK
  <2>3. Flow'
    <3>1. mem.bm # None => mem.bm \in Jobs
      BY DEF TypeOK, RunStates
    <3> QED
      BY <1>27, <2>1, <2>2, <3>1
         DEF CommitRow, Rows, Flow, MergedIsLocal, TypeOK, Control, Monitoring
  <2>4. Complete'
    <3> SUFFICES ASSUME ~disk.error PROVE Complete'
      BY <2>1 DEF Complete
    <3>1. /\ job' = job /\ db' = db /\ staged' = staged /\ job[j] = "running"
          /\ staged /\ writer = j /\ writer' = writer /\ opened' = opened
          /\ opened[j] = "file" /\ wal' = wal + 1 /\ produced' = produced + 1
      BY <1>27, JobsAssumption DEF CommitRow, TypeOK
    <3>2. Kept' /\ disk.phase \in {"completed", "collected", "merged", "torn_down"} => Kept
      BY <2>1, <2>2 DEF Rows, Complete, Kept
    <3>3. Closed => UNCHANGED <<wal, writer, produced>>
      BY <3>1, JobsAssumption DEF Closed
    <3>4. ASSUME disk.phase \in Uncollected \cup {"collected"}
          PROVE  /\ db' + wal' = produced'
                 /\ \A i \in Jobs : opened'[i] = "file" => writer' = i
                 /\ \A i \in Jobs : job'[i] = "completed" /\ opened'[i] = "file" => wal' = 0
      <4>1. /\ db + wal = produced
            /\ \A i \in Jobs : opened[i] = "file" => writer = i
            /\ \A i \in Jobs : job[i] = "completed" /\ opened[i] = "file" => wal = 0
        BY <3>4 DEF Rows, Complete
      <4> QED
        BY <3>1, <4>1, JobsAssumption DEF TypeOK
    <3>5. disk.phase \in {"completed", "collected", "merged", "torn_down"} =>
            disk.bm \in Jobs /\ job[disk.bm] = "completed"
      BY DEF Rows, Complete
    <3>6. ASSUME disk.phase \in {"completed", "collected"}, Kept PROVE produced' = produced
      <4>1. writer = disk.bm
        BY <3>6 DEF Rows, Complete, Kept, Uncollected
      <4> QED
        BY <3>1, <3>5, <3>6, <4>1, JobsAssumption DEF Kept
    <3>7. pc = "fetch" => disk.phase = "completed"
      BY DEF Control
    <3>8. Closed => Closed'
      BY <2>2, <3>1, <3>3 DEF Closed
    <3> QED
      BY <2>1, <2>2, <3>2, <3>3, <3>4, <3>5, <3>6, <3>7, <3>8 DEF Rows, Complete, Kept
  <2> QED
    BY <2>3, <2>4 DEF Rows
<1>28. ASSUME NEW j \in Jobs, JobKilled(j) PROVE Rows'
  <2>1. UNCHANGED <<memVars, callVars, monitorVars, dataVars>>
    BY <1>28 DEF JobKilled, Environment
  <2>2. \A i \in Jobs : job[i] = "completed" => job'[i] = "completed" /\ opened'[i] = opened[i]
    BY <1>28 DEF JobKilled, TypeOK
  <2>3. Flow'
    <3>1. mem.bm # None => mem.bm \in Jobs
      BY DEF TypeOK, RunStates
    <3> QED
      BY <1>28, <2>1, <2>2, <3>1
         DEF JobKilled, Rows, Flow, MergedIsLocal, TypeOK, Control, Monitoring
  <2>4. Complete'
    BY <1>28, <2>1, <2>2 DEF JobKilled, Rows, Complete, Closed, Kept, TypeOK
  <2> QED
    BY <2>3, <2>4 DEF Rows
<1>29. ASSUME NEW j \in Jobs, EngineEnds(j) PROVE Rows'
  <2>1. UNCHANGED <<memVars, callVars, monitorVars, dataVars>>
    BY <1>29 DEF EngineEnds, Environment
  <2>2. \A i \in Jobs : job[i] = "completed" => job'[i] = "completed" /\ opened'[i] = opened[i]
    BY <1>29 DEF EngineEnds, TypeOK
  <2>3. Flow'
    <3>1. mem.bm # None => mem.bm \in Jobs
      BY DEF TypeOK, RunStates
    <3> QED
      BY <1>29, <2>1, <2>2, <3>1
         DEF EngineEnds, Rows, Flow, MergedIsLocal, TypeOK, Control, Monitoring
  <2>4. Complete'
    BY <1>29, <2>1, <2>2 DEF EngineEnds, Rows, Complete, Closed, Kept, TypeOK
  <2> QED
    BY <2>3, <2>4 DEF Rows
<1>30. ASSUME NEW j \in Jobs, NEW outcome \in {"completed", "failed"}, JobEnds(j, outcome)
      PROVE  Rows'
  <2>1. UNCHANGED <<memVars, callVars, monitorVars, dataVars>>
    BY <1>30 DEF JobEnds, Environment
  <2>2. \A i \in Jobs : job[i] = "completed" => job'[i] = "completed" /\ opened'[i] = opened[i]
    BY <1>30 DEF JobEnds, TypeOK
  <2>3. Flow'
    <3>1. mem.bm # None => mem.bm \in Jobs
      BY DEF TypeOK, RunStates
    <3> QED
      BY <1>30, <2>1, <2>2, <3>1
         DEF JobEnds, Rows, Flow, MergedIsLocal, TypeOK, Control, Monitoring
  <2>4. Complete'
    BY <1>30, <2>1, <2>2 DEF JobEnds, Rows, Complete, Closed, Kept, TypeOK
  <2> QED
    BY <2>3, <2>4 DEF Rows
<1>31. CASE UNCHANGED vars
  BY <1>31 DEF vars, Rows, Flow, Complete, MergedIsLocal, Closed, Kept
<1> QED
  BY <1>1, <1>2, <1>3, <1>4, <1>5, <1>6, <1>7, <1>8, <1>9, <1>10, <1>11, <1>12, <1>13,
     <1>14, <1>15, <1>16, <1>17, <1>18, <1>19, <1>20, <1>21, <1>22, <1>23, <1>24, <1>25,
     <1>26, <1>27, <1>28, <1>29, <1>30, <1>31
     DEF Next, Running, Backend, Monitor, Cluster

(***************************************************************************)
(* The invariant and the theorems.                                         *)
(***************************************************************************)

\* A new run satisfies the invariant ...
LEMMA InitIInv == Init => IInv
<1> SUFFICES ASSUME Init PROVE IInv
  OBVIOUS
<1> USE JobsAssumption, PlatformAssumption, BoundsAssumption
<1>1. TypeOK
  <2>1. NewRun \in RunStates
    BY DEF NewRun, RunStates, PhaseNames, Rank
  <2>2. job \in [Jobs -> Statuses] /\ engine \in [Jobs -> {"none", "live", "gone"}]
    BY DEF Init, Statuses
  <2>7. opened \in [Jobs -> {"none", "file", "memory"}]
    BY DEF Init
  <2>3. pc \in Awaits /\ status \in Statuses
    BY DEF Init, Awaits, Statuses
  <2>4. mem \in RunStates /\ disk \in RunStates
    BY <2>1 DEF Init
  <2>5. kills \in 0 .. MaxKills
    BY DEF Init
  <2>6. reported \in BOOLEAN /\ failing \in BOOLEAN /\ tdFailed \in BOOLEAN /\ staged \in BOOLEAN
    BY DEF Init
  <2> QED
    BY <2>2, <2>3, <2>4, <2>5, <2>6, <2>7 DEF Init, TypeOK
<1>2. Control
  BY DEF Init, Control, NewRun, Monitoring
<1>3. Release
  BY DEF Init, Release, KnownReleased, NewRun
<1>4. Rows
  BY DEF Init, Rows, Flow, Complete, MergedIsLocal, NewRun, Uncollected
<1> QED
  BY <1>1, <1>2, <1>3, <1>4 DEF IInv

\* ... every step preserves it ...
LEMMA IInvStep == IInv /\ [Next]_vars => IInv'
BY TypeStep, ControlStep, ReleaseStep, RowsStep DEF IInv

\* ... so that it always holds.
LEMMA Invariance == Spec => []IInv
BY InitIInv, IInvStep, PTL DEF Spec

\* Every reachable state of run(), its state file and the cluster is of its
\* type, and no execution polls more than max_polls allows (_monitor).
THEOREM TypeCorrect == Spec => []TypeOK
<1>1. IInv => TypeOK
  BY DEF IInv
<1> QED
  BY <1>1, Invariance, PTL

\* A state file that says torn_down is a promise about the cluster: the
\* Benchmarker job it names has ended, the engines it names are gone and the
\* scratch directory is removed (teardown.py, _teardown_once), after any
\* number of kills, resumes and failed teardown actions.
THEOREM TornDownReleases == Spec => []KnownReleased
<1>1. IInv => KnownReleased
  BY DEF IInv, Release
<1> QED
  BY <1>1, Invariance, PTL

\* A run that reaches the central DB without an error on record brings there
\* every row its Benchmarker committed (_monitor, _collect, _merge).
THEOREM MergeIsComplete == Spec => []CompleteMerge
<1>1. IInv => CompleteMerge
  <2> SUFFICES ASSUME IInv PROVE CompleteMerge
    OBVIOUS
  <2> QED
    BY DEF IInv, Rows, Complete, CompleteMerge
<1> QED
  BY <1>1, Invariance, PTL

\* Merging again after a kill leaves in the central DB the rows of the one
\* downloaded DB (merge_run_db).
THEOREM MergeIsIdempotent == Spec => []MergedIsLocal
<1>1. IInv => MergedIsLocal
  BY DEF IInv, Rows, Flow
<1> QED
  BY <1>1, Invariance, PTL

\* Every step of the loop is a step of the run's contract or changes nothing
\* the contract speaks of.
LEMMA ContractStep ==
  IInv /\ [Next]_vars => [Contract!Next]_(Contract!contractVars)
<1> SUFFICES ASSUME IInv, [Next]_vars PROVE [Contract!Next]_(Contract!contractVars)
  OBVIOUS
<1> USE DEF memVars, callVars, monitorVars, dataVars, jobVars, scratchVars, clusterVars
<1>0. TypeOK /\ Control /\ Flow /\ mem \in RunStates /\ disk \in RunStates
  BY DEF IInv, Rows, TypeOK
<1>1. ASSUME Raise, UNCHANGED dataVars, mem = disk, disk.phase # "torn_down"
      PROVE  Contract!Next
  <2>1. disk' = WithError(disk)
    BY <1>1 DEF Raise
  <2>2. disk'.phase = disk.phase /\ disk'.error = TRUE
    BY <1>0, <2>1 DEF WithError, RunStates
  <2> QED
    BY <1>1, <2>2 DEF Contract!Next, Contract!Fail
<1>2. ASSUME NEW p \in PhaseNames, AdvanceTo(p), UNCHANGED dataVars,
             p = "merged" => central > 0,
             \/ disk.phase \in DOMAIN Contract!Successor /\ p = Contract!Successor[disk.phase]
             \/ disk.error /\ disk.phase \in Uncollected /\ p = "collected"
      PROVE  Contract!Next
  <2>1. mem.error = disk.error
    BY <1>0 DEF Control, RunStates
  <2>2. disk'.phase = p /\ disk'.error = disk.error
    BY <1>0, <1>2, <2>1 DEF AdvanceTo, Advance, RunStates
  <2> QED
    BY <1>2, <2>2 DEF Contract!Next, Contract!Advance, Contract!Salvage, Uncollected
<1>3. CASE ReadFailed
  BY <1>0, <1>1, <1>3 DEF ReadFailed, Control, Monitoring
<1>4. CASE SweepFailed
  BY <1>0, <1>1, <1>4 DEF SweepFailed, Control, Monitoring
<1>5. CASE PollsExceeded
  BY <1>0, <1>1, <1>5 DEF PollsExceeded, StillRunning, Control, Monitoring
<1>6. CASE CallFailed
  <2>1. mem = disk /\ disk.phase # "torn_down"
    BY <1>0, <1>6 DEF CallFailed, Control
  <2>2. CASE failing
    BY <1>6, <2>2 DEF CallFailed, Contract!contractVars
  <2>3. CASE ~failing
    BY <1>1, <1>6, <2>1, <2>3 DEF CallFailed
  <2> QED
    BY <2>2, <2>3
<1>7. CASE Staged
  <2>1. disk.phase = "created"
    BY <1>0, <1>7 DEF Staged, Returned, Control
  <2> QED
    BY <1>2, <1>7, <2>1 DEF Staged, PhaseNames, Rank, Contract!Successor
<1>8. CASE Submitted
  <2>1. disk.phase = "staged"
    BY <1>0, <1>8 DEF Submitted, Returned, Control
  <2> QED
    BY <1>2, <1>8, <2>1 DEF Submitted, PhaseNames, Rank, Contract!Successor
<1>9. CASE SweepCompleted
  <2>1. disk.phase = "submitted"
    BY <1>0, <1>9 DEF SweepCompleted, Monitoring, Control
  <2> QED
    BY <1>2, <1>9, <2>1 DEF SweepCompleted, PhaseNames, Rank, Contract!Successor
<1>10. CASE Collected
  <2>1. disk.phase = "completed" \/ (disk.error /\ disk.phase \in Uncollected)
    BY <1>0, <1>10, UncollectedMeaning DEF Collected, Returned, Control
  <2> QED
    BY <1>2, <1>10, <2>1 DEF Collected, PhaseNames, Rank, Contract!Successor
<1>11. CASE Merged
  <2>1. disk.phase = "collected" /\ central > 0
    BY <1>0, <1>11 DEF Merged, Returned, Control, Flow
  <2> QED
    BY <1>2, <1>11, <2>1 DEF Merged, PhaseNames, Rank, Contract!Successor
<1>12. CASE TornDown
  <2>1. mem = disk /\ (disk.phase = "merged" \/ disk.error) /\ disk.phase # "torn_down"
    BY <1>0, <1>12 DEF TornDown, Control
  <2>2. disk'.phase = "torn_down" /\ disk'.error = disk.error /\ central' = central
    BY <1>0, <1>12, <2>1 DEF TornDown, Advance, RunStates
  <2> QED
    BY <2>1, <2>2 DEF Contract!Next, Contract!Close
<1>13. CASE ServeMerge
  <2>1. disk.phase = "collected" /\ UNCHANGED disk
    BY <1>0, <1>13 DEF ServeMerge, Serving, Control
  <2>2. CASE central' = central
    BY <2>1, <2>2 DEF Contract!contractVars
  <2>3. CASE central' = local /\ central' # central
    <3>1. local \in Nat /\ local # 0
      BY <1>0, <2>3 DEF Flow, MergedIsLocal, TypeOK
    <3>2. central' \in 1 .. MaxRows
      BY <1>0, <2>3, <3>1, BoundsAssumption DEF Flow, TypeOK
    <3>3. central # 0 => central' = central
      BY <1>0, <2>3 DEF Flow, MergedIsLocal
    <3> QED
      BY <2>1, <3>2, <3>3 DEF Contract!Next, Contract!Publish
  <2> QED
    BY <1>13, <2>2, <2>3 DEF ServeMerge
<1>14. CASE DiscoverEngines
  <2>1. mem = disk
    BY <1>0, <1>14 DEF DiscoverEngines, Control
  <2>2. disk'.phase = disk.phase /\ disk'.error = disk.error /\ central' = central
    BY <1>0, <1>14, <2>1 DEF DiscoverEngines, RunStates
  <2> QED
    BY <2>2 DEF Contract!contractVars
<1>15. CASE disk' = disk /\ central' = central
  BY <1>15 DEF Contract!contractVars
<1> QED
  BY <1>3, <1>4, <1>5, <1>6, <1>7, <1>8, <1>9, <1>10, <1>11, <1>12, <1>13, <1>14, <1>15
     DEF Next, Start, Kill, Running, Backend, ServeStage, ServeSubmit, ServeFetch,
         Monitor, ReadStatus, ReportPrecheck, PollAgain, TearDown, TeardownIncomplete,
         Cluster, JobStarts, LaunchEngine, OpenDB, CommitRow, JobEnds, JobKilled, EngineEnds,
         Checkpoint, Environment, vars

\* The Coordinator implements the run's contract: seen through the state
\* file and the central DB no phase is skipped without an error on record,
\* and a run is closed only after its merge or with the error recorded.
THEOREM ContractKept == Spec => KeepsContract
<1>1. Init => Contract!Init
  BY DEF Init, NewRun, Contract!Init
<1> QED
  BY <1>1, ContractStep, Invariance, PTL DEF Spec, KeepsContract, Contract!Spec

=============================================================================
