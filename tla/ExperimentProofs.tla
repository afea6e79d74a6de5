-------------------------- MODULE ExperimentProofs --------------------------
(***************************************************************************)
(* Theorems of the driver, for any number of levels and any early-stop     *)
(* setting.                                                                *)
(*                                                                         *)
(* The inductive invariant has four parts beside TypeOK: Course relates    *)
(* the await of the driver, the engine job and the DB; Verdict follows     *)
(* results.json to what the driver reads of it; Committed rows are counted *)
(* by Kept, and Streak counts the saturated levels.  Only Verdict needs a  *)
(* run directory without the results.json of an earlier job.               *)
(***************************************************************************)
EXTENDS Experiment, FiniteSetTheorems, TLAPS

Ending == {"closing", "done", "killed"}
Launching == {"dataset", "submit", "node", "ready", "probe", "grace", "abort", "opendb"}
Serving == {"gate", "sweep", "compare", "finalise"}

\* Where the driver is tells how far the engine job can be, and a DB is opened
\* only when that has passed the gate.
Course ==
  /\ outcome # "none" => pc \in Ending
  /\ pc \in {"closing", "done"} => outcome # "none"
  /\ outcome = "ok" => db # "none"
  /\ pc \in {"dataset", "submit"} => engine = "none"
  /\ pc = "node" => engine # "none"
  /\ pc \in {"ready", "probe", "grace", "abort"} => engine \notin {"none", "queued"}
  /\ pc = "grace" => engine = "ended"
  /\ pc \in {"opendb"} \cup Serving => engine \in {"serving", "ended"}
  /\ outcome = "dead" => engine = "ended"
  /\ pc \in Launching => db = "none" /\ level = 0
  /\ pc \in Serving => db # "none"
  /\ db # "none" => engine # "none"
  /\ db # "file" => rows = {} /\ stored = {}
  /\ EngineReleased

\* The gate writes once, and the driver sees that or nothing.
Verdict ==
  /\ engine \in {"none", "queued", "gate"} => written = None
  /\ seen \in {None, written}
  /\ pc = "abort" => Aborting(seen)
  /\ db # "none" => engine \notin {"none", "queued", "gate"}
  /\ db = "file" => ~IsSmoke(written)
  /\ GateDiagnosed

\* The rows in the file.
Kept ==
  /\ (pc \in Serving \/ outcome = "ok") /\ db = "file" =>
       {"experiment", "instance"} \subseteq rows /\ stored = 1 .. level

\* consec is the length of the run of saturated levels at the end, and the
\* sweep goes on while it is short.
Streak ==
  /\ pc \in Launching \cup {"gate"} => level = 0
  /\ consec <= level
  /\ \A k \in level - consec + 1 .. level : EarlyStop => signals[k]
  /\ EarlyStop /\ consec < level => ~signals[level - consec]
  /\ ~EarlyStop => consec = 0
  /\ pc = "sweep" => level < Levels /\ consec < StopAfter
  /\ pc = "gate" \/ pc \in Launching => consec = 0
  /\ pc \in {"compare", "finalise"} \/ outcome = "ok" =>
       level = Levels \/ (EarlyStop /\ consec = StopAfter)
  /\ EarlyStop => \A i \in 1 .. level - 1 : ~SaturatedRun(i)

IInv == TypeOK /\ Course /\ Kept /\ Streak

USE ConfigAssumption

\* Only known tables are committed.
LEMMA RowsType ==
  ASSUME TypeOK, [Next]_vars
  PROVE  rows' \subseteq Tables
<1> USE DEF TypeOK, Tables, Committed, Persist, OpenFor, PrecheckRows
<1>1. CASE rows' = rows
  BY <1>1
<1>2. CASE GateAborted \/ OpenDB
  BY <1>2 DEF GateAborted, OpenDB
<1>3. CASE QualityGate
  BY <1>3 DEF QualityGate
<1>4. CASE Compare
  BY <1>4 DEF Compare
<1>5. CASE Finalise
  BY <1>5 DEF Finalise
<1>6. \/ rows' = rows
      \/ GateAborted \/ OpenDB \/ QualityGate \/ Compare \/ Finalise
  BY DEF Next, Driver, EngineJob, EngineStarts, GateEnds, EngineServes, EngineDies, Surfaces,
         DatasetFailed, DatasetReady, Submit, SubmitFailed, NodeAssigned, ReadVerdict, Probe,
         DeadEngine, RunLevel, LevelFailed, Close, Kill, vars, driverVars
<1> QED
  BY <1>1, <1>2, <1>3, <1>4, <1>5, <1>6

LEMMA TypeStep == TypeOK /\ Streak /\ [Next]_vars => TypeOK'
<1> SUFFICES ASSUME TypeOK, Streak, [Next]_vars PROVE TypeOK'
  OBVIOUS
<1>0. rows' \subseteq Tables
  BY RowsType
<1> USE <1>0 DEF TypeOK, Raise, OpenFor, Awaits, driverVars, engineVars, sweepVars
<1>1. CASE EngineStarts
  BY <1>1 DEF EngineStarts
<1>14. CASE EngineServes
  BY <1>14 DEF EngineServes
<1>15. CASE EngineDies
  BY <1>15 DEF EngineDies
<1>13. CASE GateEnds
  BY <1>13 DEF GateEnds
<1>2. CASE Surfaces
  BY <1>2 DEF Surfaces
<1>3. CASE DatasetFailed \/ DatasetReady \/ Submit \/ SubmitFailed \/ NodeAssigned
  BY <1>3 DEF DatasetFailed, DatasetReady, Submit, SubmitFailed, NodeAssigned
<1>4. CASE ReadVerdict \/ Probe \/ DeadEngine
  BY <1>4 DEF ReadVerdict, Probe, DeadEngine
<1>5. CASE GateAborted \/ OpenDB
  BY <1>5 DEF GateAborted, OpenDB
<1>6. CASE QualityGate
  BY <1>6 DEF QualityGate
<1>10. CASE Compare
  BY <1>10 DEF Compare
<1>11. CASE Finalise
  BY <1>11 DEF Finalise
<1>12. CASE LevelFailed
  BY <1>12 DEF LevelFailed
<1>7. ASSUME NEW saturated \in BOOLEAN, RunLevel(saturated) PROVE TypeOK'
  <2>1. level' = level + 1 /\ level' \in 0 .. Levels
    BY <1>7 DEF RunLevel, Streak
  <2>2. consec' \in 0 .. StopAfter
    BY <1>7 DEF RunLevel, Streak
  <2>3. signals' \in Seq(BOOLEAN) /\ Len(signals') = level'
    BY <1>7 DEF RunLevel
  <2>4. stored' \subseteq 1 .. Levels
    BY <1>7, <2>1 DEF RunLevel, Committed
  <2> QED
    BY <1>7, <2>1, <2>2, <2>3, <2>4 DEF RunLevel
<1>8. CASE Close \/ Kill
  BY <1>8 DEF Close, Kill
<1>9. CASE UNCHANGED vars
  BY <1>9 DEF vars
<1> QED
  BY <1>1, <1>2, <1>3, <1>4, <1>5, <1>6, <1>7, <1>8, <1>9,
     <1>10, <1>11, <1>12, <1>13, <1>14, <1>15 DEF Next, Driver, EngineJob

LEMMA CourseStep == TypeOK /\ Course /\ [Next]_vars => Course'
<1> SUFFICES ASSUME TypeOK, Course, [Next]_vars PROVE Course'
  OBVIOUS
<1> USE DEF TypeOK, Course, Raise, Committed, Persist, OpenFor, Ending, Launching, Serving,
            EngineReleased, driverVars, engineVars, sweepVars
<1>1. CASE EngineJob
  BY <1>1 DEF EngineJob, EngineStarts, GateEnds, EngineServes, EngineDies
<1>2. CASE Surfaces
  BY <1>2 DEF Surfaces
<1>3. CASE DatasetFailed \/ DatasetReady \/ Submit \/ SubmitFailed \/ NodeAssigned
  BY <1>3 DEF DatasetFailed, DatasetReady, Submit, SubmitFailed, NodeAssigned
<1>4. CASE ReadVerdict \/ Probe \/ DeadEngine
  BY <1>4 DEF ReadVerdict, Probe, DeadEngine
<1>5. CASE GateAborted \/ OpenDB
  BY <1>5 DEF GateAborted, OpenDB
<1>6. CASE QualityGate \/ LevelFailed \/ Compare \/ Finalise
  BY <1>6 DEF QualityGate, LevelFailed, Compare, Finalise
<1>7. ASSUME NEW saturated \in BOOLEAN, RunLevel(saturated) PROVE Course'
  BY <1>7 DEF RunLevel
<1>8. CASE Close \/ Kill
  BY <1>8 DEF Close, Kill
<1>9. CASE UNCHANGED vars
  BY <1>9 DEF vars
<1> QED
  BY <1>1, <1>2, <1>3, <1>4, <1>5, <1>6, <1>7, <1>8, <1>9 DEF Next, Driver

\* Without an earlier results.json.  What the driver has seen of it is the gate's
\* only verdict, and cannot change any more.
LEMMA VerdictStep ==
  ~Leftover /\ TypeOK /\ Course /\ Verdict /\ [Next]_vars => Verdict'
<1> SUFFICES ASSUME ~Leftover, TypeOK, Course, Verdict, [Next]_vars PROVE Verdict'
  OBVIOUS
<1> USE DEF Course, Verdict, GateDiagnosed, Raise, OpenFor, Persist, Committed, PrecheckRows,
            Aborting, IsSmoke, Launching, Serving, Ending,
            Surfaced, driverVars, engineVars, sweepVars
<1>1. CASE EngineStarts
  BY <1>1 DEF EngineStarts
<1>2. CASE GateEnds
  BY <1>2 DEF GateEnds
<1>3. CASE EngineServes
  BY <1>3 DEF EngineServes
<1>4. CASE EngineDies
  BY <1>4 DEF EngineDies
<1>5. CASE Surfaces
  BY <1>5 DEF Surfaces
<1>6. CASE DatasetFailed
  BY <1>6 DEF DatasetFailed
<1>7. CASE DatasetReady
  BY <1>7 DEF DatasetReady
<1>8. CASE Submit
  BY <1>8 DEF Submit
<1>9. CASE SubmitFailed
  BY <1>9 DEF SubmitFailed
<1>10. CASE NodeAssigned
  BY <1>10 DEF NodeAssigned
<1>11. CASE ReadVerdict
  BY <1>11 DEF ReadVerdict
<1>12. CASE Probe
  BY <1>12 DEF Probe
<1>13. CASE DeadEngine
  BY <1>13 DEF DeadEngine
<1>14. CASE GateAborted
  BY <1>14 DEF GateAborted
<1>15. CASE OpenDB
  BY <1>15 DEF OpenDB
<1>16. CASE QualityGate
  BY <1>16 DEF QualityGate
<1>17. CASE LevelFailed
  BY <1>17 DEF LevelFailed
<1>18. CASE Compare
  BY <1>18 DEF Compare
<1>19. CASE Finalise
  BY <1>19 DEF Finalise
<1>20. CASE Close
  BY <1>20 DEF Close
<1>21. CASE Kill
  BY <1>21 DEF Kill
<1>22. ASSUME NEW saturated \in BOOLEAN, RunLevel(saturated) PROVE Verdict'
  BY <1>22 DEF RunLevel
<1>23. CASE UNCHANGED vars
  BY <1>23 DEF vars
<1> QED
  BY <1>1, <1>2, <1>3, <1>4, <1>5, <1>6, <1>7, <1>8, <1>9, <1>10, <1>11, <1>12, <1>13,
     <1>14, <1>15, <1>16, <1>17, <1>18, <1>19, <1>20, <1>21, <1>22, <1>23 DEF Next,
     Driver, EngineJob

\* Rows stay, and a level that is run is stored.
LEMMA KeptStep == TypeOK /\ Course /\ Kept /\ [Next]_vars => Kept'
<1> SUFFICES ASSUME TypeOK, Course, Kept, [Next]_vars PROVE Kept'
  OBVIOUS
<1>0. level \in Nat
  BY DEF TypeOK
<1> USE <1>0 DEF Course, Kept, Raise, OpenFor, Persist, Committed, PrecheckRows, Aborting,
            Launching, Serving, Ending, driverVars, engineVars, sweepVars
<1>1. CASE EngineStarts
  BY <1>1 DEF EngineStarts
<1>2. CASE GateEnds
  BY <1>2 DEF GateEnds
<1>3. CASE EngineServes
  BY <1>3 DEF EngineServes
<1>4. CASE EngineDies
  BY <1>4 DEF EngineDies
<1>5. CASE Surfaces
  BY <1>5 DEF Surfaces
<1>6. CASE DatasetFailed
  BY <1>6 DEF DatasetFailed
<1>7. CASE DatasetReady
  BY <1>7 DEF DatasetReady
<1>8. CASE Submit
  BY <1>8 DEF Submit
<1>9. CASE SubmitFailed
  BY <1>9 DEF SubmitFailed
<1>10. CASE NodeAssigned
  BY <1>10 DEF NodeAssigned
<1>11. CASE ReadVerdict
  BY <1>11 DEF ReadVerdict
<1>12. CASE Probe
  BY <1>12 DEF Probe
<1>13. CASE DeadEngine
  BY <1>13 DEF DeadEngine
<1>14. CASE GateAborted
  BY <1>14 DEF GateAborted
<1>15. CASE OpenDB
  BY <1>15 DEF OpenDB
<1>16. CASE QualityGate
  BY <1>16 DEF QualityGate
<1>17. CASE LevelFailed
  BY <1>17 DEF LevelFailed
<1>18. CASE Compare
  BY <1>18 DEF Compare
<1>19. CASE Finalise
  BY <1>19 DEF Finalise
<1>20. CASE Close
  BY <1>20 DEF Close
<1>21. CASE Kill
  BY <1>21 DEF Kill
<1>22. ASSUME NEW saturated \in BOOLEAN, RunLevel(saturated) PROVE Kept'
  <2>1. db = "file" => stored' = stored \cup {level + 1}
    BY <1>22 DEF RunLevel
  <2>2. 1 .. level + 1 = (1 .. level) \cup {level + 1}
    BY <1>0
  <2> QED
    BY <1>22, <2>1, <2>2 DEF RunLevel
<1>23. CASE UNCHANGED vars
  BY <1>23 DEF vars
<1> QED
  BY <1>1, <1>2, <1>3, <1>4, <1>5, <1>6, <1>7, <1>8, <1>9, <1>10, <1>11, <1>12, <1>13,
     <1>14, <1>15, <1>16, <1>17, <1>18, <1>19, <1>20, <1>21, <1>22, <1>23 DEF Next,
     Driver, EngineJob

\* The run of saturated levels at the end after one more level.
LEMMA StreakAfterLevel ==
  ASSUME TypeOK, Streak, NEW saturated \in BOOLEAN, RunLevel(saturated)
  PROVE  /\ consec' <= level'
         /\ \A k \in level' - consec' + 1 .. level' : EarlyStop => signals'[k]
         /\ EarlyStop /\ consec' < level' => ~signals'[level' - consec']
<1> USE DEF TypeOK, Streak, RunLevel
<1>1. /\ level' = level + 1 /\ level \in Nat /\ consec \in Nat
      /\ consec' = IF EarlyStop /\ saturated THEN consec + 1 ELSE 0
  OBVIOUS
<1>2. /\ signals'[level + 1] = saturated
      /\ \A k \in 1 .. level : signals'[k] = signals[k]
  OBVIOUS
<1>3. consec' <= level'
  BY <1>1
<1>4. CASE EarlyStop /\ saturated
  <2>1. consec' = consec + 1 /\ level' - consec' = level - consec
    BY <1>1, <1>4
  <2>2. \A k \in level - consec + 1 .. level : signals'[k]
    BY <1>1, <1>2, <1>4
  <2>3. consec < level => ~signals'[level - consec]
    BY <1>1, <1>2, <1>4
  <2> QED
    BY <1>1, <1>2, <1>4, <2>1, <2>2, <2>3
<1>5. CASE ~(EarlyStop /\ saturated)
  BY <1>1, <1>2, <1>5
<1> QED
  BY <1>3, <1>4, <1>5

\* A run that is still short does not end in StopAfter saturated levels.
LEMMA ShortStreak ==
  ASSUME TypeOK, Streak, EarlyStop, consec < StopAfter
  PROVE  \A i \in 1 .. level : ~SaturatedRun(i)
<1> USE DEF TypeOK, Streak
<1>0. level \in Nat /\ consec \in Nat /\ \A i \in 1 .. level - 1 : ~SaturatedRun(i)
  OBVIOUS
<1>1. ASSUME level >= StopAfter PROVE ~SaturatedRun(level)
  <2>1. ~signals[level - consec] /\ level - consec \in level - StopAfter + 1 .. level
    BY <1>0, <1>1
  <2> QED
    BY <2>1 DEF SaturatedRun
<1>2. ASSUME ~(level >= StopAfter) PROVE ~SaturatedRun(level)
  BY <1>2 DEF SaturatedRun
<1>3. \A i \in 1 .. level : i \in 1 .. level - 1 \/ i = level
  BY <1>0
<1> QED
  BY <1>0, <1>1, <1>2, <1>3

\* The sweep stops as soon as its last StopAfter levels were saturated.
LEMMA StreakStep == TypeOK /\ Course /\ Streak /\ [Next]_vars => Streak'
<1> SUFFICES ASSUME TypeOK, Course, Streak, [Next]_vars PROVE Streak'
  OBVIOUS
<1>1. ASSUME NEW saturated \in BOOLEAN, RunLevel(saturated) PROVE Streak'
  <2>1. /\ level' = level + 1 /\ level < Levels /\ consec < StopAfter /\ level \in Nat
        /\ consec' = IF EarlyStop /\ saturated THEN consec + 1 ELSE 0
        /\ consec \in Nat
    BY <1>1 DEF RunLevel, Streak, TypeOK
  <2>2. EarlyStop => \A i \in 1 .. level : ~SaturatedRun(i)
    BY <2>1, ShortStreak
  <2>3. \A k \in 1 .. level : signals'[k] = signals[k]
    BY <1>1 DEF RunLevel, TypeOK
  <2>4. ASSUME EarlyStop PROVE \A i \in 1 .. level : ~SaturatedRun(i)'
    BY <2>1, <2>2, <2>3, <2>4 DEF SaturatedRun
  <2>5. pc' = "sweep" => level' < Levels /\ consec' < StopAfter
    BY <1>1, <2>1 DEF RunLevel
  <2>6. pc' # "sweep" => level' = Levels \/ (EarlyStop /\ consec' = StopAfter)
    BY <1>1, <2>1 DEF RunLevel
  <2>7. pc' \in {"sweep", "compare"} /\ outcome' = outcome /\ outcome # "ok"
    BY <1>1 DEF RunLevel, Course, Ending
  <2> QED
    BY <2>1, <2>4, <2>5, <2>6, <2>7, <1>1, StreakAfterLevel DEF Streak, Launching
<1>2. ASSUME UNCHANGED <<level, consec, signals>>, \A saturated \in BOOLEAN : ~RunLevel(saturated)
      PROVE  Streak'
  <2>1. \A i : SaturatedRun(i)' <=> SaturatedRun(i)
    BY <1>2 DEF SaturatedRun
  <2>2. /\ pc' = "sweep" => pc \in {"gate", "sweep"}
        /\ pc' = "gate" \/ pc' \in Launching => pc \in Launching
                                                  \/ pc = "gate"
        /\ pc' \in {"compare", "finalise"} \/ outcome' = "ok" =>
             pc \in {"compare", "finalise"} \/ outcome = "ok"
    BY <1>2 DEF Raise, Launching, Next, Driver, EngineJob, EngineStarts, GateEnds, EngineServes, EngineDies,
       Surfaces, DatasetFailed, DatasetReady, Submit, SubmitFailed, NodeAssigned,
       ReadVerdict, Probe, DeadEngine, GateAborted, OpenDB, QualityGate, LevelFailed, Compare,
       Finalise, Close, Kill, vars, driverVars, sweepVars
  <2> QED
    BY <1>2, <2>1, <2>2 DEF Streak, TypeOK
<1> QED
  BY <1>1, <1>2 DEF Next, Driver, EngineJob, EngineStarts, GateEnds, EngineServes, EngineDies,
     Surfaces, DatasetFailed, DatasetReady, Submit, SubmitFailed, NodeAssigned,
     ReadVerdict, Probe, DeadEngine, GateAborted, OpenDB, QualityGate, LevelFailed, Compare,
     Finalise, Close, Kill, vars, driverVars, sweepVars

(***************************************************************************)
(* The theorems.                                                           *)
(***************************************************************************)

LEMMA InitIInv == Init => IInv
<1> SUFFICES ASSUME Init PROVE IInv
  OBVIOUS
<1>1. TypeOK
  <2>1. signals \in Seq(BOOLEAN) /\ Len(signals) = level
    BY DEF Init
  <2>2. written \in Verdicts \cup {None} /\ seen \in Verdicts \cup {None}
    BY DEF Init
  <2>3. /\ pc = "dataset" /\ outcome = "none" /\ db = "none" /\ engine = "none"
        /\ rows = {} /\ stored = {} /\ level = 0 /\ consec = 0 /\ uncancelled = FALSE
    BY DEF Init
  <2>4. pc \in Awaits /\ rows \subseteq Tables
    BY <2>3 DEF Awaits
  <2>5. stored \subseteq 1 .. Levels /\ level \in 0 .. Levels /\ consec \in 0 .. StopAfter
    BY <2>3
  <2> QED
    BY <2>1, <2>2, <2>3, <2>4, <2>5, Zenon DEF TypeOK
<1>2. Course
  BY DEF Init, Course, Launching, Serving, Ending, EngineReleased
<1>3. Kept
  BY DEF Init, Kept, Serving
<1>4. Streak
  BY DEF Init, Streak, Launching
<1> QED
  BY <1>1, <1>2, <1>3, <1>4 DEF IInv

LEMMA Invariance == Spec => []IInv
<1>1. IInv /\ [Next]_vars => IInv'
  BY TypeStep, CourseStep, KeptStep, StreakStep DEF IInv
<1> QED
  BY InitIInv, <1>1, PTL DEF Spec

LEMMA VerdictInvariance == ASSUME ~Leftover PROVE Spec => []Verdict
<1>1. Init => Verdict
  BY DEF Init, Verdict, GateDiagnosed
<1>2. IInv /\ Verdict /\ [Next]_vars => Verdict'
  BY VerdictStep DEF IInv
<1> QED
  BY <1>1, <1>2, Invariance, PTL DEF Spec

\* TypeCorrect: every variable keeps to the values the driver can give it.
THEOREM TypeCorrect == Spec => []TypeOK
<1>1. IInv => TypeOK
  BY DEF IInv
<1> QED
  BY <1>1, Invariance, PTL

\* EngineIsReleased: the driver returns or raises with its engine job ended, unless
\* scancel failed.
THEOREM EngineIsReleased == Spec => []EngineReleased
<1>1. IInv => EngineReleased
  BY DEF IInv, Course
<1> QED
  BY <1>1, Invariance, PTL

\* SummaryIsWhole: a run that returns its summary has all its levels in the file.
THEOREM SummaryIsWhole == Spec => []DBIsWhole
<1>1. IInv => DBIsWhole
  BY DEF IInv, Kept, DBIsWhole
<1> QED
  BY <1>1, Invariance, PTL

\* EarlyStopIsJustified: the sweep stops with its first StopAfter consecutive saturated
\* levels, and otherwise runs them all.
THEOREM EarlyStopIsJustified == Spec => []EarlyStopJustified
<1>1. ASSUME IInv PROVE EarlyStopJustified
  <2>1. ASSUME outcome = "ok", level < Levels PROVE EarlyStop /\ SaturatedRun(level)
    BY <1>1, <2>1 DEF IInv, Streak, TypeOK, SaturatedRun
  <2> QED
    BY <1>1, <2>1 DEF IInv, Streak, EarlyStopJustified
<1> QED
  BY <1>1, Invariance, PTL

\* GateIsDiagnosed: an aborting gate is told from a crash, and its rows are kept.
THEOREM GateIsDiagnosed == ASSUME ~Leftover PROVE Spec => []GateDiagnosed
<1>1. Verdict => GateDiagnosed
  BY DEF Verdict
<1> QED
  BY <1>1, VerdictInvariance, PTL

\* SmokeKeepsNothing: nothing of a run that found a cold cache is in the file.
THEOREM SmokeKeepsNothing == ASSUME ~Leftover PROVE Spec => []SmokeLeavesNothing
<1>1. IInv /\ Verdict => SmokeLeavesNothing
  BY DEF IInv, Course, Verdict, SmokeLeavesNothing
<1> QED
  BY <1>1, Invariance, VerdictInvariance, PTL

(***************************************************************************)
(* The driver implements the job that the Coordinator relies on.           *)
(***************************************************************************)

Commits == Cardinality(rows) + Cardinality(stored)

\* Rows are only added, and the number of commits tells whether any were.
LEMMA CommitsGrow ==
  ASSUME TypeOK, TypeOK', rows \subseteq rows', stored \subseteq stored'
  PROVE  /\ Commits \in Nat /\ Commits' \in Nat
         /\ Commits' > Commits \/ (rows' = rows /\ stored' = stored)
<1>1. IsFiniteSet(rows') /\ IsFiniteSet(stored')
  <2>1. IsFiniteSet({"experiment"})
    BY FS_EmptySet, FS_AddElement, {} \cup {"experiment"} = {"experiment"}
  <2>2. IsFiniteSet({"experiment"} \cup {"instance"})
    BY <2>1, FS_AddElement
  <2>3. IsFiniteSet({"experiment"} \cup {"instance"} \cup {"prechecks"})
    BY <2>2, FS_AddElement
  <2>4. IsFiniteSet({"experiment"} \cup {"instance"} \cup {"prechecks"} \cup {"gate"})
    BY <2>3, FS_AddElement
  <2>5. IsFiniteSet({"experiment"} \cup {"instance"} \cup {"prechecks"} \cup {"gate"}
                    \cup {"compare"})
    BY <2>4, FS_AddElement
  <2>6. IsFiniteSet({"experiment"} \cup {"instance"} \cup {"prechecks"} \cup {"gate"}
                    \cup {"compare"} \cup {"hardware"})
    BY <2>5, FS_AddElement
  <2>7. IsFiniteSet(Tables)
    <3>1. Tables = {"experiment"} \cup {"instance"} \cup {"prechecks"} \cup {"gate"}
                   \cup {"compare"} \cup {"hardware"}
      BY DEF Tables
    <3> QED
      BY <2>6, <3>1
  <2>8. IsFiniteSet(1 .. Levels)
    BY FS_Interval
  <2>9. rows' \in SUBSET Tables /\ stored' \in SUBSET (1 .. Levels)
    BY DEF TypeOK, Tables
  <2> QED
    BY <2>7, <2>8, <2>9, FS_Subset
<1>2. rows \in SUBSET rows' /\ stored \in SUBSET stored'
  OBVIOUS
<1>3. /\ IsFiniteSet(rows) /\ Cardinality(rows) <= Cardinality(rows')
      /\ Cardinality(rows') = Cardinality(rows) => rows' = rows
  BY <1>1, <1>2, FS_Subset
<1>4. /\ IsFiniteSet(stored) /\ Cardinality(stored) <= Cardinality(stored')
      /\ Cardinality(stored') = Cardinality(stored) => stored' = stored
  BY <1>1, <1>2, FS_Subset
<1>5. /\ Cardinality(rows) \in Nat /\ Cardinality(rows') \in Nat
      /\ Cardinality(stored) \in Nat /\ Cardinality(stored') \in Nat
  <2>1. \A S : IsFiniteSet(S) => Cardinality(S) \in Nat
    BY FS_CardinalityType
  <2> QED
    BY <1>1, <1>3, <1>4, <2>1
<1>6. \/ rows' = rows /\ stored' = stored
      \/ Cardinality(rows') + Cardinality(stored') > Cardinality(rows) + Cardinality(stored)
  <2>1. Cardinality(rows') = Cardinality(rows) \/ Cardinality(rows') > Cardinality(rows)
    BY <1>3, <1>5
  <2>2. Cardinality(stored') = Cardinality(stored) \/ Cardinality(stored') > Cardinality(stored)
    BY <1>4, <1>5
  <2> QED
    BY <1>3, <1>4, <1>5, <2>1, <2>2
<1>7. /\ Commits = Cardinality(rows) + Cardinality(stored)
      /\ Commits' = Cardinality(rows') + Cardinality(stored')
  BY DEF Commits
<1>8. Commits \in Nat /\ Commits' \in Nat
  BY <1>5, <1>7
<1> QED
  BY <1>6, <1>7, <1>8

\* What the Coordinator sees of the driver.
Status == IF pc = "killed" THEN "failed"
          ELSE IF pc # "done" THEN "running"
          ELSE IF outcome = "ok" THEN "completed" ELSE "failed"
Engine == CASE engine = "none" -> "none" [] engine = "ended" -> "gone" [] OTHER -> "live"

LEMMA JobStep == IInv /\ IInv' /\ [Next]_vars => [Job!Next]_(Job!jobVars)
<1> SUFFICES ASSUME IInv, IInv', [Next]_vars PROVE [Job!Next]_(Job!jobVars)
  OBVIOUS
<1>1. TypeOK /\ TypeOK' /\ Course /\ Course'
  BY DEF IInv
<1> USE DEF sweepVars, driverVars, engineVars, Raise
<1>2. rows \subseteq rows' /\ stored \subseteq stored'
  BY DEF Next, Driver, EngineJob, EngineStarts, GateEnds, EngineServes, EngineDies, Surfaces,
         DatasetFailed, DatasetReady, Submit, SubmitFailed, NodeAssigned, ReadVerdict, Probe,
         DeadEngine, GateAborted, OpenDB, QualityGate, RunLevel, LevelFailed, Compare, Finalise,
         Close, Kill, OpenFor, Persist, Committed, vars
<1>3. /\ Commits \in Nat /\ Commits' \in Nat
      /\ Commits' > Commits \/ (rows' = rows /\ stored' = stored)
  BY <1>1, <1>2, CommitsGrow
<1>4. rows' = rows /\ stored' = stored => Commits' = Commits
  BY DEF Commits
<1>5. ASSUME Status' = Status, Engine' = Engine, db' = db, Commits' = Commits
      PROVE  UNCHANGED Job!jobVars
  BY <1>5 DEF Job!jobVars, Status, Engine, Commits
\* The engine job: it ends, or goes on.
<1>6. CASE EngineStarts \/ GateEnds \/ EngineServes \/ EngineDies
  <2>1. Status' = Status /\ db' = db /\ Commits' = Commits
    BY <1>6, <1>4 DEF EngineStarts, GateEnds, EngineServes, EngineDies, Status
  <2>2. Engine = "live" /\ Engine' \in {"live", "gone"}
    BY <1>6 DEF EngineStarts, GateEnds, EngineServes, EngineDies, Engine
  <2>3. CASE Engine' = "live"
    BY <1>5, <2>1, <2>2, <2>3
  <2>4. CASE Engine' = "gone"
    BY <2>1, <2>2, <2>4 DEF Job!Next, Job!EngineEnds, Status, Engine, Commits
  <2> QED
    BY <2>2, <2>3, <2>4
\* What the Coordinator does not see.
<1>7. CASE \/ Surfaces \/ DatasetReady \/ SubmitFailed \/ NodeAssigned \/ ReadVerdict
          \/ Probe \/ DeadEngine \/ LevelFailed \/ UNCHANGED vars
  <2>1. /\ db' = db /\ rows' = rows /\ stored' = stored /\ engine' = engine
        /\ (pc' = pc /\ outcome' = outcome) \/ (pc \notin {"done", "killed"}
                                                /\ pc' \notin {"done", "killed"})
    BY <1>7 DEF Surfaces, DatasetReady, SubmitFailed, NodeAssigned, ReadVerdict, Probe,
                DeadEngine, LevelFailed, vars
  <2>2. Status' = Status /\ Engine' = Engine /\ Commits' = Commits
    BY <2>1, <1>4 DEF Status, Engine
  <2> QED
    BY <1>5, <2>1, <2>2
<1>8. CASE Submit
  <2>1. /\ Status = "running" /\ Status' = Status /\ Engine = "none" /\ Engine' = "live"
        /\ db' = db /\ Commits' = Commits
    BY <1>1, <1>4, <1>8 DEF Submit, Course, Status, Engine
  <2> QED
    BY <2>1 DEF Job!Next, Job!Launch, Status, Engine, Commits
<1>9. CASE GateAborted \/ OpenDB
  <2>1. /\ Status = "running" /\ Status' = Status /\ Engine # "none" /\ Engine' = Engine
        /\ db = "none" /\ db' \in {"memory", "file"}
    BY <1>1, <1>9 DEF GateAborted, OpenDB, OpenFor, Course, Launching, Serving, Status, Engine
  <2>2. db' = "memory" => rows' = rows /\ stored' = stored
    BY <1>9 DEF GateAborted, OpenDB, OpenFor
  <2>3. db' = "file" => rows' # rows
    BY <1>1, <1>9, <2>1 DEF GateAborted, OpenDB, OpenFor, Course
  <2> QED
    BY <1>3, <1>4, <2>1, <2>2, <2>3 DEF Job!Next, Job!Open, Status, Engine, Commits
<1>10. CASE QualityGate \/ (\E saturated \in BOOLEAN : RunLevel(saturated)) \/ Compare \/ Finalise
  <2>1. /\ Status = "running" /\ Status' = Status /\ Engine' = Engine /\ db' = db
        /\ db # "file" => rows' = rows /\ stored' = stored
    BY <1>1, <1>10 DEF QualityGate, RunLevel, Compare, Finalise, Persist, Committed, Course,
                       Status, Engine
  <2>2. CASE rows' = rows /\ stored' = stored
    BY <1>4, <1>5, <2>1, <2>2
  <2>3. CASE Commits' > Commits /\ db = "file"
    BY <2>1, <2>3 DEF Job!Next, Job!Commit, Status, Engine, Commits
  <2> QED
    BY <1>3, <2>1, <2>2, <2>3, <1>1 DEF TypeOK
<1>11. CASE DatasetFailed \/ Close \/ Kill
  <2>1. /\ Status = "running" /\ Status' \in {"completed", "failed"}
        /\ Status' = "completed" => db # "none"
        /\ db' = db /\ rows' = rows /\ stored' = stored
    BY <1>1, <1>11 DEF DatasetFailed, Close, Kill, Course, Status
  <2>2. Engine' \in {Engine, IF Engine = "live" THEN "gone" ELSE Engine}
    BY <1>1, <1>11 DEF DatasetFailed, Close, Kill, Engine
  <2> QED
    BY <1>4, <2>1, <2>2 DEF Job!Next, Job!End, Status, Engine, Commits
<1> QED
  BY <1>6, <1>7, <1>8, <1>9, <1>10, <1>11 DEF Next, Driver, EngineJob

\* JobImplemented: the driver beside its engine is a Benchmarker job as the
\* Coordinator's model has it.
THEOREM JobImplemented == Spec => ImplementsJob
<1>1. Init => Job!Init
  <2>1. Cardinality({}) + Cardinality({}) = 0
    BY FS_EmptySet
  <2> QED
    BY <2>1 DEF Init, Job!Init
<1> QED
  BY <1>1, JobStep, Invariance, PTL DEF Spec, ImplementsJob, Job!Spec

=============================================================================
