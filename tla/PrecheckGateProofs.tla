------------------------- MODULE PrecheckGateProofs -------------------------
(***************************************************************************)
(* Theorems of the pre-check gate, for any jobs, ranks, kills, policies    *)
(* and references.                                                         *)
(*                                                                         *)
(* Gate follows a verdict from grade.py to the engine, and a gate that is  *)
(* skipped, which passes its ranks and never has one; Cache says which     *)
(* trees a builder finds where it is in its publication, as long as no     *)
(* other job builds for the same stack, and that the sentinel then only    *)
(* ever appears.                                                           *)
(***************************************************************************)
EXTENDS PrecheckGate, TLAPS

Code(j) == outcome_exit_code(statuses[j], policy.on_warn, policy.on_fail)

Gate ==
  \A j \in Jobs :
    /\ verdict[j] # Missing => /\ pc[j][0] \in Ended
                               /\ verdict[j] = [smoke |-> j \in smoke, code |-> Code(j)]
    /\ pc[j][0] = "ok" /\ j \notin skipped => verdict[j] # Missing /\ Code(j) = 0
    /\ j \in skipped => verdict[j] = Missing /\ pc[j][0] \in {"off", "ok", "killed"}
    /\ engine[j] = "serving" => \A r \in Ranks : pc[j][r] = "ok"
    /\ engine[j] # "none" => \A r \in Ranks : pc[j][r] \in Ended

Builds(j) == pc[j][0] \in Building

\* What is in the cache of the one job that builds for a stack.
Published(j) ==
  LET f == target[j][0] IN
  /\ At(j, 0, "mv partial") => partial[f] = "none"
  /\ pc[j][0] \in {"rm build", "rm build 2", "mv build"} => partial[f] = "whole"
  /\ At(j, 0, "mv build") => build[f] = "none"
  /\ At(j, 0, "touch") => build[f] = "whole"

Cache ==
  /\ \A f \in Stacks : sentinel[f] =>
       build[f] = "whole" /\ \A j \in Jobs : Builds(j) => target[j][0] # f
  /\ \A j, k \in Jobs : j # k /\ Builds(j) /\ Builds(k) => target[j][0] # target[k][0]
  /\ \A j \in Jobs : Published(j)
  /\ \A j \in Jobs : At(j, 0, "enter") => j \in smoke \/ sentinel[Stack(j, 0)]
  /\ built \subseteq smoke

IInv == TypeOK /\ Gate /\ (~overlapped => Cache)

USE GateAssumption

(***************************************************************************)
(* The grading.                                                            *)
(***************************************************************************)

LEMMA Graded3 ==
  ASSUME NEW measured, NEW references PROVE Graded(measured, references) \subseteq Statuses
<1>1. \A m, e, t : grade(m, e, t) \in Statuses
  BY DEF grade, Statuses
<1> QED
  BY <1>1 DEF Graded

\* A gate that exits 0 has nothing that the policy aborts on, and the Coordinator
\* would proceed.
LEMMA ExitCode ==
  ASSUME NEW s \in SUBSET Statuses, NEW w \in Policies, NEW f \in Policies
  PROVE  /\ outcome_exit_code(s, w, f) \in {0, 3, 4}
         /\ outcome_exit_code(s, w, f) = 0 =>
              (f = "abort" => "fail" \notin s) /\ proceed(s, w, f)
BY DEF outcome_exit_code, proceed, Policies

(***************************************************************************)
(* Types.                                                                  *)
(***************************************************************************)

LEMMA InitIInv == Init => IInv
<1> SUFFICES ASSUME Init PROVE IInv
  OBVIOUS
<1>1. TypeOK
  <2> USE DEF Init, Ranks, Images, Stacks, Trees
  <2>1. /\ pc \in [Jobs -> [Ranks -> Places]] /\ together \in [Jobs -> SUBSET OtherRanks]
        /\ skipped \subseteq Jobs
    BY DEF Places
  <2>2. /\ policy \in [on_warn : Policies, on_fail : Policies] /\ image \in Images
        /\ engine \in [Jobs -> {"none", "serving", "gated"}] /\ kills \in 0 .. MaxKills
    OBVIOUS
  <2>3. /\ mpicxx \in [Jobs -> [Ranks -> BOOLEAN]] /\ target \in [Jobs -> [Ranks -> Stacks]]
        /\ smoke \subseteq Jobs /\ built \subseteq Jobs /\ overlapped \in BOOLEAN
    OBVIOUS
  <2>4. /\ partial \in [Stacks -> Trees] /\ build \in [Stacks -> Trees]
        /\ sentinel \in [Stacks -> BOOLEAN]
    OBVIOUS
  <2>5. /\ statuses \in [Jobs -> SUBSET Statuses]
        /\ shmem \in [Jobs -> {"none", "found", "absent"}]
        /\ verdict \in [Jobs -> [smoke : BOOLEAN, code : {0, 3, 4}] \cup {Missing}]
    OBVIOUS
  <2> QED
    BY <2>1, <2>2, <2>3, <2>4, <2>5, Zenon DEF TypeOK
<1>2. Gate
  BY DEF Init, Gate, Ranks
<1>3. Cache
  BY DEF Init, Cache, Published, Builds, Building, At, Ranks, Stacks
<1> QED
  BY <1>1, <1>2, <1>3 DEF IInv

LEMMA GotoType ==
  ASSUME TypeOK, NEW j \in Jobs, NEW r \in Ranks, NEW place \in Places, Goto(j, r, place)
  PROVE  pc' \in [Jobs -> [Ranks -> Places]]
BY DEF TypeOK, Goto

LEMMA TypeStep == TypeOK /\ [Next]_vars => TypeOK'
<1> SUFFICES ASSUME TypeOK, [Next]_vars PROVE TypeOK'
  OBVIOUS
<1> USE DEF vars, jobVars, scriptVars, resultVars, cacheVars
<1>p. /\ {"collect", "shmem", "enter", "check", "wait", "killed", "failed", "ok"} \subseteq Places
      /\ Building \subseteq Places /\ 0 \in Ranks
  BY DEF Places, Building, Ended, Ranks
<1>1. CASE UNCHANGED vars
  BY <1>1 DEF TypeOK
<1>2. ASSUME NEW j \in Jobs, JobStarts(j) \/ Kill(j) PROVE TypeOK'
  <2>1. pc' \in [Jobs -> [Ranks -> Places]]
    <3>1. CASE JobStarts(j)
      <4> DEFINE start == [r \in Ranks |->
                             CASE j \in skipped -> "ok"
                               [] j \notin skipped /\ image = "prebuilt" -> "collect"
                               [] OTHER -> IF r = 0 THEN "check" ELSE "enter"]
      <4>1. start \in [Ranks -> Places]
        BY <1>p
      <4>2. pc' = [pc EXCEPT ![j] = start]
        BY <3>1 DEF JobStarts
      <4> HIDE DEF start
      <4> QED
        BY <4>1, <4>2 DEF TypeOK
    <3>2. CASE Kill(j)
      <4>1. [r \in Ranks |-> "killed"] \in [Ranks -> Places]
        BY <1>p
      <4>2. pc' = [pc EXCEPT ![j] = [r \in Ranks |-> "killed"]]
        BY <3>2 DEF Kill
      <4> QED
        BY <4>1, <4>2 DEF TypeOK
    <3> QED
      BY <1>2, <3>1, <3>2
  <2>2. kills' \in 0 .. MaxKills
    BY <1>2 DEF TypeOK, JobStarts, Kill
  <2> QED
    BY <1>2, <2>1, <2>2 DEF TypeOK, JobStarts, Kill
<1>3. ASSUME NEW j \in Jobs, Check(j) \/ Install(j) \/ Make(j) PROVE TypeOK'
  <2>1. pc' \in [Jobs -> [Ranks -> Places]]
    BY <1>3, <1>p, GotoType DEF Check, Install, Make, Building
  <2>2. mpicxx' \in [Jobs -> [Ranks -> BOOLEAN]]
    <3>1. CASE mpicxx' = mpicxx
      BY <3>1 DEF TypeOK
    <3>2. CASE mpicxx' # mpicxx
      <4>1. mpicxx' = [mpicxx EXCEPT ![j] = [r \in Ranks |->
                         IF r \in {0} \cup together[j] THEN TRUE ELSE mpicxx[j][r]]]
        BY <1>3, <3>2 DEF Check, Install, Make, TypeOK
      <4>2. [r \in Ranks |-> IF r \in {0} \cup together[j] THEN TRUE ELSE mpicxx[j][r]]
              \in [Ranks -> BOOLEAN]
        <5>1. \A r \in Ranks : mpicxx[j][r] \in BOOLEAN
          BY DEF TypeOK
        <5>2. ASSUME NEW r \in Ranks
              PROVE  (IF r \in {0} \cup together[j] THEN TRUE ELSE mpicxx[j][r]) \in BOOLEAN
          <6>1. CASE r \in {0} \cup together[j]
            BY <6>1, Zenon
          <6>2. CASE r \notin {0} \cup together[j]
            BY <5>1, <6>2, Zenon
          <6> QED
            BY <6>1, <6>2
        <5> QED
          BY <5>2, Zenon
      <4> QED
        BY <4>1, <4>2 DEF TypeOK
    <3> QED
      BY <3>1, <3>2
  <2>3. smoke' \subseteq Jobs
    BY <1>3 DEF TypeOK, Check, Install, Make
  <2> QED
    BY <1>3, <2>1, <2>2, <2>3 DEF TypeOK, Check, Install, Make
<1>4. ASSUME NEW j \in Jobs, Publish(j) PROVE TypeOK'
  <2>1. pc' \in [Jobs -> [Ranks -> Places]]
    BY <1>4, <1>p, GotoType DEF Publish, RemovePartial, PartialRemoved, MovePartial,
       RemoveBuild, BuildRemoved, MoveBuild, Touch, Building
  <2>f. target[j][0] \in Stacks
    BY <1>p DEF TypeOK
  <2>2. /\ partial' \in [Stacks -> Trees] /\ build' \in [Stacks -> Trees]
        /\ sentinel' \in [Stacks -> BOOLEAN]
    <3> USE DEF TypeOK, Trees
    <3>1. CASE RemovePartial(j) \/ PartialRemoved(j)
      BY <3>1 DEF RemovePartial, PartialRemoved
    <3>2. CASE MovePartial(j)
      BY <3>2 DEF MovePartial
    <3>3. CASE RemoveBuild(j)
      <4>1. partial' = partial
        BY <3>3 DEF RemoveBuild
      <4>2. \/ build' = build \/ build' = [build EXCEPT ![target[j][0]] = "torn"]
        BY <3>3 DEF RemoveBuild
      <4>3. sentinel' \in [Stacks -> BOOLEAN]
        <5>1. CASE sentinel' = sentinel
          BY <5>1
        <5>2. ASSUME NEW b \in {sentinel[target[j][0]], FALSE},
                     sentinel' = [sentinel EXCEPT ![target[j][0]] = b]
              PROVE  sentinel' \in [Stacks -> BOOLEAN]
          BY <5>2, <2>f
        <5> QED
          BY <3>3, <5>1, <5>2 DEF RemoveBuild
      <4> QED
        BY <4>1, <4>2, <4>3
    <3>4. CASE BuildRemoved(j)
      BY <3>4 DEF BuildRemoved
    <3>5. CASE MoveBuild(j)
      <4>1. CASE partial[target[j][0]] = "none"
        BY <3>5, <4>1 DEF MoveBuild
      <4>2. CASE partial[target[j][0]] # "none"
        <5>1. /\ build' = [build EXCEPT ![target[j][0]] =
                              IF @ = "none" THEN partial[target[j][0]] ELSE @]
              /\ partial' = [partial EXCEPT ![target[j][0]] = "none"]
              /\ sentinel' = sentinel
          BY <3>5, <4>2 DEF MoveBuild
        <5>2. partial[target[j][0]] \in {"none", "torn", "whole"}
          BY <2>f
        <5> QED
          BY <5>1, <5>2
      <4> QED
        BY <4>1, <4>2
    <3>6. CASE Touch(j)
      BY <3>6 DEF Touch
    <3> QED
      BY <1>4, <3>1, <3>2, <3>3, <3>4, <3>5, <3>6 DEF Publish
  <2>3. PublishFrame
    BY <1>4 DEF Publish, RemovePartial, PartialRemoved, MovePartial, RemoveBuild,
       BuildRemoved, MoveBuild, Touch
  <2> QED
    BY <2>1, <2>2, <2>3 DEF TypeOK, PublishFrame
<1>5. ASSUME NEW j \in Jobs, Collect(j) \/ CollectWithoutRank0(j) PROVE TypeOK'
  <2>1. pc' \in [Jobs -> [Ranks -> Places]]
    <3>1. Gathered(j)
      BY <1>5 DEF Collect, CollectWithoutRank0
    <3> QED
      BY <3>1, <1>p DEF TypeOK, Gathered
  <2>2. statuses' \in [Jobs -> SUBSET Statuses]
    <3>1. CASE UNCHANGED statuses
      BY <3>1 DEF TypeOK
    <3>2. ASSUME NEW measured, statuses' = [statuses EXCEPT ![j] = Graded(measured, References)]
          PROVE  statuses' \in [Jobs -> SUBSET Statuses]
      BY <3>2, Graded3 DEF TypeOK
    <3> QED
      BY <1>5, <3>1, <3>2 DEF Collect, CollectWithoutRank0
  <2> QED
    BY <1>5, <2>1, <2>2 DEF TypeOK, Collect, CollectWithoutRank0
<1>6. ASSUME NEW j \in Jobs, NvshmemAbsent(j) PROVE TypeOK'
  <2>1. pc' \in [Jobs -> [Ranks -> Places]]
    BY <1>6, <1>p, GotoType DEF NvshmemAbsent
  <2> QED
    BY <1>6, <2>1 DEF TypeOK, NvshmemAbsent
<1>7. ASSUME NEW j \in Jobs, Grade(j) PROVE TypeOK'
  <2>1. pc' \in [Jobs -> [Ranks -> Places]]
    BY <1>7, <1>p, GotoType DEF Grade
  <2>s. statuses' \in [Jobs -> SUBSET Statuses]
    <3>1. PICK measured :
            statuses' = [statuses EXCEPT ![j] = @ \cup Graded(measured, OptionalReferences)]
      BY <1>7 DEF Grade
    <3> QED
      BY <3>1, Graded3 DEF TypeOK
  <2> DEFINE code == outcome_exit_code(statuses'[j], policy.on_warn, policy.on_fail)
  <2>2. code \in {0, 3, 4}
    BY <2>s, ExitCode DEF TypeOK
  <2>3. verdict' = [verdict EXCEPT ![j] = [smoke |-> j \in smoke, code |-> code]]
    BY <1>7 DEF Grade
  <2> HIDE DEF code
  <2>4. [smoke |-> j \in smoke, code |-> code] \in [smoke : BOOLEAN, code : {0, 3, 4}]
    BY <2>2
  <2>5. verdict' \in [Jobs -> [smoke : BOOLEAN, code : {0, 3, 4}] \cup {Missing}]
    BY <2>3, <2>4 DEF TypeOK
  <2> QED
    BY <1>7, <2>1, <2>s, <2>5 DEF TypeOK, Grade
<1>8. ASSUME NEW j \in Jobs, NEW r \in Ranks, AnyRank(j, r) PROVE TypeOK'
  <2>1. pc' \in [Jobs -> [Ranks -> Places]]
    BY <1>8, <1>p, GotoType DEF AnyRank, EnterBuild, Polled, WaitTimesOut, RankEnds, Building
  <2>2. Stack(j, r) \in Stacks
    BY DEF Stack, TypeOK, Stacks
  <2>3. CASE EnterBuild(j, r)
    <3>1. target' \in [Jobs -> [Ranks -> Stacks]]
      BY <2>2, <2>3 DEF TypeOK, EnterBuild
    <3>2. built' \subseteq Jobs /\ overlapped' \in BOOLEAN
      BY <2>3 DEF TypeOK, EnterBuild
    <3> QED
      BY <2>1, <2>3, <3>1, <3>2 DEF TypeOK, EnterBuild
  <2>4. CASE Polled(j, r) \/ WaitTimesOut(j, r) \/ RankEnds(j, r)
    BY <2>1, <2>4 DEF TypeOK, Polled, WaitTimesOut, RankEnds
  <2> QED
    BY <1>8, <2>3, <2>4 DEF AnyRank
<1>9. ASSUME NEW j \in Jobs, JobEnds(j) PROVE TypeOK'
  BY <1>9 DEF TypeOK, JobEnds
<1> QED
  BY <1>1, <1>2, <1>3, <1>4, <1>5, <1>6, <1>7, <1>8, <1>9 DEF Next, Runs, Rank0

(***************************************************************************)
(* The gate.                                                               *)
(***************************************************************************)

\* A step that leaves the verdicts alone, and ends no rank 0 as passed, unless its
\* gate is skipped.
Ungraded ==
  /\ UNCHANGED <<policy, verdict, skipped>>
  /\ \A j \in Jobs :
       /\ pc[j][0] \in Ended => /\ statuses'[j] = statuses[j]
                                /\ (j \in smoke') = (j \in smoke)
                                /\ pc'[j][0] \in Ended
       /\ pc'[j][0] = "ok" => pc[j][0] = "ok" \/ j \in skipped
       /\ j \in skipped => pc'[j][0] \in {"off", "ok", "killed"}
       /\ engine'[j] # engine[j] \/ pc'[j] # pc[j] => engine[j] = "none"
       /\ engine'[j] # "none" /\ engine[j] = "none" =>
            /\ \A r \in Ranks : pc'[j][r] \in Ended
            /\ engine'[j] = "serving" => \A r \in Ranks : pc'[j][r] = "ok"

LEMMA UngradedGate == ASSUME TypeOK, Gate, Ungraded PROVE Gate'
<1> SUFFICES ASSUME NEW j \in Jobs
             PROVE  /\ verdict'[j] # Missing =>
                         /\ pc'[j][0] \in Ended
                         /\ verdict'[j] = [smoke |-> j \in smoke', code |-> Code(j)']
                    /\ pc'[j][0] = "ok" /\ j \notin skipped' =>
                         verdict'[j] # Missing /\ Code(j)' = 0
                    /\ j \in skipped' =>
                         verdict'[j] = Missing /\ pc'[j][0] \in {"off", "ok", "killed"}
                    /\ engine'[j] = "serving" => \A r \in Ranks : pc'[j][r] = "ok"
                    /\ engine'[j] # "none" => \A r \in Ranks : pc'[j][r] \in Ended
  BY DEF Gate
<1>1. pc[j][0] \in Ended => Code(j)' = Code(j) /\ (j \in smoke') = (j \in smoke)
  BY DEF Ungraded, Code
<1>a. /\ verdict'[j] = verdict[j] /\ (pc[j][0] \in Ended => pc'[j][0] \in Ended)
      /\ skipped' = skipped
  BY DEF Ungraded
<1>b. verdict[j] # Missing => /\ pc[j][0] \in Ended
                              /\ verdict[j] = [smoke |-> j \in smoke, code |-> Code(j)]
  BY Zenon DEF Gate
<1>2. verdict'[j] # Missing =>
        /\ pc'[j][0] \in Ended
        /\ verdict'[j] = [smoke |-> j \in smoke', code |-> Code(j)']
  BY <1>1, <1>a, <1>b, Zenon
<1>6. j \in skipped' => verdict'[j] = Missing /\ pc'[j][0] \in {"off", "ok", "killed"}
  BY <1>a DEF Gate, Ungraded
<1>3. pc'[j][0] = "ok" /\ j \notin skipped' => verdict'[j] # Missing /\ Code(j)' = 0
  <2>1. pc'[j][0] = "ok" /\ j \notin skipped => pc[j][0] = "ok" /\ pc[j][0] \in Ended
    BY DEF Ungraded, Ended
  <2>2. pc[j][0] = "ok" /\ j \notin skipped => verdict[j] # Missing /\ Code(j) = 0
    BY Zenon DEF Gate
  <2> QED
    BY <1>1, <1>a, <2>1, <2>2, Zenon
<1>4. engine'[j] = "serving" => \A r \in Ranks : pc'[j][r] = "ok"
  <2>1. engine[j] = "serving" => \A r \in Ranks : pc[j][r] = "ok"
    BY Zenon DEF Gate
  <2>2. CASE engine[j] = "none"
    BY <2>2 DEF Ungraded
  <2>3. CASE engine[j] # "none"
    BY <2>1, <2>3 DEF Ungraded
  <2> QED
    BY <2>2, <2>3
<1>5. engine'[j] # "none" => \A r \in Ranks : pc'[j][r] \in Ended
  BY DEF Gate, Ungraded
<1> QED
  BY <1>2, <1>3, <1>4, <1>5, <1>6

\* A move of one rank that is not an end of rank 0 as passed.
LEMMA MoveUngraded ==
  ASSUME TypeOK, Gate, NEW j \in Jobs, NEW r \in Ranks, NEW place \in Places,
         pc[j][r] \notin Ended \cup {"off"}, Goto(j, r, place), r = 0 => place # "ok",
         UNCHANGED <<policy, skipped, verdict, engine, statuses>>,
         smoke' = smoke \/ (r = 0 /\ smoke' = smoke \cup {j})
  PROVE  Ungraded
<1>1. /\ pc'[j][r] = place
      /\ \A k \in Jobs, q \in Ranks : k # j \/ q # r => pc'[k][q] = pc[k][q]
      /\ \A k \in Jobs \ {j} : pc'[k] = pc[k]
  BY DEF Goto, TypeOK
<1>2. 0 \in Ranks
  BY DEF Ranks
<1>3. engine[j] = "none"
  BY DEF Gate
<1>4. /\ r = 0 => j \notin skipped
      /\ \A k \in skipped : k \in Jobs => pc[k][0] \in {"off", "ok", "killed"}
  BY DEF Gate, Ended
<1> QED
  BY <1>1, <1>2, <1>3, <1>4 DEF Ungraded

LEMMA GateStep == TypeOK /\ Gate /\ [Next]_vars => Gate'
<1> SUFFICES ASSUME TypeOK, Gate, [Next]_vars PROVE Gate'
  OBVIOUS
<1> USE DEF vars, jobVars, scriptVars, resultVars, cacheVars
<1>p. /\ {"collect", "shmem", "enter", "check", "wait", "failed"} \subseteq Places
      /\ Building \subseteq Places /\ 0 \in Ranks
      /\ {"off", "collect", "shmem", "enter", "check", "wait"} \cap Ended = {}
      /\ Building \cap (Ended \cup {"off"}) = {} /\ "ok" \notin Building
  BY DEF Places, Building, Ended, Ranks
<1>s. \A k \in Jobs : k \in skipped => pc[k][0] \in {"off", "ok", "killed"}
  BY DEF Gate
<1>1. CASE UNCHANGED vars
  BY <1>1, <1>s, UngradedGate DEF Ungraded
<1>2. ASSUME NEW j \in Jobs, JobStarts(j) PROVE Gate'
  <2>1. /\ pc[j][0] = "off"
        /\ \A r \in Ranks : pc'[j][r] \in IF j \in skipped THEN {"ok"}
                                          ELSE {"collect", "check", "enter"}
        /\ \A k \in Jobs \ {j} : pc'[k] = pc[k]
    BY <1>2 DEF JobStarts, At, TypeOK
  <2>2. engine[j] = "none"
    BY <1>p, <2>1 DEF Gate
  <2>3. Ungraded
    BY <1>2, <1>p, <1>s, <2>1, <2>2 DEF Ungraded, JobStarts
  <2> QED
    BY <2>3, UngradedGate
<1>3. ASSUME NEW j \in Jobs, Kill(j) PROVE Gate'
  <2>1. /\ engine[j] = "none" /\ \A r \in Ranks : pc'[j][r] = "killed"
        /\ \A k \in Jobs \ {j} : pc'[k] = pc[k]
    BY <1>3 DEF Kill, TypeOK
  <2>2. Ungraded
    BY <1>3, <1>p, <1>s, <2>1 DEF Ungraded, Kill, Ended
  <2> QED
    BY <2>2, UngradedGate
<1>4. ASSUME NEW j \in Jobs, Check(j) \/ Install(j) \/ Make(j) \/ NvshmemAbsent(j) PROVE Gate'
  <2>1. Ungraded
    BY <1>4, <1>p, MoveUngraded DEF Check, Install, Make, NvshmemAbsent, At, Building
  <2> QED
    BY <2>1, UngradedGate
<1>5. ASSUME NEW j \in Jobs, Publish(j) PROVE Gate'
  <2>1. PublishFrame /\ pc[j][0] \in Building /\ pc[j][0] # "off"
    BY <1>5 DEF Publish, RemovePartial, PartialRemoved, MovePartial, RemoveBuild,
       BuildRemoved, MoveBuild, Touch, Publishing, At, Building
  <2>2. \E place \in Building \cup {"failed", "collect"} : Goto(j, 0, place)
    BY <1>5 DEF Publish, RemovePartial, PartialRemoved, MovePartial, RemoveBuild,
       BuildRemoved, MoveBuild, Touch, Building
  <2>3. Ungraded
    BY <1>p, <2>1, <2>2, MoveUngraded DEF PublishFrame
  <2> QED
    BY <2>3, UngradedGate
<1>6. ASSUME NEW j \in Jobs, Collect(j) \/ CollectWithoutRank0(j) PROVE Gate'
  <2>1. /\ \A k \in Jobs \ {j} : pc'[k] = pc[k] /\ statuses'[k] = statuses[k]
        /\ \A r \in Ranks : pc'[j][r] = IF pc[j][r] = "collect" THEN "shmem" ELSE pc[j][r]
        /\ UNCHANGED <<policy, skipped, verdict, engine, smoke>>
    BY <1>6 DEF Collect, CollectWithoutRank0, Gathered, TypeOK
  <2>2. \E r \in Ranks : pc[j][r] = "collect"
    BY <1>6 DEF Collect, CollectWithoutRank0, At, Ranks
  <2>3. engine[j] = "none"
    BY <1>p, <2>2 DEF Gate
  <2>4. pc[j][0] \in Ended => statuses'[j] = statuses[j]
    BY <1>6, <1>p DEF Collect, CollectWithoutRank0, At
  <2>5. Ungraded
    BY <1>p, <1>s, <2>1, <2>3, <2>4 DEF Ungraded
  <2> QED
    BY <2>5, UngradedGate
<1>7. ASSUME NEW j \in Jobs, Grade(j) PROVE Gate'
  <2>1. /\ pc[j][0] = "shmem"
        /\ pc'[j][0] = IF Code(j)' = 0 THEN "ok" ELSE "failed"
        /\ verdict'[j] = [smoke |-> j \in smoke, code |-> Code(j)']
        /\ \A k \in Jobs \ {j} : /\ pc'[k] = pc[k] /\ verdict'[k] = verdict[k]
                                 /\ statuses'[k] = statuses[k]
        /\ UNCHANGED <<policy, skipped, engine, smoke>>
    BY <1>7, <1>p DEF Grade, Goto, At, TypeOK, Code
  <2>2. Code(j)' \in {0, 3, 4}
    <3>1. TypeOK'
      BY TypeStep
    <3> QED
      BY <3>1, ExitCode DEF TypeOK, Code
  <2>3. verdict'[j] # Missing
    <3>1. (j \in smoke) \in BOOLEAN
      OBVIOUS
    <3> QED
      BY <2>1, <2>2, <3>1, Zenon
  <2>4. \A k \in Jobs \ {j} : Code(k)' = Code(k)
    BY <2>1 DEF Code
  <2>5. engine[j] = "none" /\ j \notin skipped
    BY <1>p, <1>s, <2>1 DEF Gate
  <2> QED
    BY <2>1, <2>3, <2>4, <2>5 DEF Gate, Ended
<1>8. ASSUME NEW j \in Jobs, NEW r \in Ranks, AnyRank(j, r) PROVE Gate'
  <2>1. CASE EnterBuild(j, r) \/ Polled(j, r) \/ WaitTimesOut(j, r)
    <3>1. \E place \in Places \ {"ok"} : Goto(j, r, place)
      BY <2>1, <1>p DEF EnterBuild, Polled, WaitTimesOut, Building
    <3>2. /\ pc[j][r] \notin Ended \cup {"off"}
          /\ UNCHANGED <<policy, skipped, verdict, engine, statuses, smoke>>
      BY <2>1, <1>p DEF EnterBuild, Polled, WaitTimesOut, At
    <3>3. Ungraded
      BY <3>1, <3>2, MoveUngraded
    <3> QED
      BY <3>3, UngradedGate
  <2>2. CASE RankEnds(j, r)
    <3>1. \E place \in Places : Goto(j, r, place)
      BY <2>2 DEF RankEnds, Places, Ended
    <3>2. /\ pc[j][r] \notin Ended \cup {"off"} /\ r # 0
          /\ UNCHANGED <<policy, skipped, verdict, engine, statuses, smoke>>
      BY <2>2, <1>p DEF RankEnds, At
    <3>3. Ungraded
      BY <3>1, <3>2, MoveUngraded
    <3> QED
      BY <3>3, UngradedGate
  <2> QED
    BY <1>8, <2>1, <2>2 DEF AnyRank
<1>9. ASSUME NEW j \in Jobs, JobEnds(j) PROVE Gate'
  <2>1. Ungraded
    BY <1>9, <1>s DEF Ungraded, JobEnds, TypeOK
  <2> QED
    BY <2>1, UngradedGate
<1> QED
  BY <1>1, <1>2, <1>3, <1>4, <1>5, <1>6, <1>7, <1>8, <1>9 DEF Next, Runs, Rank0

(***************************************************************************)
(* The cache.                                                              *)
(***************************************************************************)

\* A step of the cache's own rules: what it holds is left alone, and rank 0 does not
\* come nearer to a build than it was, or moves on to the next step of it.
Idle ==
  /\ UNCHANGED <<partial, build, sentinel, built, overlapped>>
  /\ smoke \subseteq smoke'
  /\ \A j \in Jobs :
       /\ target'[j][0] = target[j][0]
       /\ pc'[j][0] = "enter" =>
            \/ j \in smoke'
            \/ sentinel[Stack(j, 0)'] 
            \/ pc[j][0] = "enter" /\ Stack(j, 0)' = Stack(j, 0)
       /\ pc'[j][0] \in Building =>
            pc'[j][0] = pc[j][0] \/ (Builds(j) /\ pc'[j][0] \in {"make", "rm partial"})

LEMMA IdleCache == ASSUME Cache, Idle PROVE Cache'
<1>1. /\ UNCHANGED <<partial, build, sentinel, built>> /\ smoke \subseteq smoke'
      /\ \A j \in Jobs : target'[j][0] = target[j][0]
  BY DEF Idle
<1>2. \A j \in Jobs : Builds(j)' => Builds(j)
  BY DEF Idle, Builds
<1>3. ASSUME NEW j \in Jobs PROVE Published(j)'
  <2>1. Published(j)
    BY DEF Cache
  <2>2. \/ pc'[j][0] = pc[j][0]
        \/ pc'[j][0] \notin Building
        \/ pc'[j][0] \in {"make", "rm partial"}
    BY DEF Idle
  <2> QED
    BY <1>1, <2>1, <2>2 DEF Published, At, Building
<1>4. ASSUME NEW j \in Jobs, At(j, 0, "enter")'
      PROVE  j \in smoke' \/ sentinel'[Stack(j, 0)']
  <2>1. At(j, 0, "enter") => j \in smoke \/ sentinel[Stack(j, 0)]
    BY DEF Cache
  <2> QED
    BY <1>1, <1>4, <2>1 DEF Idle, At
<1>5. ASSUME NEW f \in Stacks, sentinel'[f]
      PROVE  build'[f] = "whole" /\ \A j \in Jobs : Builds(j)' => target'[j][0] # f
  <2>1. build[f] = "whole" /\ \A j \in Jobs : Builds(j) => target[j][0] # f
    BY <1>1, <1>5 DEF Cache
  <2> QED
    BY <1>1, <1>2, <2>1
<1>6. ASSUME NEW j \in Jobs, NEW k \in Jobs, j # k, Builds(j)', Builds(k)'
      PROVE  target'[j][0] # target'[k][0]
  <2>1. target[j][0] # target[k][0]
    BY <1>2, <1>6 DEF Cache
  <2> QED
    BY <1>1, <2>1
<1>7. built' \subseteq smoke'
  BY <1>1 DEF Cache
<1> QED
  BY <1>3, <1>4, <1>5, <1>6, <1>7 DEF Cache

\* A move of one rank that goes nowhere near the build.
LEMMA MoveIdle ==
  ASSUME TypeOK, NEW j \in Jobs, NEW r \in Ranks, NEW place, Goto(j, r, place),
         r = 0 => \/ place \notin Building \cup {"enter"}
                  \/ place \in {"make", "rm partial"} /\ Builds(j),
         UNCHANGED <<partial, build, sentinel, built, overlapped, smoke, mpicxx>>,
         \A k \in Jobs : target'[k][0] = target[k][0]
  PROVE  Idle
<1>1. /\ pc'[j][r] = place
      /\ \A k \in Jobs, q \in Ranks : k # j \/ q # r => pc'[k][q] = pc[k][q]
  BY DEF Goto, TypeOK
<1>2. 0 \in Ranks /\ \A k \in Jobs : Stack(k, 0)' = Stack(k, 0)
  BY DEF Ranks, Stack
<1>3. ASSUME NEW k \in Jobs
      PROVE  /\ pc'[k][0] = "enter" => pc[k][0] = "enter"
             /\ pc'[k][0] \in Building =>
                  pc'[k][0] = pc[k][0] \/ (Builds(k) /\ pc'[k][0] \in {"make", "rm partial"})
  BY <1>1, <1>2 DEF Building
<1> QED
  BY <1>2, <1>3 DEF Idle

\* While one job builds for a stack nobody else does, and the sentinel is not there.
LEMMA SoleBuilder ==
  ASSUME TypeOK, Cache, NEW j \in Jobs, Builds(j)
  PROVE  /\ target[j][0] \in Stacks /\ sentinel[target[j][0]] = FALSE
         /\ \A k \in Jobs \ {j} : Builds(k) => target[k][0] # target[j][0]
<1>1. target[j][0] \in Stacks /\ sentinel[target[j][0]] \in BOOLEAN
  BY DEF TypeOK, Ranks
<1> QED
  BY <1>1 DEF Cache

\* A publication step only touches its own stack's trees.
PublishesOwn(j) ==
  LET f == target[j][0] IN
  /\ PublishFrame /\ Builds(j)
  /\ \A k \in Jobs \ {j} : pc'[k] = pc[k]
  /\ \A g \in Stacks \ {f} : /\ partial'[g] = partial[g] /\ build'[g] = build[g]
                             /\ sentinel'[g] = sentinel[g]

LEMMA PublishCache ==
  ASSUME TypeOK, Cache, NEW j \in Jobs, PublishesOwn(j), Published(j)', pc'[j][0] # "enter",
         sentinel'[target[j][0]] => build'[target[j][0]] = "whole" /\ ~Builds(j)'
  PROVE  Cache'
<1> DEFINE f == target[j][0]
<1>f. /\ f \in Stacks /\ ~sentinel[f]
      /\ \A k \in Jobs \ {j} : Builds(k) => target[k][0] # f
  BY SoleBuilder DEF PublishesOwn
<1>1. /\ UNCHANGED <<target, smoke, built, mpicxx>>
      /\ \A k \in Jobs \ {j} : Builds(k)' <=> Builds(k)
  BY DEF PublishesOwn, PublishFrame, scriptVars, Builds
<1>2. ASSUME NEW k \in Jobs PROVE Published(k)'
  <2>1. CASE k = j
    BY <2>1
  <2>2. CASE k # j /\ ~Builds(k)
    <3>1. pc'[k][0] \notin Building
      BY <2>2 DEF Builds, PublishesOwn
    <3> QED
      BY <3>1 DEF Published, At, Building
  <2>3. CASE k # j /\ Builds(k)
    <3>1. target[k][0] \in Stacks \ {f}
      BY <1>f, <2>3, SoleBuilder
    <3>2. Published(k) /\ target'[k][0] = target[k][0] /\ pc'[k] = pc[k]
      BY <1>1, <2>3 DEF Cache, PublishesOwn
    <3>3. /\ partial'[target[k][0]] = partial[target[k][0]]
          /\ build'[target[k][0]] = build[target[k][0]]
      BY <3>1 DEF PublishesOwn
    <3> QED
      BY <3>2, <3>3 DEF Published, At
  <2> QED
    BY <2>1, <2>2, <2>3
<1>3. ASSUME NEW k \in Jobs, At(k, 0, "enter")' PROVE k \in smoke' \/ sentinel'[Stack(k, 0)']
  <2>1. k # j /\ At(k, 0, "enter")
    BY <1>3 DEF At, PublishesOwn
  <2>2. Stack(k, 0)' = Stack(k, 0) /\ Stack(k, 0) \in Stacks
    BY <1>1 DEF Stack, TypeOK, Stacks, Ranks
  <2>3. sentinel[Stack(k, 0)] => Stack(k, 0) # f
    BY <1>f
  <2> QED
    BY <1>1, <2>1, <2>2, <2>3 DEF Cache, PublishesOwn
<1>4. ASSUME NEW g \in Stacks, sentinel'[g]
      PROVE  build'[g] = "whole" /\ \A k \in Jobs : Builds(k)' => target'[k][0] # g
  <2>1. CASE g = f
    BY <1>1, <1>4, <1>f, <2>1
  <2>2. CASE g # f
    BY <1>1, <1>4, <2>2 DEF Cache, PublishesOwn
  <2> QED
    BY <2>1, <2>2
<1>5. \A k, l \in Jobs : k # l /\ Builds(k)' /\ Builds(l)' => target'[k][0] # target'[l][0]
  BY <1>1 DEF Cache, PublishesOwn
<1>6. built' \subseteq smoke'
  BY <1>1 DEF Cache
<1> QED
  BY <1>2, <1>3, <1>4, <1>5, <1>6 DEF Cache

LEMMA PublishStep == ASSUME TypeOK, Cache, NEW j \in Jobs, Publish(j) PROVE Cache'
<1> DEFINE f == target[j][0]
<1> USE DEF Publishing, At
<1>p. 0 \in Ranks
  BY DEF Ranks
<1>0. /\ PublishFrame /\ Builds(j)
      /\ \E place \in Building \cup {"failed", "collect"} : Goto(j, 0, place)
  BY DEF Publish, RemovePartial, PartialRemoved, MovePartial, RemoveBuild,
     BuildRemoved, MoveBuild, Touch, Building, Builds
<1>1. f \in Stacks /\ sentinel[f] = FALSE /\ Published(j) /\ target' = target
  BY <1>0, SoleBuilder DEF Cache, PublishFrame, scriptVars
<1>2. /\ \A k \in Jobs \ {j} : pc'[k] = pc[k]
      /\ pc'[j][0] # "enter"
      /\ \A place : Goto(j, 0, place) => pc'[j][0] = place
  <2>1. PICK place \in Building \cup {"failed", "collect"} : Goto(j, 0, place)
    BY <1>0
  <2>2. pc'[j][0] = place /\ \A k \in Jobs \ {j} : pc'[k] = pc[k]
    BY <1>p, <2>1 DEF Goto, TypeOK
  <2>3. \A other : Goto(j, 0, other) => pc'[j][0] = other
    BY <1>p DEF Goto, TypeOK
  <2> QED
    BY <2>2, <2>3 DEF Building
<1>3. \A g \in Stacks \ {f} : /\ partial'[g] = partial[g] /\ build'[g] = build[g]
                              /\ sentinel'[g] = sentinel[g]
  <2> USE DEF TypeOK
  <2>1. CASE RemovePartial(j) \/ PartialRemoved(j) \/ MovePartial(j)
    BY <2>1 DEF RemovePartial, PartialRemoved, MovePartial
  <2>2. CASE RemoveBuild(j) \/ BuildRemoved(j)
    BY <2>2 DEF RemoveBuild, BuildRemoved
  <2>3. CASE MoveBuild(j) \/ Touch(j)
    BY <2>3 DEF MoveBuild, Touch
  <2> QED
    BY <2>1, <2>2, <2>3 DEF Publish
<1>4. PublishesOwn(j)
  BY <1>0, <1>2, <1>3 DEF PublishesOwn
<1>5. /\ Published(j)'
      /\ sentinel'[f] => build'[f] = "whole" /\ ~Builds(j)'
  <2> USE DEF Published, Builds, Building, TypeOK
  <2>1. CASE RemovePartial(j)
    BY <1>1, <1>2, <2>1 DEF RemovePartial
  <2>2. CASE PartialRemoved(j)
    BY <1>1, <1>2, <2>2 DEF PartialRemoved
  <2>3. CASE MovePartial(j)
    BY <1>1, <1>2, <2>3 DEF MovePartial
  <2>4. CASE RemoveBuild(j)
    <3>1. CASE build[f] = "none"
      BY <1>1, <1>2, <2>4, <3>1 DEF RemoveBuild
    <3>2. CASE build[f] # "none"
      <4>1. /\ pc'[j][0] = "rm build 2" /\ partial' = partial
            /\ pc[j][0] = "rm build"
        BY <1>2, <2>4, <3>2 DEF RemoveBuild
      <4>2. sentinel'[f] = FALSE
        BY <1>1, <2>4, <3>2 DEF RemoveBuild
      <4> QED
        BY <1>1, <4>1, <4>2
    <3> QED
      BY <3>1, <3>2
  <2>5. CASE BuildRemoved(j)
    BY <1>1, <1>2, <2>5 DEF BuildRemoved
  <2>6. CASE MoveBuild(j)
    BY <1>1, <1>2, <2>6 DEF MoveBuild
  <2>7. CASE Touch(j)
    BY <1>1, <1>2, <2>7 DEF Touch
  <2> QED
    BY <2>1, <2>2, <2>3, <2>4, <2>5, <2>6, <2>7 DEF Publish
<1> QED
  BY <1>2, <1>4, <1>5, PublishCache

\* A rank that enters the build finds no other builder for its stack, and the job
\* has been a smoke test since it looked at the sentinel.
LEMMA EnterCache ==
  ASSUME TypeOK, Cache, NEW j \in Jobs, NEW r \in Ranks, EnterBuild(j, r), ~overlapped'
  PROVE  Cache'
<1> USE DEF vars, jobVars, resultVars, cacheVars
<1>p. 0 \in Ranks
  BY DEF Ranks
<1>1. /\ target'[j][r] = Stack(j, r) /\ pc[j][r] = "enter"
      /\ \A k \in Jobs, q \in Ranks : k # j \/ q # r =>
           target'[k][q] = target[k][q] /\ pc'[k][q] = pc[k][q]
      /\ UNCHANGED <<cacheVars, mpicxx, smoke>>
      /\ \A k \in Jobs : Stack(k, 0)' = Stack(k, 0)
  BY DEF EnterBuild, At, TypeOK, Goto, Stack
<1>2. CASE pc'[j][0] # "install" \/ r # 0
  <2>1. /\ UNCHANGED <<built, overlapped>>
        /\ r = 0 => pc'[j][0] = "collect"
    BY <1>2, <1>p DEF EnterBuild, Goto, TypeOK
  <2>2. ASSUME NEW k \in Jobs PROVE Published(k)'
    <3>1. k = j /\ r = 0 => Published(k)'
      BY <2>1 DEF Published, At
    <3>2. k # j \/ r # 0 => Published(k)'
      <4>1. k # j \/ r # 0 => Published(k) /\ target'[k][0] = target[k][0] /\ pc'[k][0] = pc[k][0]
        BY <1>1, <1>p DEF Cache
      <4> QED
        BY <1>1, <4>1 DEF Published, At, cacheVars
    <3> QED
      BY <3>1, <3>2
  <2>3. \A k \in Jobs : Builds(k)' => Builds(k) /\ target'[k][0] = target[k][0]
    BY <1>1, <1>p, <2>1 DEF Builds, Building
  <2>4. \A k \in Jobs : At(k, 0, "enter")' => At(k, 0, "enter")
    BY <1>1, <1>p, <2>1 DEF At
  <2>5. ASSUME NEW f \in Stacks, sentinel'[f]
        PROVE  build'[f] = "whole" /\ \A k \in Jobs : Builds(k)' => target'[k][0] # f
    BY <1>1, <2>3, <2>5 DEF Cache
  <2>6. ASSUME NEW k \in Jobs, NEW l \in Jobs, k # l, Builds(k)', Builds(l)'
        PROVE  target'[k][0] # target'[l][0]
    BY <2>3, <2>6 DEF Cache
  <2>7. \A k \in Jobs : At(k, 0, "enter")' => k \in smoke' \/ sentinel'[Stack(k, 0)']
    BY <1>1, <2>4 DEF Cache
  <2>8. built' \subseteq smoke'
    BY <1>1, <2>1 DEF Cache
  <2> QED
    BY <2>2, <2>5, <2>6, <2>7, <2>8 DEF Cache
<1>3. CASE pc'[j][0] = "install" /\ r = 0
  <2>1. /\ ~sentinel[Stack(j, 0)] /\ built' = built \cup {j}
        /\ \A k \in Others(j) : target[k][0] # Stack(j, 0)
    <3>1. \A place : Goto(j, 0, place) => pc'[j][0] = place
      BY <1>p DEF Goto, TypeOK
    <3>2. ~Goto(j, r, "collect") /\ ~Goto(j, r, "wait")
      BY <1>3, <3>1
    <3>3. /\ ~sentinel[Stack(j, 0)] /\ built' = built \cup {j}
          /\ overlapped' = (overlapped \/ \E k \in Others(j) : target[k][0] = Stack(j, 0))
      BY <1>3, <3>2 DEF EnterBuild
    <3> QED
      BY <3>3
  <2>2. j \in smoke
    BY <1>1, <1>3, <2>1 DEF Cache, At
  <2>3. \A k \in Jobs \ {j} : /\ Builds(k)' <=> Builds(k)
                              /\ target'[k][0] = target[k][0]
                              /\ Builds(k) => target[k][0] # Stack(j, 0)
    BY <1>1, <1>p, <2>1 DEF Builds, Others
  <2>4. ASSUME NEW k \in Jobs PROVE Published(k)'
    <3>1. k = j => Published(k)'
      BY <1>3 DEF Published, At
    <3>2. k # j => Published(k)'
      <4>1. k # j \/ r # 0 => Published(k) /\ target'[k][0] = target[k][0] /\ pc'[k][0] = pc[k][0]
        BY <1>1, <1>p DEF Cache
      <4> QED
        BY <1>1, <4>1 DEF Published, At, cacheVars
    <3> QED
      BY <3>1, <3>2
  <2>5. ASSUME NEW f \in Stacks, sentinel'[f]
        PROVE  build'[f] = "whole" /\ \A k \in Jobs : Builds(k)' => target'[k][0] # f
    BY <1>1, <1>3, <2>1, <2>3, <2>5 DEF Cache
  <2>6. ASSUME NEW k \in Jobs, NEW l \in Jobs, k # l, Builds(k)', Builds(l)'
        PROVE  target'[k][0] # target'[l][0]
    BY <1>1, <1>3, <2>3, <2>6 DEF Cache
  <2>7. \A k \in Jobs : At(k, 0, "enter")' => k \in smoke' \/ sentinel'[Stack(k, 0)']
    BY <1>1, <1>p, <1>3 DEF Cache, At
  <2>8. built' \subseteq smoke'
    BY <1>1, <2>1, <2>2 DEF Cache
  <2> QED
    BY <2>4, <2>5, <2>6, <2>7, <2>8 DEF Cache
<1> QED
  BY <1>2, <1>3

LEMMA CacheStep ==
  ASSUME TypeOK, ~overlapped => Cache, [Next]_vars, ~overlapped'
  PROVE  Cache'
<1> USE DEF vars, jobVars, scriptVars, resultVars, cacheVars
<1>p. 0 \in Ranks /\ Building \cap ({"enter", "failed", "collect", "shmem", "off"} \cup Ended) = {}
  BY DEF Ranks, Building, Ended
<1>o. Cache
  <2>1. CASE UNCHANGED overlapped
    BY <2>1
  <2>2. ASSUME NEW j \in Jobs, NEW r \in Ranks, EnterBuild(j, r) PROVE ~overlapped
    BY <2>2 DEF EnterBuild
  <2>3. ASSUME NEW j \in Jobs, Publish(j) PROVE UNCHANGED overlapped
    BY <2>3 DEF Publish, RemovePartial, PartialRemoved, MovePartial, RemoveBuild, BuildRemoved,
                MoveBuild, Touch, PublishFrame
  <2> QED
    BY <2>1, <2>2, <2>3 DEF Next, Runs, Rank0, AnyRank, JobStarts, Kill, Check, Install, Make,
       Collect, CollectWithoutRank0, NvshmemAbsent, Grade, JobEnds, Polled, WaitTimesOut,
       RankEnds
<1>1. CASE UNCHANGED vars
  BY <1>1, <1>o, IdleCache DEF Idle, Stack
<1>2. ASSUME NEW j \in Jobs, JobStarts(j) \/ Kill(j) PROVE Cache'
  <2>1. /\ pc'[j][0] \in {"collect", "check", "killed", "ok"}
        /\ \A k \in Jobs \ {j} : pc'[k] = pc[k]
    BY <1>2, <1>p DEF JobStarts, Kill, TypeOK
  <2>2. Idle
    BY <1>2, <2>1 DEF Idle, JobStarts, Kill, Building, Stack
  <2> QED
    BY <1>o, <2>2, IdleCache
<1>3. ASSUME NEW j \in Jobs, Check(j) PROVE Cache'
  <2>1. pc'[j][0] = "enter" /\ \A k \in Jobs \ {j} : pc'[k] = pc[k]
    BY <1>3, <1>p DEF Check, Goto, TypeOK
  <2>2. j \in smoke' \/ sentinel[Stack(j, 0)]
    BY <1>3 DEF Check
  <2>3. Idle
    BY <1>3, <1>p, <2>1, <2>2 DEF Idle, Check, Stack
  <2> QED
    BY <1>o, <2>3, IdleCache
<1>4. ASSUME NEW j \in Jobs, Install(j) PROVE Cache'
  <2>1. /\ pc[j][0] = "install" /\ pc'[j][0] = "make"
        /\ \A k \in Jobs \ {j} : pc'[k] = pc[k] /\ mpicxx'[k] = mpicxx[k]
    <3>1. pc[j][0] = "install" /\ pc'[j][0] = "make" /\ \A k \in Jobs \ {j} : pc'[k] = pc[k]
      BY <1>4, <1>p DEF Install, Goto, TypeOK, At
    <3>2. \A k \in Jobs \ {j} : mpicxx'[k] = mpicxx[k]
      BY <1>4 DEF Install, TypeOK
    <3> QED
      BY <3>1, <3>2
  <2>2. Idle
    BY <1>4, <2>1 DEF Idle, Install, Stack, Building, Builds
  <2> QED
    BY <1>o, <2>2, IdleCache
<1>5. ASSUME NEW j \in Jobs, Make(j) \/ NvshmemAbsent(j) \/ Grade(j) PROVE Cache'
  <2>1. \E place \in {"rm partial", "failed", "ok"} :
          Goto(j, 0, place) /\ (place = "rm partial" => Builds(j))
    BY <1>5 DEF Make, NvshmemAbsent, Grade, Builds, Building, At
  <2>2. Idle
    BY <1>5, <1>p, <2>1, MoveIdle DEF Make, NvshmemAbsent, Grade, Ended
  <2> QED
    BY <1>o, <2>2, IdleCache
<1>6. ASSUME NEW j \in Jobs, Collect(j) \/ CollectWithoutRank0(j) PROVE Cache'
  <2>1. /\ \A k \in Jobs \ {j} : pc'[k] = pc[k]
        /\ pc'[j][0] = IF pc[j][0] = "collect" THEN "shmem" ELSE pc[j][0]
    BY <1>6, <1>p DEF Collect, CollectWithoutRank0, Gathered, TypeOK
  <2>2. Idle
    BY <1>6, <1>p, <2>1 DEF Idle, Collect, CollectWithoutRank0, Stack
  <2> QED
    BY <1>o, <2>2, IdleCache
<1>7. ASSUME NEW j \in Jobs, NEW r \in Ranks, AnyRank(j, r) PROVE Cache'
  <2>1. CASE EnterBuild(j, r)
    BY <1>o, <2>1, EnterCache
  <2>2. CASE Polled(j, r) \/ WaitTimesOut(j, r) \/ RankEnds(j, r)
    <3>1. \E place \in {"collect", "failed", "ok"} : Goto(j, r, place)
      BY <2>2 DEF Polled, WaitTimesOut, RankEnds
    <3>2. Idle
      BY <1>p, <2>2, <3>1, MoveIdle DEF Polled, WaitTimesOut, RankEnds, Ended
    <3> QED
      BY <1>o, <3>2, IdleCache
  <2> QED
    BY <1>7, <2>1, <2>2 DEF AnyRank
<1>8. ASSUME NEW j \in Jobs, JobEnds(j) PROVE Cache'
  BY <1>8, <1>o, IdleCache DEF Idle, JobEnds, Stack
<1>9. ASSUME NEW j \in Jobs, Publish(j) PROVE Cache'
  BY <1>9, <1>o, PublishStep
<1> QED
  BY <1>1, <1>2, <1>3, <1>4, <1>5, <1>6, <1>7, <1>8, <1>9 DEF Next, Runs, Rank0

LEMMA Invariant == Spec => []IInv
<1>1. IInv /\ [Next]_vars => IInv'
  <2> SUFFICES ASSUME IInv, [Next]_vars PROVE IInv'
    OBVIOUS
  <2>1. TypeOK' /\ Gate'
    BY TypeStep, GateStep DEF IInv
  <2>2. ~overlapped' => Cache'
    BY CacheStep DEF IInv
  <2> QED
    BY <2>1, <2>2 DEF IInv
<1> QED
  BY <1>1, InitIInv, PTL DEF Spec

(***************************************************************************)
(* Theorems.                                                               *)
(***************************************************************************)

\* TypeCorrect: the variables of the gate keep their types.
THEOREM TypeCorrect == Spec => []TypeOK
<1>1. IInv => TypeOK
  BY DEF IInv
<1> QED
  BY <1>1, Invariant, PTL

\* PublicationSafe: whatever is killed wherever, a cache that shows its sentinel is
\* whole, as long as no two jobs have built for one stack at a time.
THEOREM PublicationSafe == Spec => []SentinelMeansWhole
<1>1. IInv => SentinelMeansWhole
  BY DEF IInv, Cache, SentinelMeansWhole
<1> QED
  BY <1>1, Invariant, PTL

\* BuildersAreSmoke: a job that builds the tests itself reports a smoke test.
THEOREM BuildersAreSmoke == Spec => []BuilderIsSmoke
<1>1. IInv => BuilderIsSmoke
  <2> SUFFICES ASSUME TypeOK, Gate, Cache, NEW j \in built, verdict[j] # Missing
               PROVE  verdict[j].smoke
    BY DEF IInv, BuilderIsSmoke
  <2>1. j \in Jobs /\ j \in smoke
    BY DEF TypeOK, Cache
  <2>2. verdict[j] = [smoke |-> j \in smoke, code |-> Code(j)]
    BY <2>1, Zenon DEF Gate
  <2>3. (j \in smoke) = TRUE
    BY <2>1
  <2>4. verdict[j] = [smoke |-> TRUE, code |-> Code(j)]
    BY <2>2, <2>3, Zenon
  <2> QED
    BY <2>4
<1> QED
  BY <1>1, Invariant, PTL

LEMMA ServingMeansZero ==
  ASSUME IInv, NEW j \in Jobs \ skipped, engine[j] = "serving"
  PROVE  /\ \A r \in Ranks : pc[j][r] = "ok"
         /\ verdict[j] # Missing /\ Code(j) = 0
         /\ verdict[j] = [smoke |-> j \in smoke, code |-> Code(j)]
<1>1. \A r \in Ranks : pc[j][r] = "ok"
  BY Zenon DEF IInv, Gate
<1>2. pc[j][0] = "ok"
  BY <1>1 DEF Ranks
<1> QED
  BY <1>1, <1>2, Zenon DEF IInv, Gate

\* EnginesVouched: an engine whose gate is not skipped only serves behind a verdict
\* of that gate which lets it, with no failed row unless failures are to be ignored.
THEOREM EnginesVouched == Spec => []EngineVouched
<1>1. IInv => EngineVouched
  <2> SUFFICES ASSUME IInv, NEW j \in Jobs \ skipped, engine[j] = "serving"
               PROVE  /\ verdict[j] # Missing /\ verdict[j].code = 0
                      /\ \A r \in Ranks : pc[j][r] = "ok"
                      /\ policy.on_fail = "abort" => "fail" \notin statuses[j]
    BY DEF EngineVouched
  <2>1. verdict[j].code = 0
    <3>1. verdict[j] = [smoke |-> j \in smoke, code |-> Code(j)] /\ Code(j) = 0
      BY ServingMeansZero
    <3>2. PICK b : verdict[j] = [smoke |-> b, code |-> 0]
      BY <3>1, Zenon
    <3> QED
      BY <3>2
  <2>2. policy.on_fail = "abort" => "fail" \notin statuses[j]
    <3>1. /\ statuses[j] \in SUBSET Statuses
          /\ policy.on_warn \in Policies /\ policy.on_fail \in Policies
      BY DEF IInv, TypeOK
    <3>2. Code(j) = 0
      BY ServingMeansZero
    <3> QED
      BY <3>1, <3>2, ExitCode DEF Code
  <2> QED
    BY <2>1, <2>2, ServingMeansZero
<1> QED
  BY <1>1, Invariant, PTL

\* AbortsSurfaced: what the Coordinator reports as not proceeding does not proceed.
THEOREM AbortsSurfaced == Spec => []SurfacedAborts
<1>1. IInv => SurfacedAborts
  <2> SUFFICES ASSUME IInv, NEW j \in Jobs, engine[j] = "serving", verdict[j] # Missing
               PROVE  proceed(statuses[j], policy.on_warn, policy.on_fail)
    BY DEF SurfacedAborts
  <2>1. j \notin skipped
    BY DEF IInv, Gate
  <2> QED
    BY <2>1, ServingMeansZero, ExitCode DEF Code, IInv, TypeOK
<1> QED
  BY <1>1, Invariant, PTL

=============================================================================
