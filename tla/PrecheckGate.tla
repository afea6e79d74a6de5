---------------------------- MODULE PrecheckGate ----------------------------
(***************************************************************************)
(* The system pre-checks of the engine jobs: every rank of a job runs      *)
(* run_system_prechecks.sh, which builds the collective tests into a cache *)
(* that all jobs share (build-nccl-tests.sh), measures and, on rank 0,     *)
(* grades; engine.sbatch starts the engine if every rank has exited 0.     *)
(*                                                                         *)
(* The cache has one directory for each fingerprint of the software stack. *)
(* What changes a fingerprint during a job is the compiler wrapper mpicxx, *)
(* which the build installs when the image lacks it.                       *)
(***************************************************************************)
EXTENDS Grading, FiniteSets

CONSTANTS
  Jobs,       \* engine jobs, of one experiment or of several
  OtherRanks, \* the ranks of a job beside rank 0
  MaxKills,   \* bound: jobs killed
  Required,   \* NVSHMEM_REQUIRED
  GatePolicies, \* values of PRECHECK_ON_WARN, PRECHECK_ON_FAIL to consider
  References, \* the collectives, always graded: [expected, tolerance_pct, values]
  OptionalReferences \* NVSHMEM and storage: graded if there is a measurement

ASSUME GateAssumption ==
  /\ GatePolicies \subseteq [on_warn : Policies, on_fail : Policies]
  /\ MaxKills \in Nat
  /\ \A smoke_test \in BOOLEAN, code \in {0, 3, 4} :
       Missing # [smoke |-> smoke_test, code |-> code]

Ranks == {0} \cup OtherRanks
Images == {"prebuilt", "mpi", "bare"}   \* tests built in; mpicxx there; neither
Stacks == BOOLEAN                       \* a fingerprint: mpicxx there or not

VARIABLES
  \* The jobs.
  image,     \* the engine image of the jobs
  policy,    \* PRECHECK_ON_WARN, PRECHECK_ON_FAIL
  together,  \* each job's ranks that share the container of its rank 0
  skipped,   \* the jobs with SKIP_SYSTEM_PRECHECKS
  mpicxx,    \* is mpicxx in the container of rank 0, of the others
  pc,        \* where each rank is
  target,    \* CACHE_DIR of each rank's build-nccl-tests.sh
  smoke,     \* SMOKE_FLAG of rank 0
  statuses,  \* the statuses of the rows of rank 0's captures
  shmem,     \* nvshmem_alltoall_latency.out: none, found, absent
  verdict,   \* results.json
  engine,    \* none, serving, gated
  kills,
  \* The cache on the shared file system.
  partial, build,  \* build.partial and build of each stack: none, torn, whole
  sentinel,        \* build/.built
  \* History.
  built,      \* jobs whose rank 0 went past the cache hit
  overlapped  \* two jobs have been building for the same stack

jobVars     == <<image, policy, together, skipped>>
scriptVars  == <<mpicxx, target, smoke, built, overlapped>>
resultVars  == <<statuses, shmem, verdict>>
cacheVars   == <<partial, build, sentinel>>
vars == <<jobVars, pc, scriptVars, resultVars, engine, kills, cacheVars>>

Building == {"install", "make", "rm partial", "rm partial 2", "mv partial", "rm build",
             "rm build 2", "mv build", "touch"}
Ended  == {"ok", "failed", "killed"}
Places == {"off", "check", "enter", "wait", "collect", "shmem"} \cup Building \cup Ended
Trees  == {"none", "torn", "whole"}

Init ==
  /\ image \in Images /\ policy \in GatePolicies
  /\ together \in [Jobs -> IF image = "bare" THEN SUBSET OtherRanks ELSE {{}}]
  /\ skipped \in SUBSET Jobs
  /\ mpicxx = [j \in Jobs |-> [r \in Ranks |-> image # "bare"]]
  /\ pc = [j \in Jobs |-> [r \in Ranks |-> "off"]]
  /\ target = [j \in Jobs |-> [r \in Ranks |-> image # "bare"]]
  /\ smoke = {} /\ statuses = [j \in Jobs |-> {}] /\ shmem = [j \in Jobs |-> "none"]
  /\ verdict = [j \in Jobs |-> Missing] /\ engine = [j \in Jobs |-> "none"] /\ kills = 0
  /\ partial = [f \in Stacks |-> "none"] /\ build = [f \in Stacks |-> "none"]
  /\ sentinel = [f \in Stacks |-> FALSE]
  /\ built = {} /\ overlapped = FALSE

At(j, r, place) == pc[j][r] = place
Goto(j, r, place) == pc' = [pc EXCEPT ![j][r] = place]

\* The cache directory of the stack a rank sees now.
Stack(j, r) == mpicxx[j][r]

(***************************************************************************)
(* run_system_prechecks.sh up to the build.                                *)
(***************************************************************************)

\* srun starts the ranks.  A gate to be skipped passes at once and writes
\* nothing; tests in the image need no build.
JobStarts(j) ==
  /\ At(j, 0, "off")
  /\ pc' = [pc EXCEPT ![j] = [r \in Ranks |->
              CASE j \in skipped -> "ok"
                [] j \notin skipped /\ image = "prebuilt" -> "collect"
                [] OTHER -> IF r = 0 THEN "check" ELSE "enter"]]
  /\ UNCHANGED <<jobVars, scriptVars, resultVars, cacheVars, engine, kills>>

CheckNotSmoke(j) ==                                             \* mutant
  /\ At(j, 0, "check")
  /\ Goto(j, 0, "enter")
  /\ UNCHANGED <<jobVars, scriptVars, resultVars, cacheVars, engine, kills>>
\* A cold cache makes a smoke test: rank 0's look at it is the one that counts.
Check(j) ==
  /\ At(j, 0, "check")
  /\ Goto(j, 0, "enter")
  /\ smoke' = IF sentinel[Stack(j, 0)] THEN smoke ELSE smoke \cup {j}
  /\ UNCHANGED <<jobVars, resultVars, cacheVars, mpicxx, target, built, overlapped, engine, kills>>

(***************************************************************************)
(* build-nccl-tests.sh.                                                    *)
(***************************************************************************)

Others(j) == {k \in Jobs \ {j} : pc[k][0] \in Building}

\* The rank's cache directory is fixed here: a hit, a wait, or the build.
EnterBuild(j, r) ==
  /\ At(j, r, "enter")
  /\ target' = [target EXCEPT ![j][r] = Stack(j, r)]
  /\ \/ sentinel[Stack(j, r)] /\ Goto(j, r, "collect") /\ UNCHANGED <<built, overlapped>>
     \/ ~sentinel[Stack(j, r)] /\ r # 0 /\ Goto(j, r, "wait") /\ UNCHANGED <<built, overlapped>>
     \/ /\ ~sentinel[Stack(j, r)] /\ r = 0
        /\ Goto(j, r, "install")
        /\ built' = built \cup {j}
        /\ overlapped' = (overlapped \/ \E k \in Others(j) : target[k][0] = Stack(j, r))
  /\ UNCHANGED <<jobVars, resultVars, cacheVars, mpicxx, smoke, engine, kills>>

\* The other ranks poll for the sentinel, for 1200 s.
Polled(j, r) ==
  /\ At(j, r, "wait") /\ sentinel[target[j][r]]
  /\ Goto(j, r, "collect")
  /\ UNCHANGED <<jobVars, scriptVars, resultVars, cacheVars, engine, kills>>
WaitForever(j, r) == FALSE                                      \* mutant
WaitTimesOut(j, r) ==
  /\ At(j, r, "wait") /\ ~sentinel[target[j][r]]
  /\ Goto(j, r, "failed")
  /\ UNCHANGED <<jobVars, scriptVars, resultVars, cacheVars, engine, kills>>

\* The missing tools are installed in rank 0's container, if that works.
Install(j) ==
  /\ At(j, 0, "install")
  /\ Goto(j, 0, "make")
  /\ \/ UNCHANGED mpicxx
     \/ mpicxx' = [mpicxx EXCEPT ![j] = [r \in Ranks |->
                     IF r \in {0} \cup together[j] THEN TRUE ELSE @[r]]]
  /\ UNCHANGED <<jobVars, resultVars, cacheVars, target, smoke, built, overlapped, engine, kills>>

\* Download and build in a directory of its own, removed on exit: without MPI
\* there is no build, and with it curl, tar and make can fail.
Make(j) ==
  /\ At(j, 0, "make")
  /\ \/ mpicxx[j][0] /\ Goto(j, 0, "rm partial")
     \/ Goto(j, 0, "failed")
  /\ UNCHANGED <<jobVars, scriptVars, resultVars, cacheVars, engine, kills>>

\* The publication works on the directory fixed when the script began; a
\* command that fails ends the script, and the rank.
Publishing(j, place) == At(j, 0, place)
PublishFrame == UNCHANGED <<jobVars, scriptVars, resultVars, engine, kills>>

\* rm -rf is not atomic: a tree is torn before it is gone.
RemovePartial(j) ==
  LET f == target[j][0] IN
  /\ Publishing(j, "rm partial")
  /\ IF partial[f] = "none"
     THEN Goto(j, 0, "mv partial") /\ UNCHANGED partial
     ELSE Goto(j, 0, "rm partial 2") /\ partial' = [partial EXCEPT ![f] = "torn"]
  /\ UNCHANGED <<build, sentinel>> /\ PublishFrame
PartialRemoved(j) ==
  /\ Publishing(j, "rm partial 2")
  /\ Goto(j, 0, "mv partial")
  /\ partial' = [partial EXCEPT ![target[j][0]] = "none"]
  /\ UNCHANGED <<build, sentinel>> /\ PublishFrame

TouchFirst(j) ==                                                \* mutant
  LET f == target[j][0] IN
  /\ Publishing(j, "mv partial")
  /\ Goto(j, 0, "rm build")
  /\ partial' = [partial EXCEPT ![f] = "whole"]
  /\ sentinel' = [sentinel EXCEPT ![f] = TRUE]
  /\ UNCHANGED build /\ PublishFrame
\* Into a directory that is there, mv moves the tree one level too deep.
MovePartial(j) ==
  LET f == target[j][0] IN
  /\ Publishing(j, "mv partial")
  /\ Goto(j, 0, "rm build")
  /\ partial' = [partial EXCEPT ![f] = IF @ = "none" THEN "whole" ELSE @]
  /\ UNCHANGED <<build, sentinel>> /\ PublishFrame

\* The sentinel goes with the tree, first or last.
RemoveBuild(j) ==
  LET f == target[j][0] IN
  /\ Publishing(j, "rm build")
  /\ IF build[f] = "none"
     THEN Goto(j, 0, "mv build") /\ UNCHANGED <<build, sentinel>>
     ELSE /\ Goto(j, 0, "rm build 2")
          /\ build' = [build EXCEPT ![f] = "torn"]
          /\ \E s \in {sentinel[f], FALSE} : sentinel' = [sentinel EXCEPT ![f] = s]
  /\ UNCHANGED partial /\ PublishFrame
BuildRemoved(j) ==
  LET f == target[j][0] IN
  /\ Publishing(j, "rm build 2")
  /\ Goto(j, 0, "mv build")
  /\ build' = [build EXCEPT ![f] = "none"]
  /\ sentinel' = [sentinel EXCEPT ![f] = FALSE]
  /\ UNCHANGED partial /\ PublishFrame

MoveBuild(j) ==
  LET f == target[j][0] IN
  /\ Publishing(j, "mv build")
  /\ IF partial[f] = "none"
     THEN Goto(j, 0, "failed") /\ UNCHANGED <<partial, build>>
     ELSE /\ Goto(j, 0, "touch")
          /\ partial' = [partial EXCEPT ![f] = "none"]
          /\ build' = [build EXCEPT ![f] = IF @ = "none" THEN partial[f] ELSE @]
  /\ UNCHANGED sentinel /\ PublishFrame

Touch(j) ==
  LET f == target[j][0] IN
  /\ Publishing(j, "touch")
  /\ IF build[f] = "none"
     THEN Goto(j, 0, "failed") /\ UNCHANGED sentinel
     ELSE Goto(j, 0, "collect") /\ sentinel' = [sentinel EXCEPT ![f] = TRUE]
  /\ UNCHANGED <<partial, build>> /\ PublishFrame

(***************************************************************************)
(* Measuring and grading.                                                  *)
(***************************************************************************)

\* run-collectives.sh computes the directory again.
HasTests(j, r) == image = "prebuilt" \/ build[Stack(j, r)] = "whole"
MayHaveTests(j, r) == HasTests(j, r) \/ build[Stack(j, r)] = "torn"

\* What a capture of one of the references can be read as.
Readings(references) == {Missing} \cup UNION {references[b].values : b \in DOMAIN references}
\* The statuses of the rows that the captures measured make.
Graded(measured, references) ==
  {grade(measured[b], references[b].expected, references[b].tolerance_pct) :
     b \in DOMAIN measured}

\* A collective is one program of all ranks: it measures something if every
\* rank is there with its binary, and is an error otherwise (assumed of the
\* launcher: it does not wait for a rank that has ended).
Gathered(j) ==
  /\ \A r \in Ranks : pc[j][r] \in {"collect"} \cup Ended
  /\ pc' = [pc EXCEPT ![j] = [r \in Ranks |-> IF @[r] = "collect" THEN "shmem" ELSE @[r]]]
CollectWithoutRank0(j) ==
  /\ \E r \in OtherRanks : At(j, r, "collect")
  /\ ~At(j, 0, "collect") /\ Gathered(j)
  /\ UNCHANGED <<jobVars, scriptVars, resultVars, cacheVars, engine, kills>>
Collect(j) ==
  /\ At(j, 0, "collect") /\ Gathered(j)
  /\ LET runs == \A r \in Ranks : At(j, r, "collect") /\ MayHaveTests(j, r) IN
     \E measured \in [DOMAIN References -> Readings(References)] :
       /\ runs \/ \A b \in DOMAIN References : measured[b] = Missing
       /\ statuses' = [statuses EXCEPT ![j] = Graded(measured, References)]
  /\ UNCHANGED <<jobVars, scriptVars, cacheVars, shmem, verdict, engine, kills>>

\* Rank 0 captures the NVSHMEM test, and the others read its capture, as far
\* as it has got.  A test that is required and not in the image is the one
\* thing about it that ends the script.
NvshmemAbsent(j) ==
  /\ Required /\ At(j, 0, "shmem")
  /\ shmem' = [shmem EXCEPT ![j] = "absent"]
  /\ Goto(j, 0, "failed")
  /\ UNCHANGED <<jobVars, scriptVars, cacheVars, statuses, verdict, engine, kills>>
RankEnds(j, r) ==
  /\ r # 0 /\ At(j, r, "shmem")
  /\ Goto(j, r, IF shmem[j] = "absent" THEN "failed" ELSE "ok")
  /\ UNCHANGED <<jobVars, scriptVars, resultVars, cacheVars, engine, kills>>

GradeWithoutVerdict(j) ==                                       \* mutant
  /\ At(j, 0, "shmem")
  /\ shmem' = [shmem EXCEPT ![j] = "found"]
  /\ Goto(j, 0, "ok")
  /\ UNCHANGED <<jobVars, scriptVars, cacheVars, statuses, verdict, engine, kills>>
\* The test is there, or not required.  Whatever of NVSHMEM and storage gave
\* something to read gets a row: none is written for a capture that is not
\* there, is empty or shows no bandwidth between processes, although the test
\* may be required.  grade.py writes its verdict, and its exit code is the script's.
Grade(j) ==
  /\ At(j, 0, "shmem")
  /\ shmem' = [shmem EXCEPT ![j] = "found"]
  /\ \E rows \in SUBSET DOMAIN OptionalReferences :
       \E measured \in [rows -> Readings(OptionalReferences)] :
         statuses' = [statuses EXCEPT ![j] = @ \cup Graded(measured, OptionalReferences)]
  /\ LET code == outcome_exit_code(statuses'[j], policy.on_warn, policy.on_fail) IN
       /\ verdict' = [verdict EXCEPT ![j] = [smoke |-> j \in smoke, code |-> code]]
       /\ Goto(j, 0, IF code = 0 THEN "ok" ELSE "failed")
  /\ UNCHANGED <<jobVars, scriptVars, cacheVars, engine, kills>>

\* srun returns when every rank has ended, with the worst exit code.
JobEnds(j) ==
  /\ \A r \in Ranks : pc[j][r] \in Ended
  /\ engine[j] = "none"
  /\ engine' = [engine EXCEPT ![j] =
       IF \A r \in Ranks : pc[j][r] = "ok" THEN "serving" ELSE "gated"]
  /\ UNCHANGED <<jobVars, scriptVars, resultVars, cacheVars, kills, pc>>

\* scancel, the time limit, a node failure: anywhere, also in the publication.
Kill(j) ==
  /\ kills < MaxKills /\ ~At(j, 0, "off") /\ engine[j] = "none"
  /\ pc' = [pc EXCEPT ![j] = [r \in Ranks |-> "killed"]]
  /\ kills' = kills + 1
  /\ UNCHANGED <<jobVars, scriptVars, resultVars, cacheVars, engine>>

(***************************************************************************)
(* The specification.                                                      *)
(***************************************************************************)

Publish(j) ==
  \/ RemovePartial(j) \/ PartialRemoved(j) \/ MovePartial(j)
  \/ RemoveBuild(j) \/ BuildRemoved(j) \/ MoveBuild(j) \/ Touch(j)
Rank0(j) ==
  \/ Check(j) \/ Install(j) \/ Make(j) \/ Publish(j)
  \/ Collect(j) \/ CollectWithoutRank0(j) \/ NvshmemAbsent(j) \/ Grade(j)
AnyRank(j, r) ==
  EnterBuild(j, r) \/ Polled(j, r) \/ WaitTimesOut(j, r) \/ RankEnds(j, r)

Runs(j) == Rank0(j) \/ (\E r \in Ranks : AnyRank(j, r)) \/ JobEnds(j)

Next == \E j \in Jobs : JobStarts(j) \/ Runs(j) \/ Kill(j)

Spec == Init /\ [][Next]_vars

\* The processes of a job that has started run on: a wait has its time limit,
\* and what the scripts call returns.
FairSpec == Spec /\ \A j \in Jobs : WF_vars(Runs(j))

(***************************************************************************)
(* Properties.                                                             *)
(***************************************************************************)

\* TypeOK: every variable keeps its type.
TypeOK ==
  /\ image \in Images /\ together \in [Jobs -> SUBSET OtherRanks] /\ skipped \subseteq Jobs
  /\ policy \in [on_warn : Policies, on_fail : Policies]
  /\ mpicxx \in [Jobs -> [Ranks -> BOOLEAN]] /\ target \in [Jobs -> [Ranks -> Stacks]]
  /\ pc \in [Jobs -> [Ranks -> Places]]
  /\ smoke \subseteq Jobs /\ built \subseteq Jobs /\ overlapped \in BOOLEAN
  /\ statuses \in [Jobs -> SUBSET Statuses]
  /\ shmem \in [Jobs -> {"none", "found", "absent"}]
  /\ verdict \in [Jobs -> [smoke : BOOLEAN, code : {0, 3, 4}] \cup {Missing}]
  /\ engine \in [Jobs -> {"none", "serving", "gated"}] /\ kills \in 0 .. MaxKills
  /\ partial \in [Stacks -> Trees] /\ build \in [Stacks -> Trees]
  /\ sentinel \in [Stacks -> BOOLEAN]

\* SentinelMeansWhole: "move into place, then write the sentinel last": a
\* cache that shows its sentinel is whole, whatever was killed where in an
\* earlier build, as long as no two jobs have built for one stack at a time.
SentinelMeansWhole ==
  ~overlapped => \A f \in Stacks : sentinel[f] => build[f] = "whole"

\* BuilderIsSmoke: a job that builds the tests itself reports a smoke test,
\* although the flag and the build look at the sentinel at different times.
BuilderIsSmoke ==
  ~overlapped => \A j \in built : verdict[j] # Missing => verdict[j].smoke

\* EngineVouched: unless its job is told to skip the gate, an engine serves
\* only behind a verdict of its own gate that lets it, in results.json, and
\* after every rank has passed.  Unless failures are to be ignored, that verdict
\* has no failed row, and so every collective was measured; an NVSHMEM test that
\* measured nothing has no row, also when it is required.
EngineVouched ==
  \A j \in Jobs \ skipped : engine[j] = "serving" =>
    /\ verdict[j] # Missing /\ verdict[j].code = 0
    /\ \A r \in Ranks : pc[j][r] = "ok"
    /\ policy.on_fail = "abort" => "fail" \notin statuses[j]

\* SurfacedAborts: when the Coordinator tells the operator that the run does
\* not proceed, it does not: no engine serves behind that verdict.
SurfacedAborts ==
  \A j \in Jobs :
    verdict[j] # Missing /\ ~proceed(statuses[j], policy.on_warn, policy.on_fail)
      => engine[j] # "serving"

\* GateEnds: a job that has started starts its engine or is gated, also when
\* its rank 0 has died in the build the others wait for.
GateEnds == \A j \in Jobs : ~At(j, 0, "off") ~> engine[j] # "none"

=============================================================================
