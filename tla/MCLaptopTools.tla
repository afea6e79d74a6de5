--------------------------- MODULE MCLaptopTools ---------------------------
(* The sequential parts, one per behaviour: they share no state. *)
EXTENDS Judgement, Cleaner, Planner, Dataset, Sampler

VARIABLE tool

\* Warmup ends at 2 and the window at 6.  Chat: nothing, one turn, two turns, a session
\* begun in the warmup, one that ends in the drain, a failure.  Agent: nothing, two sessions.
Turn(scenario, session, turn, final, issued, e2e) ==
  [scenario |-> scenario, session |-> session, turn |-> turn, final |-> final,
   issued |-> issued, e2e_ms |-> e2e, ttft_ms |-> 1, success |-> TRUE]
Failed(t) == [t EXCEPT !.success = FALSE, !.ttft_ms = Unknown, !.final = FALSE]
Chat(s) == {
  {},
  {Turn("chat", s, 0, TRUE, 2, 1)},
  {Turn("chat", s, 0, FALSE, 3, 1), Turn("chat", s, 1, TRUE, 5, 3)},
  {Turn("chat", s, 0, FALSE, 0, 1), Turn("chat", s, 1, TRUE, 2, 1)},
  {Turn("chat", s, 0, FALSE, 4, 2), Turn("chat", s, 1, TRUE, 7, 1)},
  {Failed(Turn("chat", s, 0, FALSE, 5, 4))}}
Agent(s) == {
  {}, {Turn("agent", s, 0, TRUE, 3, 3), Turn("agent", s + 1, 0, TRUE, 4, 1)}}
MCTables(i) == {c \cup a : c \in Chat(3 * i), a \in Agent(3 * i + 1)}

Slo(scenario, metric, percentile, threshold) ==
  [scenario |-> scenario, metric |-> metric, percentile |-> percentile,
   threshold |-> threshold]
MCSLOs == {
  {},
  {Slo("all", "e2e_ms", 50, 2), Slo("chat", "error_rate_pct", 0, 10)},
  {Slo("chat", "session_e2e_ms", 90, 2)},
  {Slo("agent", "ttft_ms", 90, 1), Slo("all", "session_e2e_ms", 50, 2)}}
\* Nothing in config.py keeps a rate from being listed twice, or the rates in order.
MCRateLevels == {<<1, 2, 1, 4>>, <<4, 2, 1>>, <<1, 2>>}

MCTags == {[kind |-> "jfrog", run |-> NoRun, name |-> n] : n \in {"t1", "t2"}}

Slurm(gpus) == [type |-> "slurm", gpus_per_node |-> gpus,
                partition |-> "normal", benchmarker_cluster |-> Unset]
K8s(gpus, bench) == [type |-> "k8s", gpus_per_node |-> gpus,
                     partition |-> Unset, benchmarker_cluster |-> bench]
MCCatalogues == {
  [clariden |-> Slurm(4), breithorn |-> K8s(4, "clariden")],
  [clariden |-> Slurm(2), breithorn |-> K8s(2, "breithorn")],
  [clariden |-> Slurm(2), breithorn |-> K8s(4, "clariden")]}
D(target, tp, pp) == [target |-> target, tp |-> tp, pp |-> pp]
MCYamls == {
  <<>>,
  <<D("clariden", 4, 2), D("breithorn", 4, 1)>>,
  <<D("clariden", 2, 3)>>,
  <<D("breithorn", 2, 1), D("clariden", 2, 1)>>,
  <<D("bristen", 1, 1)>>}

\* The 80/20 mix with sessions of 6 and 2 turns, an even one, one class, and three with a rare one.
Class(slug, weight, turns) == [scenario |-> slug, weight |-> weight, expected_turns |-> turns]
MCMixes == {
  <<Class("agent", 8, 6), Class("chat", 2, 2)>>,
  <<Class("chat", 5, 1), Class("agent", 5, 6)>>,
  <<Class("smoke", 1, 1)>>,
  <<Class("rare", 1, 8), Class("chat", 5, 1), Class("agent", 4, 3)>>}

\* A tool that is not in use stays in one of its initial states.
Init ==
  /\ tool \in {"report", "cleaner", "planner", "dataset", "sampler"}
  /\ JudgementInit /\ CleanerInit /\ PlannerInit /\ DatasetInit /\ SamplerInit
  /\ tool # "report" =>
       rate_levels = (CHOOSE x \in RateLevels : TRUE) /\ slos = (CHOOSE x \in SLOs : TRUE)
  /\ tool # "planner" =>
       clusters = (CHOOSE x \in Catalogues : TRUE) /\ yaml = (CHOOSE x \in Yamls : TRUE)
  /\ tool # "dataset" =>
       scenario_mix = (CHOOSE x \in Mixes : TRUE) /\ num_prompts = (CHOOSE x \in Sizes : TRUE)

Next ==
  /\ UNCHANGED tool
  /\ \/ /\ tool = "report" /\ JudgementNext
        /\ UNCHANGED <<cleanerVars, plannerVars, datasetVars, samplerVars>>
     \/ /\ tool = "cleaner" /\ CleanerNext
        /\ UNCHANGED <<judgementVars, plannerVars, datasetVars, samplerVars>>
     \/ /\ tool = "planner" /\ PlannerNext
        /\ UNCHANGED <<judgementVars, cleanerVars, datasetVars, samplerVars>>
     \/ /\ tool = "dataset" /\ DatasetNext
        /\ UNCHANGED <<judgementVars, cleanerVars, plannerVars, samplerVars>>
     \/ /\ tool = "sampler" /\ SamplerNext
        /\ UNCHANGED <<judgementVars, cleanerVars, plannerVars, datasetVars>>

Spec ==
  Init /\ [][Next]_<<tool, judgementVars, cleanerVars, plannerVars, datasetVars, samplerVars>>

\* ToolsTypeOK: the type invariants of the modules.
ToolsTypeOK ==
  JudgementTypeOK /\ CleanerTypeOK /\ PlannerTypeOK /\ DatasetTypeOK /\ SamplerTypeOK

=============================================================================
