------------------------------ MODULE Planner ------------------------------
(***************************************************************************)
(* From the benchmark YAML to a started run: validation (common/config.py),*)
(* rendering of an experiment directory (planner/render.py), staging of a  *)
(* run by the operator's assistant, and the start of the Benchmarker       *)
(* (benchmarker/main.py), which finds its deployment by index in the copy  *)
(* of the YAML.  The YAML may be edited and rendered again on the same     *)
(* day: the directory is reused, and with it the copy.                     *)
(*                                                                         *)
(* A run id is <<n, i>>: the n-th rendering, the i-th deployment; that the *)
(* random suffixes differ is assumed.                                      *)
(* A deployment is [target, tp, pp]: its cluster, the GPUs of a tensor-    *)
(* parallel group, and the number of these groups, the product of the      *)
(* pipeline, data and expert parallel sizes.                               *)
(***************************************************************************)
EXTENDS Naturals, Sequences

CONSTANTS
  Catalogues,  \* values of global.yaml's clusters: name -> ClusterInfo
  Yamls,       \* the contents of the benchmark YAML: sequences of deployments
  MaxRenders,
  Unset        \* an optional field without a value; nothing there yet

ASSUME PlannerAssumption ==
  /\ MaxRenders \in Nat
  /\ \A c \in Catalogues : \A name \in DOMAIN c :
       c[name].type \in {"slurm", "k8s"} /\ c[name].gpus_per_node \in Nat \ {0}
  /\ \A y \in Yamls : \A i \in DOMAIN y : y[i].tp \in Nat \ {0} /\ y[i].pp \in Nat \ {0}

VARIABLES
  clusters, yaml, \* what the files hold
  renders,   \* number of renderings
  exp_dir,   \* of the day: the copy of the YAML, and the run directories
  staged,    \* run id -> what was copied to scratch
  started    \* run id -> what its Benchmarker did

plannerVars == <<clusters, yaml, renders, exp_dir, staged, started>>

Put(run, value, f) == [r \in DOMAIN f \cup {run} |-> IF r = run THEN value ELSE f[r]]

(***************************************************************************)
(* Validation.                                                             *)
(***************************************************************************)

per_type_fields(c) ==
  IF c.type = "slurm" THEN c.partition # Unset ELSE c.benchmarker_cluster # Unset
benchmarker_clusters_valid ==
  \A name \in DOMAIN clusters : clusters[name].type = "k8s" =>
    /\ clusters[name].benchmarker_cluster \in DOMAIN clusters
    /\ clusters[clusters[name].benchmarker_cluster].type = "slurm"
GlobalConfigValid_per_cluster == \A c \in DOMAIN clusters : per_type_fields(clusters[c]) \* mutant
GlobalConfigValid ==
  benchmarker_clusters_valid /\ \A c \in DOMAIN clusters : per_type_fields(clusters[c])

validate_against_globals(deployments) ==
  \A i \in DOMAIN deployments :
    /\ deployments[i].target \in DOMAIN clusters
    /\ deployments[i].tp <= clusters[deployments[i].target].gpus_per_node
load_benchmark_config(deployments) ==
  GlobalConfigValid /\ deployments # <<>> /\ validate_against_globals(deployments)

(***************************************************************************)
(* Rendering.                                                              *)
(***************************************************************************)

\* The product of all parallel sizes.
total_gpus(d) == d.tp * d.pp
Ceil(a, b) == (a + b - 1) \div b

RunDirWithoutIndex(deployments, i) ==                           \* mutant
  LET d == deployments[i]
      cluster == clusters[d.target]
  IN [engine |-> d, index |-> 1, from |-> deployments,
      nodes |-> Ceil(total_gpus(d), cluster.gpus_per_node),
      gpus_per_node |-> cluster.gpus_per_node,
      partition |-> cluster.partition,
      external |-> cluster.type = "k8s",
      benchmarker_partition |->
        IF cluster.type = "slurm" THEN cluster.partition
        ELSE clusters[cluster.benchmarker_cluster].partition]
\* The scripts of a run.  The Benchmarker runs on SLURM, also for an engine on K8s,
\* which it reaches at an endpoint.  from is kept for the properties.
RunDir(deployments, i) ==
  LET d == deployments[i]
      cluster == clusters[d.target]
  IN [engine |-> d, index |-> i, from |-> deployments,
      nodes |-> Ceil(total_gpus(d), cluster.gpus_per_node),
      gpus_per_node |-> cluster.gpus_per_node,
      partition |-> cluster.partition,
      external |-> cluster.type = "k8s",
      benchmarker_partition |->
        IF cluster.type = "slurm" THEN cluster.partition
        ELSE clusters[cluster.benchmarker_cluster].partition]

PlannerInit ==
  /\ clusters \in Catalogues /\ yaml \in Yamls
  /\ renders = 0
  /\ exp_dir = [config |-> Unset, runs |-> <<>>]
  /\ staged = <<>> /\ started = <<>>

\* An edit is more than a change of a deployment: entries come, go and move.
Edit ==
  /\ yaml' \in Yamls \ {yaml}
  /\ UNCHANGED <<clusters, renders, exp_dir, staged, started>>

\* render_experiment: a YAML that is not valid leaves the directory as it was; a valid
\* one replaces the copy and adds run directories to those already there.
Render ==
  /\ renders < MaxRenders
  /\ load_benchmark_config(yaml)
  /\ renders' = renders + 1
  /\ LET new == {<<renders + 1, i>> : i \in DOMAIN yaml} IN
     exp_dir' = [config |-> yaml,
                 runs |-> [r \in DOMAIN exp_dir.runs \cup new |->
                             IF r \in new THEN RunDir(yaml, r[2]) ELSE exp_dir.runs[r]]]
  /\ UNCHANGED <<clusters, yaml, staged, started>>

(***************************************************************************)
(* Staging, and the start of the Benchmarker.                              *)
(***************************************************************************)

\* Any run of the directory, when it is first started or resumed.
Stage(r) ==
  /\ r \notin DOMAIN started
  /\ staged' = Put(r, [config |-> exp_dir.config, dir |-> exp_dir.runs[r]], staged)
  /\ UNCHANGED <<clusters, yaml, renders, exp_dir, started>>

\* An index beyond the deployments is refused; else the run records the deployment it
\* finds, and the engine is the one of the run directory's script or manifest.
StartOutcome(config, dir) ==
  IF ~load_benchmark_config(config) \/ dir.index \notin DOMAIN config
  THEN [recorded |-> Unset, engine |-> Unset]
  ELSE [recorded |-> config[dir.index], engine |-> dir.engine]
Start(r) ==
  /\ r \notin DOMAIN started
  /\ started' = Put(r, StartOutcome(staged[r].config, staged[r].dir), started)
  /\ UNCHANGED <<clusters, yaml, renders, exp_dir, staged>>

PlannerNext ==
  \/ Edit \/ Render
  \/ \E r \in DOMAIN exp_dir.runs : Stage(r)
  \/ \E r \in DOMAIN staged : Start(r)

PlannerSpec == PlannerInit /\ [][PlannerNext]_plannerVars

(***************************************************************************)
(* Properties.                                                             *)
(***************************************************************************)

PlannerTypeOK ==
  /\ clusters \in Catalogues /\ yaml \in Yamls /\ renders \in 0 .. MaxRenders
  /\ exp_dir.config \in Yamls \cup {Unset}
  /\ DOMAIN started \subseteq DOMAIN staged /\ DOMAIN staged \subseteq DOMAIN exp_dir.runs

\* RecordsWhatItStarts: the deployment that a run records is the one its engine was
\* rendered from, unless the copy of the YAML was replaced, by a rendering of an edited
\* one, between the run's own rendering and its staging.
RecordsWhatItStarts ==
  \A r \in DOMAIN started :
    \/ started[r].recorded = started[r].engine
    \/ staged[r].config # staged[r].dir.from

\* Placed: every run that is rendered can be placed: both its jobs name a partition, and
\* the engine's nodes hold its GPUs, with no tensor-parallel group larger than a node
\* and no node to spare.  For an engine on K8s only its Benchmarker is placed so.
Placed ==
  \A r \in DOMAIN exp_dir.runs : LET dir == exp_dir.runs[r] IN
    /\ dir.benchmarker_partition # Unset
    /\ dir.engine.tp <= dir.gpus_per_node
    /\ ~dir.external =>
         /\ dir.partition # Unset
         /\ total_gpus(dir.engine) <= dir.nodes * dir.gpus_per_node
         /\ (dir.nodes - 1) * dir.gpus_per_node < total_gpus(dir.engine)

=============================================================================
