------------------------------ MODULE Cleaner ------------------------------
(***************************************************************************)
(* The Cleaner (tools/cleaner.py): what runs left behind is listed, the    *)
(* skip policy is applied, the operator approves, and the approved         *)
(* candidates are deleted one by one, while runs start, end, die and are   *)
(* resumed under the same names.                                           *)
(*                                                                         *)
(* A resource is [kind, run, name], run being NoRun for what no run owns.  *)
(* The names of a run's resources derive from its id, so that a resumed    *)
(* run finds, or makes, the same ones.  Ages are capped at MaxAge.         *)
(***************************************************************************)
EXTENDS Naturals, FiniteSets

CONSTANTS
  RunIds, NoRun,
  Tags,             \* JFrog image tags, [kind |-> "jfrog", run |-> NoRun, name |-> ...]
  KeepRecent,       \* keep_recent_jfrog
  AgeThreshold,     \* age_threshold_h
  MaxAge

ASSUME CleanerAssumption ==
  /\ NoRun \notin RunIds
  /\ IsFiniteSet(Tags) /\ \A t \in Tags : t.kind = "jfrog" /\ t.run = NoRun
  /\ KeepRecent \in Nat /\ AgeThreshold \in Nat /\ MaxAge \in Nat

VARIABLES
  age,     \* resource that exists -> its age
  active,  \* the runs that are alive
  cleaning,   \* idle, approval, pruning, done
  report,  \* the prunable candidates still to be deleted
  failed,  \* those whose deletion was reported as failed
  listed,  \* history: ages and active runs when the candidates were listed
  resumed  \* history: runs that came alive since

cleanerVars == <<age, active, cleaning, report, failed, listed, resumed>>

\* What the manifest of a run declares (of the kinds that the Cleaner lists, one
\* stands for all), and its directory on scratch.
K8sKinds == {"persistentvolumeclaim", "configmap"}
Of(r) == {[kind |-> k, run |-> r, name |-> "ibt"] : k \in K8sKinds \cup {"scratch"}}
ModelCache == [kind |-> "persistentvolumeclaim", run |-> NoRun, name |-> "model-cache"]
VenvDir == [kind |-> "scratch", run |-> NoRun, name |-> "benchmarker-venv"]

CleanerInit ==
  /\ age = [o \in {ModelCache, VenvDir} |-> MaxAge]
  /\ active = {} /\ cleaning = "idle"
  /\ report = {} /\ failed = {} /\ resumed = {}
  /\ listed = [ages |-> <<>>, active |-> {}]

(***************************************************************************)
(* The world.                                                              *)
(***************************************************************************)

With(new) == [o \in DOMAIN age \cup new |-> IF o \in DOMAIN age THEN age[o] ELSE 0]
Without(gone) == [o \in DOMAIN age \ gone |-> age[o]]

\* A run starts or is resumed; what exists under its names is taken over.
RunStarts(r) ==
  /\ r \notin active
  /\ active' = active \cup {r}
  /\ resumed' = resumed \cup {r}
  /\ age' = With(Of(r))
  /\ UNCHANGED <<cleaning, report, failed, listed>>

\* Teardown deletes what the manifest declares, or was never reached.
RunEnds(r) ==
  /\ r \in active
  /\ active' = active \ {r}
  /\ \/ age' = Without({o \in Of(r) : o.kind \in K8sKinds})
     \/ UNCHANGED age
  /\ UNCHANGED <<cleaning, report, failed, listed, resumed>>

PushTag(t) ==
  /\ t \notin DOMAIN age
  /\ age' = With({t})
  /\ UNCHANGED <<active, cleaning, report, failed, listed, resumed>>

Older(n) == IF n < MaxAge THEN n + 1 ELSE n
TimePasses ==
  /\ \E o \in DOMAIN age : age[o] < MaxAge
  /\ age' = [o \in DOMAIN age |-> Older(age[o])]
  /\ UNCHANGED <<active, cleaning, report, failed, listed, resumed>>

(***************************************************************************)
(* The tool.                                                               *)
(***************************************************************************)

KINDS_of_workloads == {"deployment", "service", "ingress"}      \* mutant
\* What the listings can return: kubectl is asked for these kinds only.
KINDS == {"deployment", "service", "ingress", "secret", "persistentvolumeclaim"}
Candidates == {o \in DOMAIN age : o.kind \in KINDS \cup {"scratch", "jfrog"}}

OldestTags(tags) ==                                             \* mutant
  {keep \in SUBSET tags :
     /\ Cardinality(keep) = IF KeepRecent < Cardinality(tags) THEN KeepRecent
                            ELSE Cardinality(tags)
     /\ \A k \in keep, t \in tags \ keep : age[k] >= age[t]}
\* The youngest KeepRecent tags; among equals, any.
YoungestTags(tags) ==
  {keep \in SUBSET tags :
     /\ Cardinality(keep) = IF KeepRecent < Cardinality(tags) THEN KeepRecent
                            ELSE Cardinality(tags)
     /\ \A k \in keep, t \in tags \ keep : age[k] <= age[t]}

skipped_unless_scratch_is_active(o, jfrog_keep) ==              \* mutant
  \/ o = ModelCache
  \/ o.kind = "scratch" /\ o.run \in {NoRun} \cup active
  \/ o \in jfrog_keep
  \/ age[o] < AgeThreshold
skipped(o, jfrog_keep) ==
  \/ o = ModelCache
  \/ o.kind = "scratch" /\ o.run = NoRun
  \/ o.run \in active
  \/ o \in jfrog_keep
  \/ age[o] < AgeThreshold

\* list_candidates and identify; the operator names the runs that are active.
Identify ==
  /\ cleaning = "idle"
  /\ \E jfrog_keep \in YoungestTags(Candidates \cap Tags) :
       report' = {o \in Candidates : ~skipped(o, jfrog_keep)}
  /\ cleaning' = "approval"
  /\ listed' = [ages |-> age, active |-> active]
  /\ failed' = {} /\ resumed' = {}
  /\ UNCHANGED <<age, active>>

\* Without --yes nothing is deleted.
Decide ==
  /\ cleaning = "approval"
  /\ cleaning' \in {"idle", "pruning"}
  /\ UNCHANGED <<age, active, report, failed, listed, resumed>>

\* One deletion, by name.  It fails when there is nothing of that name, when it is
\* refused, or when the answer is lost; prune goes on with the next.
Delete(o) ==
  /\ cleaning = "pruning" /\ o \in report
  /\ report' = report \ {o}
  /\ \/ o \in DOMAIN age /\ age' = Without({o}) /\ UNCHANGED failed
     \/ age' \in {age, Without({o})} /\ failed' = failed \cup {o}
  /\ UNCHANGED <<active, cleaning, listed, resumed>>

Pruned ==
  /\ cleaning = "pruning" /\ report = {}
  /\ cleaning' = "done"
  /\ UNCHANGED <<age, active, report, failed, listed, resumed>>

CleanerNext ==
  \/ \E r \in RunIds : RunStarts(r) \/ RunEnds(r)
  \/ \E t \in Tags : PushTag(t)
  \/ TimePasses
  \/ Identify \/ Decide
  \/ \E o \in report : Delete(o)
  \/ Pruned

CleanerSpec == CleanerInit /\ [][CleanerNext]_cleanerVars

(***************************************************************************)
(* Properties.                                                             *)
(***************************************************************************)

CleanerTypeOK ==
  /\ \A o \in DOMAIN age :
       /\ o \in Tags \cup {ModelCache, VenvDir} \/ \E r \in RunIds : o \in Of(r)
       /\ age[o] \in 0 .. MaxAge
  /\ active \subseteq RunIds /\ resumed \subseteq RunIds
  /\ cleaning \in {"idle", "approval", "pruning", "done"}
  /\ report \subseteq DOMAIN listed.ages /\ failed \subseteq DOMAIN listed.ages
  /\ listed.active \subseteq RunIds

\* PruneIsSafe: whatever a deletion removes, however long after the listing, was old
\* when it was listed, and belongs to no live run, except to one that has been resumed
\* since; what runs share is never removed.
PruneIsSafe ==
  [][\A o \in DOMAIN age \ DOMAIN age' : cleaning = "pruning" /\ active' = active =>
       /\ listed.ages[o] >= AgeThreshold
       /\ o.run \in active => o.run \in resumed
       /\ o \notin {ModelCache, VenvDir}]_cleanerVars

\* RecentTagsKept: pruning never takes a tag that has fewer than KeepRecent tags at
\* least as young beside it, whatever was pushed in the meantime.
RecentTagsKept ==
  [][\A o \in Tags \cap (DOMAIN age \ DOMAIN age') :
       KeepRecent <= Cardinality({t \in Tags \cap DOMAIN age' : age[t] <= age[o]})]_cleanerVars

\* LeaksAreReclaimed: after a complete pruning, what is still there of a run that was
\* dead at the listing and has stayed so was too young then, or its deletion failed,
\* and says so in the results; but for the ConfigMap, which is never listed.
LeaksAreReclaimed ==
  cleaning = "done" => \A o \in DOMAIN age \cap DOMAIN listed.ages :
    \/ o.run \in listed.active \cup resumed \cup {NoRun}
    \/ listed.ages[o] < AgeThreshold
    \/ o \in failed
    \/ o.kind = "configmap"

=============================================================================
