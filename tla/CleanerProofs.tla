--------------------------- MODULE CleanerProofs ---------------------------
(***************************************************************************)
(* Theorems of the Cleaner, for any runs, tags, retention and age limit.   *)
(*                                                                         *)
(* A deletion comes any time after the listing it rests on, so that the    *)
(* invariant says what of the listing stays true: what the report may      *)
(* name (Prunable), who has come alive since (Awake), where the resources  *)
(* of dead runs are (Followed), and that the tags kept are still there,    *)
(* no older than those to be deleted (Spared).                             *)
(***************************************************************************)
EXTENDS Cleaner, FiniteSetTheorems, TLAPS

Shared == {ModelCache, VenvDir}

\* What the report may name.
Prunable ==
  cleaning \in {"approval", "pruning"} =>
    \A o \in report : /\ listed.ages[o] >= AgeThreshold
                      /\ o.run \notin listed.active
                      /\ o \notin Shared

\* Every run that is alive was so at the listing, or has come alive since.
Awake == active \subseteq listed.active \cup resumed

\* What is left of a run that has stayed dead is still to be deleted, or reported.
Followed ==
  cleaning # "idle" => \A o \in DOMAIN age \cap DOMAIN listed.ages :
    \/ o.run \in listed.active \cup resumed \cup {NoRun}
    \/ listed.ages[o] < AgeThreshold
    \/ o \in report \cup failed
    \/ o.kind = "configmap"

\* The tags that the listing kept.
Keeps(keep) ==
  /\ Cardinality(keep) = KeepRecent
  /\ keep \subseteq Tags \cap DOMAIN age
  /\ keep \cap report = {}
  /\ report \cap Tags \subseteq DOMAIN age
  /\ \A k \in keep, o \in report \cap Tags : age[k] <= age[o]
Spared ==
  cleaning \in {"approval", "pruning"} /\ report \cap Tags # {} =>
    \E keep \in SUBSET Tags : Keeps(keep)

ListedAges == \A o \in DOMAIN listed.ages : listed.ages[o] \in Nat
Emptied == cleaning = "done" => report = {}

CInv == /\ CleanerTypeOK /\ ListedAges /\ Emptied
        /\ Prunable /\ Awake /\ Followed /\ Spared

USE CleanerAssumption

\* The resources of one kind of owner are none of another's.
LEMMA Owners ==
  /\ \A r : \A o \in Of(r) : o.run = r /\ o.kind \in K8sKinds \cup {"scratch"}
  /\ \A o \in Shared : o.run = NoRun
  /\ \A r \in RunIds : Of(r) \cap (Tags \cup Shared) = {}
<1>1. \A r : \A o \in Of(r) : o.run = r /\ o.kind \in K8sKinds \cup {"scratch"}
  BY DEF Of
<1>2. \A o \in Shared : o.run = NoRun
  BY DEF Shared, ModelCache, VenvDir
<1> QED
  BY <1>1, <1>2

\* What the steps of the world do to the ages.
LEMMA Ages ==
  /\ \A new : /\ DOMAIN With(new) = DOMAIN age \cup new
              /\ \A o \in DOMAIN age : With(new)[o] = age[o]
              /\ \A o \in new \ DOMAIN age : With(new)[o] = 0
BY DEF With

LEMMA AgesLeft ==
  ASSUME NEW gone, age' = Without(gone)
  PROVE  /\ DOMAIN age' = DOMAIN age \ gone
         /\ \A o \in DOMAIN age' : age'[o] = age[o]
BY DEF Without

LEMMA InitCInv == CleanerInit => CInv
<1> SUFFICES ASSUME CleanerInit PROVE CInv
  OBVIOUS
<1>1. DOMAIN listed.ages = {}
  BY DEF CleanerInit
<1>2. CleanerTypeOK
  <2>1. DOMAIN age = Shared /\ \A o \in Shared : age[o] = MaxAge
    BY DEF CleanerInit, Shared
  <2> QED
    BY <1>1, <2>1 DEF CleanerInit, CleanerTypeOK, Shared
<1> QED
  BY <1>1, <1>2 DEF CInv, CleanerInit, ListedAges, Emptied, Prunable, Awake, Followed, Spared

\* A run takes over, or makes, its resources, and counts as resumed.
LEMMA RunStartsCInv == ASSUME CInv, NEW r \in RunIds, RunStarts(r) PROVE CInv'
<1> USE DEF CInv, RunStarts
<1>1. /\ DOMAIN age' = DOMAIN age \cup Of(r)
      /\ \A o \in DOMAIN age : age'[o] = age[o]
      /\ \A o \in Of(r) \ DOMAIN age : age'[o] = 0
  BY Ages
<1>2. CleanerTypeOK'
  BY <1>1 DEF CleanerTypeOK
<1>3. (ListedAges /\ Emptied /\ Prunable /\ Awake)'
  BY DEF ListedAges, Emptied, Prunable, Awake
<1>4. Followed'
  BY <1>1, Owners DEF Followed
<1>5. Spared'
  <2>1. ASSUME NEW keep \in SUBSET Tags, Keeps(keep) PROVE Keeps(keep)'
    <3>1. report \cap Tags \subseteq DOMAIN age /\ keep \subseteq DOMAIN age
      BY <2>1 DEF Keeps
    <3> QED
      BY <1>1, <2>1, <3>1 DEF Keeps
  <2> QED
    BY <2>1 DEF Spared
<1> QED
  BY <1>2, <1>3, <1>4, <1>5

\* What a run leaves is never a tag.
LEMMA RunEndsCInv == ASSUME CInv, NEW r \in RunIds, RunEnds(r) PROVE CInv'
<1> USE DEF CInv, RunEnds
<1>1. /\ DOMAIN age' \subseteq DOMAIN age
      /\ DOMAIN age \ DOMAIN age' \subseteq Of(r)
      /\ \A o \in DOMAIN age' : age'[o] = age[o]
  <2> DEFINE gone == {o \in Of(r) : o.kind \in K8sKinds}
  <2>1. CASE age' = Without(gone)
    <3>1. gone \subseteq Of(r)
      OBVIOUS
    <3> QED
      BY <2>1, <3>1, AgesLeft
  <2>2. CASE age' = age
    BY <2>2
  <2> QED
    BY <2>1, <2>2
<1>2. CleanerTypeOK'
  BY <1>1 DEF CleanerTypeOK
<1>3. (ListedAges /\ Emptied /\ Prunable /\ Awake)'
  BY DEF ListedAges, Emptied, Prunable, Awake
<1>4. Followed'
  BY <1>1 DEF Followed
<1>5. Spared'
  <2>1. ASSUME NEW keep \in SUBSET Tags, Keeps(keep) PROVE Keeps(keep)'
    <3>1. DOMAIN age \cap Tags \subseteq DOMAIN age'
      BY <1>1, Owners
    <3> QED
      BY <1>1, <2>1, <3>1 DEF Keeps
  <2> QED
    BY <2>1 DEF Spared
<1> QED
  BY <1>2, <1>3, <1>4, <1>5

LEMMA PushTagCInv == ASSUME CInv, NEW t \in Tags, PushTag(t) PROVE CInv'
<1> USE DEF CInv, PushTag
<1>1. /\ DOMAIN age' = DOMAIN age \cup {t}
      /\ \A o \in DOMAIN age : age'[o] = age[o]
      /\ age'[t] = 0
  BY Ages
<1>2. CleanerTypeOK'
  <2>1. 0 \in 0 .. MaxAge
    OBVIOUS
  <2> QED
    BY <1>1, <2>1 DEF CleanerTypeOK
<1>3. (ListedAges /\ Emptied /\ Prunable /\ Awake)'
  BY DEF ListedAges, Emptied, Prunable, Awake
<1>4. Followed'
  BY <1>1 DEF Followed
<1>5. Spared'
  <2>1. ASSUME NEW keep \in SUBSET Tags, Keeps(keep) PROVE Keeps(keep)'
    <3>1. report \cap Tags \subseteq DOMAIN age /\ keep \subseteq DOMAIN age
      BY <2>1 DEF Keeps
    <3> QED
      BY <1>1, <2>1, <3>1 DEF Keeps
  <2> QED
    BY <2>1 DEF Spared
<1> QED
  BY <1>2, <1>3, <1>4, <1>5

\* Ages keep their order.
LEMMA TimePassesCInv == ASSUME CInv, TimePasses PROVE CInv'
<1> USE DEF CInv, TimePasses
<1>1. DOMAIN age' = DOMAIN age /\ \A o \in DOMAIN age : age'[o] = Older(age[o])
  OBVIOUS
<1>2. \A n \in 0 .. MaxAge : Older(n) \in 0 .. MaxAge
  BY DEF Older
<1>3. CleanerTypeOK'
  BY <1>1, <1>2 DEF CleanerTypeOK
<1>4. (ListedAges /\ Emptied /\ Prunable /\ Awake)'
  BY DEF ListedAges, Emptied, Prunable, Awake
<1>5. Followed'
  BY <1>1 DEF Followed
<1>6. Spared'
  <2>1. \A m, n \in 0 .. MaxAge : m <= n => Older(m) <= Older(n)
    BY DEF Older
  <2>2. ASSUME NEW keep \in SUBSET Tags, Keeps(keep) PROVE Keeps(keep)'
    <3>1. ASSUME NEW k \in keep, NEW o \in report \cap Tags
          PROVE  age'[k] <= age'[o]
      <4>1. k \in DOMAIN age /\ o \in DOMAIN age /\ age[k] <= age[o]
        BY <2>2, <3>1 DEF Keeps
      <4>2. age[k] \in 0 .. MaxAge /\ age[o] \in 0 .. MaxAge
        BY <4>1 DEF CleanerTypeOK
      <4> QED
        BY <1>1, <2>1, <4>1, <4>2
    <3> QED
      BY <1>1, <2>2, <3>1 DEF Keeps
  <2> QED
    BY <2>2 DEF Spared
<1> QED
  BY <1>3, <1>4, <1>5, <1>6

\* The listing itself.
LEMMA IdentifyCInv == ASSUME CInv, Identify PROVE CInv'
<1> USE DEF CInv, Identify
<1>1. PICK keep \in YoungestTags(Candidates \cap Tags) :
        report' = {o \in Candidates : ~skipped(o, keep)}
  OBVIOUS
<1>2. /\ report' \subseteq DOMAIN age /\ listed'.ages = age /\ listed'.active = active
      /\ \A o \in DOMAIN age : age[o] \in 0 .. MaxAge
  BY <1>1 DEF Candidates, CleanerTypeOK
<1>3. CleanerTypeOK'
  BY <1>2 DEF CleanerTypeOK
<1>4. (ListedAges /\ Emptied /\ Awake)'
  BY <1>2 DEF ListedAges, Emptied, Awake
<1>5. Prunable'
  <2>1. \A o \in report' : age[o] >= AgeThreshold /\ o.run \notin active /\ o \notin Shared
    BY <1>1, <1>2 DEF skipped, Shared, VenvDir
  <2> QED
    BY <1>2, <2>1 DEF Prunable
<1>6. Followed'
  <2> SUFFICES ASSUME NEW o \in DOMAIN age, o.run \notin active \cup {NoRun},
                      ~(age[o] < AgeThreshold), o.kind # "configmap"
               PROVE  o \in report'
    BY <1>2 DEF Followed
  <2>1. o \notin Tags \cup Shared
    BY Owners
  <2>2. PICK r \in RunIds : o \in Of(r)
    BY <2>1 DEF CleanerTypeOK, Shared
  <2>3. o \in Candidates
    BY <2>2, Owners DEF Candidates, KINDS, K8sKinds
  <2>4. o \notin keep
    BY <2>1 DEF YoungestTags
  <2> QED
    BY <1>1, <2>1, <2>3, <2>4 DEF skipped, Shared
<1>7. Spared'
  <2> DEFINE tags == Candidates \cap Tags
  <2> SUFFICES ASSUME report' \cap Tags # {} PROVE Keeps(keep)'
    BY <1>1 DEF Spared, YoungestTags
  <2>1. /\ keep \subseteq tags /\ IsFiniteSet(tags) /\ IsFiniteSet(keep)
        /\ Cardinality(tags) \in Nat /\ tags \subseteq DOMAIN age
    BY FS_Subset, FS_CardinalityType DEF YoungestTags, Candidates
  <2>2. keep \cap report' = {} /\ report' \cap Tags \subseteq tags
    BY <1>1 DEF skipped
  <2>3. keep # tags
    BY <2>2
  <2>4. Cardinality(keep) # Cardinality(tags)
    BY <2>1, <2>3, FS_Subset
  <2>5. Cardinality(keep) = KeepRecent
    BY <2>4 DEF YoungestTags
  <2>6. \A k \in keep, o \in report' \cap Tags : age[k] <= age[o]
    BY <2>2 DEF YoungestTags
  <2> QED
    BY <2>1, <2>2, <2>5, <2>6 DEF Keeps
<1> QED
  BY <1>3, <1>4, <1>5, <1>6, <1>7

LEMMA DeletedIsGone ==
  ASSUME NEW o \in DOMAIN age PROVE age # Without({o})
<1>1. o \notin DOMAIN Without({o})
  BY DEF Without
<1> QED
  BY <1>1

\* A deletion takes what it deletes from the report.
LEMMA DeleteCInv == ASSUME CInv, NEW o \in report, Delete(o) PROVE CInv'
<1> USE DEF CInv, Delete
<1>1. /\ DOMAIN age' \subseteq DOMAIN age
      /\ DOMAIN age \ DOMAIN age' \subseteq {o}
      /\ \A p \in DOMAIN age' : age'[p] = age[p]
      /\ failed' \in {failed, failed \cup {o}}
      /\ o \in DOMAIN age' => o \in failed'
  <2>1. CASE age' = Without({o})
    BY <2>1 DEF Without
  <2>2. CASE age' = age
    BY <2>2, DeletedIsGone
  <2> QED
    BY <2>1, <2>2
<1>2. CleanerTypeOK'
  BY <1>1 DEF CleanerTypeOK
<1>3. (ListedAges /\ Emptied /\ Prunable /\ Awake)'
  BY DEF ListedAges, Emptied, Prunable, Awake
<1>4. Followed'
  BY <1>1 DEF Followed
<1>5. Spared'
  <2>1. ASSUME NEW keep \in SUBSET Tags, Keeps(keep) PROVE Keeps(keep)'
    <3>1. o \notin keep
      BY <2>1 DEF Keeps
    <3> QED
      BY <1>1, <2>1, <3>1 DEF Keeps
  <2> QED
    BY <2>1 DEF Spared
<1> QED
  BY <1>2, <1>3, <1>4, <1>5

LEMMA StepCInv == CInv /\ [CleanerNext]_cleanerVars => CInv'
<1> SUFFICES ASSUME CInv, [CleanerNext]_cleanerVars PROVE CInv'
  OBVIOUS
<1>1. CASE UNCHANGED cleanerVars
  BY <1>1 DEF cleanerVars, CInv, CleanerTypeOK, ListedAges, Emptied, Prunable, Awake,
              Followed, Spared, Keeps
<1>2. CASE Decide \/ Pruned
  BY <1>2 DEF Decide, Pruned, CInv, CleanerTypeOK, ListedAges, Emptied, Prunable, Awake,
              Followed, Spared, Keeps
<1> QED
  BY <1>1, <1>2, RunStartsCInv, RunEndsCInv, PushTagCInv, TimePassesCInv, IdentifyCInv,
     DeleteCInv DEF CleanerNext

LEMMA CleanerInvariant == CleanerSpec => []CInv
<1> QED
  BY InitCInv, StepCInv, PTL DEF CleanerSpec

\* CleanerTypeCorrect: the Cleaner's variables keep their types.
THEOREM CleanerTypeCorrect == CleanerSpec => []CleanerTypeOK
<1>1. CInv => CleanerTypeOK
  BY DEF CInv
<1> QED
  BY <1>1, CleanerInvariant, PTL

\* LeaksReclaimed: a complete pruning leaves nothing of a dead run but what was too
\* young, has failed with a message, or is a ConfigMap.
THEOREM LeaksReclaimed == CleanerSpec => []LeaksAreReclaimed
<1>1. CInv => LeaksAreReclaimed
  BY DEF CInv, Followed, Emptied, LeaksAreReclaimed
<1> QED
  BY <1>1, CleanerInvariant, PTL

\* PruningSafe: no deletion removes what was young or live at the listing, nor a
\* shared resource, unless its run has come alive since.
THEOREM PruningSafe == CleanerSpec => PruneIsSafe
<1> DEFINE Safe ==
      \A o \in DOMAIN age \ DOMAIN age' : cleaning = "pruning" /\ active' = active =>
        /\ listed.ages[o] >= AgeThreshold
        /\ o.run \in active => o.run \in resumed
        /\ o \notin {ModelCache, VenvDir}
<1>1. CInv /\ [CleanerNext]_cleanerVars => [Safe]_cleanerVars
  <2> SUFFICES ASSUME CInv, CleanerNext PROVE Safe
    BY DEF cleanerVars
  <2>1. ASSUME NEW r \in RunIds, RunStarts(r) \/ RunEnds(r) PROVE Safe
    BY <2>1 DEF RunStarts, RunEnds
  <2>2. ASSUME NEW t \in Tags, PushTag(t) PROVE Safe
    BY <2>2, Ages DEF PushTag
  <2>3. CASE TimePasses \/ Identify \/ Decide \/ Pruned
    BY <2>3 DEF TimePasses, Identify, Decide, Pruned
  <2>4. ASSUME NEW o \in report, Delete(o) PROVE Safe
    <3>1. DOMAIN age \ DOMAIN age' \subseteq {o}
      BY <2>4 DEF Delete, Without
    <3> QED
      BY <2>4, <3>1 DEF CInv, Prunable, Awake, Shared
  <2> QED
    BY <2>1, <2>2, <2>3, <2>4 DEF CleanerNext
<1> QED
  BY <1>1, CleanerInvariant, PTL DEF CleanerSpec, PruneIsSafe

\* TagsKept: pruning leaves KeepRecent tags beside every tag that it deletes, at least
\* as young.
THEOREM TagsKept == CleanerSpec => RecentTagsKept
<1> DEFINE Beside(o) == {t \in Tags \cap DOMAIN age' : age[t] <= age[o]}
           Kept == \A o \in Tags \cap (DOMAIN age \ DOMAIN age') :
                     KeepRecent <= Cardinality(Beside(o))
<1>1. CInv /\ [CleanerNext]_cleanerVars => [Kept]_cleanerVars
  <2> SUFFICES ASSUME CInv, CleanerNext PROVE Kept
    BY DEF cleanerVars
  <2>1. ASSUME NEW r \in RunIds, RunStarts(r) \/ RunEnds(r) PROVE Kept
    <3>1. DOMAIN age \ DOMAIN age' \subseteq Of(r)
      <4> DEFINE gone == {o \in Of(r) : o.kind \in K8sKinds}
      <4>1. gone \subseteq Of(r)
        OBVIOUS
      <4>2. CASE RunStarts(r)
        BY <4>2, Ages DEF RunStarts
      <4>3. CASE RunEnds(r) /\ age' = Without(gone)
        BY <4>1, <4>3, AgesLeft
      <4>4. CASE RunEnds(r) /\ age' = age
        BY <4>4
      <4> QED
        BY <2>1, <4>2, <4>3, <4>4 DEF RunEnds
    <3> QED
      BY <3>1, Owners
  <2>2. ASSUME NEW t \in Tags, PushTag(t) PROVE Kept
    BY <2>2, Ages DEF PushTag
  <2>3. CASE TimePasses \/ Identify \/ Decide \/ Pruned
    BY <2>3 DEF TimePasses, Identify, Decide, Pruned
  <2>4. ASSUME NEW o \in report, Delete(o), NEW p \in Tags, p \in DOMAIN age \ DOMAIN age'
        PROVE  KeepRecent <= Cardinality(Beside(p))
    <3>1. p = o /\ DOMAIN age' = DOMAIN age \ {o}
      BY <2>4 DEF Delete, Without
    <3>2. PICK keep \in SUBSET Tags : Keeps(keep)
      BY <2>4, <3>1 DEF CInv, Spared, Delete
    <3>3. keep \subseteq Beside(p)
      BY <3>1, <3>2 DEF Keeps
    <3>4. IsFiniteSet(Beside(p))
      BY FS_Subset
    <3> QED
      BY <3>2, <3>3, <3>4, FS_Subset, FS_CardinalityType DEF Keeps
  <2> QED
    BY <2>1, <2>2, <2>3, <2>4 DEF CleanerNext
<1> QED
  BY <1>1, CleanerInvariant, PTL DEF CleanerSpec, RecentTagsKept

=============================================================================
