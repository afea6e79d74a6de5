------------------------------ MODULE Dataset ------------------------------
(***************************************************************************)
(* The prompt pool: how dataset_gen/generator.py divides num_prompts among *)
(* the classes of the mix and numbers their sessions, how load_pool groups *)
(* them, and how the steps of a sweep, which share the pool, consume it    *)
(* (load_gen/scheduler.py).  What a prompt says is left out: its header,   *)
(* which keeps it from sharing a cached prefix, is its session's number.   *)
(* Weights and expected turns are integers in units of the mix's own.      *)
(***************************************************************************)
EXTENDS Naturals, Sequences, FiniteSets, Functions

CONSTANTS
  Mixes,    \* scenario_mix: sequences of [scenario, weight, expected_turns]
  Sizes,    \* num_prompts
  NoClass

ASSUME DatasetAssumption ==
  /\ \A m \in Mixes :
       /\ m \in Seq(Range(m)) \ {<<>>}
       /\ \A i \in DOMAIN m : m[i].weight \in Nat \ {0} /\ m[i].expected_turns \in Nat \ {0}
       /\ \A i, j \in DOMAIN m : m[i].scenario = m[j].scenario => i = j
  /\ Sizes \subseteq Nat \ {0}

VARIABLES
  scenario_mix, num_prompts,  \* dataset_config
  pool,                       \* class -> the sessions not sent yet
  sent,                       \* the sessions started, in order, over the whole sweep
  exhausted                   \* the class of PoolExhaustedError

datasetVars == <<scenario_mix, num_prompts, pool, sent, exhausted>>

\* Python's round: to the nearest, ties to even.
Round(a, b) ==
  LET q == a \div b  r == 2 * (a % b) IN
  IF r > b \/ (r = b /\ q % 2 = 1) THEN q + 1 ELSE q
AtLeastOne(n) == IF n = 0 THEN 1 ELSE n
\* The sums of the first elements of s, from none to all.
Sums(s) ==
  LET sum[i \in 0 .. Len(s)] == IF i = 0 THEN 0 ELSE sum[i - 1] + s[i] IN sum
Total(s) == Sums(s)[Len(s)]

denominator(mix) ==
  Total([i \in DOMAIN mix |-> mix[i].weight * mix[i].expected_turns])

\* A split that forgets that a session has more than one prompt.
num_sessions_by_weight(mix, n) ==                               \* mutant
  LET weights == Total([i \in DOMAIN mix |-> mix[i].weight]) IN
  [i \in DOMAIN mix |->
     AtLeastOne(Round(n * mix[i].weight, weights * mix[i].expected_turns))]

\* num_prompts * share / expected_turns, the expected turns cancelling out.
num_sessions(mix, n) ==
  [i \in DOMAIN mix |-> AtLeastOne(Round(n * mix[i].weight, denominator(mix)))]

\* session_idx goes on from one class to the next.
generate(mix, n) ==
  LET num == num_sessions(mix, n)
      class(slug) == CHOOSE i \in DOMAIN mix : mix[i].scenario = slug
  IN [slug \in {mix[i].scenario : i \in DOMAIN mix} |->
        [k \in 1..num[class(slug)] |-> Sums(num)[class(slug) - 1] + k - 1]]

DatasetInit ==
  /\ scenario_mix \in Mixes /\ num_prompts \in Sizes
  /\ pool = generate(scenario_mix, num_prompts)
  /\ sent = <<>> /\ exhausted = NoClass

\* draw_class falls on any class, as each has some weight.
StartSession(slug) ==
  /\ exhausted = NoClass
  /\ pool[slug] # <<>>
  /\ pool' = [pool EXCEPT ![slug] = Tail(@)]
  /\ sent' = Append(sent, [scenario |-> slug, session_idx |-> Head(pool[slug])])
  /\ UNCHANGED <<scenario_mix, num_prompts, exhausted>>

PoolExhausted(slug) ==
  /\ exhausted = NoClass
  /\ pool[slug] = <<>>
  /\ exhausted' = slug
  /\ UNCHANGED <<scenario_mix, num_prompts, pool, sent>>

DatasetNext == \E slug \in DOMAIN pool : StartSession(slug) \/ PoolExhausted(slug)

DatasetSpec == DatasetInit /\ [][DatasetNext]_datasetVars

(***************************************************************************)
(* Properties.                                                             *)
(***************************************************************************)

DatasetTypeOK ==
  /\ scenario_mix \in Mixes /\ num_prompts \in Sizes
  /\ \A slug \in DOMAIN pool : pool[slug] \in Seq(Nat)
  /\ sent \in Seq([scenario : DOMAIN pool, session_idx : Nat])
  /\ exhausted \in DOMAIN pool \cup {NoClass}

Drawn(slug) == {k \in DOMAIN sent : sent[k].scenario = slug}

\* PromptsOutlast: no two sessions of a sweep carry the same header, whatever their
\* classes, and a class runs dry only after it was drawn, and drawn its weight's part of
\* the sessions that num_prompts is worth (to half a session): never early, whatever the
\* turns of the others (the split's comment in _plan_classes, and section 11.4).
PromptsOutlast ==
  /\ \A i, j \in DOMAIN sent : sent[i].session_idx = sent[j].session_idx => i = j
  /\ exhausted # NoClass =>
       \E i \in DOMAIN scenario_mix :
         LET drawn == Cardinality(Drawn(exhausted))
             den == denominator(scenario_mix)
         IN /\ scenario_mix[i].scenario = exhausted
            /\ drawn > 0
            /\ 2 * den * drawn + den >= 2 * num_prompts * scenario_mix[i].weight

=============================================================================
