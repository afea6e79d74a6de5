---------------------------- MODULE ToolsProofs ----------------------------
(***************************************************************************)
(* Theorems of three small sequential parts: the prompt pool, for any      *)
(* mixes and sizes; planning and starting, for any clusters, any contents  *)
(* of the benchmark YAML and any number of renderings, edits and stagings; *)
(* and the hardware sampler, for any counters, growth, periods and number  *)
(* of ticks.                                                               *)
(***************************************************************************)
EXTENDS Planner, Dataset, Sampler, FiniteSetTheorems, TLAPS

(***************************************************************************)
(* Sums.                                                                   *)
(***************************************************************************)

LEMMA NatLeast ==
  ASSUME NEW T \in SUBSET Nat, T # {}
  PROVE  \E n \in T : \A m \in T : n <= m
<1>1. PICK x \in T : \A y \in T : ~ (<<y, x>> \in OpToRel(<, Nat))
  BY NatLessThanWellFounded, WFMin
<1>2. \A y \in T : ~ (y < x)
  BY <1>1 DEF OpToRel
<1> QED
  BY <1>2

\* The recursion of Sums defines a function: there is no least length at which it fails.
LEMMA SumsRecursion ==
  ASSUME NEW s \in Seq(Nat)
  PROVE  /\ Sums(s) \in [0 .. Len(s) -> Nat] /\ Sums(s)[0] = 0
         /\ \A i \in 1 .. Len(s) : Sums(s)[i] = Sums(s)[i - 1] + s[i]
<1> DEFINE Is(g, n) == g = [i \in 0 .. n |-> IF i = 0 THEN 0 ELSE g[i - 1] + s[i]]
           T == {n \in 0 .. Len(s) : ~ \E g : Is(g, n)}
<1>1. Len(s) \in Nat
  OBVIOUS
<1>2. T = {}
  <2> SUFFICES ASSUME T # {} PROVE FALSE
    OBVIOUS
  <2>1. PICK n \in T : \A m \in T : n <= m
    <3>1. T \in SUBSET Nat
      BY <1>1
    <3> HIDE DEF T
    <3> QED
      BY <3>1, NatLeast
  <2>2. CASE n = 0
    <3> DEFINE g == [i \in 0 .. 0 |-> 0]
    <3>1. Is(g, 0)
      <4>1. \A i \in 0 .. 0 : g[i] = IF i = 0 THEN 0 ELSE g[i - 1] + s[i]
        OBVIOUS
      <4> QED
        BY <4>1
    <3> HIDE DEF g, Is
    <3> QED
      BY <2>1, <2>2, <3>1
  <2>3. CASE n # 0
    <3>1. n \in 1 .. Len(s) /\ n - 1 \in 0 .. Len(s) /\ n - 1 \notin T
      <4>1. n \in 0 .. Len(s)
        OBVIOUS
      <4>2. n \in 1 .. Len(s) /\ n - 1 \in 0 .. Len(s) /\ ~ (n <= n - 1)
        BY <1>1, <2>3, <4>1
      <4> HIDE DEF T
      <4> QED
        BY <2>1, <4>2
    <3>2. PICK g : Is(g, n - 1)
      BY <3>1
    <3> DEFINE h == [i \in 0 .. n |-> IF i = n THEN g[n - 1] + s[n] ELSE g[i]]
    <3>3. \A i \in 0 .. n - 1 : g[i] = IF i = 0 THEN 0 ELSE g[i - 1] + s[i]
      BY <3>2
    <3>4. n \in Nat \ {0}
      BY <1>1, <3>1
    <3>5. \A i \in 0 .. n : h[i] = IF i = 0 THEN 0 ELSE h[i - 1] + s[i]
      <4> TAKE i \in 0 .. n
      <4>1. CASE i = n
        BY <3>4, <4>1
      <4>2. CASE i # n
        <5>1. i \in 0 .. n - 1 /\ h[i] = g[i]
          BY <3>4, <4>2
        <5>2. i # 0 => i - 1 \in 0 .. n /\ i - 1 # n
          BY <3>4, <4>2
        <5> QED
          BY <3>3, <5>1, <5>2
      <4> QED
        BY <4>1, <4>2
    <3>6. Is(h, n)
      <4>1. h = [i \in 0 .. n |-> h[i]]
        OBVIOUS
      <4> QED
        BY <3>5, <4>1
    <3> HIDE DEF h, Is
    <3> QED
      BY <2>1, <3>6
  <2> QED
    BY <2>2, <2>3
<1>3. Is(Sums(s), Len(s))
  <2>1. \E g : Is(g, Len(s))
    BY <1>1, <1>2
  <2>2. Sums(s) = CHOOSE g : Is(g, Len(s))
    BY DEF Sums
  <2> HIDE DEF Is
  <2> QED
    BY <2>1, <2>2
<1>4. /\ DOMAIN Sums(s) = 0 .. Len(s)
      /\ \A i \in 0 .. Len(s) : Sums(s)[i] = IF i = 0 THEN 0 ELSE Sums(s)[i - 1] + s[i]
  BY <1>3
<1> DEFINE U == {i \in 0 .. Len(s) : Sums(s)[i] \notin Nat}
<1>5. U = {}
  <2> SUFFICES ASSUME U # {} PROVE FALSE
    OBVIOUS
  <2>1. PICK i \in U : \A j \in U : i <= j
    <3>1. U \in SUBSET Nat
      BY <1>1
    <3> HIDE DEF U
    <3> QED
      BY <3>1, NatLeast
  <2>2. i # 0 /\ i - 1 \in 0 .. Len(s) /\ i - 1 \notin U /\ s[i] \in Nat
    BY <1>1, <1>4, <2>1
  <2> QED
    BY <1>1, <1>4, <2>1, <2>2
<1>6. Sums(s) \in [0 .. Len(s) -> Nat]
  <2>1. Sums(s) = [i \in 0 .. Len(s) |-> Sums(s)[i]]
    BY <1>3
  <2> QED
    BY <1>5, <2>1
<1> QED
  BY <1>1, <1>4, <1>6

LEMMA SumsMonotone ==
  ASSUME NEW s \in Seq(Nat), NEW i \in 0 .. Len(s)
  PROVE  \A j \in i .. Len(s) : Sums(s)[i] <= Sums(s)[j]
<1> DEFINE T == {j \in i .. Len(s) : ~ (Sums(s)[i] <= Sums(s)[j])}
<1>1. Len(s) \in Nat /\ \A k \in 0 .. Len(s) : Sums(s)[k] \in Nat
  BY SumsRecursion
<1>2. T = {}
  <2> SUFFICES ASSUME T # {} PROVE FALSE
    OBVIOUS
  <2>1. PICK j \in T : \A k \in T : j <= k
    <3>1. T \in SUBSET Nat
      BY <1>1
    <3> HIDE DEF T
    <3> QED
      BY <3>1, NatLeast
  <2>2. j \in i .. Len(s) /\ ~ (Sums(s)[i] <= Sums(s)[j])
    OBVIOUS
  <2>3. j # i
    BY <1>1, <2>2
  <2>4. j - 1 \in i .. Len(s) /\ j \in 1 .. Len(s) /\ ~ (j <= j - 1)
    BY <1>1, <2>2, <2>3
  <2>5. Sums(s)[i] <= Sums(s)[j - 1]
    BY <2>1, <2>4
  <2>6. Sums(s)[j] = Sums(s)[j - 1] + s[j] /\ s[j] \in Nat
    BY <2>4, SumsRecursion
  <2>7. Sums(s)[i] \in Nat /\ Sums(s)[j - 1] \in Nat
    BY <1>1, <2>4
  <2> QED
    BY <2>2, <2>5, <2>6, <2>7
<1> QED
  BY <1>2

(***************************************************************************)
(* The split of the prompts.                                               *)
(***************************************************************************)

LEMMA MixShape ==
  ASSUME NEW mix \in Mixes
  PROVE  /\ Len(mix) \in Nat \ {0} /\ DOMAIN mix = 1 .. Len(mix)
         /\ \A i \in 1 .. Len(mix) :
              mix[i].weight \in Nat \ {0} /\ mix[i].expected_turns \in Nat \ {0}
         /\ \A i, j \in 1 .. Len(mix) : mix[i].scenario = mix[j].scenario => i = j
<1>1. mix \in Seq(Range(mix)) /\ mix # <<>>
  BY DatasetAssumption
<1>2. Len(mix) \in Nat \ {0} /\ DOMAIN mix = 1 .. Len(mix)
  BY <1>1
<1> QED
  BY <1>2, DatasetAssumption

\* The first class has some weight, and the sums only grow.
LEMMA DenominatorPositive ==
  ASSUME NEW mix \in Mixes
  PROVE  denominator(mix) \in Nat \ {0}
<1> DEFINE s == [i \in DOMAIN mix |-> mix[i].weight * mix[i].expected_turns]
<1>1. \A a, b \in Nat \ {0} : a * b \in Nat \ {0}
  BY SMTT(30)
<1>2. \A i \in DOMAIN mix : s[i] \in Nat \ {0}
  BY <1>1, MixShape
<1>3. s \in Seq(Nat) /\ Len(s) = Len(mix) /\ Len(s) \in Nat \ {0}
  BY <1>2, MixShape
<1>4. s[1] \in Nat \ {0}
  BY <1>2, MixShape
<1>5. denominator(mix) = Sums(s)[Len(s)]
  BY DEF denominator, Total
<1> HIDE DEF s
<1>6. Sums(s)[1] = s[1]
  <2>1. 1 \in 1 .. Len(s)
    BY <1>3
  <2>2. Sums(s)[1] = Sums(s)[1 - 1] + s[1] /\ Sums(s)[0] = 0
    BY <1>3, <2>1, SumsRecursion
  <2> QED
    BY <1>4, <2>2
<1>7. Sums(s)[1] <= Sums(s)[Len(s)] /\ Sums(s)[Len(s)] \in Nat
  <2>1. 1 \in 0 .. Len(s) /\ Len(s) \in 1 .. Len(s) /\ Len(s) \in 0 .. Len(s)
    BY <1>3
  <2>2. Sums(s) \in [0 .. Len(s) -> Nat]
    BY <1>3, SumsRecursion
  <2> QED
    BY <1>3, <2>1, <2>2, SumsMonotone
<1> QED
  BY <1>4, <1>5, <1>6, <1>7

LEMMA Rounded ==
  ASSUME NEW a \in Nat, NEW b \in Nat \ {0}
  PROVE  Round(a, b) \in Nat /\ 2 * b * Round(a, b) + b >= 2 * a
<1>1. a \div b \in Nat /\ a % b \in 0 .. b - 1 /\ a = b * (a \div b) + (a % b)
  BY SMTT(30)
<1>2. PICK q \in Nat, r \in 0 .. b - 1 : q = a \div b /\ r = a % b /\ a = b * q + r
  BY <1>1
<1>3. b * q \in Nat /\ b * (q + 1) = b * q + b
  BY SMTT(30)
<1>4. \A x \in Nat : 2 * b * x = 2 * (b * x)
  BY SMTT(30)
<1>5. CASE Round(a, b) = q + 1
  <2>1. 2 * b * (q + 1) = 2 * (b * (q + 1))
    BY <1>4
  <2>2. 2 * b * (q + 1) = 2 * (b * q) + 2 * b
    BY <1>3, <2>1
  <2> QED
    BY <1>2, <1>3, <1>5, <2>2
<1>6. CASE Round(a, b) = q /\ ~ (2 * r > b)
  <2>1. 2 * b * q = 2 * (b * q)
    BY <1>4
  <2> QED
    BY <1>2, <1>3, <1>6, <2>1
<1>7. Round(a, b) = q + 1 \/ (Round(a, b) = q /\ ~ (2 * r > b))
  BY <1>2 DEF Round
<1> QED
  BY <1>5, <1>6, <1>7

LEMMA Shares ==
  ASSUME NEW mix \in Mixes, NEW n \in Sizes
  PROVE  LET num == num_sessions(mix, n) den == denominator(mix) IN
         /\ num \in Seq(Nat) /\ Len(num) = Len(mix)
         /\ \A i \in 1 .. Len(mix) :
              /\ num[i] \in Nat \ {0}
              /\ 2 * den * num[i] + den >= 2 * n * mix[i].weight
<1> DEFINE num == num_sessions(mix, n)
           den == denominator(mix)
<1>0. den \in Nat \ {0}
  BY DenominatorPositive
<1>1. ASSUME NEW i \in 1 .. Len(mix)
      PROVE  num[i] \in Nat \ {0} /\ 2 * den * num[i] + den >= 2 * n * mix[i].weight
  <2> DEFINE a == n * mix[i].weight
  <2>1. n \in Nat /\ mix[i].weight \in Nat
    BY DatasetAssumption, MixShape
  <2>2. a \in Nat /\ 2 * n * mix[i].weight = 2 * a
    BY <2>1, SMTT(30)
  <2>3. num[i] = AtLeastOne(Round(a, den))
    BY MixShape DEF num_sessions
  <2> HIDE DEF a, num, den
  <2>4. Round(a, den) \in Nat /\ 2 * den * Round(a, den) + den >= 2 * a
    BY <1>0, <2>2, Rounded
  <2>5. CASE Round(a, den) = 0
    <3>1. 2 * den * 0 = 0 /\ 2 * den * 1 = 2 * den
      BY <1>0
    <3>2. num[i] = 1
      BY <2>3, <2>5 DEF AtLeastOne
    <3> QED
      BY <1>0, <2>2, <2>4, <2>5, <3>1, <3>2
  <2>6. CASE Round(a, den) # 0
    BY <2>2, <2>3, <2>4, <2>6 DEF AtLeastOne
  <2> QED
    BY <2>5, <2>6
<1>2. num = [i \in 1 .. Len(mix) |-> num[i]]
  BY MixShape DEF num_sessions
<1>3. Len(mix) \in Nat
  BY MixShape
<1> HIDE DEF num, den
<1>4. num \in Seq(Nat) /\ Len(num) = Len(mix)
  <2>1. num \in [1 .. Len(mix) -> Nat]
    BY <1>1, <1>2
  <2> QED
    BY <1>3, <2>1
<1> QED
  BY <1>1, <1>4 DEF num, den

\* The numbers of two classes do not meet: the sums step from one to the next.
LEMMA ApartClasses ==
  ASSUME NEW num \in Seq(Nat), NEW i \in 1 .. Len(num), NEW j \in 1 .. Len(num), i < j,
         NEW x \in Nat, NEW y \in Nat,
         x < Sums(num)[i - 1] + num[i], Sums(num)[j - 1] <= y
  PROVE  x # y
<1>1. i \in 0 .. Len(num) /\ j - 1 \in i .. Len(num) /\ j - 1 \in 0 .. Len(num)
  OBVIOUS
<1>2. Sums(num)[i] = Sums(num)[i - 1] + num[i]
  BY SumsRecursion
<1>3. Sums(num)[i] <= Sums(num)[j - 1]
  BY <1>1, SumsMonotone
<1>4. Sums(num)[i] \in Nat /\ Sums(num)[j - 1] \in Nat
  BY <1>1, SumsRecursion
<1> QED
  BY <1>2, <1>3, <1>4

(***************************************************************************)
(* The pool.  What is left of a class and what was drawn of it make its    *)
(* share, and its sessions are numbered from the sum of the shares before. *)
(***************************************************************************)

Numbered ==
  LET num == num_sessions(scenario_mix, num_prompts) IN
  /\ DOMAIN pool = {scenario_mix[i].scenario : i \in DOMAIN scenario_mix}
  /\ \A i \in DOMAIN scenario_mix :
       LET slug == scenario_mix[i].scenario
           drawn == Cardinality(Drawn(slug))
           first == Sums(num)[i - 1]
       IN /\ Len(pool[slug]) + drawn = num[i]
          /\ \A k \in DOMAIN pool[slug] : pool[slug][k] = first + drawn + k - 1
          /\ \A k \in Drawn(slug) :
               first <= sent[k].session_idx /\ sent[k].session_idx < first + drawn
  /\ \A j, k \in DOMAIN sent : sent[j].session_idx = sent[k].session_idx => j = k
  /\ exhausted # NoClass => exhausted \in DOMAIN pool /\ pool[exhausted] = <<>>

DInv == DatasetTypeOK /\ Numbered

LEMMA DrawnFinite ==
  ASSUME DatasetTypeOK, NEW slug
  PROVE  IsFiniteSet(Drawn(slug)) /\ Cardinality(Drawn(slug)) \in Nat
<1>1. Drawn(slug) \subseteq 1 .. Len(sent) /\ Len(sent) \in Nat
  BY DEF DatasetTypeOK, Drawn
<1>2. IsFiniteSet(1 .. Len(sent))
  BY <1>1, FS_Interval
<1>3. IsFiniteSet(Drawn(slug))
  BY <1>1, <1>2, FS_Subset
<1> QED
  BY <1>3, FS_CardinalityType

LEMMA DatasetInitInv == DatasetInit => DInv
<1> SUFFICES ASSUME DatasetInit PROVE DInv
  OBVIOUS
<1> DEFINE mix == scenario_mix
           num == num_sessions(mix, num_prompts)
           class(slug) == CHOOSE i \in DOMAIN mix : mix[i].scenario = slug
<1>1. mix \in Mixes /\ num_prompts \in Sizes /\ sent = <<>> /\ exhausted = NoClass
  BY DEF DatasetInit
<1>2. DOMAIN mix = 1 .. Len(mix) /\ num \in Seq(Nat) /\ Len(num) = Len(mix) /\ Len(mix) \in Nat
  BY <1>1, MixShape, Shares
<1>3. pool = [slug \in {mix[i].scenario : i \in DOMAIN mix} |->
        [k \in 1..num[class(slug)] |-> Sums(num)[class(slug) - 1] + k - 1]]
  BY DEF DatasetInit, generate
<1>4. ASSUME NEW i \in DOMAIN mix
      PROVE  class(mix[i].scenario) = i
  <2>1. \A j \in DOMAIN mix : mix[j].scenario = mix[i].scenario => j = i
    BY <1>1, <1>2, MixShape
  <2> QED
    BY <2>1
<1> HIDE DEF num, class
<1>5. ASSUME NEW i \in DOMAIN mix
      PROVE  /\ pool[mix[i].scenario] = [k \in 1..num[i] |-> Sums(num)[i - 1] + k - 1]
             /\ num[i] \in Nat /\ Sums(num)[i - 1] \in Nat
  <2>1. i - 1 \in 0 .. Len(num) /\ i \in 1 .. Len(num)
    BY <1>2
  <2>2. Sums(num) \in [0 .. Len(num) -> Nat]
    BY <1>2, SumsRecursion
  <2>3. num[i] \in Nat /\ Sums(num)[i - 1] \in Nat
    BY <1>2, <2>1, <2>2
  <2>4. mix[i].scenario \in {mix[j].scenario : j \in DOMAIN mix}
    OBVIOUS
  <2>5. pool[mix[i].scenario]
          = [k \in 1..num[class(mix[i].scenario)] |-> Sums(num)[class(mix[i].scenario) - 1] + k - 1]
    BY <1>3, <2>4
  <2> QED
    BY <1>4, <2>3, <2>5
<1>6. ASSUME NEW i \in DOMAIN mix
      PROVE  /\ pool[mix[i].scenario] \in Seq(Nat)
             /\ Len(pool[mix[i].scenario]) = num[i]
             /\ DOMAIN pool[mix[i].scenario] = 1 .. num[i]
  <2> DEFINE left == pool[mix[i].scenario]
             n == num[i]
             f == Sums(num)[i - 1]
  <2>1. left = [k \in 1 .. n |-> f + k - 1] /\ n \in Nat /\ f \in Nat
    BY <1>5
  <2> HIDE DEF left, n, f
  <2>2. \A k \in 1 .. n : f + k - 1 \in Nat
    BY <2>1
  <2>3. left \in [1 .. n -> Nat]
    BY <2>1, <2>2
  <2>4. left \in Seq(Nat) /\ Len(left) = n /\ DOMAIN left = 1 .. n
    BY <2>1, <2>3
  <2> QED
    BY <2>4 DEF left, n
<1>7. \A slug : Drawn(slug) = {}
  BY <1>1 DEF Drawn
<1>8. DatasetTypeOK
  <2>1. \A slug \in DOMAIN pool : pool[slug] \in Seq(Nat)
    BY <1>3, <1>6
  <2>2. sent \in Seq([scenario : DOMAIN pool, session_idx : Nat])
    BY <1>1
  <2> QED
    BY <1>1, <2>1, <2>2 DEF DatasetTypeOK
<1>9. Cardinality({}) = 0
  BY FS_EmptySet
<1>10. ASSUME NEW i \in DOMAIN mix
       PROVE  /\ Len(pool[mix[i].scenario]) + 0 = num[i]
              /\ \A k \in DOMAIN pool[mix[i].scenario] :
                   pool[mix[i].scenario][k] = Sums(num)[i - 1] + 0 + k - 1
  <2>1. num[i] \in Nat /\ Sums(num)[i - 1] \in Nat
    BY <1>5
  <2>2. \A k \in 1 .. num[i] : pool[mix[i].scenario][k] = Sums(num)[i - 1] + k - 1
    BY <1>5
  <2> DEFINE f == Sums(num)[i - 1]
             n == num[i]
  <2>3. \A k \in 1 .. n : f + k - 1 = f + 0 + k - 1 /\ n + 0 = n
    <3> HIDE DEF f, n
    <3> QED
      BY <2>1 DEF f, n
  <2>4. \A k \in 1 .. n : pool[mix[i].scenario][k] = f + 0 + k - 1
    BY <2>2, <2>3
  <2>5. Len(pool[mix[i].scenario]) + 0 = num[i]
    BY <1>6, <2>1
  <2> QED
    BY <1>6, <2>4, <2>5
<1>11. DOMAIN pool = {mix[i].scenario : i \in DOMAIN mix} /\ DOMAIN sent = {}
  BY <1>1, <1>3
<1> QED
  BY <1>1, <1>7, <1>8, <1>9, <1>10, <1>11 DEF DInv, Numbered, num

LEMMA StartSessionNumbered ==
  ASSUME DInv, NEW new \in DOMAIN pool, StartSession(new)
  PROVE  DInv'
<1>0. PICK mix \in Mixes, n \in Sizes : mix = scenario_mix /\ n = num_prompts
  BY DEF DInv, DatasetTypeOK
<1> DEFINE num == num_sessions(mix, n)
           drawn(slug) == Cardinality(Drawn(slug))
           first(i) == Sums(num)[i - 1]
           at == Len(sent) + 1
<1>1. DatasetTypeOK
  BY DEF DInv
<1>2. DOMAIN mix = 1 .. Len(mix) /\ num \in Seq(Nat) /\ Len(num) = Len(mix) /\ Len(mix) \in Nat
  BY MixShape, Shares
<1>3. /\ DOMAIN pool = {mix[i].scenario : i \in DOMAIN mix}
      /\ \A i \in DOMAIN mix :
           /\ Len(pool[mix[i].scenario]) + drawn(mix[i].scenario) = num[i]
           /\ \A k \in DOMAIN pool[mix[i].scenario] :
                pool[mix[i].scenario][k] = first(i) + drawn(mix[i].scenario) + k - 1
           /\ \A k \in Drawn(mix[i].scenario) :
                /\ first(i) <= sent[k].session_idx
                /\ sent[k].session_idx < first(i) + drawn(mix[i].scenario)
      /\ \A j, k \in DOMAIN sent : sent[j].session_idx = sent[k].session_idx => j = k
  BY <1>0 DEF DInv, Numbered
<1>4. /\ exhausted = NoClass /\ exhausted' = NoClass /\ pool[new] # <<>>
      /\ pool' = [pool EXCEPT ![new] = Tail(@)]
      /\ sent' = Append(sent, [scenario |-> new, session_idx |-> Head(pool[new])])
      /\ scenario_mix' = mix /\ num_prompts' = n
  BY <1>0 DEF StartSession
<1>5. /\ \A slug \in DOMAIN pool : pool[slug] \in Seq(Nat)
      /\ sent \in Seq([scenario : DOMAIN pool, session_idx : Nat])
  BY <1>1 DEF DatasetTypeOK
<1>6. \A slug : drawn(slug) \in Nat /\ IsFiniteSet(Drawn(slug))
  BY <1>1, DrawnFinite
<1>7. \A i \in DOMAIN mix : first(i) \in Nat /\ num[i] \in Nat
  <2> TAKE i \in DOMAIN mix
  <2>1. i - 1 \in 0 .. Len(num) /\ i \in 1 .. Len(num)
    BY <1>2
  <2> HIDE DEF num
  <2>2. Sums(num) \in [0 .. Len(num) -> Nat]
    BY <1>2, SumsRecursion
  <2> QED
    BY <1>2, <2>1, <2>2
<1>8. \A i, j \in DOMAIN mix : mix[i].scenario = mix[j].scenario => i = j
  BY <1>2, MixShape
<1>9. PICK c \in DOMAIN mix : mix[c].scenario = new
  BY <1>3
<1>10. /\ Head(pool[new]) = first(c) + drawn(new) /\ Head(pool[new]) \in Nat
       /\ Len(pool[new]) \in Nat \ {0} /\ drawn(new) < num[c]
  <2>1. Len(pool[new]) \in Nat \ {0} /\ Head(pool[new]) = pool[new][1] /\ 1 \in DOMAIN pool[new]
    BY <1>4, <1>5
  <2>2. pool[new][1] = first(c) + drawn(new) + 1 - 1 /\ Len(pool[new]) + drawn(new) = num[c]
    BY <1>3, <1>9, <2>1
  <2> HIDE DEF first, drawn, num
  <2> QED
    BY <1>6, <1>7, <2>1, <2>2
<1> DEFINE idx == Head(pool[new])
<1>11. /\ Len(sent) \in Nat /\ DOMAIN sent = 1 .. Len(sent) /\ DOMAIN sent' = 1 .. at
       /\ sent'[at] = [scenario |-> new, session_idx |-> idx]
       /\ \A k \in DOMAIN sent : sent'[k] = sent[k]
       /\ \A k \in DOMAIN sent : sent[k].scenario \in DOMAIN pool /\ sent[k].session_idx \in Nat
  <2>1. sent \in Seq([scenario : DOMAIN pool, session_idx : Nat])
    BY <1>5
  <2>2. [scenario |-> new, session_idx |-> idx] \in [scenario : DOMAIN pool, session_idx : Nat]
    BY <1>10
  <2>3. sent' = Append(sent, [scenario |-> new, session_idx |-> idx])
    BY <1>4
  <2> HIDE DEF idx
  <2>4. Len(sent) \in Nat /\ DOMAIN sent = 1 .. Len(sent)
    BY <2>1
  <2>5. \A k \in DOMAIN sent : sent[k] \in [scenario : DOMAIN pool, session_idx : Nat]
    <3> DEFINE S == [scenario : DOMAIN pool, session_idx : Nat]
    <3>1. sent \in Seq(S)
      BY <2>1
    <3> HIDE DEF S
    <3>2. \A k \in 1 .. Len(sent) : sent[k] \in S
      BY <3>1
    <3> QED
      BY <2>4, <3>2 DEF S
  <2>6. /\ DOMAIN sent' = 1 .. at
        /\ sent'[at] = [scenario |-> new, session_idx |-> idx]
        /\ \A k \in DOMAIN sent : sent'[k] = sent[k]
    BY <2>1, <2>2, <2>3
  <2> QED
    BY <2>4, <2>5, <2>6
<1> HIDE DEF idx
<1>12. Drawn(new)' = Drawn(new) \cup {at} /\ at \notin Drawn(new)
  BY <1>11 DEF Drawn
<1>13. \A slug : slug # new => Drawn(slug)' = Drawn(slug)
  <2> TAKE slug
  <2> HAVE slug # new
  <2>1. sent'[at].scenario # slug
    BY <1>11
  <2>2. \A k : k \in DOMAIN sent' <=> k \in DOMAIN sent \/ k = at
    BY <1>11
  <2>3. \A k : k \in Drawn(slug)' <=> k \in Drawn(slug)
    BY <1>11, <2>1, <2>2 DEF Drawn
  <2> QED
    BY <2>3
<1>14. Cardinality(Drawn(new)') = drawn(new) + 1
  BY <1>6, <1>12, FS_AddElement
<1>15. /\ DOMAIN pool' = DOMAIN pool
       /\ pool'[new] = Tail(pool[new])
       /\ \A slug \in DOMAIN pool : slug # new => pool'[slug] = pool[slug]
  BY <1>4
<1>16. /\ pool'[new] \in Seq(Nat) /\ Len(pool'[new]) = Len(pool[new]) - 1
       /\ \A k \in DOMAIN pool'[new] : k + 1 \in DOMAIN pool[new] /\ pool'[new][k] = pool[new][k + 1]
  BY <1>4, <1>5, <1>15
<1>17. DatasetTypeOK'
  <2>1. \A slug \in DOMAIN pool' : pool'[slug] \in Seq(Nat)
    BY <1>5, <1>15, <1>16
  <2>2. sent' \in Seq([scenario : DOMAIN pool', session_idx : Nat])
    BY <1>4, <1>5, <1>10, <1>15
  <2> QED
    BY <1>1, <1>4, <2>1, <2>2 DEF DatasetTypeOK
<1>18. ASSUME NEW i \in DOMAIN mix, i # c
       PROVE  /\ mix[i].scenario # new
              /\ pool'[mix[i].scenario] = pool[mix[i].scenario]
              /\ Drawn(mix[i].scenario)' = Drawn(mix[i].scenario)
  <2>1. mix[i].scenario # new
    BY <1>8, <1>9, <1>18
  <2>2. mix[i].scenario \in DOMAIN pool
    BY <1>3
  <2>3. pool'[mix[i].scenario] = pool[mix[i].scenario]
    BY <1>15, <2>1, <2>2
  <2>4. Drawn(mix[i].scenario)' = Drawn(mix[i].scenario)
    BY <1>13, <2>1
  <2> QED
    BY <2>1, <2>3, <2>4
<1>19. ASSUME NEW i \in DOMAIN mix
       PROVE  /\ Len(pool'[mix[i].scenario]) + Cardinality(Drawn(mix[i].scenario)') = num[i]
              /\ \A k \in DOMAIN pool'[mix[i].scenario] :
                   pool'[mix[i].scenario][k]
                     = first(i) + Cardinality(Drawn(mix[i].scenario)') + k - 1
              /\ \A k \in Drawn(mix[i].scenario)' :
                   /\ first(i) <= sent'[k].session_idx
                   /\ sent'[k].session_idx < first(i) + Cardinality(Drawn(mix[i].scenario)')
  <2> HIDE DEF num, first
  <2>1. CASE i # c
    <3>1. \A k \in Drawn(mix[i].scenario) : sent'[k] = sent[k]
      BY <1>11 DEF Drawn
    <3> QED
      BY <1>3, <1>18, <2>1, <3>1
  <2>2. CASE i = c
    <3>1. first(c) \in Nat /\ num[c] \in Nat /\ drawn(new) \in Nat
      BY <1>6, <1>7
    <3>2. Len(pool[new]) + drawn(new) = num[c]
      BY <1>3, <1>9
    <3>3. \A k \in DOMAIN pool[new] : pool[new][k] = first(c) + drawn(new) + k - 1
      BY <1>3, <1>9
    <3>4. \A k \in Drawn(new) :
            first(c) <= sent[k].session_idx /\ sent[k].session_idx < first(c) + drawn(new)
      BY <1>3, <1>9
    <3>5. \A k \in Drawn(new) : sent'[k] = sent[k] /\ sent[k].session_idx \in Nat
      BY <1>11 DEF Drawn
    <3> HIDE DEF drawn
    <3>6. Len(pool'[new]) + (drawn(new) + 1) = num[c]
      BY <1>10, <1>16, <3>1, <3>2
    <3>7. \A k \in DOMAIN pool'[new] : pool'[new][k] = first(c) + (drawn(new) + 1) + k - 1
      <4> TAKE k \in DOMAIN pool'[new]
      <4>1. k \in Nat
        BY <1>16
      <4>2. pool'[new][k] = first(c) + drawn(new) + (k + 1) - 1
        BY <1>16, <3>3
      <4> QED
        BY <3>1, <4>1, <4>2
    <3>8. \A k \in Drawn(new)' :
            /\ first(c) <= sent'[k].session_idx
            /\ sent'[k].session_idx < first(c) + (drawn(new) + 1)
      <4> TAKE k \in Drawn(new)'
      <4>1. CASE k = at
        BY <1>10, <1>11, <3>1, <4>1 DEF idx
      <4>2. CASE k \in Drawn(new)
        BY <3>1, <3>4, <3>5, <4>2
      <4> QED
        BY <1>12, <4>1, <4>2
    <3>9. mix[i].scenario = new /\ Cardinality(Drawn(mix[i].scenario)') = drawn(new) + 1
      BY <1>9, <1>14, <2>2
    <3> QED
      BY <2>2, <3>6, <3>7, <3>8, <3>9
  <2> QED
    BY <2>1, <2>2
<1>20. ASSUME NEW k \in DOMAIN sent
       PROVE  sent[k].session_idx # idx
  <2>1. PICK i \in DOMAIN mix : mix[i].scenario = sent[k].scenario
    BY <1>3, <1>11
  <2>2. k \in Drawn(mix[i].scenario)
    BY <2>1 DEF Drawn
  <2> DEFINE old == sent[k].session_idx
             d == drawn(mix[i].scenario)
             e == drawn(new)
  <2>3. first(i) <= old /\ old < first(i) + d /\ Len(pool[mix[i].scenario]) + d = num[i]
    BY <1>3, <2>2
  <2>4. old \in Nat /\ idx \in Nat /\ d \in Nat /\ e \in Nat /\ Len(pool[mix[i].scenario]) \in Nat
    <3>1. old \in Nat
      BY <1>11
    <3>2. idx \in Nat
      BY <1>10 DEF idx
    <3>3. d \in Nat /\ e \in Nat
      BY <1>6
    <3>4. mix[i].scenario \in DOMAIN pool
      BY <1>3
    <3>5. Len(pool[mix[i].scenario]) \in Nat
      BY <1>5, <3>4
    <3> QED
      BY <3>1, <3>2, <3>3, <3>5
  <2>5. idx = first(c) + e /\ e < num[c]
    BY <1>10 DEF idx
  <2>6. i \in 1 .. Len(num) /\ c \in 1 .. Len(num)
    BY <1>2
  <2>7. /\ first(i) \in Nat /\ first(c) \in Nat /\ num[i] \in Nat /\ num[c] \in Nat
    BY <1>7
  <2>8. i = c => d = e
    BY <1>9
  <2> HIDE DEF old, d, e
  <2>9. /\ old < first(i) + num[i] /\ first(i) <= old
        /\ idx < first(c) + num[c] /\ first(c) <= idx
    <3> DEFINE l == Len(pool[mix[i].scenario])
               ni == num[i]
               nc == num[c]
    <3>1. first(i) <= old /\ old < first(i) + d /\ l + d = ni /\ l \in Nat /\ ni \in Nat /\ nc \in Nat
      BY <2>3, <2>4, <2>7
    <3>2. idx = first(c) + e /\ e < nc
      BY <2>5
    <3> HIDE DEF first, num, l, ni, nc
    <3>3. /\ old < first(i) + ni /\ first(i) <= old
          /\ idx < first(c) + nc /\ first(c) <= idx
      BY <2>4, <2>7, <3>1, <3>2
    <3> QED
      BY <3>3 DEF ni, nc
  <2> HIDE DEF num
  <2>10. CASE i = c
    <3> HIDE DEF first
    <3> QED
      BY <2>3, <2>4, <2>5, <2>7, <2>8, <2>10 DEF old
  <2>11. CASE i < c
    <3>1. old # idx
      BY <1>2, <2>4, <2>6, <2>9, <2>11, ApartClasses
    <3> QED
      BY <3>1 DEF old
  <2>12. CASE c < i
    <3>1. idx # old
      BY <1>2, <2>4, <2>6, <2>9, <2>12, ApartClasses
    <3> QED
      BY <3>1 DEF old
  <2> QED
    BY <2>6, <2>10, <2>11, <2>12
<1>21. \A j, k \in DOMAIN sent' : sent'[j].session_idx = sent'[k].session_idx => j = k
  <2> TAKE j, k \in DOMAIN sent'
  <2>1. /\ j = at => sent'[j].session_idx = idx
        /\ k = at => sent'[k].session_idx = idx
        /\ j # at => j \in DOMAIN sent /\ sent'[j] = sent[j]
        /\ k # at => k \in DOMAIN sent /\ sent'[k] = sent[k]
    BY <1>11
  <2> QED
    BY <1>3, <1>20, <2>1
<1>22. Numbered'
  <2>1. num_sessions(scenario_mix, num_prompts)' = num /\ scenario_mix' = mix
    BY <1>4
  <2>2. DOMAIN pool' = {mix[i].scenario : i \in DOMAIN mix}
    BY <1>3, <1>15
  <2>3. exhausted' = NoClass
    BY <1>4
  <2>4. \A i \in DOMAIN mix :
          /\ Len(pool'[mix[i].scenario]) + Cardinality(Drawn(mix[i].scenario)') = num[i]
          /\ \A k \in DOMAIN pool'[mix[i].scenario] :
               pool'[mix[i].scenario][k]
                 = Sums(num)[i - 1] + Cardinality(Drawn(mix[i].scenario)') + k - 1
          /\ \A k \in Drawn(mix[i].scenario)' :
               /\ Sums(num)[i - 1] <= sent'[k].session_idx
               /\ sent'[k].session_idx
                    < Sums(num)[i - 1] + Cardinality(Drawn(mix[i].scenario)')
    BY <1>19
  <2> HIDE DEF num
  <2> QED
    BY <1>21, <2>1, <2>2, <2>3, <2>4 DEF Numbered
<1> QED
  BY <1>17, <1>22 DEF DInv

LEMMA DatasetInvariant == DatasetSpec => []DInv
<1>1. DInv /\ [DatasetNext]_datasetVars => DInv'
  <2> SUFFICES ASSUME DInv, [DatasetNext]_datasetVars PROVE DInv'
    OBVIOUS
  <2>1. CASE UNCHANGED datasetVars
    <3>1. /\ scenario_mix' = scenario_mix /\ num_prompts' = num_prompts
          /\ pool' = pool /\ sent' = sent /\ exhausted' = exhausted
      BY <2>1 DEF datasetVars
    <3>2. \A slug : Drawn(slug)' = Drawn(slug)
      BY <3>1 DEF Drawn
    <3>3. DatasetTypeOK'
      BY <3>1 DEF DInv, DatasetTypeOK
    <3>4. Numbered'
      BY <3>1, <3>2 DEF DInv, Numbered
    <3> QED
      BY <3>3, <3>4 DEF DInv
  <2>2. ASSUME NEW slug \in DOMAIN pool, StartSession(slug)
        PROVE  DInv'
    BY <2>2, StartSessionNumbered
  <2>3. ASSUME NEW slug \in DOMAIN pool, PoolExhausted(slug)
        PROVE  DInv'
    <3>1. /\ scenario_mix' = scenario_mix /\ num_prompts' = num_prompts
          /\ pool' = pool /\ sent' = sent /\ exhausted' = slug /\ pool[slug] = <<>>
      BY <2>3 DEF PoolExhausted
    <3>2. \A other : Drawn(other)' = Drawn(other)
      BY <3>1 DEF Drawn
    <3>3. DatasetTypeOK'
      BY <3>1 DEF DInv, DatasetTypeOK
    <3>4. Numbered'
      BY <3>1, <3>2 DEF DInv, Numbered
    <3> QED
      BY <3>3, <3>4 DEF DInv
  <2> QED
    BY <2>1, <2>2, <2>3 DEF DatasetNext
<1> QED
  BY <1>1, DatasetInitInv, PTL DEF DatasetSpec

\* DatasetTypeCorrect: the pool, what was sent of it and the class that ran dry keep their types.
THEOREM DatasetTypeCorrect == DatasetSpec => []DatasetTypeOK
<1>1. DInv => DatasetTypeOK
  BY DEF DInv
<1> QED
  BY <1>1, DatasetInvariant, PTL

\* PoolOutlasts: for any mix that names each class once (DatasetAssumption) and any size,
\* the headers of a sweep's sessions differ, and a class that runs dry had its whole share
\* of the prompts drawn, which is its weight's.
THEOREM PoolOutlasts == DatasetSpec => []PromptsOutlast
<1>1. DInv => PromptsOutlast
  <2> SUFFICES ASSUME DInv PROVE PromptsOutlast
    OBVIOUS
  <2> DEFINE mix == scenario_mix
             num == num_sessions(mix, num_prompts)
  <2>1. mix \in Mixes /\ num_prompts \in Sizes
    BY DEF DInv, DatasetTypeOK
  <2>2. ASSUME exhausted # NoClass
        PROVE  \E i \in DOMAIN scenario_mix :
                 LET drawn == Cardinality(Drawn(exhausted))
                     den == denominator(scenario_mix)
                 IN /\ scenario_mix[i].scenario = exhausted
                    /\ drawn > 0
                    /\ 2 * den * drawn + den >= 2 * num_prompts * scenario_mix[i].weight
    <3>1. PICK i \in DOMAIN mix : mix[i].scenario = exhausted /\ pool[exhausted] = <<>>
      BY <2>2 DEF DInv, Numbered
    <3>2. Len(pool[exhausted]) + Cardinality(Drawn(exhausted)) = num[i]
      BY <3>1 DEF DInv, Numbered
    <3>3. Cardinality(Drawn(exhausted)) = num[i]
      <4>1. Cardinality(Drawn(exhausted)) \in Nat
        BY DrawnFinite DEF DInv
      <4>2. Len(pool[exhausted]) = 0
        BY <3>1
      <4> HIDE DEF num
      <4> QED
        BY <3>2, <4>1, <4>2
    <3>4. /\ num[i] \in Nat \ {0}
          /\ 2 * denominator(mix) * num[i] + denominator(mix) >= 2 * num_prompts * mix[i].weight
      BY <2>1, MixShape, Shares
    <3> QED
      BY <3>1, <3>3, <3>4
  <2> QED
    BY <2>2 DEF DInv, Numbered, PromptsOutlast
<1> QED
  BY <1>1, DatasetInvariant, PTL

(***************************************************************************)
(* The planner.  Rendered says what the renderer puts into a run           *)
(* directory; Copied, that staging takes such a directory along with some  *)
(* copy of the YAML; Done, that the run was started from what was staged,  *)
(* which stays.                                                            *)
(***************************************************************************)

Fits(dir) ==
  /\ dir.benchmarker_partition # Unset
  /\ dir.engine.tp <= dir.gpus_per_node
  /\ ~dir.external =>
       /\ dir.partition # Unset
       /\ total_gpus(dir.engine) <= dir.nodes * dir.gpus_per_node
       /\ (dir.nodes - 1) * dir.gpus_per_node < total_gpus(dir.engine)
IsRunDir(dir) == dir.engine = dir.from[dir.index] /\ dir.index \in DOMAIN dir.from /\ Fits(dir)

Rendered == \A r \in DOMAIN exp_dir.runs : IsRunDir(exp_dir.runs[r])
Copied == \A r \in DOMAIN staged : IsRunDir(staged[r].dir)
Done == \A r \in DOMAIN started : started[r] = StartOutcome(staged[r].config, staged[r].dir)

PInv == PlannerTypeOK /\ Rendered /\ Copied /\ Done

USE PlannerAssumption

\* Rounding up: enough nodes, and none to spare.
LEMMA Ceiling ==
  ASSUME NEW a \in Nat \ {0}, NEW b \in Nat \ {0}
  PROVE  /\ Ceil(a, b) \in Nat
         /\ a <= Ceil(a, b) * b
         /\ (Ceil(a, b) - 1) * b < a
<1>1. PICK q \in Int, r \in 0 .. b - 1 : a + b - 1 = q * b + r /\ q = (a + b - 1) \div b
  OBVIOUS
<1> QED
  BY <1>1 DEF Ceil

\* What is rendered from a valid YAML fits its cluster.
LEMMA RunDirFits ==
  ASSUME PlannerTypeOK, load_benchmark_config(yaml), NEW i \in DOMAIN yaml
  PROVE  IsRunDir(RunDir(yaml, i))
<1> DEFINE d == yaml[i]
           cluster == clusters[d.target]
           dir == RunDir(yaml, i)
<1>1. /\ d.target \in DOMAIN clusters /\ d.tp <= cluster.gpus_per_node
      /\ per_type_fields(cluster) /\ benchmarker_clusters_valid
      /\ \A c \in DOMAIN clusters : per_type_fields(clusters[c])
  BY DEF load_benchmark_config, validate_against_globals, GlobalConfigValid
<1>2. /\ cluster.type \in {"slurm", "k8s"} /\ cluster.gpus_per_node \in Nat \ {0}
      /\ d.tp \in Nat \ {0} /\ d.pp \in Nat \ {0}
  BY <1>1 DEF PlannerTypeOK
<1>3. total_gpus(d) \in Nat \ {0}
  BY <1>2 DEF total_gpus
<1>4. /\ dir.engine = d /\ dir.index = i /\ dir.from = yaml
      /\ dir.gpus_per_node = cluster.gpus_per_node
      /\ dir.nodes = Ceil(total_gpus(d), cluster.gpus_per_node)
      /\ dir.partition = cluster.partition
      /\ dir.benchmarker_partition = IF cluster.type = "slurm" THEN cluster.partition
                                     ELSE clusters[cluster.benchmarker_cluster].partition
  BY DEF RunDir
<1>5. ~dir.external => cluster.type = "slurm"
  BY <1>2 DEF RunDir
<1>6. dir.benchmarker_partition # Unset
  <2>1. CASE cluster.type = "slurm"
    BY <1>1, <1>4, <2>1 DEF per_type_fields
  <2>2. CASE cluster.type = "k8s"
    <3>1. /\ cluster.benchmarker_cluster \in DOMAIN clusters
          /\ clusters[cluster.benchmarker_cluster].type = "slurm"
      BY <1>1, <2>2 DEF benchmarker_clusters_valid
    <3> QED
      BY <1>1, <1>4, <2>2, <3>1 DEF per_type_fields
  <2> QED
    BY <1>2, <2>1, <2>2
<1>7. cluster.type = "slurm" => dir.partition # Unset
  BY <1>1, <1>4 DEF per_type_fields
<1>8. /\ total_gpus(dir.engine) <= dir.nodes * dir.gpus_per_node
      /\ (dir.nodes - 1) * dir.gpus_per_node < total_gpus(dir.engine)
  BY <1>2, <1>3, <1>4, Ceiling
<1> HIDE DEF dir
<1> QED
  BY <1>1, <1>4, <1>5, <1>6, <1>7, <1>8 DEF IsRunDir, Fits, dir

LEMMA InitPInv == PlannerInit => PInv
<1> SUFFICES ASSUME PlannerInit PROVE PInv
  OBVIOUS
<1>1. DOMAIN exp_dir.runs = {} /\ DOMAIN staged = {} /\ DOMAIN started = {}
  BY DEF PlannerInit
<1> QED
  BY <1>1 DEF PInv, PlannerInit, PlannerTypeOK, Rendered, Copied, Done

LEMMA StepPInv == PInv /\ [PlannerNext]_plannerVars => PInv'
<1> SUFFICES ASSUME PInv, [PlannerNext]_plannerVars PROVE PInv'
  OBVIOUS
<1> USE DEF PInv
<1>1. CASE Edit \/ UNCHANGED plannerVars
  BY <1>1 DEF Edit, plannerVars, PlannerTypeOK, Rendered, Copied, Done, StartOutcome,
     load_benchmark_config, GlobalConfigValid, benchmarker_clusters_valid, validate_against_globals
<1>2. CASE Render
  <2> DEFINE new == {<<renders + 1, i>> : i \in DOMAIN yaml}
  <2>1. /\ UNCHANGED <<clusters, yaml, staged, started>> /\ load_benchmark_config(yaml)
        /\ renders < MaxRenders /\ renders' = renders + 1
        /\ exp_dir'.config = yaml
        /\ exp_dir'.runs = [r \in DOMAIN exp_dir.runs \cup new |->
                              IF r \in new THEN RunDir(yaml, r[2]) ELSE exp_dir.runs[r]]
    BY <1>2 DEF Render
  <2>2. \A r \in new : r[2] \in DOMAIN yaml
    OBVIOUS
  <2> HIDE DEF new
  <2>3. PlannerTypeOK'
    BY <2>1 DEF PlannerTypeOK
  <2>4. Rendered'
    BY <2>1, <2>2, RunDirFits DEF Rendered
  <2>5. Copied'
    BY <2>1 DEF Copied
  <2>6. Done'
    BY <2>1 DEF Done, StartOutcome, load_benchmark_config, GlobalConfigValid, per_type_fields,
       benchmarker_clusters_valid, validate_against_globals
  <2> QED
    BY <2>3, <2>4, <2>5, <2>6
<1>3. ASSUME NEW r \in DOMAIN exp_dir.runs, Stage(r) PROVE PInv'
  <2>1. /\ DOMAIN staged' = DOMAIN staged \cup {r}
        /\ staged'[r].dir = exp_dir.runs[r]
        /\ \A q \in DOMAIN staged \ {r} : staged'[q] = staged[q]
        /\ r \notin DOMAIN started
        /\ UNCHANGED <<clusters, yaml, renders, exp_dir, started>>
    BY <1>3 DEF Stage, Put
  <2>2. PlannerTypeOK' /\ Rendered'
    BY <2>1 DEF PlannerTypeOK, Rendered
  <2>3. Copied'
    BY <2>1 DEF Copied, Rendered
  <2>4. Done'
    <3>1. \A q \in DOMAIN started : staged'[q] = staged[q]
      BY <2>1 DEF PlannerTypeOK
    <3> QED
      BY <2>1, <3>1 DEF Done, StartOutcome, load_benchmark_config, GlobalConfigValid,
         benchmarker_clusters_valid, validate_against_globals
  <2> QED
    BY <2>2, <2>3, <2>4
<1>4. ASSUME NEW r \in DOMAIN staged, Start(r) PROVE PInv'
  <2>1. /\ DOMAIN started' = DOMAIN started \cup {r}
        /\ started'[r] = StartOutcome(staged[r].config, staged[r].dir)
        /\ \A q \in DOMAIN started \ {r} : started'[q] = started[q]
        /\ UNCHANGED <<clusters, yaml, renders, exp_dir, staged>>
    BY <1>4 DEF Start, Put
  <2>2. (PlannerTypeOK /\ Rendered /\ Copied)'
    BY <2>1 DEF PlannerTypeOK, Rendered, Copied
  <2>3. Done'
    <3>1. \A q \in DOMAIN started' : started'[q] = StartOutcome(staged[q].config, staged[q].dir)
      BY <2>1 DEF Done
    <3> QED
      BY <2>1, <3>1 DEF Done, StartOutcome, load_benchmark_config, GlobalConfigValid,
         benchmarker_clusters_valid, validate_against_globals
  <2> QED
    BY <2>2, <2>3
<1> QED
  BY <1>1, <1>2, <1>3, <1>4 DEF PlannerNext

LEMMA PlannerInvariant == PlannerSpec => []PInv
<1> QED
  BY InitPInv, StepPInv, PTL DEF PlannerSpec

\* PlannerTypeCorrect: the variables of planning and starting keep their types.
THEOREM PlannerTypeCorrect == PlannerSpec => []PlannerTypeOK
<1>1. PInv => PlannerTypeOK
  BY DEF PInv
<1> QED
  BY <1>1, PlannerInvariant, PTL

\* RunsArePlaced: whatever is rendered from a valid configuration, on whatever
\* clusters, has a partition for each of its jobs, and exactly the nodes it needs.
THEOREM RunsArePlaced == PlannerSpec => []Placed
<1>1. PInv => Placed
  BY DEF PInv, Rendered, IsRunDir, Fits, Placed
<1> QED
  BY <1>1, PlannerInvariant, PTL

\* RunsRecordTheirEngine: a run whose copy of the YAML is the one it was rendered from
\* records the deployment that its engine runs.
THEOREM RunsRecordTheirEngine == PlannerSpec => []RecordsWhatItStarts
<1>1. PInv => RecordsWhatItStarts
  <2> SUFFICES ASSUME PInv, NEW r \in DOMAIN started, staged[r].config = staged[r].dir.from
               PROVE  started[r].recorded = started[r].engine
    BY DEF RecordsWhatItStarts
  <2>1. IsRunDir(staged[r].dir)
    BY DEF PInv, PlannerTypeOK, Copied
  <2>2. started[r] = StartOutcome(staged[r].config, staged[r].dir)
    BY DEF PInv, Done
  <2> QED
    BY <2>1, <2>2 DEF StartOutcome, IsRunDir
<1> QED
  BY <1>1, PlannerInvariant, PTL

(***************************************************************************)
(* The hardware sampler.  Remembered ties what the sampler remembers to    *)
(* the node and to the history: a reading kept over failed reads is still  *)
(* the last good one, and the processor's is of the tick before.           *)
(***************************************************************************)

NodeOK ==
  proc \in [now : Nat, busy : Nat, total : Nat, moved : [Devices -> Nat]]

Remembered ==
  /\ proc.total = proc.now
  /\ _prev_t # Null => _prev_t = proc.now
  /\ _prev_cpu # Null => _prev_t # Null /\ _prev_cpu.total = proc.total
  /\ \A d \in Devices :
       IF reads[d] = Null THEN _prev[d] = Null /\ integral[d] = 0
       ELSE /\ _prev_t # Null
            /\ _prev[d] = reads[d].last
            /\ reads[d].first <= reads[d].last
            /\ reads[d].last <= proc.moved[d]

SInv == SamplerTypeOK /\ NodeOK /\ Remembered /\ RatesAddUp

USE SamplerAssumption

LEMMA Cancel ==
  ASSUME NEW a \in Nat, NEW b \in Nat \ {0}
  PROVE  (a * b) \div b = a
  BY SMTT(30)

\* Nothing has been read at first.
LEMMA InitSInv == SamplerInit => SInv
  BY DEF SamplerInit, SInv, SamplerTypeOK, NodeOK, Remembered, RatesAddUp

LEMMA StepSInv == SInv /\ [SamplerNext]_samplerVars => SInv'
<1> SUFFICES ASSUME SInv, [SamplerNext]_samplerVars PROVE SInv'
  OBVIOUS
<1>1. CASE UNCHANGED samplerVars
  BY <1>1 DEF samplerVars, SInv, SamplerTypeOK, NodeOK, Remembered, RatesAddUp
<1>2. CASE SamplerNext
  <2>1. PICK step \in Periods, busy \in {0, 1}, grown \in [Devices -> Moves],
             cpuRead \in BOOLEAN, good \in SUBSET Devices :
          LET now == [now |-> proc.now + step, busy |-> proc.busy + busy,
                      total |-> proc.total + step,
                      moved |-> [d \in Devices |-> proc.moved[d] + grown[d]]]
          IN tick(now,
                  IF cpuRead THEN [busy |-> now.busy, total |-> now.total] ELSE Null,
                  [d \in Devices |-> IF d \in good THEN now.moved[d] ELSE Null])
    BY <1>2 DEF SamplerNext, Tick
  <2> DEFINE now == [now |-> proc.now + step, busy |-> proc.busy + busy,
                     total |-> proc.total + step,
                     moved |-> [d \in Devices |-> proc.moved[d] + grown[d]]]
             cpu == IF cpuRead THEN [busy |-> now.busy, total |-> now.total] ELSE Null
             cur == [d \in Devices |-> IF d \in good THEN now.moved[d] ELSE Null]
             dt == IF _prev_t = Null THEN Null ELSE now.now - _prev_t
             rates == [d \in Devices |-> rate(_prev[d], cur[d], dt)]
  <2>2. /\ now \in [now : Nat, busy : Nat, total : Nat, moved : [Devices -> Nat]]
        /\ now.now = proc.now + step /\ now.total = proc.total + step
        /\ \A d \in Devices : now.moved[d] \in Nat /\ proc.moved[d] <= now.moved[d]
    <3>1. step \in Nat /\ \A d \in Devices : grown[d] \in Nat /\ proc.moved[d] \in Nat
      BY DEF SInv, NodeOK
    <3> QED
      BY <3>1 DEF SInv, NodeOK
  <2>3. dt = Null \/ dt = step
    BY <2>2 DEF SInv, Remembered, NodeOK
  <2>4. cpu \in [busy : Nat, total : Nat] \cup {Null} /\ (cpu # Null => cpu.total = now.total)
    BY <2>2
  <2>5. \A d \in Devices : cur[d] = now.moved[d] \/ cur[d] = Null
    OBVIOUS
  <2>6. /\ node_row' = [cpu |-> cpu_pcts(_prev_cpu, cpu), over |-> dt, rate |-> rates]
        /\ _prev_cpu' = cpu
        /\ _prev' = [d \in Devices |-> Kept(_prev[d], cur[d])]
        /\ _prev_t' = now.now
        /\ proc' = now
        /\ reads' = [d \in Devices |->
             IF cur[d] = Null THEN reads[d]
             ELSE [first |-> IF reads[d] = Null THEN cur[d] ELSE reads[d].first,
                   last |-> cur[d]]]
        /\ integral' = [d \in Devices |->
             IF rates[d] = Null THEN integral[d]
             ELSE integral[d] + (rates[d][1] * dt) \div rates[d][2]]
    BY <2>1 DEF tick
  <2>7. ticks' \in 0..MaxTicks
    <3>1. ticks < MaxTicks
      BY <1>2 DEF SamplerNext, Tick
    <3>2. ticks' = ticks + 1
      BY <2>1 DEF tick
    <3> QED
      BY <3>1, <3>2 DEF SInv, SamplerTypeOK
  <2> HIDE DEF now, cpu, cur, dt
  <2>8. ASSUME NEW d \in Devices
        PROVE  /\ _prev'[d] \in Nat \cup {Null}
               /\ reads'[d] \in [first : Nat, last : Nat] \cup {Null}
               /\ integral'[d] \in Nat
               /\ IF reads'[d] = Null THEN _prev'[d] = Null /\ integral'[d] = 0
                  ELSE /\ _prev'[d] = reads'[d].last
                       /\ reads'[d].first <= reads'[d].last
                       /\ reads'[d].last <= now.moved[d]
                       /\ integral'[d] = reads'[d].last - reads'[d].first
    <3> DEFINE Old == IF reads[d] = Null THEN _prev[d] = Null /\ integral[d] = 0
                      ELSE /\ reads[d] \in [first : Nat, last : Nat]
                           /\ dt = step
                           /\ _prev[d] = reads[d].last
                           /\ reads[d].first <= reads[d].last
                           /\ reads[d].last <= proc.moved[d]
                           /\ integral[d] = reads[d].last - reads[d].first
    <3>1. Old
      <4>1. CASE reads[d] = Null
        BY <4>1 DEF SInv, Remembered
      <4>2. CASE reads[d] # Null
        <5>1. reads[d] \in [first : Nat, last : Nat]
          BY <4>2 DEF SInv, SamplerTypeOK
        <5>2. /\ _prev_t # Null
              /\ _prev[d] = reads[d].last
              /\ reads[d].first <= reads[d].last
              /\ reads[d].last <= proc.moved[d]
          BY <4>2 DEF SInv, Remembered
        <5>3. dt = step
          <6>1. _prev_t = proc.now /\ proc.now \in Nat
            BY <5>2 DEF SInv, NodeOK, Remembered
          <6>2. dt = now.now - _prev_t
            BY <5>2 DEF dt
          <6>3. step \in Nat
            OBVIOUS
          <6> QED
            BY <2>2, <6>1, <6>2, <6>3
        <5>4. integral[d] = reads[d].last - reads[d].first
          BY <4>2 DEF SInv, RatesAddUp
        <5> QED
          BY <4>2, <5>1, <5>2, <5>3, <5>4
      <4> QED
        BY <4>1, <4>2
    <3>2. proc.moved[d] \in Nat /\ now.moved[d] \in Nat /\ proc.moved[d] <= now.moved[d]
      BY <2>2 DEF SInv, NodeOK
    <3>3. CASE cur[d] = Null
      <4>1. rates[d] = Null /\ _prev'[d] = _prev[d] /\ reads'[d] = reads[d]
        BY <2>6, <3>3 DEF rate, Kept
      <4>2. integral'[d] = integral[d]
        BY <2>6, <4>1
      <4> HIDE DEF rates
      <4> QED
        BY <3>1, <3>2, <4>1, <4>2
    <3>4. CASE cur[d] = now.moved[d] /\ cur[d] # Null /\ reads[d] = Null
      <4>1. rates[d] = Null /\ _prev'[d] = cur[d] /\ reads'[d] = [first |-> cur[d], last |-> cur[d]]
        BY <2>6, <3>1, <3>4 DEF rate, Kept
      <4>2. integral'[d] = integral[d]
        BY <2>6, <4>1
      <4> HIDE DEF rates
      <4> QED
        BY <3>1, <3>2, <3>4, <4>1, <4>2
    <3>5. CASE cur[d] = now.moved[d] /\ cur[d] # Null /\ reads[d] # Null
      <4>0. _prev[d] = reads[d].last /\ reads[d].last \in Nat /\ dt = step
        BY <3>1, <3>5
      <4>1. /\ _prev[d] \in Nat /\ _prev[d] # Null
            /\ step \in Nat \ {0} /\ dt = step /\ dt # Null
            /\ cur[d] - _prev[d] \in Nat
        <5>1. reads[d].last <= proc.moved[d]
          BY <3>1, <3>5
        <5>2. step \in Nat \ {0} /\ step # Null
          OBVIOUS
        <5> HIDE DEF Old, rates
        <5> QED
          BY <3>2, <3>5, <4>0, <5>1, <5>2
      <4>2. /\ rates[d] = <<cur[d] - _prev[d], step>>
            /\ _prev'[d] = cur[d]
            /\ reads'[d] = [first |-> reads[d].first, last |-> cur[d]]
        BY <2>6, <3>5, <4>1 DEF rate, Kept
      <4>3. rates[d] # Null
        BY <4>1, <4>2
      <4>4. integral'[d] = integral[d] + ((cur[d] - _prev[d]) * step) \div step
        BY <2>6, <4>1, <4>2, <4>3
      <4>5. integral'[d] = integral[d] + (cur[d] - _prev[d])
        BY <4>1, <4>4, Cancel
      <4> HIDE DEF rates
      <4> QED
        BY <3>1, <3>2, <3>5, <4>1, <4>2, <4>5
    <3> QED
      BY <2>5, <3>3, <3>4, <3>5
  <2>9. node_row'.cpu # Null => node_row'.cpu[2] = node_row'.over
    <3>1. CASE _prev_cpu = Null \/ cpu = Null
      BY <2>6, <3>1 DEF cpu_pcts
    <3>2. CASE _prev_cpu # Null /\ cpu # Null
      <4>1. dt = step /\ cpu.total - _prev_cpu.total = step
        BY <2>2, <2>4, <3>2 DEF SInv, Remembered, NodeOK, dt
      <4> QED
        BY <2>6, <3>2, <4>1 DEF cpu_pcts
    <3> QED
      BY <3>1, <3>2
  <2>10. SamplerTypeOK'
    BY <2>2, <2>4, <2>6, <2>7, <2>8 DEF SamplerTypeOK
  <2>11. NodeOK'
    BY <2>2, <2>6 DEF NodeOK
  <2>12. Remembered'
    <3>1. now.now # Null /\ now.total = now.now
      BY <2>2 DEF SInv, Remembered
    <3> QED
      BY <2>4, <2>6, <2>8, <3>1 DEF Remembered
  <2>13. RatesAddUp'
    BY <2>8, <2>9 DEF RatesAddUp
  <2> QED
    BY <2>10, <2>11, <2>12, <2>13 DEF SInv
<1> QED
  BY <1>1, <1>2

LEMMA SamplerInvariant == SamplerSpec => []SInv
<1> QED
  BY InitSInv, StepSInv, PTL DEF SamplerSpec

\* SamplerTypeCorrect: the sampler's state and the rows' history keep their types.
THEOREM SamplerTypeCorrect == SamplerSpec => []SamplerTypeOK
<1>1. SInv => SamplerTypeOK
  BY DEF SInv
<1> QED
  BY <1>1, SamplerInvariant, PTL

\* Totals: whatever reads fail, the rates of the hardware rows add up to what the
\* counters moved, and a processor share is of its row's interval.
THEOREM RatesAreTotals == SamplerSpec => []RatesAddUp
<1>1. SInv => RatesAddUp
  BY DEF SInv
<1> QED
  BY <1>1, SamplerInvariant, PTL

=============================================================================
