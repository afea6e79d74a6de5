-------------------------- MODULE JudgementProofs --------------------------
(***************************************************************************)
(* Theorems of the two judgements of a sweep, for any rates, objectives    *)
(* and results.                                                            *)
(***************************************************************************)
EXTENDS Judgement, FiniteSetTheorems, TLAPS

(***************************************************************************)
(* Finite sets of integers.                                                *)
(***************************************************************************)

\* The image of a finite set.
LEMMA ImageFinite ==
  ASSUME NEW S, IsFiniteSet(S), NEW f, DOMAIN f = S
  PROVE  IsFiniteSet({f[x] : x \in S})
<1> DEFINE T == {f[x] : x \in S}
           g == [x \in S |-> f[x]]
<1>1. g \in Surjection(S, T)
  BY DEF Surjection
<1> QED
  BY <1>1, FS_Surjection

\* By a least counterexample, the sets without a last element being ordered by inclusion.
LEMMA FiniteMax ==
  ASSUME NEW S \in SUBSET Int, IsFiniteSet(S), S # {}
  PROVE  Max(S) \in S /\ \A y \in S : y <= Max(S)
<1> DEFINE R == StrictSubsetOrdering(S)
           T == {U \in SUBSET S : U # {} /\ \A x \in U : \E y \in U : y > x}
<1>1. IsWellFoundedOn(R, FiniteSubsetsOf(S)) /\ T \subseteq FiniteSubsetsOf(S)
  BY FS_StrictSubsetOrderingWellFounded, FS_FiniteSubsetsOfFinite
<1>2. T = {}
  <2> SUFFICES ASSUME T # {} PROVE FALSE
    OBVIOUS
  <2> HIDE DEF T, R
  <2>1. PICK U \in T : \A V \in T : ~ (<<V, U>> \in R)
    BY <1>1, WFMin
  <2> USE DEF T, R
  <2>2. PICK x \in U : TRUE
    OBVIOUS
  <2>3. U \ {x} \in T
    <3>1. PICK y \in U : y > x
      BY <2>2
    <3>2. \A z \in U \ {x} : \E w \in U \ {x} : w > z
      <4> TAKE z \in U \ {x}
      <4>1. PICK w \in U : w > z
        OBVIOUS
      <4>2. CASE w = x
        <5>1. y > z /\ y # x
          BY <3>1, <4>1, <4>2
        <5> QED
          BY <5>1
      <4> QED
        BY <4>1, <4>2
    <3> QED
      BY <3>1, <3>2
  <2>4. <<U \ {x}, U>> \in R
    BY <2>2 DEF StrictSubsetOrdering
  <2> QED
    BY <2>1, <2>3, <2>4
<1>3. \E x \in S : \A y \in S : x >= y
  <2>1. S \notin T
    BY <1>2
  <2> QED
    BY <2>1
<1> QED
  BY <1>3 DEF Max

LEMMA FiniteMin ==
  ASSUME NEW S \in SUBSET Int, IsFiniteSet(S), S # {}
  PROVE  Min(S) \in S /\ \A y \in S : Min(S) <= y
<1> DEFINE f == [x \in S |-> 0 - x]
           N == {f[x] : x \in S}
<1>1. IsFiniteSet(N) /\ N \in SUBSET Int /\ N # {}
  <2>1. DOMAIN f = S /\ \A x \in S : f[x] \in Int
    <3>1. \A x \in S : x \in Int /\ 0 - x \in Int
      OBVIOUS
    <3> QED
      BY <3>1
  <2> HIDE DEF f
  <2>2. N # {} /\ N \in SUBSET Int
    BY <2>1
  <2> QED
    BY <2>1, <2>2, ImageFinite
<1>2. PICK m \in N : \A y \in N : y <= m
  <2> HIDE DEF N
  <2> QED
    BY <1>1, FiniteMax
<1>3. \E x \in S : \A y \in S : x =< y
  <2>1. PICK x \in S : m = 0 - x
    OBVIOUS
  <2>2. \A y \in S : 0 - y <= m
    BY <1>2
  <2> QED
    BY <2>1, <2>2
<1> QED
  BY <1>3 DEF Min

(***************************************************************************)
(* Percentiles.                                                            *)
(***************************************************************************)

\* A function on a finite set to the integers: what a percentile is taken of.
Series(f) == IsFiniteSet(DOMAIN f) /\ \A x \in DOMAIN f : f[x] \in Int

Ordered(U, f, keys) ==
  /\ keys \in Bijection(1 .. Cardinality(U), U)
  /\ \A i, j \in 1 .. Cardinality(U) : i < j => f[keys[i]] <= f[keys[j]]

LEMMA OrderedMore ==
  ASSUME NEW f, Series(f), NEW U \in SUBSET DOMAIN f, NEW x \in U,
         \A y \in U : f[y] <= f[x],
         NEW keys, Ordered(U \ {x}, f, keys)
  PROVE  \E more : Ordered(U, f, more)
<1> DEFINE n == Cardinality(U)
           more == [i \in 1 .. n |-> IF i = n THEN x ELSE keys[i]]
<1>1. n \in Nat \ {0} /\ Cardinality(U \ {x}) = n - 1
  <2>1. IsFiniteSet(U) /\ n \in Nat /\ n # 0
    BY FS_Subset, FS_CardinalityType, FS_EmptySet DEF Series
  <2> QED
    BY <2>1, FS_RemoveElement
<1> HIDE DEF n
<1>2. /\ keys \in [1 .. n - 1 -> U \ {x}]
      /\ \A i, j \in 1 .. n - 1 : keys[i] = keys[j] => i = j
      /\ \A y \in U \ {x} : \E i \in 1 .. n - 1 : keys[i] = y
      /\ \A i, j \in 1 .. n - 1 : i < j => f[keys[i]] <= f[keys[j]]
  BY <1>1 DEF Ordered, Bijection, Injection, Surjection, IsInjective
<1>3. more \in [1 .. n -> U]
  BY <1>1, <1>2
<1>4. \A i, j \in 1 .. n : more[i] = more[j] => i = j
  BY <1>1, <1>2
<1>5. \A y \in U : \E i \in 1 .. n : more[i] = y
  <2> TAKE y \in U
  <2>1. CASE y = x
    BY <1>1, <2>1
  <2>2. CASE y # x
    <3>1. PICK i \in 1 .. n - 1 : keys[i] = y
      BY <1>2, <2>2
    <3> QED
      BY <1>1, <3>1
  <2> QED
    BY <2>1, <2>2
<1>6. ASSUME NEW i \in 1 .. n, NEW j \in 1 .. n, i < j
      PROVE  f[more[i]] <= f[more[j]]
  BY <1>1, <1>2, <1>6
<1>7. more \in Bijection(1 .. n, U)
  BY <1>3, <1>4, <1>5 DEF Bijection, Injection, Surjection, IsInjective
<1> HIDE DEF more
<1> QED
  BY <1>6, <1>7 DEF Ordered, n

\* The values of a series can be sorted: take the greatest off.
LEMMA Sortable ==
  ASSUME NEW f, Series(f)
  PROVE  SortedKeys(f) # {}
<1> DEFINE D == DOMAIN f
           R == StrictSubsetOrdering(D)
           T == {U \in SUBSET D : ~ \E keys : Ordered(U, f, keys)}
<1>1. IsWellFoundedOn(R, FiniteSubsetsOf(D)) /\ T \subseteq FiniteSubsetsOf(D)
  BY FS_StrictSubsetOrderingWellFounded, FS_FiniteSubsetsOfFinite DEF Series
<1>2. T = {}
  <2> SUFFICES ASSUME T # {} PROVE FALSE
    OBVIOUS
  <2> HIDE DEF T, R
  <2>1. PICK U \in T : \A V \in T : ~ (<<V, U>> \in R)
    BY <1>1, WFMin
  <2> USE DEF T, R
  <2>2. U # {}
    <3>1. Ordered({}, f, [i \in 1 .. 0 |-> i])
      BY FS_EmptySet DEF Ordered, Bijection, Injection, Surjection, IsInjective
    <3> QED
      BY <2>1, <3>1
  <2>3. PICK x \in U : \A y \in U : f[y] <= f[x]
    <3> DEFINE g == [y \in U |-> f[y]]
               V == {g[y] : y \in U}
    <3>1. IsFiniteSet(V) /\ V \in SUBSET Int /\ V # {}
      <4>1. DOMAIN g = U /\ IsFiniteSet(U) /\ V \in SUBSET Int /\ V # {}
        BY <2>2, FS_Subset DEF Series
      <4> HIDE DEF g
      <4> QED
        BY <4>1, ImageFinite
    <3>2. \E m \in V : \A v \in V : v <= m
      <4> HIDE DEF V
      <4> QED
        BY <3>1, FiniteMax
    <3> QED
      BY <3>2
  <2>4. U \ {x} \notin T
    BY <2>1 DEF StrictSubsetOrdering
  <2>5. PICK keys : Ordered(U \ {x}, f, keys)
    BY <2>4
  <2> QED
    BY <2>3, <2>5, OrderedMore
<1>3. PICK keys : Ordered(D, f, keys)
  BY <1>2
<1>4. DOMAIN keys = 1 .. Cardinality(D)
  BY <1>3 DEF Ordered, Bijection, Injection
<1> QED
  BY <1>3, <1>4 DEF Ordered, SortedKeys

\* The first m keys of a sorted series.
LEMMA FirstKeys ==
  ASSUME NEW f, Series(f), NEW keys \in SortedKeys(f), NEW m \in 0 .. Cardinality(DOMAIN f)
  PROVE  /\ {keys[i] : i \in 1 .. m} \subseteq DOMAIN f
         /\ Cardinality({keys[i] : i \in 1 .. m}) = m
<1> DEFINE n == Cardinality(DOMAIN f)
           K == {keys[i] : i \in 1 .. m}
           b == [i \in 1 .. m |-> keys[i]]
<1>1. n \in Nat
  BY FS_CardinalityType DEF Series
<1>2. keys \in [1 .. n -> DOMAIN f] /\ \A i, j \in 1 .. n : keys[i] = keys[j] => i = j
  BY DEF SortedKeys, Bijection, Injection, IsInjective
<1> HIDE DEF n
<1>3. b \in Bijection(1 .. m, K)
  BY <1>1, <1>2 DEF Bijection, Injection, Surjection, IsInjective, n
<1>4. K \subseteq DOMAIN f
  BY <1>1, <1>2 DEF n
<1>5. m \in Nat
  BY <1>1 DEF n
<1>6. Cardinality(K) = m
  <2> HIDE DEF b, K
  <2> QED
    BY <1>3, <1>5, FS_CountingElements DEF ExistsBijection
<1> QED
  BY <1>4, <1>6

\* The order statistic is the value at that place in any sorted order.
LEMMA OrderStatistic ==
  ASSUME NEW f, Series(f), NEW keys \in SortedKeys(f),
         NEW k \in 0 .. Cardinality(DOMAIN f) - 1
  PROVE  Statistic(f, k) = f[keys[k + 1]]
<1> DEFINE D == DOMAIN f
           n == Cardinality(D)
           Below(v) == {x \in D : f[x] < v}
           UpTo(v) == {x \in D : f[x] <= v}
           Is(v) == Cardinality(Below(v)) <= k /\ k < Cardinality(UpTo(v))
           w == f[keys[k + 1]]
<1>1. n \in Nat /\ k \in Nat /\ k + 1 \in 1 .. n /\ k \in 0 .. n /\ k + 1 \in 0 .. n
  BY FS_CardinalityType DEF Series
<1>2. /\ keys \in [1 .. n -> D]
      /\ \A x \in D : \E i \in 1 .. n : keys[i] = x
      /\ \A i, j \in 1 .. n : i < j => f[keys[i]] <= f[keys[j]]
  BY DEF SortedKeys, Bijection, Injection, Surjection
<1>3. \A x \in D : f[x] \in Int
  BY DEF Series
<1>4. \A v : /\ IsFiniteSet(Below(v)) /\ Cardinality(Below(v)) \in Nat
             /\ IsFiniteSet(UpTo(v)) /\ Cardinality(UpTo(v)) \in Nat
  <2> TAKE v
  <2>1. Below(v) \in SUBSET D /\ UpTo(v) \in SUBSET D
    OBVIOUS
  <2> HIDE DEF Below, UpTo
  <2> QED
    BY <2>1, FS_Subset, FS_CardinalityType DEF Series
<1>5. w \in {f[x] : x \in D} /\ w \in Int
  BY <1>1, <1>2, <1>3
<1> HIDE DEF n
<1>6. Is(w)
  <2> DEFINE First(m) == {keys[i] : i \in 1 .. m}
  <2>1. /\ First(k) \subseteq D /\ Cardinality(First(k)) = k
        /\ First(k + 1) \subseteq D /\ Cardinality(First(k + 1)) = k + 1
    BY <1>1, FirstKeys DEF n
  <2>2. Below(w) \subseteq First(k)
    <3> SUFFICES ASSUME NEW x \in D, f[x] < w PROVE x \in First(k)
      OBVIOUS
    <3>1. PICK i \in 1 .. n : keys[i] = x
      BY <1>2
    <3>2. ~ (k + 1 <= i)
      <4>1. CASE k + 1 = i
        BY <1>5, <3>1, <4>1
      <4>2. CASE k + 1 < i
        <5>1. w <= f[x]
          BY <1>1, <1>2, <3>1, <4>2
        <5> QED
          BY <1>3, <1>5, <5>1
      <4> QED
        BY <1>1, <4>1, <4>2
    <3> QED
      BY <1>1, <3>1, <3>2
  <2>3. First(k + 1) \subseteq UpTo(w)
    <3> SUFFICES ASSUME NEW i \in 1 .. k + 1 PROVE keys[i] \in D /\ f[keys[i]] <= w
      OBVIOUS
    <3>1. i \in 1 .. n
      BY <1>1
    <3>2. CASE i = k + 1
      BY <1>2, <1>5, <3>1, <3>2
    <3>3. CASE i < k + 1
      BY <1>1, <1>2, <3>1, <3>3
    <3> QED
      BY <1>1, <3>2, <3>3
  <2>4. IsFiniteSet(First(k))
    <3> HIDE DEF First
    <3> QED
      BY <2>1, FS_Subset DEF Series
  <2>5. Cardinality(Below(w)) <= k
    <3> HIDE DEF First, Below
    <3> QED
      BY <2>1, <2>2, <2>4, FS_Subset
  <2>6. k + 1 <= Cardinality(UpTo(w))
    <3> HIDE DEF First, UpTo
    <3> QED
      BY <1>4, <2>1, <2>3, FS_Subset
  <2> HIDE DEF Below, UpTo
  <2> QED
    BY <1>1, <1>4, <2>5, <2>6
<1>7. \A u, v \in Int : Is(u) /\ u < v => ~ Is(v)
  <2> SUFFICES ASSUME NEW u \in Int, NEW v \in Int, Is(u), u < v, Is(v) PROVE FALSE
    OBVIOUS
  <2>1. UpTo(u) \subseteq Below(v)
    BY <1>3
  <2>2. Cardinality(UpTo(u)) <= Cardinality(Below(v))
    <3> HIDE DEF UpTo, Below
    <3> QED
      BY <1>4, <2>1, FS_Subset
  <2> HIDE DEF Below, UpTo
  <2> QED
    BY <1>1, <1>4, <2>2
<1>8. \A v \in {f[x] : x \in D} : Is(v) => v = w
  <2> HIDE DEF Is, w
  <2> SUFFICES ASSUME NEW v \in {f[x] : x \in D}, Is(v) PROVE v = w
    OBVIOUS
  <2>1. v \in Int
    BY <1>3
  <2>2. ~ (v < w) /\ ~ (w < v)
    BY <1>5, <1>6, <1>7, <2>1
  <2> QED
    BY <1>5, <2>1, <2>2
<1>9. Statistic(f, k) = CHOOSE v \in {f[x] : x \in D} : Is(v)
  BY DEF Statistic
<1> HIDE DEF Is, w
<1> QED
  BY <1>5, <1>6, <1>8, <1>9 DEF w

LEMMA SortedValues ==
  ASSUME NEW f, Series(f)
  PROVE  /\ Cardinality(DOMAIN f) \in Nat
         /\ Ascending(f) \in Seq(Int) /\ Len(Ascending(f)) = Cardinality(DOMAIN f)
         /\ \A k \in 0 .. Cardinality(DOMAIN f) - 1 : Ascending(f)[k + 1] = Statistic(f, k)
<1> DEFINE keys == CHOOSE keys \in SortedKeys(f) : TRUE
           n == Cardinality(DOMAIN f)
<1>1. keys \in SortedKeys(f) /\ n \in Nat
  BY Sortable, FS_CardinalityType DEF Series
<1>2. keys \in [1 .. n -> DOMAIN f]
  BY <1>1 DEF SortedKeys, Bijection, Injection
<1>3. Ascending(f) = [i \in 1 .. n |-> f[keys[i]]]
  BY DEF Ascending
<1>4. \A k \in 0 .. n - 1 : Statistic(f, k) = f[keys[k + 1]]
  BY <1>1, OrderStatistic
<1> HIDE DEF keys, n
<1>5. \A k \in 0 .. n - 1 : Ascending(f)[k + 1] = Statistic(f, k)
  BY <1>1, <1>3, <1>4
<1>6. Ascending(f) \in Seq(Int) /\ Len(Ascending(f)) = n
  <2>1. \A i \in 1 .. n : f[keys[i]] \in Int
    BY <1>2 DEF Series
  <2> QED
    BY <1>1, <1>3, <2>1
<1> QED
  BY <1>1, <1>5, <1>6 DEF n

\* The place of a percentile in n values: between lo and the next, unless it is on lo.
LEMMA Place ==
  ASSUME NEW p \in 0 .. 100, NEW n \in Nat \ {0}
  PROVE  LET idx == p * (n - 1)
             lo == idx \div 100
         IN /\ idx \in Nat /\ lo \in 0 .. n - 1 /\ idx % 100 \in 0 .. 99
            /\ idx % 100 = 0 => (idx + 99) \div 100 = lo
            /\ idx % 100 # 0 => (idx + 99) \div 100 = lo + 1 /\ lo + 1 \in 0 .. n - 1
<1> DEFINE idx == p * (n - 1)
<1>1. idx \in Nat /\ idx <= 100 * (n - 1)
  <2>1. PICK m \in Nat : m = n - 1
    OBVIOUS
  <2>2. p * m \in Nat
    BY <2>1
  <2>3. p * m <= 100 * m
    OBVIOUS
  <2> QED
    BY <2>1, <2>2, <2>3
<1> HIDE DEF idx
<1>2. PICK q \in Int, r \in 0 .. 99 : idx = 100 * q + r /\ idx \div 100 = q /\ idx % 100 = r
  BY <1>1
<1>3. q \in 0 .. n - 1 /\ (r # 0 => q + 1 \in 0 .. n - 1)
  BY <1>1, <1>2
<1>4. (idx + 99) \div 100 = IF r = 0 THEN q ELSE q + 1
  BY <1>1, <1>2
<1> QED
  BY <1>1, <1>2, <1>3, <1>4 DEF idx

\* The percentile of the driver is the quantile of the report, in hundredths.
LEMMA SamePercentile ==
  ASSUME NEW f, Series(f), DOMAIN f # {}, NEW p \in 0 .. 100
  PROVE  /\ percentile_linear(Ascending(f), p) = quantile(f, p)
         /\ quantile(f, p) \in Int
<1> DEFINE n == Cardinality(DOMAIN f)
           vals == Ascending(f)
           idx == p * (n - 1)
           lo == idx \div 100
<1>1. n \in Nat \ {0}
  BY FS_EmptySet, FS_CardinalityType DEF Series
<1>2. vals \in Seq(Int) /\ Len(vals) = n /\ \A k \in 0 .. n - 1 : vals[k + 1] = Statistic(f, k)
  BY SortedValues
<1>3. /\ idx \in Nat /\ lo \in 0 .. n - 1 /\ idx % 100 \in 0 .. 99
      /\ idx % 100 = 0 => (idx + 99) \div 100 = lo
      /\ idx % 100 # 0 => (idx + 99) \div 100 = lo + 1 /\ lo + 1 \in 0 .. n - 1
  <2> HIDE DEF n
  <2> QED
    BY <1>1, Place
<1>4. percentile_linear(vals, p) =
        IF lo + 1 >= n THEN 100 * vals[n]
        ELSE 100 * vals[lo + 1] + (idx % 100) * (vals[lo + 2] - vals[lo + 1])
  BY <1>2 DEF percentile_linear
<1>5. quantile(f, p) = 100 * Statistic(f, lo) +
        (idx % 100) * (Statistic(f, (idx + 99) \div 100) - Statistic(f, lo))
  BY DEF quantile
<1> HIDE DEF n, vals, lo, idx
<1>6. \A i \in 1 .. n : vals[i] \in Int
  BY <1>2
<1>7. Statistic(f, lo) = vals[lo + 1] /\ vals[lo + 1] \in Int
  BY <1>1, <1>2, <1>3, <1>6
<1>8. CASE idx % 100 = 0
  <2>1. quantile(f, p) = 100 * vals[lo + 1]
    <3>1. quantile(f, p) = 100 * vals[lo + 1] + 0 * (vals[lo + 1] - vals[lo + 1])
      BY <1>3, <1>5, <1>7, <1>8, Zenon
    <3> QED
      BY <1>7, <3>1
  <2>2. CASE lo + 1 >= n
    <3>1. lo + 1 = n
      BY <1>1, <1>3, <2>2
    <3> QED
      BY <1>1, <1>4, <1>7, <2>1, <2>2, <3>1 DEF vals
  <2>3. CASE ~ (lo + 1 >= n)
    <3>1. lo + 2 \in 1 .. n
      BY <1>1, <1>3, <2>3
    <3>2. vals[lo + 2] \in Int
      BY <1>6, <3>1
    <3>3. (idx % 100) * (vals[lo + 2] - vals[lo + 1]) = 0
      BY <1>7, <1>8, <3>2
    <3> QED
      BY <1>4, <1>7, <2>1, <2>3, <3>3 DEF vals
  <2> QED
    BY <2>2, <2>3
<1>9. CASE idx % 100 # 0
  <2>1. lo + 1 \in 0 .. n - 1 /\ Statistic(f, (idx + 99) \div 100) = Statistic(f, lo + 1)
    BY <1>3, <1>9
  <2>2. lo + 2 = (lo + 1) + 1 /\ lo + 2 \in 1 .. n /\ ~ (lo + 1 >= n)
    BY <1>1, <1>3, <2>1
  <2>3. Statistic(f, lo + 1) = vals[lo + 2] /\ vals[lo + 2] \in Int
    BY <1>2, <1>6, <2>1, <2>2
  <2>4. quantile(f, p) = 100 * vals[lo + 1] + (idx % 100) * (vals[lo + 2] - vals[lo + 1])
    BY <1>5, <1>7, <2>1, <2>3
  <2> QED
    BY <1>3, <1>4, <1>7, <2>2, <2>3, <2>4 DEF vals
<1> QED
  BY <1>8, <1>9

\* Renaming the keys of a series does not change its quantiles.
LEMMA SameQuantile ==
  ASSUME NEW f, Series(f), DOMAIN f # {}, NEW g, NEW b \in Bijection(DOMAIN f, DOMAIN g),
         \A x \in DOMAIN f : g[b[x]] = f[x], NEW p \in 0 .. 100
  PROVE  quantile(f, p) = quantile(g, p)
<1> DEFINE n == Cardinality(DOMAIN f)
<1>1. /\ b \in [DOMAIN f -> DOMAIN g] /\ \A x, y \in DOMAIN f : b[x] = b[y] => x = y
      /\ \A y \in DOMAIN g : \E x \in DOMAIN f : b[x] = y
  BY DEF Bijection, Injection, Surjection, IsInjective
<1>2. Cardinality(DOMAIN g) = n /\ IsFiniteSet(DOMAIN g)
  BY FS_Bijection DEF ExistsBijection, Series
<1>3. Series(g)
  BY <1>1, <1>2 DEF Series
<1>4. PICK keys \in SortedKeys(f) : TRUE
  BY Sortable
<1>5. /\ keys \in [1 .. n -> DOMAIN f] /\ \A i, j \in 1 .. n : keys[i] = keys[j] => i = j
      /\ \A x \in DOMAIN f : \E i \in 1 .. n : keys[i] = x
      /\ \A i, j \in 1 .. n : i < j => f[keys[i]] <= f[keys[j]]
  BY <1>4 DEF SortedKeys, Bijection, Injection, Surjection, IsInjective
<1> HIDE DEF n
<1> DEFINE c == [i \in 1 .. n |-> b[keys[i]]]
<1>6. \A i \in 1 .. n : c[i] \in DOMAIN g /\ g[c[i]] = f[keys[i]]
  BY <1>1, <1>5
<1>7. c \in Bijection(1 .. n, DOMAIN g)
  <2>1. \A i, j \in 1 .. n : c[i] = c[j] => i = j
    BY <1>1, <1>5
  <2>2. \A y \in DOMAIN g : \E i \in 1 .. n : c[i] = y
    <3> TAKE y \in DOMAIN g
    <3>1. PICK x \in DOMAIN f : b[x] = y
      BY <1>1
    <3>2. PICK i \in 1 .. n : keys[i] = x
      BY <1>5
    <3> QED
      BY <3>1, <3>2
  <2>3. c \in [1 .. n -> DOMAIN g]
    BY <1>6
  <2> QED
    BY <2>1, <2>2, <2>3 DEF Bijection, Injection, Surjection, IsInjective
<1>8. c \in SortedKeys(g)
  <2>1. DOMAIN c = 1 .. n
    OBVIOUS
  <2>2. \A i, j \in 1 .. n : i < j => g[c[i]] <= g[c[j]]
    BY <1>5, <1>6
  <2> HIDE DEF c
  <2> QED
    BY <1>2, <1>7, <2>1, <2>2 DEF SortedKeys
<1>9. n \in Nat \ {0}
  BY FS_EmptySet, FS_CardinalityType DEF Series, n
<1>10. \A k \in 0 .. n - 1 : Statistic(f, k) = Statistic(g, k)
  <2> TAKE k \in 0 .. n - 1
  <2>1. Statistic(f, k) = f[keys[k + 1]]
    BY <1>4, OrderStatistic DEF n
  <2>2. Statistic(g, k) = g[c[k + 1]]
    <3> HIDE DEF c
    <3> QED
      BY <1>2, <1>3, <1>8, OrderStatistic
  <2> QED
    BY <1>6, <1>9, <2>1, <2>2
<1>11. /\ (p * (n - 1)) \div 100 \in 0 .. n - 1
       /\ (p * (n - 1) + 99) \div 100 \in 0 .. n - 1
  BY <1>9, Place
<1> QED
  BY <1>2, <1>10, <1>11 DEF quantile, n

(***************************************************************************)
(* The rows of the report and the requests of the driver.                  *)
(***************************************************************************)

Tagged(rate, requests) == {[rate |-> rate, request |-> r] : r \in requests}

LEMMA TaggedRequests ==
  ASSUME NEW rate, NEW requests, IsFiniteSet(requests)
  PROVE  /\ Requests(Tagged(rate, requests)) = requests
         /\ Cardinality(Tagged(rate, requests)) = Cardinality(requests)
<1> DEFINE b == [r \in requests |-> [rate |-> rate, request |-> r]]
<1>1. b \in Bijection(requests, Tagged(rate, requests))
  BY DEF Bijection, Injection, Surjection, IsInjective, Tagged
<1>2. Requests(Tagged(rate, requests)) = requests
  <2>1. \A row \in Tagged(rate, requests) : row.request \in requests
    BY DEF Tagged
  <2>2. \A r \in requests : \E row \in Tagged(rate, requests) : row.request = r
    <3> TAKE r \in requests
    <3>1. [rate |-> rate, request |-> r] \in Tagged(rate, requests)
      BY DEF Tagged
    <3> QED
      BY <3>1
  <2> QED
    BY <2>1, <2>2 DEF Requests
<1> QED
  BY <1>1, <1>2, FS_Bijection DEF ExistsBijection

\* What the invariants say of the configuration and the results.
LEMMA Given ==
  ASSUME JudgementTypeOK
  PROVE  /\ rate_levels \in Seq(Int) /\ Len(rate_levels) \in Nat \ {0}
         /\ Len(swept) \in Nat /\ DOMAIN swept = 1 .. Len(swept)
         /\ DOMAIN rate_levels = 1 .. Len(rate_levels)
         /\ DOMAIN swept \subseteq DOMAIN rate_levels
         /\ \A i \in DOMAIN swept : swept[i] \in Tables(i) /\ IsFiniteSet(swept[i])
<1>1. rate_levels \in RateLevels /\ rate_levels \in Seq(Int) \ {<<>>}
  BY JudgementAssumption DEF JudgementTypeOK
<1>2. Len(rate_levels) \in Nat \ {0} /\ DOMAIN rate_levels = 1 .. Len(rate_levels)
  BY <1>1
<1>3. Len(swept) \in Nat /\ DOMAIN swept = 1 .. Len(swept) /\ Len(swept) <= Len(rate_levels)
  <2> DEFINE All == UNION {Tables(i) : i \in DOMAIN rate_levels}
  <2>1. swept \in Seq(All) /\ Len(swept) <= Len(rate_levels)
    BY DEF JudgementTypeOK
  <2> HIDE DEF All
  <2> QED
    BY <2>1
<1>4. \A i \in DOMAIN swept : swept[i] \in Tables(i)
  BY DEF JudgementTypeOK
<1>5. \A i \in DOMAIN rate_levels : \A requests \in Tables(i) : IsFiniteSet(requests)
  BY <1>1, JudgementAssumption
<1>6. DOMAIN swept \subseteq DOMAIN rate_levels
  BY <1>2, <1>3
<1> QED
  BY <1>1, <1>2, <1>3, <1>4, <1>5, <1>6

\* The report finds the requests that the driver judged under their level's rate, and
\* no others where no other level has that rate.
LEMMA LevelRows ==
  ASSUME JudgementTypeOK, NEW i \in DOMAIN swept, OnlyOfItsRate(i)
  PROVE  OfRate(InWindow, rate_levels[i]) =
           Tagged(rate_levels[i], measurement_requests(swept[i]))
<1> DEFINE Row(j, r) == [rate |-> rate_levels[j], request |-> r]
<1>1. \A row : row \in RequestsTable <=>
                 \E j \in DOMAIN swept : \E r \in swept[j] : row = Row(j, r)
  <2> DEFINE Rows(j) == {Row(j, r) : r \in swept[j]}
  <2>1. \A row, j : row \in Rows(j) <=> \E r \in swept[j] : row = Row(j, r)
    BY Zenon
  <2>2. RequestsTable = UNION {Rows(j) : j \in DOMAIN swept}
    BY Zenon DEF RequestsTable
  <2> HIDE DEF Rows, Row
  <2>3. \A row : row \in RequestsTable <=> \E j \in DOMAIN swept : row \in Rows(j)
    BY <2>2
  <2> QED
    BY <2>1, <2>3, Zenon
<1>2. \A j \in DOMAIN swept : rate_levels[j] = rate_levels[i] => j = i
  BY DEF OnlyOfItsRate
<1>3. ASSUME NEW row \in OfRate(InWindow, rate_levels[i])
      PROVE  row \in Tagged(rate_levels[i], measurement_requests(swept[i]))
  <2>1. /\ row \in RequestsTable /\ row.rate = rate_levels[i]
        /\ row.request \in measurement_requests({row.request})
    BY DEF OfRate, InWindow
  <2>2. PICK j \in DOMAIN swept : \E r \in swept[j] : row = Row(j, r)
    BY <1>1, <2>1, Zenon
  <2>3. PICK r \in swept[j] : row = Row(j, r)
    BY <2>2, Zenon
  <2>4. j = i /\ row.request = r
    BY <1>2, <2>1, <2>3
  <2>5. r \in measurement_requests(swept[i])
    BY <2>1, <2>4 DEF measurement_requests
  <2> QED
    BY <2>3, <2>4, <2>5 DEF Tagged
<1>4. ASSUME NEW r \in measurement_requests(swept[i])
      PROVE  Row(i, r) \in OfRate(InWindow, rate_levels[i])
  <2>1. r \in swept[i] /\ r \in measurement_requests({r})
    BY DEF measurement_requests
  <2>2. Row(i, r) \in RequestsTable
    BY <1>1, <2>1, Zenon
  <2> QED
    BY <2>1, <2>2 DEF OfRate, InWindow
<1> QED
  BY <1>3, <1>4 DEF Tagged

\* It has no rows of a rate that was not swept.
LEMMA OnlySweptRows ==
  ASSUME NEW rate, NEW row \in OfRate(InWindow, rate)
  PROVE  \E i \in DOMAIN swept : rate_levels[i] = rate
<1>1. row \in RequestsTable /\ row.rate = rate
  BY DEF OfRate, InWindow
<1>2. PICK i \in DOMAIN swept : row \in {[rate |-> rate_levels[i], request |-> r] : r \in swept[i]}
  BY <1>1 DEF RequestsTable
<1>3. row.rate = rate_levels[i]
  BY <1>2
<1> QED
  BY <1>1, <1>3

\* No objective is attained without rows.
LEMMA NoDataNoPass ==
  ASSUME NEW slo, evaluate_slo({}, slo)
  PROVE  FALSE
<1> DEFINE sel == {row \in {} : slo.scenario \in {"all", row.request.scenario}}
<1>1. sel = {}
  OBVIOUS
<1>2. DOMAIN session_metrics(sel) = {}
  BY <1>1 DEF session_metrics
<1>3. DOMAIN Values(Requests(sel), slo.metric) = {}
  BY <1>1 DEF Values, Requests
<1> QED
  BY <1>1, <1>2, <1>3 DEF evaluate_slo

(***************************************************************************)
(* What the driver saw breached, the report does not find attained.        *)
(***************************************************************************)

LEMMA SpanType ==
  ASSUME NEW S, IsFiniteSet(S), S # {}, \A r \in S : r.issued \in Int /\ r.e2e_ms \in Int
  PROVE  Span(S) \in Int
<1> DEFINE f == [r \in S |-> r.issued + r.e2e_ms]
           g == [r \in S |-> r.issued]
           Ends == {f[r] : r \in S}
           Starting == {g[r] : r \in S}
<1>1. Ends = {r.issued + r.e2e_ms : r \in S} /\ Starting = {r.issued : r \in S}
  OBVIOUS
<1>2. IsFiniteSet(Ends) /\ IsFiniteSet(Starting)
  <2>1. DOMAIN f = S /\ DOMAIN g = S
    OBVIOUS
  <2> HIDE DEF f, g
  <2> QED
    BY <2>1, ImageFinite
<1>3. Ends \in SUBSET Int /\ Ends # {} /\ Starting \in SUBSET Int /\ Starting # {}
  OBVIOUS
<1> HIDE DEF Ends, Starting
<1>4. Max(Ends) \in Int /\ Min(Starting) \in Int
  BY <1>2, <1>3, FiniteMax, FiniteMin
<1> QED
  BY <1>1, <1>4 DEF Span

\* A level's requests of a class, as the driver selects them, and their rows.
LEMMA SelectedRows ==
  ASSUME NEW rate, NEW requests, NEW scenario
  PROVE  {row \in Tagged(rate, requests) : scenario \in {"all", row.request.scenario}}
           = Tagged(rate, Selected(requests, scenario))
BY DEF Tagged, Selected

\* Sessions of which every one is complete have the same spans on both sides.
LEMMA SameSpans ==
  ASSUME NEW rate, NEW S, IsFiniteSet(S), S # {},
         \A r \in S : r.issued \in Int /\ r.e2e_ms \in Int,
         \A r, q \in S : r.session = q.session => r.scenario = q.scenario,
         \A r \in S : \E q \in S : q.session = r.session /\ q.final,
         NEW p \in 0 .. 100
  PROVE  /\ Series(Spans(S)) /\ DOMAIN Spans(S) # {}
         /\ quantile(Spans(S), p) = quantile(session_metrics(Tagged(rate, S)), p)
<1> DEFINE f == Spans(S)
           rows == Tagged(rate, S)
           g == session_metrics(rows)
           Of(s) == CHOOSE r \in S : r.session = s
           b == [s \in DOMAIN f |-> <<rate, Of(s).scenario, s>>]
<1>1. DOMAIN f = {r.session : r \in S} /\ DOMAIN f # {}
  BY DEF Spans
<1>2. \A s \in DOMAIN f : f[s] = Span({r \in S : r.session = s})
  BY DEF Spans
<1>3. \A s \in DOMAIN f : Of(s) \in S /\ Of(s).session = s
  BY <1>1
<1> HIDE DEF Of
<1>4. \A r \in S : r.session \in DOMAIN f /\ r.scenario = Of(r.session).scenario
  BY <1>1, <1>3
<1>5. IsFiniteSet(DOMAIN f)
  <2> DEFINE h == [r \in S |-> r.session]
  <2>1. DOMAIN h = S /\ {h[r] : r \in S} = DOMAIN f
    BY <1>1
  <2> HIDE DEF h, f
  <2> QED
    BY <2>1, ImageFinite
<1>6. \A s \in DOMAIN f : f[s] \in Int
  <2> TAKE s \in DOMAIN f
  <2> DEFINE T == {r \in S : r.session = s}
  <2>1. IsFiniteSet(T) /\ T # {} /\ T \subseteq S
    BY <1>3, FS_Subset
  <2> HIDE DEF T
  <2>2. Span(T) \in Int
    BY <2>1, SpanType
  <2> QED
    BY <1>2, <2>2 DEF T
<1>7. rows = {[rate |-> rate, request |-> r] : r \in S}
  BY DEF Tagged
<1>8. \A r \in S : SessionKey([rate |-> rate, request |-> r]) = b[r.session]
  BY <1>4 DEF SessionKey
<1>9. \A s, u \in DOMAIN f : b[s] = b[u] => s = u
  OBVIOUS
<1> HIDE DEF f, rows, b
<1>10. \A row \in rows : /\ row.request \in S
                        /\ SessionKey(row) = b[row.request.session]
                        /\ row = [rate |-> rate, request |-> row.request]
  BY <1>7, <1>8
<1>11. DOMAIN g = {SessionKey(row) : row \in {q \in rows : q.request.final}}
  BY DEF session_metrics
<1>12. \A s \in DOMAIN f : b[s] \in DOMAIN g
  <2> TAKE s \in DOMAIN f
  <2>1. PICK q \in S : q.session = s /\ q.final
    BY <1>1
  <2> DEFINE row == [rate |-> rate, request |-> q]
  <2>2. row \in rows /\ row.request.final /\ SessionKey(row) = b[s]
    BY <1>7, <1>8, <2>1
  <2> QED
    BY <1>11, <2>2
<1>13. \A k \in DOMAIN g : \E s \in DOMAIN f : b[s] = k
  <2> TAKE k \in DOMAIN g
  <2>1. PICK row \in rows : SessionKey(row) = k
    BY <1>11
  <2> QED
    BY <1>4, <1>10, <2>1
<1>14. \A s \in DOMAIN f : g[b[s]] = f[s]
  <2> TAKE s \in DOMAIN f
  <2> DEFINE mine == {row \in rows : SessionKey(row) = b[s]}
             T == {r \in S : r.session = s}
  <2>1. Requests(mine) = T
    <3>1. \A row \in mine : row.request \in T
      BY <1>4, <1>9, <1>10
    <3>2. \A r \in T : \E row \in mine : row.request = r
      <4> TAKE r \in T
      <4>1. [rate |-> rate, request |-> r] \in mine
        BY <1>7, <1>8
      <4> QED
        BY <4>1
    <3> HIDE DEF mine, T
    <3> QED
      BY <3>1, <3>2 DEF Requests
  <2>2. g[b[s]] = Span(Requests(mine))
    BY <1>11, <1>12 DEF session_metrics
  <2> QED
    BY <1>2, <2>1, <2>2
<1>15. b \in [DOMAIN f -> DOMAIN g]
  BY <1>12 DEF b
<1> HIDE DEF g
<1>16. b \in Bijection(DOMAIN f, DOMAIN g)
  BY <1>9, <1>13, <1>15 DEF Bijection, Injection, Surjection, IsInjective
<1>17. Series(f)
  BY <1>5, <1>6 DEF Series
<1>18. quantile(f, p) = quantile(g, p)
  <2>1. \A F, G, B : /\ Series(F) /\ DOMAIN F # {} /\ B \in Bijection(DOMAIN F, DOMAIN G)
                     /\ \A x \in DOMAIN F : G[B[x]] = F[x]
                     => quantile(F, p) = quantile(G, p)
    BY SameQuantile
  <2>2. /\ Series(f) /\ DOMAIN f # {} /\ b \in Bijection(DOMAIN f, DOMAIN g)
        /\ \A x \in DOMAIN f : g[b[x]] = f[x]
        => quantile(f, p) = quantile(g, p)
    BY <2>1
  <2> QED
    BY <1>1, <1>14, <1>16, <1>17, <2>2
<1> QED
  BY <1>1, <1>17, <1>18 DEF f, g, rows

\* The requests of a level that lie in the window, and what is known of them.
LEMMA LevelRequests ==
  ASSUME JudgementTypeOK, NEW i \in DOMAIN swept, NEW slo \in slos
  PROVE  LET S == Selected(measurement_requests(swept[i]), slo.scenario) IN
         /\ IsFiniteSet(S) /\ S \subseteq swept[i]
         /\ \A r \in S : r.issued \in Int /\ r.e2e_ms \in Int
         /\ \A r, q \in S : r.session = q.session => r.scenario = q.scenario
         /\ Metric(slo) => \A r \in S : r[slo.metric] \in Int \cup {Unknown}
         /\ slo.threshold \in Int
         /\ slo.metric # "error_rate_pct" => slo.percentile \in 0 .. 100
<1> DEFINE S == Selected(measurement_requests(swept[i]), slo.scenario)
<1>1. /\ i \in DOMAIN rate_levels /\ rate_levels \in RateLevels
      /\ swept[i] \in Tables(i) /\ IsFiniteSet(swept[i]) /\ slos \in SLOs
  BY Given DEF JudgementTypeOK
<1>2. S \subseteq swept[i]
  BY DEF Selected, measurement_requests
<1> HIDE DEF S
<1>3. IsFiniteSet(S)
  BY <1>1, <1>2, FS_Subset
<1>4. /\ \A r \in swept[i] : r.issued \in Int /\ r.e2e_ms \in Int
      /\ \A r, q \in swept[i] : r.session = q.session => r.scenario = q.scenario
      /\ Metric(slo) => \A r \in swept[i] : r[slo.metric] \in Int \cup {Unknown}
      /\ slo.threshold \in Int
      /\ slo.metric # "error_rate_pct" => slo.percentile \in 0 .. 100
  <2>1. /\ \A r \in swept[i] : r.issued \in Int /\ r.e2e_ms \in Int
        /\ \A r, q \in swept[i] : r.session = q.session => r.scenario = q.scenario
    BY <1>1, JudgementAssumption
  <2>2. Metric(slo) => \A r \in swept[i] : r[slo.metric] \in Int \cup {Unknown}
    BY <1>1, JudgementAssumption
  <2>3. /\ slo.threshold \in Int
        /\ slo.metric # "error_rate_pct" => slo.percentile \in 0 .. 100
    BY <1>1, JudgementAssumption
  <2> QED
    BY <2>1, <2>2, <2>3
<1> QED
  BY <1>2, <1>3, <1>4 DEF S

LEMMA BreachFails ==
  ASSUME JudgementTypeOK, NEW i \in DOMAIN swept, NEW slo \in step_slo_breaches(swept[i]),
         OnlyOfItsRate(i),
         slo.metric = "session_e2e_ms" => ~ HasCutSession(swept[i])
  PROVE  ~ evaluate_slo(OfRate(InWindow, rate_levels[i]), slo)
<1> DEFINE rate == rate_levels[i]
           R == measurement_requests(swept[i])
           S == Selected(R, slo.scenario)
           rows == Tagged(rate, S)
           thr == slo.threshold
           p == slo.percentile
<1>1. slo \in slos /\ breached(swept[i], slo)
  BY DEF step_slo_breaches
<1>2. {row \in OfRate(InWindow, rate) : slo.scenario \in {"all", row.request.scenario}} = rows
  BY LevelRows, SelectedRows
<1>3. /\ IsFiniteSet(S)
      /\ \A r \in S : r.issued \in Int /\ r.e2e_ms \in Int
      /\ \A r, q \in S : r.session = q.session => r.scenario = q.scenario
      /\ Metric(slo) => \A r \in S : r[slo.metric] \in Int \cup {Unknown}
      /\ thr \in Int /\ (slo.metric # "error_rate_pct" => p \in 0 .. 100)
  BY <1>1, LevelRequests
<1>4. Requests(rows) = S /\ Cardinality(rows) = Cardinality(S)
  BY <1>3, TaggedRequests
<1> HIDE DEF rate, R, S, rows, thr, p
<1>5. CASE slo.metric = "error_rate_pct"
  <2>1. 100 * Cardinality(Failures(S)) > thr * Cardinality(S)
    BY <1>1, <1>5 DEF breached, S, R, thr
  <2>2. Cardinality(S) \in Nat /\ Cardinality(Failures(S)) \in Nat
    <3>1. Failures(S) \subseteq S
      BY DEF Failures
    <3> QED
      BY <1>3, <3>1, FS_Subset, FS_CardinalityType
  <2>3. ~ (100 * Cardinality(Failures(S)) <= thr * Cardinality(S))
    BY <1>3, <2>1, <2>2
  <2>4. evaluate_slo(OfRate(InWindow, rate), slo) =>
          100 * Cardinality(Failures(Requests(rows))) <= thr * Cardinality(rows)
    BY <1>2, <1>5 DEF evaluate_slo, thr
  <2> QED
    BY <1>4, <2>3, <2>4 DEF rate
<1>6. ASSUME NEW f, NEW g, Series(f), DOMAIN f # {}, quantile(f, p) = quantile(g, p),
             p \in 0 .. 100, percentile_linear(Ascending(f), p) > 100 * thr
      PROVE  ~ (quantile(g, p) <= 100 * thr)
  <2>1. percentile_linear(Ascending(f), p) = quantile(f, p) /\ quantile(f, p) \in Int
    BY <1>6, SamePercentile
  <2> QED
    BY <1>3, <1>6, <2>1
<1>7. CASE Metric(slo)
  <2> DEFINE f == Values(S, slo.metric)
  <2>1. DOMAIN f # {} /\ percentile_linear(Ascending(f), p) > 100 * thr
    BY <1>1, <1>7 DEF breached, Metric, S, R, thr, p
  <2>2. Series(f)
    <3> DEFINE D == {q \in S : q.success /\ q[slo.metric] # Unknown}
    <3>1. f = [r \in D |-> r[slo.metric]]
      BY DEF Values
    <3>2. IsFiniteSet(D)
      BY <1>3, FS_Subset
    <3>3. \A r \in D : r[slo.metric] \in Int
      BY <1>3, <1>7
    <3> HIDE DEF D, f
    <3> QED
      BY <3>1, <3>2, <3>3 DEF Series
  <2>3. evaluate_slo(OfRate(InWindow, rate), slo) =>
          quantile(Values(Requests(rows), slo.metric), p) <= 100 * thr
    BY <1>2, <1>7 DEF evaluate_slo, Metric, thr, p
  <2>4. p \in 0 .. 100
    BY <1>3, <1>7 DEF Metric
  <2> HIDE DEF f
  <2>5. ~ (quantile(f, p) <= 100 * thr)
    BY <1>6, <2>1, <2>2, <2>4
  <2> QED
    BY <1>4, <2>3, <2>5 DEF f, rate
<1>8. CASE slo.metric = "session_e2e_ms"
  <2> DEFINE f == Spans(S)
             g == session_metrics(rows)
  <2>1. DOMAIN f # {} /\ percentile_linear(Ascending(f), p) > 100 * thr
    BY <1>1, <1>8 DEF breached, S, R, thr, p
  <2>2. S # {} /\ p \in 0 .. 100
    BY <1>3, <1>8, <2>1 DEF Spans
  <2>3. \A r \in S : \E q \in S : q.session = r.session /\ q.final
    <3> TAKE r \in S
    <3>1. r \in R /\ ~ HasCutSession(swept[i])
      BY <1>8 DEF S, Selected
    <3>2. PICK q \in R : q.session = r.session /\ q.final
      BY <3>1 DEF HasCutSession, R
    <3>3. r.scenario = q.scenario
      <4>1. \A x, y \in swept[i] : x.session = y.session => x.scenario = y.scenario
        <5>1. /\ i \in DOMAIN rate_levels /\ rate_levels \in RateLevels
              /\ swept[i] \in Tables(i)
          BY Given DEF JudgementTypeOK
        <5> QED
          BY <5>1, JudgementAssumption
      <4>2. r \in swept[i] /\ q \in swept[i]
        BY <3>1, <3>2 DEF R, measurement_requests
      <4> QED
        BY <3>2, <4>1, <4>2
    <3>4. q \in S
      BY <3>2, <3>3 DEF S, Selected
    <3> QED
      BY <3>2, <3>4
  <2>4. Series(f) /\ quantile(f, p) = quantile(g, p)
    BY <1>3, <2>2, <2>3, SameSpans DEF rows
  <2>5. evaluate_slo(OfRate(InWindow, rate), slo) => quantile(g, p) <= 100 * thr
    BY <1>2, <1>8 DEF evaluate_slo, thr, p
  <2> HIDE DEF f, g
  <2>6. ~ (quantile(g, p) <= 100 * thr)
    BY <1>6, <2>1, <2>2, <2>4
  <2> QED
    BY <2>5, <2>6 DEF rate
<1> QED
  <2>1. slos \in SLOs
    BY DEF JudgementTypeOK
  <2>2. Metric(slo) \/ slo.metric \in {"session_e2e_ms", "error_rate_pct"}
    BY <1>1, <2>1, JudgementAssumption
  <2> QED
    BY <1>5, <1>7, <1>8, <2>2

(***************************************************************************)
(* The invariant.                                                          *)
(***************************************************************************)

\* Why the sweep goes on, or has ended.
Halted ==
  IF judging = "sweep"
  THEN consec_saturated < StopAfter /\ Len(swept) < Len(rate_levels)
  ELSE consec_saturated = StopAfter \/ Len(swept) = Len(rate_levels)

\* The levels that consec_saturated counts each have a breach.
Counted ==
  \A i \in Len(swept) - consec_saturated + 1 .. Len(swept) : step_slo_breaches(swept[i]) # {}

\* lambda* is a rate at which the objectives are attained.
Reported ==
  /\ judging # "done" => lambda = Unknown
  /\ lambda # Unknown => slos # {} /\ lambda \in Rates /\ attained(lambda)

JInv == JudgementTypeOK /\ Halted /\ Counted /\ Reported

USE JudgementAssumption

LEMMA JudgementInitInv == JudgementInit => JInv
<1> SUFFICES ASSUME JudgementInit PROVE JInv
  OBVIOUS
<1> USE DEF JudgementInit
<1>1. JudgementTypeOK
  BY DEF JudgementTypeOK
<1>2. Len(rate_levels) \in Nat \ {0}
  BY <1>1, Given
<1> QED
  BY <1>1, <1>2 DEF JInv, Halted, Counted, Reported

LEMMA LambdaStar ==
  ASSUME JudgementTypeOK, lambda_star # Unknown
  PROVE  slos # {} /\ lambda_star \in Rates /\ attained(lambda_star)
<1> DEFINE ok == {rate \in Rates : attained(rate)}
<1>1. slos # {} /\ ok # {} /\ lambda_star = Max(ok)
  BY DEF lambda_star
<1>2. IsFiniteSet(Rates) /\ Rates \subseteq Int
  <2>1. IsFiniteSet(DOMAIN rate_levels) /\ rate_levels \in Seq(Int)
    BY Given, FS_Interval
  <2>2. Rates \subseteq Int
    BY <2>1 DEF Rates
  <2> QED
    BY <2>1, <2>2, ImageFinite DEF Rates
<1>3. ok \in SUBSET Int /\ ok \subseteq Rates /\ IsFiniteSet(ok)
  BY <1>2, FS_Subset
<1>4. Max(ok) \in ok
  <2> HIDE DEF ok
  <2> QED
    BY <1>1, <1>3, FiniteMax
<1> QED
  BY <1>1, <1>4

LEMMA Appended ==
  ASSUME NEW S, NEW s \in Seq(S), NEW e \in S
  PROVE  /\ Append(s, e) \in Seq(S) /\ Len(Append(s, e)) = Len(s) + 1
         /\ DOMAIN Append(s, e) = 1 .. Len(s) + 1
         /\ Append(s, e)[Len(s) + 1] = e
         /\ \A i \in 1 .. Len(s) : Append(s, e)[i] = s[i]
OBVIOUS

LEMMA SweepLevelInv ==
  ASSUME JInv, SweepLevel
  PROVE  JInv'
<1> USE DEF JInv
<1> DEFINE All == UNION {Tables(i) : i \in DOMAIN rate_levels}
<1>1. PICK requests \in Tables(Len(swept) + 1) :
        /\ swept' = Append(swept, requests)
        /\ consec_saturated' = IF step_slo_breaches(requests) # {} THEN consec_saturated + 1 ELSE 0
        /\ judging' = IF consec_saturated' >= StopAfter \/ Len(swept) + 1 = Len(rate_levels)
                      THEN "report" ELSE "sweep"
  BY DEF SweepLevel
<1>2. judging = "sweep" /\ UNCHANGED <<rate_levels, slos, lambda>>
  BY DEF SweepLevel
<1>3. /\ Len(rate_levels) \in Nat /\ Len(swept) \in Nat
      /\ Len(swept) < Len(rate_levels) /\ lambda = Unknown
      /\ consec_saturated \in 0 .. Len(swept) /\ consec_saturated < StopAfter /\ StopAfter \in Nat
  BY <1>2, Given DEF Halted, Reported, JudgementTypeOK
<1>4. /\ swept \in Seq(All) /\ \A i \in DOMAIN swept : swept[i] \in Tables(i)
      /\ DOMAIN swept = 1 .. Len(swept) /\ DOMAIN rate_levels = 1 .. Len(rate_levels)
  BY Given DEF JudgementTypeOK
<1>5. requests \in All
  <2>1. Len(swept) + 1 \in DOMAIN rate_levels
    BY <1>3, <1>4
  <2> QED
    BY <2>1
<1>6. UNION {Tables(i) : i \in DOMAIN rate_levels'} = All
  BY <1>2
<1> HIDE DEF All
<1>7. /\ swept' \in Seq(All) /\ Len(swept') = Len(swept) + 1
      /\ DOMAIN swept' = 1 .. Len(swept) + 1
      /\ swept'[Len(swept) + 1] = requests
      /\ \A i \in 1 .. Len(swept) : swept'[i] = swept[i]
  <2>1. swept' = Append(swept, requests) /\ swept \in Seq(All)
    BY <1>1, <1>4
  <2> DEFINE next == Append(swept, requests)
  <2>2. /\ next \in Seq(All) /\ Len(next) = Len(swept) + 1
        /\ DOMAIN next = 1 .. Len(swept) + 1
        /\ next[Len(swept) + 1] = requests
        /\ \A i \in 1 .. Len(swept) : next[i] = swept[i]
    BY <1>5, <2>1, Appended
  <2> HIDE DEF next
  <2> QED
    BY <2>1, <2>2 DEF next
<1>8. JudgementTypeOK'
  <2>1. \A i \in DOMAIN swept' : swept'[i] \in Tables(i)
    <3> TAKE i \in DOMAIN swept'
    <3>1. CASE i = Len(swept) + 1
      BY <1>7, <3>1
    <3>2. CASE i # Len(swept) + 1
      <4>1. i \in 1 .. Len(swept)
        BY <1>3, <1>7, <3>2
      <4> QED
        BY <1>4, <1>7, <4>1
    <3> QED
      BY <3>1, <3>2
  <2>2. swept' \in Seq(UNION {Tables(i) : i \in DOMAIN rate_levels'})
    BY <1>6, <1>7
  <2>3. /\ Len(swept') <= Len(rate_levels')
        /\ consec_saturated' \in 0 .. Len(swept') /\ consec_saturated' <= StopAfter
        /\ judging' \in {"sweep", "report", "done"}
    BY <1>1, <1>2, <1>3, <1>7
  <2>4. rate_levels' \in RateLevels /\ slos' \in SLOs /\ lambda' \in Rates' \cup {Unknown}
    BY <1>2, <1>3 DEF JudgementTypeOK
  <2> QED
    BY <2>1, <2>2, <2>3, <2>4 DEF JudgementTypeOK
<1>9. Halted'
  BY <1>1, <1>2, <1>3, <1>7 DEF Halted
<1>10. Counted'
  <2> SUFFICES ASSUME NEW i \in Len(swept') - consec_saturated' + 1 .. Len(swept')
               PROVE  step_slo_breaches(swept[i])' # {}
    BY DEF Counted
  <2>1. consec_saturated' = consec_saturated + 1 /\ step_slo_breaches(requests) # {}
    BY <1>1, <1>3, <1>7
  <2>2. step_slo_breaches(swept[i])' = step_slo_breaches(swept'[i])
    BY <1>2 DEF step_slo_breaches
  <2>3. CASE i = Len(swept) + 1
    BY <1>7, <2>1, <2>2, <2>3
  <2>4. CASE i # Len(swept) + 1
    <3>1. /\ i \in Len(swept) - consec_saturated + 1 .. Len(swept)
          /\ i \in 1 .. Len(swept)
      BY <1>3, <1>7, <2>1, <2>4
    <3> QED
      BY <1>7, <2>2, <3>1 DEF Counted
  <2> QED
    BY <2>3, <2>4
<1>11. Reported'
  BY <1>2, <1>3 DEF Reported
<1> QED
  BY <1>8, <1>9, <1>10, <1>11

\* What the report reads does not change with it.
LEMMA SameReport ==
  ASSUME UNCHANGED <<rate_levels, slos, swept>>
  PROVE  /\ Rates' = Rates /\ \A rate : attained(rate)' <=> attained(rate)
         /\ \A requests : step_slo_breaches(requests)' = step_slo_breaches(requests)
<1>1. RequestsTable' = RequestsTable
  BY DEF RequestsTable
<1>2. InWindow' = InWindow
  BY <1>1 DEF InWindow
<1> QED
  BY <1>2 DEF Rates, attained, step_slo_breaches

LEMMA ReportInv ==
  ASSUME JInv, Report \/ UNCHANGED judgementVars
  PROVE  JInv'
<1> USE DEF JInv
<1>1. /\ UNCHANGED <<rate_levels, slos, swept, consec_saturated>>
      /\ judging' = judging \/ (judging = "report" /\ judging' = "done")
      /\ lambda' = lambda \/ (judging' = "done" /\ lambda' = lambda_star)
      /\ judging' = judging => lambda' = lambda
  BY DEF Report, judgementVars
<1>2. Rates' = Rates /\ \A rate : attained(rate)' <=> attained(rate)
  BY <1>1, SameReport
<1>3. JudgementTypeOK'
  BY <1>1, <1>2, LambdaStar DEF JudgementTypeOK
<1>4. Halted'
  BY <1>1 DEF Halted
<1>5. Counted'
  BY <1>1, SameReport DEF Counted
<1>6. Reported'
  <2>1. CASE lambda' = lambda
    BY <1>1, <1>2, <2>1 DEF Reported
  <2>2. CASE lambda' = lambda_star /\ judging' = "done"
    BY <1>1, <1>2, <2>2, LambdaStar DEF Reported
  <2> QED
    BY <1>1, <2>1, <2>2
<1> QED
  BY <1>3, <1>4, <1>5, <1>6

LEMMA JudgementInvariant == JudgementSpec => []JInv
<1>1. JInv /\ [JudgementNext]_judgementVars => JInv'
  BY SweepLevelInv, ReportInv DEF JudgementNext
<1> QED
  BY <1>1, JudgementInitInv, PTL DEF JudgementSpec

(***************************************************************************)
(* Theorems.                                                               *)
(***************************************************************************)

\* JudgementTypeCorrect: the driver sweeps at most the configured levels, counts at
\* most as many saturated ones as it stops after, and lambda* is a configured rate.
THEOREM JudgementTypeCorrect == JudgementSpec => []JudgementTypeOK
<1>1. JInv => JudgementTypeOK
  BY DEF JInv
<1> QED
  BY <1>1, JudgementInvariant, PTL

\* BreachesFail: whatever objective the driver sees breached on a level, by a
\* percentile of any metric or by the failures, the report finds it not attained there,
\* unless it is on sessions and the window has cut one, or another level has its rate.
THEOREM BreachesFail == JudgementSpec => []BreachMeansFail
<1>1. JInv => BreachMeansFail
  BY BreachFails DEF JInv, BreachMeansFail
<1> QED
  BY <1>1, JudgementInvariant, PTL

\* StarWasSwept: lambda* is never the rate of a level that was not run.
THEOREM StarWasSwept == JudgementSpec => []SkippedIsNotStar
<1>1. JInv => SkippedIsNotStar
  <2> SUFFICES ASSUME JInv, lambda # Unknown
               PROVE  \E i \in DOMAIN swept : rate_levels[i] = lambda
    BY DEF SkippedIsNotStar
  <2>1. PICK slo \in slos : evaluate_slo(OfRate(InWindow, lambda), slo)
    BY DEF JInv, Reported, attained
  <2>2. OfRate(InWindow, lambda) # {}
    <3> SUFFICES ASSUME OfRate(InWindow, lambda) = {} PROVE FALSE
      OBVIOUS
    <3>1. evaluate_slo({}, slo)
      BY <2>1, Zenon
    <3> QED
      BY <3>1, NoDataNoPass
  <2> QED
    BY <2>2, OnlySweptRows
<1> QED
  BY <1>1, JudgementInvariant, PTL

\* StoppingCostsNothing: the levels for which the driver stops the sweep could not have
\* been lambda* themselves, unless the window has cut one of their sessions or another
\* level was run at their rate.
THEOREM StoppingCostsNothing == JudgementSpec => []StopCostsNoStar
<1>1. JInv => StopCostsNoStar
  <2> SUFFICES ASSUME JInv, judging = "done", Len(swept) < Len(rate_levels),
                      NEW i \in Len(swept) - StopAfter + 1 .. Len(swept),
                      rate_levels[i] = lambda, ~ HasCutSession(swept[i]), OnlyOfItsRate(i)
               PROVE  FALSE
    BY DEF StopCostsNoStar
  <2> USE DEF JInv
  <2>1. /\ consec_saturated = StopAfter /\ consec_saturated \in 0 .. Len(swept)
        /\ Len(swept) \in Nat /\ Len(rate_levels) \in Nat /\ DOMAIN swept = 1 .. Len(swept)
        /\ DOMAIN swept \subseteq DOMAIN rate_levels /\ rate_levels \in Seq(Int)
    BY Given DEF Halted, JudgementTypeOK
  <2>2. i \in DOMAIN swept /\ lambda \in Int
    BY <2>1
  <2>3. PICK slo \in step_slo_breaches(swept[i]) : TRUE
    BY <2>1 DEF Counted
  <2>4. slo \in slos /\ ~ evaluate_slo(OfRate(InWindow, lambda), slo)
    BY <2>2, <2>3, BreachFails DEF step_slo_breaches
  <2> QED
    BY <2>2, <2>4 DEF Reported, attained
<1> QED
  BY <1>1, JudgementInvariant, PTL

\* OneLoadFigure: the concurrent sessions of the load table and those behind the
\* supportable users are computed from the same starts and wall times, at every rate.
THEOREM OneLoadFigure == JudgementSpec => []LoadFiguresAgree
<1>1. ASSUME NEW rate, NEW c PROVE
        Walls(session_metrics(InWindow), rate, c)
          = Walls(session_metrics(OfRate(InWindow, rate)), rate, c)
  <2> DEFINE all == session_metrics(InWindow)
             own == session_metrics(OfRate(InWindow, rate))
             AllOf(k) == {row \in InWindow : SessionKey(row) = k}
             OwnOf(k) == {row \in OfRate(InWindow, rate) : SessionKey(row) = k}
  <2>1. \A row : SessionKey(row)[1] = row.rate
    BY DEF SessionKey
  <2>2. \A k : k[1] = rate => (k \in DOMAIN all <=> k \in DOMAIN own)
    <3>1. DOMAIN all = {SessionKey(row) : row \in {q \in InWindow : q.request.final}}
      BY DEF session_metrics
    <3>2. DOMAIN own = {SessionKey(row) : row \in {q \in OfRate(InWindow, rate) : q.request.final}}
      BY DEF session_metrics
    <3> HIDE DEF all, own
    <3> QED
      BY <2>1, <3>1, <3>2 DEF OfRate
  <2>3. \A k : k[1] = rate => AllOf(k) = OwnOf(k)
    BY <2>1 DEF OfRate
  <2>4. \A k \in DOMAIN all : all[k] = Span(Requests(AllOf(k)))
    BY DEF session_metrics
  <2>5. \A k \in DOMAIN own : own[k] = Span(Requests(OwnOf(k)))
    BY DEF session_metrics
  <2> HIDE DEF all, own, AllOf, OwnOf
  <2>6. Walls(all, rate, c) = Walls(own, rate, c)
    BY <2>2, <2>3, <2>4, <2>5 DEF Walls
  <2> QED
    BY <2>6 DEF all, own
<1>2. \A rate : applied_load(rate) = supportable_users(rate)
  BY <1>1 DEF applied_load, supportable_users
<1>3. LoadFiguresAgree
  BY <1>2 DEF LoadFiguresAgree
<1> QED
  BY <1>3, PTL

=============================================================================
