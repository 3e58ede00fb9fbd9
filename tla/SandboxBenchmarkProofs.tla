----------------------- MODULE SandboxBenchmarkProofs -----------------------
(* The benchmark deletes every sandbox it knows, whatever became of its     *)
(* measurement, its statistics describe the runs that succeeded, and its    *)
(* summary shows them, for any number of sandboxes, levels and repetitions  *)
(* and for any durations.                                                   *)
EXTENDS SandboxBenchmark, FiniteSetTheorems, WellFoundedInduction, TLAPS

\* A set of numbers has a least one.
LEMMA LeastExists ==
  ASSUME NEW S \in SUBSET Nat, S # {}
  PROVE  \E x \in S : \A y \in S : x <= y
<1>1. PICK x \in S : \A y \in S : ~ (<<y, x>> \in OpToRel(<, Nat))
  BY NatLessThanWellFounded, WFMin
<1>2. \A y \in S : ~ (y < x)
  BY <1>1 DEF OpToRel
<1> QED
  BY <1>2

-----------------------------------------------------------------------------
(* Sums.                                                                   *)

\* The function that SumFunctionOnSet is defined by: the sum of each subset.
Adds(it, S, f) ==
  it = [T \in SUBSET S |->
          IF T = {} THEN 0 ELSE LET x == CHOOSE x \in T : TRUE IN f[x] + it[T \ {x}]]

\* The sum is what such a function has for the whole set.
LEMMA SumIsChosen ==
  ASSUME NEW S, NEW f
  PROVE  SumFunctionOnSet(f, S) = (CHOOSE it : Adds(it, S, f))[S]
BY Zenon DEF SumFunctionOnSet, FoldFunctionOnSet, MapThenFoldSet, Adds

\* There is such a function: those for subsets of at most n elements extend one
\* another, n being the least for which there is none.
LEMMA SumExists ==
  ASSUME NEW S, IsFiniteSet(S), NEW f
  PROVE  \E it : Adds(it, S, f)
<1> DEFINE Sized(n) == {T \in SUBSET S : Cardinality(T) <= n}
           Step(g, T) == IF T = {} THEN 0 ELSE f[CHOOSE x \in T : TRUE] + g[T \ {CHOOSE x \in T : TRUE}]
           Good(n) == \E g : g = [T \in Sized(n) |-> Step(g, T)]
           Bad == {n \in Nat : ~ Good(n)}
<1>1. \A T \in SUBSET S : /\ IsFiniteSet(T) /\ Cardinality(T) \in Nat
                          /\ Cardinality(T) <= Cardinality(S)
  BY FS_Subset, FS_CardinalityType
<1>2. \A T \in SUBSET S : T # {} =>
        LET x == CHOOSE x \in T : TRUE
        IN  x \in T /\ T \ {x} \in SUBSET S /\ Cardinality(T \ {x}) = Cardinality(T) - 1
  BY <1>1, FS_RemoveElement
<1>3. ASSUME NEW n \in Nat, NEW g, g = [T \in Sized(n) |-> Step(g, T)]
      PROVE  Good(n + 1)
  <2> DEFINE h == [T \in Sized(n + 1) |-> Step(g, T)]
  <2>1. \A T \in Sized(n) : T \in Sized(n + 1) /\ h[T] = g[T]
    <3> HIDE DEF Step
    <3>1. \A T \in Sized(n) : T \in Sized(n + 1)
      BY <1>1
    <3>2. \A T \in Sized(n) : g[T] = Step(g, T)
      BY <1>3
    <3> HIDE DEF Sized
    <3> QED
      BY <3>1, <3>2
  <2>2. ASSUME NEW T \in Sized(n + 1)
        PROVE  Step(g, T) = Step(h, T)
    <3>1. CASE T = {}
      BY <3>1
    <3>2. CASE T # {}
      <4>1. T \ {CHOOSE x \in T : TRUE} \in Sized(n)
        BY <1>1, <1>2, <3>2
      <4> HIDE DEF h, Sized
      <4> QED
        BY <4>1, <2>1, <3>2
    <3> QED
      BY <3>1, <3>2
  <2>3. h = [T \in Sized(n + 1) |-> Step(h, T)]
    <3> HIDE DEF Step
    <3> QED
      BY <2>2
  <2> QED
    BY <2>3
<1>4. Good(0)
  <2> DEFINE g == [T \in Sized(0) |-> 0]
  <2>1. \A T \in Sized(0) : T = {}
    BY <1>1, FS_EmptySet
  <2>2. g = [T \in Sized(0) |-> Step(g, T)]
    BY <2>1
  <2> QED
    BY <2>2
<1>5. Bad = {}
  <2> SUFFICES ASSUME Bad # {} PROVE FALSE
    OBVIOUS
  <2>1. PICK n \in Bad : \A m \in Bad : n <= m
    <3>1. Bad \in SUBSET Nat
      OBVIOUS
    <3> HIDE DEF Bad
    <3> QED
      BY <3>1, LeastExists
  <2> HIDE DEF Good
  <2>2. n # 0 /\ n \in Nat
    BY <1>4
  <2>3. n - 1 \in Nat /\ Good(n - 1)
    BY <2>1, <2>2
  <2>4. Good(n - 1 + 1)
    BY <2>3, <1>3 DEF Good
  <2> QED
    BY <2>2, <2>4
<1>6. Good(Cardinality(S))
  <2> HIDE DEF Good
  <2> QED
    BY <1>1, <1>5
<1>7. Sized(Cardinality(S)) = SUBSET S
  BY <1>1
<1> QED
  BY <1>6, <1>7, Zenon DEF Adds

\* The sum of n values is a number between n times their bounds.
LEMMA SumBounds ==
  ASSUME NEW S, IsFiniteSet(S), NEW f, NEW lo \in Int, NEW hi \in Int,
         \A i \in S : f[i] \in Int /\ lo <= f[i] /\ f[i] <= hi
  PROVE  /\ SumFunctionOnSet(f, S) \in Int
         /\ Cardinality(S) * lo <= SumFunctionOnSet(f, S)
         /\ SumFunctionOnSet(f, S) <= Cardinality(S) * hi
<1> DEFINE it == CHOOSE g : Adds(g, S, f)
           Fine(n) == \A T \in SUBSET S : Cardinality(T) = n =>
                        it[T] \in Int /\ n * lo <= it[T] /\ it[T] <= n * hi
           Bad == {n \in Nat : ~ Fine(n)}
<1>1. SumFunctionOnSet(f, S) = it[S]
  BY SumIsChosen
<1>2. Adds(it, S, f)
  BY SumExists
<1> HIDE DEF it
<1>3. \A T \in SUBSET S : IsFiniteSet(T) /\ Cardinality(T) \in Nat
  BY FS_Subset, FS_CardinalityType
<1>4. \A T \in SUBSET S : T # {} =>
        \E x \in T : /\ it[T] = f[x] + it[T \ {x}] /\ T \ {x} \in SUBSET S
                     /\ Cardinality(T \ {x}) = Cardinality(T) - 1
  <2> SUFFICES ASSUME NEW T \in SUBSET S, T # {}
               PROVE  \E x \in T : /\ it[T] = f[x] + it[T \ {x}] /\ T \ {x} \in SUBSET S
                                   /\ Cardinality(T \ {x}) = Cardinality(T) - 1
    OBVIOUS
  <2> DEFINE x == CHOOSE x \in T : TRUE
  <2>1. it[T] = f[x] + it[T \ {x}]
    BY <1>2 DEF Adds
  <2>2. x \in T
    OBVIOUS
  <2> HIDE DEF x
  <2> QED
    BY <1>3, <2>1, <2>2, FS_RemoveElement
<1>5. it[{}] = 0
  BY <1>2 DEF Adds
<1>6. Fine(0)
  BY <1>3, <1>5, FS_EmptySet
<1>7. ASSUME NEW n \in Nat, Fine(n)
      PROVE  Fine(n + 1)
  <2> SUFFICES ASSUME NEW T \in SUBSET S, Cardinality(T) = n + 1
               PROVE  it[T] \in Int /\ (n + 1) * lo <= it[T] /\ it[T] <= (n + 1) * hi
    OBVIOUS
  <2>1. T # {}
    BY FS_EmptySet
  <2>2. PICK x \in T : /\ it[T] = f[x] + it[T \ {x}] /\ T \ {x} \in SUBSET S
                       /\ Cardinality(T \ {x}) = Cardinality(T) - 1
    BY <1>4, <2>1
  <2> DEFINE t == it[T \ {x}]
  <2>3. t \in Int /\ n * lo <= t /\ t <= n * hi
    BY <1>7, <2>2
  <2>4. f[x] \in Int /\ lo <= f[x] /\ f[x] <= hi /\ it[T] = f[x] + t
    BY <2>2
  <2>5. (n + 1) * lo = n * lo + lo /\ (n + 1) * hi = n * hi + hi
    OBVIOUS
  <2>6. n * lo \in Int /\ n * hi \in Int
    OBVIOUS
  <2> HIDE DEF t, Fine, Bad
  <2> QED
    BY <2>3, <2>4, <2>5, <2>6
<1>8. Bad = {}
  <2> SUFFICES ASSUME Bad # {} PROVE FALSE
    OBVIOUS
  <2>1. PICK n \in Bad : \A m \in Bad : n <= m
    <3>1. Bad \in SUBSET Nat
      OBVIOUS
    <3> HIDE DEF Bad
    <3> QED
      BY <3>1, LeastExists
  <2> HIDE DEF Fine
  <2>2. n # 0 /\ n \in Nat
    BY <1>6
  <2>3. n - 1 \in Nat /\ Fine(n - 1)
    BY <2>1, <2>2
  <2>4. Fine(n - 1 + 1)
    BY <2>3, <1>7
  <2> QED
    BY <2>2, <2>4
<1>9. Fine(Cardinality(S))
  BY <1>3, <1>8 
<1> QED
  BY <1>1, <1>9

-----------------------------------------------------------------------------
(* Arrangements and percentiles.                                           *)

\* The elements of a finite set can be arranged by any numbers: each takes the
\* place given by how many come before it, with a bijection to break ties.
LEMMA ArrangementExists ==
  ASSUME NEW S, IsFiniteSet(S), NEW key, \A i \in S : key[i] \in Int
  PROVE  \E order \in [1 .. Cardinality(S) -> S] :
           /\ IsInjective(order)
           /\ \A m, n \in DOMAIN order : m < n => key[order[m]] <= key[order[n]]
<1> DEFINE N == Cardinality(S)
<1>1. N \in Nat /\ \E b : b \in Bijection(1 .. N, S)
  BY FS_CardinalityType DEF ExistsBijection
<1>2. PICK b : b \in Bijection(1 .. N, S)
  BY <1>1
<1>3. b \in [1 .. N -> S] /\ \A j, k \in 1 .. N : b[j] = b[k] => j = k
  BY <1>2 DEF Bijection, Injection, IsInjective
<1> DEFINE LE(j, k) == \/ key[b[j]] < key[b[k]]
                       \/ key[b[j]] = key[b[k]] /\ j <= k
           Below(k) == {j \in 1 .. N : LE(j, k)}
           rank == [k \in 1 .. N |-> Cardinality(Below(k))]
<1>4. IsFiniteSet(1 .. N) /\ Cardinality(1 .. N) = N
  BY <1>1, FS_Interval
<1>5. \A k \in 1 .. N : key[b[k]] \in Int
  BY <1>3
<1> HIDE DEF N
<1>6. \A k \in 1 .. N : /\ IsFiniteSet(Below(k)) /\ Cardinality(Below(k)) \in 1 .. N
  <2> SUFFICES ASSUME NEW k \in 1 .. N
               PROVE  IsFiniteSet(Below(k)) /\ Cardinality(Below(k)) \in 1 .. N
    OBVIOUS
  <2>1. Below(k) \in SUBSET (1 .. N) /\ k \in Below(k)
    BY <1>1, <1>5
  <2> HIDE DEF Below
  <2>2. IsFiniteSet(Below(k)) /\ Cardinality(Below(k)) <= N
    BY <1>4, <2>1, FS_Subset
  <2>3. Cardinality(Below(k)) \in Nat /\ Cardinality(Below(k)) # 0
    BY <2>1, <2>2, FS_CardinalityType, FS_EmptySet
  <2> QED
    BY <1>1, <2>2, <2>3
<1>7. ASSUME NEW j \in 1 .. N, NEW k \in 1 .. N, j # k, LE(j, k)
      PROVE  rank[j] < rank[k]
  <2>1. Below(j) \in SUBSET Below(k)
    BY <1>1, <1>5, <1>7
  <2>2. k \in Below(k) /\ k \notin Below(j)
    BY <1>1, <1>5, <1>7
  <2>3. IsFiniteSet(Below(k))
    BY <1>6
  <2>4. rank[j] = Cardinality(Below(j)) /\ rank[k] = Cardinality(Below(k))
    OBVIOUS
  <2> HIDE DEF Below, rank
  <2>5. Cardinality(Below(j)) \in Int /\ Cardinality(Below(k)) \in Int
    BY <1>6
  <2>6. Cardinality(Below(j)) <= Cardinality(Below(k)) /\ Cardinality(Below(j)) # Cardinality(Below(k))
    BY <2>1, <2>2, <2>3, FS_Subset
  <2> QED
    BY <2>4, <2>5, <2>6
<1>8. \A j, k \in 1 .. N : LE(j, k) \/ LE(k, j)
  BY <1>1, <1>5
<1>9. rank \in [1 .. N -> 1 .. N]
  BY <1>6
<1>10. \A j, k \in 1 .. N : rank[j] = rank[k] => j = k
  <2> HIDE DEF rank, LE
  <2> QED
    BY <1>1, <1>7, <1>8, <1>9
<1> HIDE DEF rank
<1>11. rank \in Surjection(1 .. N, 1 .. N)
  <2>1. rank \in Injection(1 .. N, 1 .. N)
    BY <1>9, <1>10 DEF Injection, IsInjective
  <2> QED
    BY <2>1, <1>4, FS_Injection
<1>12. \A m \in 1 .. N : \E k \in 1 .. N : rank[k] = m
  BY <1>11 DEF Surjection
<1> DEFINE at == [m \in 1 .. N |-> CHOOSE k \in 1 .. N : rank[k] = m]
           order == [m \in 1 .. N |-> b[at[m]]]
<1>13. \A m \in 1 .. N : at[m] \in 1 .. N /\ rank[at[m]] = m
  BY <1>12
<1> HIDE DEF at
<1>14. order \in [1 .. N -> S] /\ IsInjective(order)
  BY <1>3, <1>13 DEF IsInjective
<1>15. ASSUME NEW m \in 1 .. N, NEW n \in 1 .. N, m < n
       PROVE  key[order[m]] <= key[order[n]]
  <2>1. LE(at[m], at[n])
    <3> HIDE DEF LE
    <3> QED
      BY <1>1, <1>7, <1>8, <1>13, <1>15
  <2> QED
    BY <2>1, <1>5, <1>13
<1> QED
  BY <1>14, <1>15 DEF N

\* Arranged lists every element once, those with a smaller key first.
LEMMA ArrangedFacts ==
  ASSUME NEW S, IsFiniteSet(S), NEW key, \A i \in S : key[i] \in Int
  PROVE  /\ Arranged(S, key) \in [1 .. Cardinality(S) -> S]
         /\ \A m, n \in 1 .. Cardinality(S) : Arranged(S, key)[m] = Arranged(S, key)[n] => m = n
         /\ \A m, n \in 1 .. Cardinality(S) :
              m < n => key[Arranged(S, key)[m]] <= key[Arranged(S, key)[n]]
         /\ \A i \in S : \E m \in 1 .. Cardinality(S) : Arranged(S, key)[m] = i
         /\ Cardinality(S) \in Nat
<1> DEFINE order == Arranged(S, key)
           N == Cardinality(S)
<1>1. /\ order \in [1 .. N -> S]
      /\ IsInjective(order)
      /\ \A m, n \in DOMAIN order : m < n => key[order[m]] <= key[order[n]]
  BY ArrangementExists, Zenon DEF Arranged
<1>2. N \in Nat
  BY FS_CardinalityType
<1>3. IsFiniteSet(1 .. N) /\ Cardinality(1 .. N) = N
  BY <1>2, FS_Interval
<1> HIDE DEF order, N
<1>4. DOMAIN order = 1 .. N /\ \A m, n \in 1 .. N : order[m] = order[n] => m = n
  BY <1>1 DEF IsInjective
<1>5. order \in Injection(1 .. N, S)
  BY <1>1 DEF Injection
<1>6. order \in Surjection(1 .. N, S)
  BY <1>3, <1>5, FS_Injection DEF N
<1>7. \A i \in S : \E m \in 1 .. N : order[m] = i
  BY <1>6 DEF Surjection
<1> QED
  BY <1>1, <1>2, <1>4, <1>7 DEF order, N

\* A finite set of numbers has a least and a greatest one.
LEMMA Extremes ==
  ASSUME NEW S, IsFiniteSet(S), S # {}, S \in SUBSET Int
  PROVE  /\ Min(S) \in S /\ \A v \in S : Min(S) <= v
         /\ Max(S) \in S /\ \A v \in S : v <= Max(S)
<1> DEFINE id == [v \in S |-> v]
           order == Arranged(S, id)
           N == Cardinality(S)
<1>1. \A v \in S : id[v] \in Int
  OBVIOUS
<1>2. N \in Nat \ {0}
  BY FS_CardinalityType, FS_EmptySet
<1> HIDE DEF id
<1>3. /\ order \in [1 .. N -> S]
      /\ \A m, n \in 1 .. N : m < n => id[order[m]] <= id[order[n]]
      /\ \A v \in S : \E m \in 1 .. N : order[m] = v
  BY <1>1, ArrangedFacts
<1> HIDE DEF order, N
<1>4. \A m, n \in 1 .. N : m < n => order[m] <= order[n]
  BY <1>3 DEF id
<1>5. order[1] \in S /\ order[N] \in S
  BY <1>2, <1>3
<1>6. ASSUME NEW v \in S PROVE order[1] <= v /\ v <= order[N]
  <2>1. PICK m \in 1 .. N : order[m] = v
    BY <1>3
  <2>2. m = 1 \/ 1 < m
    BY <1>2
  <2>3. m = N \/ m < N
    BY <1>2
  <2>4. v \in Int /\ order[1] \in Int /\ order[N] \in Int
    BY <1>5
  <2> QED
    BY <1>2, <1>4, <2>1, <2>2, <2>3, <2>4
<1>7. \E x \in S : \A y \in S : x <= y
  BY <1>5, <1>6
<1>8. \E x \in S : \A y \in S : x >= y
  BY <1>5, <1>6
<1> QED
  BY <1>7, <1>8 DEF Min, Max

\* At least q of the values are not above the q-th of them, and less than q below.
LEMMA RankOfSorted ==
  ASSUME NEW S, IsFiniteSet(S), NEW dur, \A i \in S : dur[i] \in Int,
         NEW q \in 1 .. Cardinality(S), NEW v, v = Sorted(S, dur)[q]
  PROVE  /\ v \in {dur[i] : i \in S}
         /\ Cardinality({i \in S : dur[i] <= v}) \in Nat
         /\ Cardinality({i \in S : dur[i] <= v}) >= q
         /\ Cardinality({i \in S : dur[i] < v}) \in Nat
         /\ Cardinality({i \in S : dur[i] < v}) < q
         /\ q = 1 => \A i \in S : v <= dur[i]
<1> DEFINE order == Arranged(S, dur)
           N == Cardinality(S)
           upTo == {i \in S : dur[i] <= v}
           below == {i \in S : dur[i] < v}
<1>1. /\ order \in [1 .. N -> S] /\ N \in Nat
      /\ \A m, n \in 1 .. N : order[m] = order[n] => m = n
      /\ \A m, n \in 1 .. N : m < n => dur[order[m]] <= dur[order[n]]
      /\ \A i \in S : \E m \in 1 .. N : order[m] = i
  BY ArrangedFacts
<1>2. v = dur[order[q]] /\ q \in 1 .. N
  BY DEF Sorted
<1> HIDE DEF order, N
<1>3. v \in Int /\ order[q] \in S /\ q \in Nat /\ q >= 1
  BY <1>1, <1>2
<1>4. IsFiniteSet(upTo) /\ IsFiniteSet(below)
  BY FS_Subset
<1>5. Cardinality(upTo) \in Nat /\ Cardinality(below) \in Nat
  <2> HIDE DEF upTo, below
  <2> QED
    BY <1>4, FS_CardinalityType
<1>6. Cardinality(upTo) >= q
  <2> DEFINE f == [m \in 1 .. q |-> order[m]]
  <2>1. \A m \in 1 .. q : m \in 1 .. N /\ order[m] \in upTo
    <3> SUFFICES ASSUME NEW m \in 1 .. q PROVE m \in 1 .. N /\ order[m] \in upTo
      OBVIOUS
    <3>1. m \in 1 .. N /\ (m = q \/ m < q)
      BY <1>1, <1>2, <1>3
    <3>2. order[m] \in S /\ dur[order[m]] <= v
      BY <1>1, <1>2, <1>3, <3>1
    <3> QED
      BY <3>1, <3>2
  <2> HIDE DEF upTo
  <2>2. f \in Injection(1 .. q, upTo)
    BY <1>1, <2>1 DEF Injection, IsInjective
  <2>3. IsFiniteSet(1 .. q) /\ Cardinality(1 .. q) = q
    BY <1>3, FS_Interval
  <2> HIDE DEF f
  <2> QED
    BY <1>4, <1>5, <2>2, <2>3, FS_Injection
<1>7. Cardinality(below) < q
  <2> DEFINE f == [i \in below |-> CHOOSE m \in 1 .. N : order[m] = i]
  <2>1. \A i \in below : f[i] \in 1 .. N /\ order[f[i]] = i
    BY <1>1
  <2>2. \A i \in below : f[i] \in 1 .. q - 1
    <3> SUFFICES ASSUME NEW i \in below PROVE f[i] \in 1 .. q - 1
      OBVIOUS
    <3> HIDE DEF f
    <3>1. f[i] \in 1 .. N /\ order[f[i]] = i /\ dur[i] < v /\ dur[i] \in Int
      BY <2>1
    <3>2. ~ (q < f[i]) /\ q # f[i]
      BY <1>1, <1>2, <1>3, <3>1
    <3> QED
      BY <1>1, <1>3, <3>1, <3>2
  <2>3. f \in Injection(below, 1 .. q - 1)
    <3>1. f \in [below -> 1 .. q - 1]
      BY <2>2
    <3> HIDE DEF f, below
    <3> QED
      BY <2>1, <3>1 DEF Injection, IsInjective
  <2>4. IsFiniteSet(1 .. q - 1) /\ Cardinality(1 .. q - 1) = q - 1
    <3>1. q - 1 \in Int /\ 1 \in Int /\ (1 > q - 1 => q - 1 = 0)
      BY <1>3
    <3>2. Cardinality(1 .. q - 1) = IF 1 > q - 1 THEN 0 ELSE q - 1 - 1 + 1
      BY <3>1, FS_Interval
    <3> QED
      BY <3>1, <3>2, FS_Interval
  <2> HIDE DEF f, below
  <2>5. Cardinality(below) <= q - 1
    BY <2>3, <2>4, FS_Injection
  <2> QED
    BY <1>3, <1>5, <2>5
<1>8. q = 1 => \A i \in S : v <= dur[i]
  <2> SUFFICES ASSUME q = 1, NEW i \in S PROVE v <= dur[i]
    OBVIOUS
  <2>1. PICK m \in 1 .. N : order[m] = i
    BY <1>1
  <2> QED
    BY <1>1, <1>2, <1>3, <2>1
<1> QED
  BY <1>2, <1>3, <1>5, <1>6, <1>7, <1>8

\* The percentiles that are no ends of the list.
Ranks == {500, 750, 900, 950, 990, 999}

\* The place percentile takes in a list of n elements.
Place(n, p) == 1 + Min({Max({(p * n + 999) \div 1000 - 1, 0}), n - 1})

\* It is in the list, and the nearest rank (main.go:403-415).
LEMMA NearestPlace ==
  ASSUME NEW n \in Nat \ {0}, NEW p \in Ranks
  PROVE  /\ Place(n, p) \in 1 .. n
         /\ 1000 * Place(n, p) >= p * n
         /\ 1000 * (Place(n, p) - 1) < p * n
<1> DEFINE x == p * n
           idx == (x + 999) \div 1000 - 1
<1>1. x \in Nat /\ x >= 1 /\ x <= 1000 * n
  BY DEF Ranks
<1>2. Place(n, p) = 1 + Min({Max({idx, 0}), n - 1})
  BY DEF Place
<1> HIDE DEF x
<1>3. idx \in Int /\ 1000 * (idx + 1) >= x /\ 1000 * idx < x
  BY <1>1
<1>4. idx >= 0 /\ idx <= n - 1
  BY <1>1, <1>3
<1> HIDE DEF idx
<1>5. Max({idx, 0}) = idx
  BY <1>3, <1>4 DEF Max
<1>6. Min({idx, n - 1}) = idx
  BY <1>3, <1>4 DEF Min
<1>7. Place(n, p) = 1 + idx
  BY <1>2, <1>5, <1>6
<1> QED
  <2>1. Place(n, p) \in 1 .. n /\ 1000 * Place(n, p) >= x /\ 1000 * (Place(n, p) - 1) < x
    BY <1>3, <1>4, <1>7
  <2> QED
    BY <2>1 DEF x

\* Each percentile of a list of durations is one of them by nearest rank, or zero
\* without any (main.go:388-415).
LEMMA PercentileIsNearestRank ==
  ASSUME NEW S, IsFiniteSet(S), NEW dur, \A i \in S : dur[i] \in Int,
         NEW name \in DOMAIN pctDefs
  PROVE  /\ NearestRank(pctValue(Sorted(S, dur), name), pctDefs[name], S, dur)
         /\ S # {} => pctValue(Sorted(S, dur), name) \in {dur[i] : i \in S}
         /\ S = {} => pctValue(Sorted(S, dur), name) = 0
<1> DEFINE N == Cardinality(S)
           sorted == Sorted(S, dur)
           v == pctValue(sorted, name)
           p == pctDefs[name]
<1>1. N \in Nat /\ (N = 0 <=> S = {})
  BY FS_CardinalityType, FS_EmptySet
<1>2. sorted \in Seq(Int) /\ Len(sorted) = N
  <2>1. \A m \in 1 .. N : dur[Arranged(S, dur)[m]] \in Int
    BY ArrangedFacts
  <2> HIDE DEF N
  <2> QED
    BY <1>1, <2>1 DEF Sorted, N
<1> HIDE DEF N, sorted
<1>3. CASE S = {}
  <2>1. sorted = <<>>
    BY <1>1, <1>2, <1>3
  <2>2. v = 0
    BY <2>1 DEF pctValue
  <2> QED
    BY <1>3, <2>2 DEF NearestRank, sorted
<1>4. CASE S # {}
  <2>1. N \in Nat \ {0} /\ sorted # <<>>
    BY <1>1, <1>2, <1>4
  <2>2. \/ name = "Min" /\ p = 0
        \/ name = "Max" /\ p = 1000
        \/ name \notin {"Min", "Max"} /\ p \in Ranks
    BY DEF pctDefs, Ranks
  <2>3. p \in Nat
    BY <2>2 DEF Ranks
  <2>4. \E q \in 1 .. N : /\ v = sorted[q] /\ 1000 * q >= p * N
                          /\ p = 0 => q = 1
                          /\ p > 0 => 1000 * (q - 1) < p * N
    <3> HIDE DEF p
    <3>1. CASE name = "Min" /\ p = 0
      BY <2>1, <3>1 DEF pctValue
    <3>2. CASE name = "Max" /\ p = 1000
      BY <1>2, <2>1, <3>2 DEF pctValue
    <3>3. CASE name \notin {"Min", "Max"} /\ p \in Ranks
      <4> DEFINE q == Place(N, p)
      <4>1. q \in 1 .. N /\ 1000 * q >= p * N /\ 1000 * (q - 1) < p * N
        BY <2>1, <3>3, NearestPlace
      <4>2. v = sorted[q]
        BY <1>2, <2>1, <3>3 DEF pctValue, percentile, Place, p
      <4>3. p # 0
        BY <3>3 DEF Ranks
      <4> HIDE DEF q, v
      <4> QED
        BY <4>1, <4>2, <4>3
    <3> QED
      BY <2>2, <3>1, <3>2, <3>3
  <2>5. PICK q \in 1 .. N : /\ v = sorted[q] /\ 1000 * q >= p * N
                            /\ p = 0 => q = 1
                            /\ p > 0 => 1000 * (q - 1) < p * N
    BY <2>4
  <2> HIDE DEF v, p
  <2> DEFINE A == Cardinality({i \in S : dur[i] <= v})
             B == Cardinality({i \in S : dur[i] < v})
  <2>6. /\ v \in {dur[i] : i \in S} /\ A \in Nat /\ A >= q /\ B \in Nat /\ B < q
        /\ q = 1 => \A i \in S : v <= dur[i]
    <3>1. q \in 1 .. Cardinality(S) /\ v = Sorted(S, dur)[q]
      BY <2>5 DEF N, sorted
    <3> QED
      BY <3>1, RankOfSorted
  <2> HIDE DEF A, B
  <2>7. p * N \in Nat
    BY <2>1, <2>3
  <2>8. 1000 * A >= p * N /\ (p > 0 => 1000 * B < p * N)
    <3> DEFINE y == p * N
    <3> HIDE DEF y
    <3>1. y \in Nat /\ 1000 * q >= y /\ (p > 0 => 1000 * (q - 1) < y) /\ q \in Nat
      BY <2>1, <2>5, <2>7 DEF y
    <3> QED
      BY <2>3, <2>6, <3>1 DEF y
  <2> QED
    BY <1>4, <2>5, <2>6, <2>8 DEF NearestRank, v, A, B, N, p, sorted
<1> QED
  BY <1>3, <1>4

-----------------------------------------------------------------------------
(* Means and deviations.                                                   *)

\* Division leaves less than the divisor.
LEMMA Quotient ==
  ASSUME NEW n \in Nat \ {0}, NEW s \in Int
  PROVE  /\ s \div n \in Int
         /\ n * (s \div n) <= s
         /\ n * (s \div n + 1) > s
<1>1. \E q \in Int, r \in 0 .. n - 1 : s = q * n + r /\ s \div n = q
  OBVIOUS
<1> QED
  BY <1>1

\* A positive factor can be left out on both sides.
LEMMA Cancel ==
  ASSUME NEW n \in Nat \ {0}, NEW a \in Int, NEW b \in Int, n * a < n * b
  PROVE  a < b
<1>1. n * b - n * a = n * (b - a) /\ n * (b - a) \in Int
  OBVIOUS
<1>2. b - a <= 0 => n * (b - a) <= 0
  OBVIOUS
<1>3. n * a \in Int /\ n * b \in Int
  OBVIOUS
<1> QED
  BY <1>1, <1>2, <1>3

\* A sum of whole numbers is one, and no less than 0 if none of them is.
LEMMA SumType ==
  ASSUME NEW S, IsFiniteSet(S), NEW f, \A i \in S : f[i] \in Int
  PROVE  /\ SumFunctionOnSet(f, S) \in Int
         /\ (\A i \in S : 0 <= f[i]) => 0 <= SumFunctionOnSet(f, S)
<1>1. CASE S = {}
  <2>1. Cardinality(S) = 0
    BY <1>1, FS_EmptySet
  <2>2. /\ SumFunctionOnSet(f, S) \in Int
        /\ Cardinality(S) * 0 <= SumFunctionOnSet(f, S)
    BY <1>1, SumBounds
  <2> QED
    BY <2>1, <2>2
<1>2. CASE S # {}
  <2> DEFINE values == {f[i] : i \in S}
  <2>1. values # {} /\ values \in SUBSET Int /\ \A i \in S : f[i] \in values
    BY <1>2
  <2>2. IsFiniteSet(values)
    <3> DEFINE g == [i \in S |-> f[i]]
    <3>1. g \in [S -> values] /\ \A v \in values : \E i \in S : g[i] = v
      OBVIOUS
    <3> HIDE DEF g, values
    <3>2. g \in Surjection(S, values)
      BY <3>1 DEF Surjection
    <3> QED
      BY <3>2, FS_Surjection
  <2> HIDE DEF values
  <2>3. /\ Min(values) \in Int /\ Max(values) \in Int
        /\ \A i \in S : Min(values) <= f[i] /\ f[i] <= Max(values)
    BY <2>1, <2>2, Extremes
  <2>4. SumFunctionOnSet(f, S) \in Int
    BY <2>3, SumBounds
  <2>5. ASSUME \A i \in S : 0 <= f[i] PROVE 0 <= SumFunctionOnSet(f, S)
    <3>1. Cardinality(S) * 0 <= SumFunctionOnSet(f, S)
      BY <2>3, <2>5, SumBounds
    <3>2. Cardinality(S) \in Nat
      BY FS_CardinalityType
    <3> QED
      BY <3>1, <3>2
  <2> QED
    BY <2>4, <2>5
<1> QED
  BY <1>1, <1>2

\* The mean is the largest whole number that is not above the real one.
LEMMA MeanIsFloor ==
  ASSUME NEW S, IsFiniteSet(S), S # {}, NEW val, \A i \in S : val[i] \in Int
  PROVE  /\ Mean(S, val) \in Int
         /\ Cardinality(S) * Mean(S, val) <= SumFunctionOnSet(val, S)
         /\ Cardinality(S) * (Mean(S, val) + 1) > SumFunctionOnSet(val, S)
<1>1. Cardinality(S) \in Nat \ {0}
  BY FS_CardinalityType, FS_EmptySet
<1>2. SumFunctionOnSet(val, S) \in Int
  BY SumType
<1>3. Mean(S, val) = SumFunctionOnSet(val, S) \div Cardinality(S)
  BY DEF Mean
<1> QED
  BY <1>1, <1>2, <1>3, Quotient

\* A mean lies between the bounds of the values.
LEMMA MeanFacts ==
  ASSUME NEW S, IsFiniteSet(S), S # {}, NEW val, NEW lo \in Int, NEW hi \in Int,
         \A i \in S : val[i] \in Int /\ lo <= val[i] /\ val[i] <= hi
  PROVE  Mean(S, val) \in Int /\ lo <= Mean(S, val) /\ Mean(S, val) <= hi
<1> DEFINE n == Cardinality(S)
           s == SumFunctionOnSet(val, S)
           m == Mean(S, val)
<1>1. n \in Nat \ {0}
  BY FS_CardinalityType, FS_EmptySet
<1>2. s \in Int /\ n * lo <= s /\ s <= n * hi
  BY SumBounds
<1>4. m \in Int /\ n * m <= s /\ n * (m + 1) > s
  BY MeanIsFloor
<1> HIDE DEF n, s, m
<1>5. n * lo \in Int /\ n * hi \in Int /\ n * m \in Int /\ n * (m + 1) \in Int /\ n * (hi + 1) \in Int
  BY <1>1, <1>4
<1>6. lo < m + 1
  <2>1. n * lo < n * (m + 1)
    BY <1>2, <1>4, <1>5
  <2> QED
    BY <1>1, <1>4, <2>1, Cancel
<1>7. m < hi + 1
  <2>1. n * (hi + 1) = n * hi + n
    BY <1>1
  <2>2. n * m < n * (hi + 1)
    BY <1>1, <1>2, <1>4, <1>5, <2>1
  <2> QED
    BY <1>1, <1>4, <2>2, Cancel
<1> QED
  BY <1>1, <1>4, <1>6, <1>7 DEF m

\* There is a root: its square is not above the number, that of the next one is.
LEMMA RootFacts ==
  ASSUME NEW v \in Nat
  PROVE  Root(v) \in Nat /\ Root(v) * Root(v) <= v /\ v < (Root(v) + 1) * (Root(v) + 1)
<1> DEFINE Above == {r \in Nat : v < (r + 1) * (r + 1)}
<1>1. v < (v + 1) * (v + 1)
  BY (v + 1) * (v + 1) = v * v + v + v + 1, v * v >= 0
<1>2. PICK r \in Above : \A y \in Above : r <= y
  <2>1. Above \in SUBSET Nat /\ v \in Above
    BY <1>1
  <2> HIDE DEF Above
  <2> QED
    BY <2>1, LeastExists
<1>3. r \in Nat /\ v < (r + 1) * (r + 1)
  BY <1>2
<1>4. r * r <= v
  <2>1. CASE r = 0
    BY <2>1
  <2>2. CASE r # 0
    <3>1. r - 1 \in Nat /\ r - 1 \notin Above
      BY <1>2, <1>3, <2>2
    <3>2. ~ (v < (r - 1 + 1) * (r - 1 + 1))
      BY <3>1
    <3>3. r - 1 + 1 = r /\ r * r \in Nat
      BY <1>3
    <3> QED
      BY <3>2, <3>3
  <2> QED
    BY <2>1, <2>2
<1>5. r <= r * r
  <2>1. r = 0 \/ r >= 1
    BY <1>3
  <2>2. r >= 1 => r * r >= r * 1
    BY <1>3
  <2> QED
    BY <1>3, <2>1, <2>2
<1>6. r \in 0 .. v
  <2>1. r * r \in Nat
    BY <1>3
  <2> QED
    BY <1>3, <1>4, <1>5, <2>1
<1>7. \E x \in 0 .. v : x * x <= v /\ v < (x + 1) * (x + 1)
  BY <1>3, <1>4, <1>6
<1> DEFINE root == Root(v)
<1>8. root \in 0 .. v /\ root * root <= v /\ v < (root + 1) * (root + 1)
  BY <1>7, Zenon DEF Root
<1> HIDE DEF root
<1> QED
  <2>1. root \in Nat
    BY <1>8
  <2> QED
    BY <1>8, <2>1 DEF root

\* Cutting a quotient to a whole number before its root is taken, and the root
\* after it, cuts the root of the real quotient once.
LEMMA RootOfQuotient ==
  ASSUME NEW n \in Nat \ {0}, NEW s \in Nat
  PROVE  Root(s \div n) \in Nat /\ IsDeviation(Root(s \div n), s, n)
<1> DEFINE q == s \div n
           r == Root(q)
           a == r * r
           b == (r + 1) * (r + 1)
<1>1. q \in Int /\ n * q <= s /\ n * (q + 1) > s
  BY Quotient
<1> HIDE DEF q
<1>2. q \in Nat
  <2>1. n * 0 = 0 /\ n * (q + 1) \in Int
    BY <1>1
  <2>2. 0 < q + 1
    <3>1. n * 0 < n * (q + 1)
      BY <1>1, <2>1
    <3> QED
      BY <1>1, <3>1, Cancel
  <2> QED
    BY <1>1, <2>2
<1>3. r \in Nat /\ a <= q /\ q < b
  BY <1>2, RootFacts
<1>4. a \in Int /\ b \in Int
  BY <1>3
<1> HIDE DEF r, a, b
<1>5. \A x, y \in Int : x <= y => n * x \in Int /\ n * y \in Int /\ n * x <= n * y
  <2> SUFFICES ASSUME NEW x \in Int, NEW y \in Int, x <= y
               PROVE  n * x \in Int /\ n * y \in Int /\ n * x <= n * y
    OBVIOUS
  <2>1. n * y - n * x = n * (y - x) /\ n * (y - x) >= 0
    OBVIOUS
  <2> QED
    BY <2>1
<1>6. n * a \in Int /\ n * q \in Int /\ n * a <= n * q
  BY <1>2, <1>3, <1>4, <1>5
<1>7. n * (q + 1) \in Int /\ n * b \in Int /\ n * (q + 1) <= n * b
  BY <1>2, <1>3, <1>4, <1>5
<1>8. n * a <= s /\ s < n * b
  BY <1>1, <1>6, <1>7
<1> QED
  BY <1>3, <1>8 DEF IsDeviation, q, r, a, b

\* A square is not negative.
LEMMA Square == ASSUME NEW a \in Int PROVE a * a \in Nat
<1>1. a * a \in Int /\ a * a >= 0
  OBVIOUS
<1> QED
  BY <1>1

\* The deviation of a run is the root of the mean square distance from its mean
\* (main.go:428-439).
LEMMA StddevFacts ==
  ASSUME NEW S, IsFiniteSet(S), S # {}, NEW val, \A i \in S : val[i] \in Int,
         NEW m, m = Mean(S, val), NEW far, far = [i \in S |-> (val[i] - m) * (val[i] - m)]
  PROVE  /\ Stddev(S, val) \in Nat
         /\ IsDeviation(Stddev(S, val), SumFunctionOnSet(far, S), Cardinality(S))
<1>1. Cardinality(S) \in Nat \ {0} /\ m \in Int
  BY FS_CardinalityType, FS_EmptySet, MeanIsFloor
<1>2. \A i \in S : far[i] \in Int /\ 0 <= far[i]
  BY <1>1, Square
<1>3. SumFunctionOnSet(far, S) \in Nat
  BY <1>2, SumType
<1>4. Stddev(S, val) = Root(SumFunctionOnSet(far, S) \div Cardinality(S))
  BY DEF Stddev
<1> QED
  BY <1>1, <1>3, <1>4, RootOfQuotient

\* The deviation between runs is the root of the mean square distance from their
\* real mean: the distances are n times as large, their squares n * n times
\* (main.go:452-463).
LEMMA StddevFFacts ==
  ASSUME NEW S, IsFiniteSet(S), S # {}, NEW val, \A i \in S : val[i] \in Int,
         NEW n, n = Cardinality(S), NEW sum, sum = SumFunctionOnSet(val, S),
         NEW far, far = [i \in S |-> (n * val[i] - sum) * (n * val[i] - sum)]
  PROVE  IsDeviation(stddevF(S, val), SumFunctionOnSet(far, S), n * n * n)
<1>1. n \in Nat \ {0} /\ sum \in Int
  BY FS_CardinalityType, FS_EmptySet, SumType
<1>2. n * n * n \in Nat \ {0}
  <2>1. n * n \in Nat \ {0}
    BY <1>1
  <2> DEFINE k == n * n
  <2> HIDE DEF k
  <2>2. k * n \in Nat \ {0}
    BY <1>1, <2>1 DEF k
  <2> QED
    BY <2>2 DEF k
<1>3. \A i \in S : far[i] \in Int /\ 0 <= far[i]
  <2> SUFFICES ASSUME NEW i \in S PROVE far[i] \in Int /\ 0 <= far[i]
    OBVIOUS
  <2>1. n * val[i] - sum \in Int
    BY <1>1
  <2> QED
    BY <2>1, Square
<1>4. SumFunctionOnSet(far, S) \in Nat
  BY <1>3, SumType
<1>5. stddevF(S, val) = Root(SumFunctionOnSet(far, S) \div (n * n * n))
  BY DEF stddevF
<1> QED
  BY <1>2, <1>4, <1>5, RootOfQuotient

-----------------------------------------------------------------------------
(* The statistics of a run.                                                *)

\* What StatsDescribeRun asks of the statistics of the runs in S.
Describes(stats, S, dur) ==
  /\ \A name \in DOMAIN pctDefs : NearestRank(stats[name], pctDefs[name], S, dur)
  /\ S = {} => stats.Mean = 0 /\ stats.Stddev = 0
  /\ S # {} =>
       LET far == [i \in S |-> (dur[i] - stats.Mean) * (dur[i] - stats.Mean)]
       IN /\ Cardinality(S) * stats.Mean <= SumFunctionOnSet(dur, S)
          /\ Cardinality(S) * (stats.Mean + 1) > SumFunctionOnSet(dur, S)
          /\ IsDeviation(stats.Stddev, SumFunctionOnSet(far, S), Cardinality(S))

\* The rows of the statistics.
LEMMA StatisticsRows ==
  ASSUME NEW S, NEW dur
  PROVE  /\ DOMAIN Statistics(S, dur) = Rows
         /\ Statistics(S, dur).Mean = Mean(S, dur)
         /\ Statistics(S, dur).Stddev = Stddev(S, dur)
         /\ \A name \in DOMAIN pctDefs :
              Statistics(S, dur)[name] = pctValue(Sorted(S, dur), name)
<1>1. "Mean" \in Rows /\ "Stddev" \in Rows
  BY DEF Rows
<1>2. \A name \in DOMAIN pctDefs : name \in Rows /\ name # "Mean" /\ name # "Stddev"
  BY DEF Rows, pctDefs
<1> QED
  BY <1>1, <1>2 DEF Statistics

\* They describe the runs, whatever their durations were (main.go:193-222, 388-439).
LEMMA StatisticsDescribe ==
  ASSUME NEW S, IsFiniteSet(S), NEW dur, \A i \in S : dur[i] \in Int
  PROVE  /\ Describes(Statistics(S, dur), S, dur)
         /\ Statistics(S, dur) \in [Rows -> Int]
<1> DEFINE stats == Statistics(S, dur)
<1>1. /\ DOMAIN stats = Rows
      /\ stats.Mean = Mean(S, dur) /\ stats.Stddev = Stddev(S, dur)
      /\ \A name \in DOMAIN pctDefs : stats[name] = pctValue(Sorted(S, dur), name)
  BY StatisticsRows
<1>2. \A name \in DOMAIN pctDefs :
        /\ NearestRank(stats[name], pctDefs[name], S, dur)
        /\ S # {} => stats[name] \in {dur[i] : i \in S}
        /\ S = {} => stats[name] = 0
  BY <1>1, PercentileIsNearestRank
<1>3. stats = [row \in Rows |-> stats[row]]
  BY DEF Statistics
<1> HIDE DEF stats
<1>4. \A name \in DOMAIN pctDefs : stats[name] \in Int
  BY <1>2
<1>5. CASE S = {}
  <2>1. stats.Mean = 0 /\ stats.Stddev = 0
    BY <1>1, <1>5 DEF Mean, Stddev
  <2>2. Describes(stats, S, dur)
    BY <1>2, <1>5, <2>1 DEF Describes
  <2>3. \A row \in Rows : stats[row] \in Int
    BY <1>4, <2>1 DEF Rows
  <2> QED
    BY <1>3, <2>2, <2>3 DEF stats
<1>6. CASE S # {}
  <2> DEFINE m == stats.Mean
             far == [i \in S |-> (dur[i] - m) * (dur[i] - m)]
  <2>1. /\ m = Mean(S, dur) /\ m \in Int
        /\ Cardinality(S) * m <= SumFunctionOnSet(dur, S)
        /\ Cardinality(S) * (m + 1) > SumFunctionOnSet(dur, S)
    BY <1>1, <1>6, MeanIsFloor
  <2>2. /\ stats.Stddev \in Nat
        /\ IsDeviation(stats.Stddev, SumFunctionOnSet(far, S), Cardinality(S))
    BY <1>1, <1>6, <2>1, StddevFacts
  <2>3. Describes(stats, S, dur)
    BY <1>2, <1>6, <2>1, <2>2 DEF Describes
  <2>4. \A row \in Rows : stats[row] \in Int
    BY <1>4, <2>1, <2>2 DEF Rows
  <2> QED
    BY <1>3, <2>3, <2>4 DEF stats
<1> QED
  BY <1>5, <1>6

-----------------------------------------------------------------------------
(* The clean-up.                                                           *)

\* A step of one goroutine keeps the invariant: on each of its ways out the
\* result keeps the id it had (main.go:230-279).
LEMMA BenchStep ==
  ASSUME BenchInv, NEW i \in Indices, Bench(i)
  PROVE  BenchInv'
<1> USE DEF BenchInv, Indices, Rest, Finish
<1>1. bench[i] # "done" => mpc = "run"
  OBVIOUS
<1>2. CASE Create(i)
  <2> PICK d \in Durations :
        LET r == [NoResult EXCEPT !.sandboxID = TRUE, !.createDur = d] IN
        \/ Finish(i, [r EXCEPT !.readyDur = d])
        \/ /\ bench' = [bench EXCEPT ![i] = "wait"]
           /\ results' = [results EXCEPT ![i] = r]
    BY <1>2 DEF Create
  <2> DEFINE known == [NoResult EXCEPT !.sandboxID = TRUE, !.createDur = d]
  <2>0. i \in DOMAIN results /\ results' \in {[results EXCEPT ![i] = known],
                                         [results EXCEPT ![i] = [known EXCEPT !.readyDur = d]]}
    OBVIOUS
  <2>1. results'[i].sandboxID /\ DOMAIN results'[i] = DOMAIN NoResult
    <3>1. known.sandboxID /\ DOMAIN known = DOMAIN NoResult
      BY DEF NoResult
    <3>2. LET r == [known EXCEPT !.readyDur = d] IN r.sandboxID /\ DOMAIN r = DOMAIN NoResult
      BY <3>1
    <3> HIDE DEF known
    <3>3. results'[i] \in {known, [known EXCEPT !.readyDur = d]}
      BY <2>0
    <3> QED
      BY <3>1, <3>2, <3>3
  <2>2. /\ DOMAIN bench' = DOMAIN bench /\ DOMAIN results' = DOMAIN results
        /\ \A j \in DOMAIN bench : j # i => bench'[j] = bench[j] /\ results'[j] = results[j]
        /\ bench'[i] \in {"wait", "done"}
    OBVIOUS
  <2>3. mpc = "run" /\ mpc' = mpc /\ deleted' = deleted /\ created' = created \cup {i}
    BY <1>1, <1>2 DEF Create
  <2> QED
    BY <2>1, <2>2, <2>3
<1>3. CASE CreateFails(i)
  BY <1>1, <1>3 DEF CreateFails, NoResult
<1>4. CASE Timeout(i)
  BY <1>1, <1>4 DEF Timeout
<1>5. CASE Wake(i)
  <2>1. bench[i] = "wait" /\ mpc = "run" /\ mpc' = mpc /\ deleted' = deleted /\ created' = created
    BY <1>1, <1>5 DEF Wake
  <2>2. CASE bench' = [bench EXCEPT ![i] = "get"] /\ UNCHANGED results
    BY <2>1, <2>2
  <2>3. CASE Finish(i, [results[i] EXCEPT !.err = "ctx"])
    BY <2>1, <2>3
  <2> QED
    BY <1>5, <2>2, <2>3 DEF Wake
<1>6. CASE Get(i)
  <2>1. bench[i] = "get" /\ mpc = "run" /\ mpc' = mpc /\ deleted' = deleted /\ created' = created
    BY <1>1, <1>6 DEF Get
  <2>2. \/ bench' = [bench EXCEPT ![i] = "wait"] /\ results' = results
        \/ \E r : /\ Finish(i, r) /\ r.sandboxID = results[i].sandboxID
                 /\ DOMAIN r = DOMAIN results[i]
    BY <1>6, <2>1 DEF Get, NoResult
  <2>3. /\ DOMAIN bench' = DOMAIN bench /\ DOMAIN results' = DOMAIN results
        /\ \A j \in DOMAIN bench : j # i => bench'[j] = bench[j] /\ results'[j] = results[j]
        /\ bench'[i] \in {"wait", "done"} /\ results'[i].sandboxID
        /\ DOMAIN results'[i] = DOMAIN NoResult
    BY <2>1, <2>2
  <2>4. \A j \in created : results'[j].sandboxID \/ results'[j].err = "create"
    BY <2>3
  <2>5. \A j \in DOMAIN bench :
          /\ bench'[j] = "create" => j \notin created
          /\ bench'[j] \in {"wait", "get"} => results'[j].sandboxID
          /\ DOMAIN results'[j] = DOMAIN NoResult
    BY <2>3
  <2> QED
    BY <2>1, <2>3, <2>4, <2>5
<1>7. CASE GetFails(i)
  BY <1>1, <1>7 DEF GetFails
<1> QED
  BY <1>2, <1>3, <1>4, <1>5, <1>6, <1>7 DEF Bench

\* So does every other step.
LEMMA BenchNext ==
  ASSUME BenchInv, [Next]_vars
  PROVE  BenchInv'
<1> USE DEF BenchInv, Indices
<1>1. CASE \E i \in Indices : Bench(i)
  BY <1>1, BenchStep
<1>2. CASE \E i \in Indices : Delete(i)
  BY <1>2 DEF Delete
<1>3. CASE Launch
  BY <1>3 DEF Launch, NoResult
<1>4. CASE NextLevel
  BY <1>4 DEF NextLevel
<1>5. CASE Wait
  BY <1>5 DEF Wait
<1>6. CASE Collect
  BY <1>6 DEF Collect
<1>7. CASE PrintSummary
  BY <1>7 DEF PrintSummary
<1>8. CASE Interrupt \/ UNCHANGED vars
  BY <1>8 DEF Interrupt, vars
<1> QED
  BY <1>1, <1>2, <1>3, <1>4, <1>5, <1>6, <1>7, <1>8 DEF Next, Main

-----------------------------------------------------------------------------
(* The runs.                                                               *)

\* The flags of the program.
LEMMA Setting ==
  ASSUME TypeOK
  PROVE  levels \in Seq(Nat) /\ repeat \in Nat
BY BenchmarkAssumption DEF TypeOK

\* The runs made so far: no level above the current one has any, and those below
\* it have all their repetitions unless a signal has cut them off; then none is
\* begun any more, so that the levels with a run stay the first ones.  A run has
\* a goroutine for each sandbox of its level.
Run == [pcts : [Metrics -> [Rows -> Int]], succeeded : Nat, failed : Nat]
RunsInv ==
  /\ IsFiniteSet(Indices)
  /\ \A i \in Indices, m \in Metrics : results[i][m] \in Nat
  /\ allRuns \in [1 .. Len(levels) -> Seq(Run)]
  /\ mpc # "clean" => clean = {}
  /\ mpc \in {"run", "clean"} => /\ level <= Len(levels) /\ Len(allRuns[level]) < repeat
                                /\ Indices = 1 .. levels[level]
  /\ mpc = "over" => level > Len(levels)
  /\ \A l \in 1 .. Len(levels) : l > level => allRuns[l] = <<>>
  /\ mpc \in {"run", "clean"} \/ ~ interrupted =>
       \A l \in 1 .. Len(levels) : l < level => Len(allRuns[l]) = repeat
  /\ \A k, l \in 1 .. Len(levels) : k < l /\ allRuns[l] # <<>> => allRuns[k] # <<>>

\* The statistics made last are those of the results at hand.
Reported == [pcts      |-> [m \in Metrics |-> Statistics(Succeeded, Duration(m))],
             succeeded |-> Cardinality(Succeeded),
             failed    |-> Cardinality(Indices \ Succeeded)]
LastInv ==
  mpc = "next" /\ level <= Len(levels) /\ allRuns[level] # <<>> =>
    Last(allRuns[level]) = Reported /\ Indices = 1 .. levels[level]

\* What a goroutine of bench leaves behind.
LEMMA BenchEffect ==
  ASSUME BenchInv, TypeOK, RunsInv, NEW i \in Indices, Bench(i)
  PROVE  /\ UNCHANGED Rest /\ mpc = "run"
         /\ DOMAIN bench' = DOMAIN bench /\ DOMAIN results' = DOMAIN bench
         /\ \A j \in DOMAIN bench : j # i => bench'[j] = bench[j] /\ results'[j] = results[j]
         /\ bench'[i] \in {"create", "wait", "get", "done"}
         /\ \A m \in Metrics : results'[i][m] \in Nat
         /\ created' \in SUBSET DOMAIN bench
<1>1. /\ DOMAIN results = DOMAIN bench /\ DOMAIN results[i] = DOMAIN NoResult
      /\ bench[i] # "done" => mpc = "run"
      /\ i \in DOMAIN bench /\ created \in SUBSET DOMAIN bench
  BY DEF BenchInv, Indices
<1>2. \A m \in Metrics : results[i][m] \in Nat /\ m \in DOMAIN NoResult /\ NoResult[m] = 0
  BY DEF RunsInv, Metrics, NoResult
<1>3. DOMAIN NoResult = {"sandboxID", "createDur", "pendingDur", "readyDur", "err"}
  BY DEF NoResult
<1> DEFINE Kept(r) == DOMAIN r = DOMAIN NoResult /\ \A m \in Metrics : r[m] \in Nat
<1>4. ASSUME NEW r, Kept(r), Finish(i, r)
      PROVE  /\ DOMAIN bench' = DOMAIN bench /\ DOMAIN results' = DOMAIN bench
             /\ \A j \in DOMAIN bench : j # i => bench'[j] = bench[j] /\ results'[j] = results[j]
             /\ bench'[i] \in {"create", "wait", "get", "done"}
             /\ \A m \in Metrics : results'[i][m] \in Nat
  BY <1>1, <1>4 DEF Finish
<1>5. ASSUME NEW e PROVE Kept([results[i] EXCEPT !.err = e])
  BY <1>1, <1>2, <1>3 DEF Metrics
<1>6. ASSUME NEW b \in {"wait", "get"}, bench' = [bench EXCEPT ![i] = b], results' = results
      PROVE  /\ DOMAIN bench' = DOMAIN bench /\ DOMAIN results' = DOMAIN bench
             /\ \A j \in DOMAIN bench : j # i => bench'[j] = bench[j] /\ results'[j] = results[j]
             /\ bench'[i] \in {"create", "wait", "get", "done"}
             /\ \A m \in Metrics : results'[i][m] \in Nat
  BY <1>1, <1>2, <1>6
<1>7. CASE Create(i)
  <2>1. PICK d \in Durations :
          LET r == [NoResult EXCEPT !.sandboxID = TRUE, !.createDur = d] IN
          \/ Finish(i, [r EXCEPT !.readyDur = d])
          \/ /\ bench' = [bench EXCEPT ![i] = "wait"]
             /\ results' = [results EXCEPT ![i] = r]
    BY <1>7 DEF Create
  <2> DEFINE r == [NoResult EXCEPT !.sandboxID = TRUE, !.createDur = d]
  <2>2. d \in Nat
    BY BenchmarkAssumption
  <2>3. Kept(r) /\ Kept([r EXCEPT !.readyDur = d])
    BY <2>2 DEF NoResult, Metrics
  <2>4. UNCHANGED Rest /\ mpc = "run" /\ created' = created \cup {i}
    BY <1>1, <1>7 DEF Create
  <2>5. CASE Finish(i, [r EXCEPT !.readyDur = d])
    <3> HIDE DEF Kept, r
    <3> QED
      BY <1>1, <1>4, <2>3, <2>4, <2>5
  <2>6. CASE bench' = [bench EXCEPT ![i] = "wait"] /\ results' = [results EXCEPT ![i] = r]
    <3> HIDE DEF r
    <3> QED
      BY <1>1, <2>3, <2>4, <2>6
  <2> QED
    BY <2>1, <2>5, <2>6
<1>8. CASE CreateFails(i)
  <2>1. Kept([NoResult EXCEPT !.err = "create"])
    BY DEF NoResult, Metrics
  <2>2. /\ UNCHANGED Rest /\ mpc = "run" /\ created' \in {created, created \cup {i}}
        /\ Finish(i, [NoResult EXCEPT !.err = "create"])
    BY <1>1, <1>8 DEF CreateFails
  <2> HIDE DEF Kept
  <2> QED
    BY <1>1, <1>4, <2>1, <2>2
<1>9. CASE Timeout(i)
  <2>1. /\ UNCHANGED Rest /\ mpc = "run" /\ created' = created
        /\ Finish(i, [results[i] EXCEPT !.err = "timeout"])
    BY <1>1, <1>9 DEF Timeout
  <2> HIDE DEF Kept
  <2> QED
    BY <1>1, <1>4, <1>5, <2>1
<1>10. CASE Wake(i)
  <2>1. UNCHANGED Rest /\ mpc = "run" /\ created' = created
    BY <1>1, <1>10 DEF Wake
  <2> HIDE DEF Kept
  <2>2. CASE bench' = [bench EXCEPT ![i] = "get"] /\ UNCHANGED results
    BY <1>1, <1>6, <2>1, <2>2
  <2>3. CASE Finish(i, [results[i] EXCEPT !.err = "ctx"])
    BY <1>1, <1>4, <1>5, <2>1, <2>3
  <2> QED
    BY <1>10, <2>2, <2>3 DEF Wake
<1>11. CASE Get(i)
  <2>1. UNCHANGED Rest /\ mpc = "run" /\ created' = created
    BY <1>1, <1>11 DEF Get
  <2>2. CASE \E d \in Durations :
               Finish(i, [results[i] EXCEPT !.pendingDur = d,
                                            !.readyDur = results[i].createDur + d])
    <3>1. PICK d \in Durations :
            Finish(i, [results[i] EXCEPT !.pendingDur = d,
                                         !.readyDur = results[i].createDur + d])
      BY <2>2
    <3>2. d \in Nat /\ results[i].createDur \in Nat
      BY <1>2, BenchmarkAssumption DEF Metrics
    <3>3. results[i].createDur + d \in Nat
      BY <3>2
    <3>4. Kept([results[i] EXCEPT !.pendingDur = d, !.readyDur = results[i].createDur + d])
      BY <1>1, <1>2, <1>3, <3>2, <3>3 DEF Metrics
    <3> HIDE DEF Kept
    <3> QED
      BY <1>1, <1>4, <2>1, <3>1, <3>4
  <2> HIDE DEF Kept
  <2>3. CASE Finish(i, [results[i] EXCEPT !.err = "terminated"])
    BY <1>1, <1>4, <1>5, <2>1, <2>3
  <2>4. CASE bench' = [bench EXCEPT ![i] = "wait"] /\ UNCHANGED results
    BY <1>1, <1>6, <2>1, <2>4
  <2> QED
    BY <1>11, <2>2, <2>3, <2>4 DEF Get
<1>12. CASE GetFails(i)
  <2>1. /\ UNCHANGED Rest /\ mpc = "run" /\ created' = created
        /\ Finish(i, [results[i] EXCEPT !.err = "get"])
    BY <1>1, <1>12 DEF GetFails
  <2> HIDE DEF Kept
  <2> QED
    BY <1>1, <1>4, <1>5, <2>1
<1> QED
  BY <1>7, <1>8, <1>9, <1>10, <1>11, <1>12 DEF Bench

\* A run that is over has its statistics at the end of its level.
LEMMA CollectAppends ==
  ASSUME BenchInv, TypeOK, RunsInv, Collect
  PROVE  /\ mpc = "clean" /\ mpc' = "next" /\ level \in 1 .. Len(levels)
         /\ UNCHANGED <<flags, level, bench, results, clean, deleted, created, interrupted>>
         /\ Reported \in Run
         /\ allRuns' = [allRuns EXCEPT ![level] = Append(@, Reported)]
<1>1. /\ mpc = "clean" /\ mpc' = "next"
      /\ UNCHANGED <<flags, level, bench, results, clean, deleted, created, interrupted>>
      /\ allRuns' = [allRuns EXCEPT ![level] = Append(@, Reported)]
  BY DEF Collect, Reported
<1>2. level \in 1 .. Len(levels)
  BY <1>1, Setting DEF RunsInv, TypeOK
<1>3. \A m \in Metrics : Statistics(Succeeded, Duration(m)) \in [Rows -> Int]
  <2> SUFFICES ASSUME NEW m \in Metrics
               PROVE  Statistics(Succeeded, Duration(m)) \in [Rows -> Int]
    OBVIOUS
  <2>1. Succeeded \in SUBSET Indices
    BY DEF Succeeded
  <2>2. IsFiniteSet(Succeeded)
    BY <2>1, FS_Subset DEF RunsInv
  <2>3. \A i \in Succeeded : Duration(m)[i] \in Int
    BY <2>1 DEF RunsInv, Duration
  <2> QED
    BY <2>2, <2>3, StatisticsDescribe
<1>4. Cardinality(Succeeded) \in Nat /\ Cardinality(Indices \ Succeeded) \in Nat
  <2>1. Succeeded \in SUBSET Indices /\ Indices \ Succeeded \in SUBSET Indices
    BY DEF Succeeded
  <2> QED
    BY <2>1, FS_Subset, FS_CardinalityType DEF RunsInv
<1> QED
  BY <1>1, <1>2, <1>3, <1>4 DEF Reported, Run

\* Every step keeps the types, the order of the runs and the statistics.
LEMMA RunsNext ==
  ASSUME BenchInv, TypeOK, RunsInv, LastInv, [Next]_vars
  PROVE  TypeOK' /\ RunsInv' /\ LastInv'
<1>1. levels \in Seq(Nat) /\ repeat \in Nat /\ Len(levels) \in Nat /\ level \in 1 .. Len(levels) + 1
  BY Setting DEF TypeOK
<1>2. CASE \E i \in Indices : Bench(i)
  <2> PICK i \in Indices : Bench(i)
    BY <1>2
  <2>1. /\ UNCHANGED Rest /\ mpc = "run"
        /\ DOMAIN bench' = DOMAIN bench /\ DOMAIN results' = DOMAIN bench
        /\ \A j \in DOMAIN bench : j # i => bench'[j] = bench[j] /\ results'[j] = results[j]
        /\ bench'[i] \in {"create", "wait", "get", "done"}
        /\ \A m \in Metrics : results'[i][m] \in Nat
        /\ created' \in SUBSET DOMAIN bench
    BY BenchEffect
  <2>2. /\ levels' = levels /\ repeat' = repeat /\ allRuns' = allRuns /\ mpc' = mpc
        /\ level' = level /\ clean' = clean /\ deleted' = deleted /\ interrupted' = interrupted
    BY <2>1 DEF Rest, flags
  <2>3. TypeOK'
    BY <2>1, <2>2 DEF TypeOK, Indices
  <2>4. RunsInv'
    BY <2>1, <2>2 DEF RunsInv, Indices
  <2>5. LastInv'
    BY <2>1, <2>2 DEF LastInv
  <2> QED
    BY <2>3, <2>4, <2>5
<1>3. CASE \E i \in Indices : Delete(i)
  <2> PICK i \in Indices : Delete(i)
    BY <1>3
  <2>1. /\ mpc = "clean" /\ i \in clean /\ i \in Indices
        /\ clean' = clean \ {i} /\ deleted' = deleted \cup {i}
        /\ levels' = levels /\ repeat' = repeat /\ allRuns' = allRuns /\ mpc' = mpc
        /\ level' = level /\ bench' = bench /\ results' = results /\ created' = created
        /\ interrupted' = interrupted
    BY DEF Delete, flags
  <2>2. TypeOK'
    BY <2>1 DEF TypeOK, Indices
  <2>3. RunsInv'
    BY <2>1 DEF RunsInv, Indices
  <2>4. LastInv'
    BY <2>1 DEF LastInv
  <2> QED
    BY <2>2, <2>3, <2>4
<1>4. CASE Launch
  <2>1. /\ mpc = "next" /\ level <= Len(levels) /\ Len(allRuns[level]) < repeat /\ ~ interrupted
        /\ mpc' = "run"
        /\ bench' = [i \in 1 .. levels[level] |-> "create"]
        /\ results' = [i \in 1 .. levels[level] |-> NoResult]
        /\ created' = {} /\ clean' = {} /\ deleted' = {}
        /\ levels' = levels /\ repeat' = repeat /\ allRuns' = allRuns /\ level' = level
        /\ interrupted' = interrupted
    BY <1>4 DEF Launch, flags
  <2>2. levels[level] \in Nat
    BY <1>1, <2>1
  <2>3. Indices' = 1 .. levels'[level'] /\ IsFiniteSet(Indices')
    BY <2>1, <2>2, FS_Interval DEF Indices
  <2>4. TypeOK'
    BY <2>1 DEF TypeOK, Indices
  <2>5. \A m \in Metrics : NoResult[m] \in Nat
    BY DEF NoResult, Metrics
  <2>6. RunsInv'
    BY <2>1, <2>3, <2>5 DEF RunsInv, Indices
  <2>7. LastInv'
    BY <2>1 DEF LastInv
  <2> QED
    BY <2>4, <2>6, <2>7
<1>5. CASE NextLevel
  <2>1. /\ mpc = "next" /\ level <= Len(levels)
        /\ Len(allRuns[level]) = repeat \/ interrupted
        /\ level' = level + 1
        /\ mpc' = mpc /\ bench' = bench /\ results' = results /\ clean' = clean
        /\ deleted' = deleted /\ created' = created /\ interrupted' = interrupted
        /\ levels' = levels /\ repeat' = repeat /\ allRuns' = allRuns
    BY <1>5 DEF NextLevel, flags
  <2>2. TypeOK'
    BY <1>1, <2>1 DEF TypeOK, Indices
  <2>3. RunsInv'
    <3>1. \A l \in 1 .. Len(levels) : l > level + 1 => l > level
      BY <1>1
    <3>2. ~ interrupted => \A l \in 1 .. Len(levels) : l < level + 1 => Len(allRuns[l]) = repeat
      BY <1>1, <2>1 DEF RunsInv
    <3>3. Indices' = Indices
      BY <2>1 DEF Indices
    <3> QED
      BY <2>1, <3>1, <3>2, <3>3 DEF RunsInv
  <2>4. LastInv'
    BY <1>1, <2>1 DEF LastInv, RunsInv
  <2> QED
    BY <2>2, <2>3, <2>4
<1>6. CASE Wait
  <2>1. /\ mpc = "run" /\ mpc' = "clean"
        /\ clean' = {i \in Indices : results[i].sandboxID}
        /\ deleted' = deleted /\ created' = created /\ bench' = bench /\ results' = results
        /\ level' = level /\ interrupted' = interrupted
        /\ levels' = levels /\ repeat' = repeat /\ allRuns' = allRuns
    BY <1>6 DEF Wait, flags
  <2>2. deleted = {}
    BY <2>1 DEF BenchInv
  <2>3. TypeOK'
    BY <2>1, <2>2 DEF TypeOK, Indices
  <2>4. RunsInv'
    BY <2>1 DEF RunsInv, Indices
  <2>5. LastInv'
    BY <2>1 DEF LastInv
  <2> QED
    BY <2>3, <2>4, <2>5
<1>7. CASE Collect
  <2>1. /\ mpc = "clean" /\ mpc' = "next" /\ level \in 1 .. Len(levels)
        /\ levels' = levels /\ repeat' = repeat /\ level' = level
        /\ bench' = bench /\ results' = results /\ clean' = clean /\ deleted' = deleted
        /\ created' = created /\ interrupted' = interrupted
        /\ Reported \in Run
        /\ allRuns' = [allRuns EXCEPT ![level] = Append(@, Reported)]
    BY <1>7, CollectAppends DEF flags
  <2> DEFINE last == Reported
             runs == allRuns[level]
             S == Run
  <2>2. last \in S /\ runs \in Seq(S) /\ allRuns \in [1 .. Len(levels) -> Seq(S)]
    BY <2>1 DEF RunsInv
  <2>3. allRuns' = [allRuns EXCEPT ![level] = Append(runs, last)]
    BY <2>1
  <2>4. Reported' = Reported
    BY <2>1 DEF Reported, Succeeded, Duration, Indices
  <2> HIDE DEF last, S
  <2>5. /\ Append(runs, last) \in Seq(S) /\ Len(Append(runs, last)) = Len(runs) + 1
        /\ Last(Append(runs, last)) = last
    BY <2>2 DEF Last
  <2>6. /\ allRuns' \in [1 .. Len(levels) -> Seq(S)] /\ allRuns'[level] = Append(runs, last)
        /\ \A l \in 1 .. Len(levels) : l # level => allRuns'[l] = allRuns[l]
    BY <2>1, <2>2, <2>3, <2>5
  <2>7. Len(runs) < repeat /\ Len(runs) \in Nat /\ clean = {}
    BY <1>7, <2>1, <2>2 DEF RunsInv, Collect
  <2>8. Len(allRuns'[level]) \in 0 .. repeat /\ allRuns'[level] # <<>>
    <3> DEFINE new == Append(runs, last)
    <3>1. new \in Seq(S) /\ Len(new) = Len(runs) + 1 /\ allRuns'[level] = new
      BY <2>1, <2>5, <2>6
    <3> HIDE DEF new, runs
    <3> QED
      BY <1>1, <2>7, <3>1
  <2>9. TypeOK'
    BY <2>1, <2>6, <2>8 DEF TypeOK, Indices
  <2>10. \A l \in 1 .. Len(levels) : l < level => Len(allRuns[l]) = repeat /\ allRuns[l] # <<>>
    BY <2>1, <2>2, <2>7 DEF RunsInv
  <2>11. RunsInv'
    <3>1. \A l \in 1 .. Len(levels) : l > level => allRuns'[l] = <<>>
      BY <1>1, <2>1, <2>6 DEF RunsInv
    <3>2. \A l \in 1 .. Len(levels) : l < level => Len(allRuns'[l]) = repeat /\ allRuns'[l] # <<>>
      BY <1>1, <2>1, <2>6, <2>10
    <3>3. \A k, l \in 1 .. Len(levels) : k < l /\ allRuns'[l] # <<>> => allRuns'[k] # <<>>
      BY <1>1, <2>1, <2>8, <3>1, <3>2
    <3> QED
      BY <2>1, <2>6, <2>7, <3>1, <3>2, <3>3 DEF RunsInv, Indices, S
  <2>12. LastInv'
    <3>1. Indices' = 1 .. levels'[level']
      BY <2>1 DEF RunsInv, Indices
    <3> QED
      BY <2>1, <2>4, <2>5, <2>6, <3>1 DEF LastInv, last
  <2> QED
    BY <2>9, <2>11, <2>12
<1>8. CASE PrintSummary
  <2>1. /\ mpc = "next" /\ mpc' \in {"over", "panic"} /\ level > Len(levels)
        /\ level' = level /\ bench' = bench
        /\ results' = results /\ clean' = clean /\ deleted' = deleted /\ created' = created
        /\ interrupted' = interrupted
        /\ levels' = levels /\ repeat' = repeat /\ allRuns' = allRuns
    BY <1>8 DEF PrintSummary, flags
  <2> QED
    BY <2>1 DEF TypeOK, RunsInv, LastInv, Indices
<1>9. CASE Interrupt
  <2>1. /\ interrupted' = TRUE /\ mpc' = mpc /\ level' = level /\ bench' = bench
        /\ results' = results /\ clean' = clean /\ deleted' = deleted /\ created' = created
        /\ levels' = levels /\ repeat' = repeat /\ allRuns' = allRuns
    BY <1>9 DEF Interrupt, flags
  <2>2. Reported' = Reported
    BY <2>1 DEF Reported, Succeeded, Duration, Indices
  <2> QED
    BY <2>1, <2>2 DEF TypeOK, RunsInv, LastInv, Indices
<1>10. CASE UNCHANGED vars
  <2>1. /\ interrupted' = interrupted /\ mpc' = mpc /\ level' = level /\ bench' = bench
        /\ results' = results /\ clean' = clean /\ deleted' = deleted /\ created' = created
        /\ levels' = levels /\ repeat' = repeat /\ allRuns' = allRuns
    BY <1>10 DEF vars, flags
  <2>2. Reported' = Reported
    BY <2>1 DEF Reported, Succeeded, Duration, Indices
  <2> QED
    BY <2>1, <2>2 DEF TypeOK, RunsInv, LastInv, Indices
<1> QED
  BY <1>2, <1>3, <1>4, <1>5, <1>6, <1>7, <1>8, <1>9, <1>10 DEF Next, Main

\* The inductive invariant of the benchmark.
LEMMA Invariance == Spec => [](BenchInv /\ TypeOK /\ RunsInv /\ LastInv)
<1>1. Init => BenchInv
  BY DEF Init, BenchInv, Indices
<1>2. ASSUME Init PROVE TypeOK /\ RunsInv /\ LastInv
  <2>1. PICK f \in Flags : levels = f.con /\ repeat = f.repeat
    BY <1>2 DEF Init
  <2>3. levels \in Seq(Nat) /\ repeat \in Nat /\ Len(levels) \in Nat
    BY <2>1, BenchmarkAssumption
  <2>4. TypeOK
    <3>1. \A l \in 1 .. Len(levels) : Len(allRuns[l]) \in 0 .. repeat
      BY <1>2, <2>3 DEF Init
    <3>2. level \in 1 .. Len(levels) + 1 /\ DOMAIN allRuns = 1 .. Len(levels)
      BY <1>2, <2>3 DEF Init
    <3>3. mpc \in {"next", "exit"}
      BY <1>2 DEF Init
    <3>4. DOMAIN bench = {} /\ DOMAIN results = {}
      BY <1>2 DEF Init
    <3> QED
      BY <1>2, <2>1, <3>1, <3>2, <3>3, <3>4 DEF Init, TypeOK, Indices
  <2>5. Indices = {}
    BY <1>2 DEF Init, Indices
  <2>6. IsFiniteSet(Indices)
    BY <2>5, FS_EmptySet
  <2>7. allRuns \in [1 .. Len(levels) -> Seq(Run)]
    BY <1>2 DEF Init
  <2>8. RunsInv
    BY <1>2, <2>3, <2>5, <2>6, <2>7 DEF Init, RunsInv
  <2>9. LastInv
    BY <1>2, <2>3 DEF Init, LastInv
  <2> QED
    BY <2>4, <2>8, <2>9
<1>3. BenchInv /\ TypeOK /\ RunsInv /\ LastInv /\ [Next]_vars
        => BenchInv' /\ TypeOK' /\ RunsInv' /\ LastInv'
  BY BenchNext, RunsNext
<1> QED
  BY <1>1, <1>2, <1>3, PTL DEF Spec

\* Every variable keeps its type: no level has more runs than its repetitions, and
\* no sandbox is deleted twice (main.go:118-134, 165-183).
THEOREM TypeCorrect == Spec => []TypeOK
BY Invariance, PTL

\* No sandbox is deleted while it is measured, and none that the benchmark knows
\* is left when a run is over (main.go:165-183).
THEOREM Deleted == Spec => []SandboxesAreDeleted
<1>1. BenchInv => SandboxesAreDeleted
  BY DEF BenchInv, SandboxesAreDeleted
<1> QED
  BY <1>1, Invariance, PTL

\* When the statistics of a run are at hand, they count each sandbox of its level as
\* a success or a failure and describe the successes, and only them, for any
\* durations: each percentile by nearest rank, the mean and the deviation exactly,
\* but for the rounding down to whole numbers (main.go:193-222, 388-439).
THEOREM Described == Spec => []StatsDescribeRun
<1>1. ASSUME TypeOK, RunsInv, LastInv PROVE StatsDescribeRun
  <2> SUFFICES ASSUME mpc = "next", level <= Len(levels), allRuns[level] # <<>>
               PROVE  LET run == Last(allRuns[level])
                      IN /\ run.succeeded = Cardinality(Succeeded)
                         /\ run.succeeded + run.failed = levels[level]
                         /\ \A m \in Metrics : Describes(run.pcts[m], Succeeded, Duration(m))
    BY DEF StatsDescribeRun, Describes
  <2> DEFINE run == Last(allRuns[level])
  <2>1. Succeeded \in SUBSET Indices
    BY DEF Succeeded
  <2>2. IsFiniteSet(Succeeded) /\ IsFiniteSet(Indices)
    BY <1>1, <2>1, FS_Subset DEF RunsInv
  <2>3. run = Reported /\ Indices = 1 .. levels[level]
    BY <1>1 DEF LastInv
  <2>4. run.succeeded + run.failed = levels[level]
    <3>1. levels[level] \in Nat
      BY <1>1, Setting DEF TypeOK
    <3>2. Cardinality(Indices) = levels[level]
      BY <2>3, <3>1, FS_Interval
    <3>3. Indices \cap Succeeded = Succeeded
      BY <2>1
    <3>4. Cardinality(Indices \ Succeeded) = Cardinality(Indices) - Cardinality(Succeeded)
      BY <2>2, <3>3, FS_Difference
    <3>5. Cardinality(Succeeded) \in Nat
      BY <2>2, FS_CardinalityType
    <3> QED
      BY <2>3, <3>1, <3>2, <3>4, <3>5 DEF Reported
  <2>5. ASSUME NEW m \in Metrics PROVE Describes(run.pcts[m], Succeeded, Duration(m))
    <3>1. \A i \in Succeeded : Duration(m)[i] \in Int
      BY <1>1, <2>1 DEF RunsInv, Duration
    <3>2. run.pcts[m] = Statistics(Succeeded, Duration(m))
      BY <2>3 DEF Reported
    <3> QED
      BY <2>2, <3>1, <3>2, StatisticsDescribe
  <2>6. run.succeeded = Cardinality(Succeeded)
    BY <2>3 DEF Reported
  <2> QED
    BY <2>4, <2>5, <2>6
<1> QED
  BY <1>1, Invariance, PTL

\* The levels that were run are the first ones, and the header is them in order.
LEMMA HeaderFacts ==
  ASSUME TypeOK, RunsInv
  PROVE  \E k \in 0 .. Len(levels) :
           /\ Header \in [1 .. k -> 1 .. k]
           /\ \A l \in 1 .. k : Header[l] = l /\ Measured(l)
           /\ \A l \in 1 .. Len(levels) : Measured(l) => l <= k
<1> DEFINE L == Len(levels)
           M == {l \in 1 .. L : Measured(l)}
           id == [l \in 1 .. L |-> l]
           k == Cardinality(M)
<1>1. L \in Nat /\ repeat \in Nat
  BY Setting
<1>2. IsFiniteSet(M)
  <2>1. IsFiniteSet(1 .. L)
    BY <1>1, FS_Interval
  <2> QED
    BY <2>1, FS_Subset
<1>3. \A i, l \in 1 .. L : i < l /\ l \in M => i \in M
  BY DEF RunsInv, Measured
<1>4. /\ M \in SUBSET (1 .. L) /\ \A l \in M : Measured(l)
      /\ \A l \in 1 .. L : Measured(l) => l \in M
  OBVIOUS
<1>5. Header = Arranged(M, id)
  BY DEF Header
<1> HIDE DEF M, L
<1>6. \E n \in 0 .. L : M = 1 .. n
  <2>1. CASE M = {}
    BY <1>1, <2>1
  <2>2. CASE M # {}
    <3>1. Max(M) \in M /\ \A v \in M : v <= Max(M)
      <4>1. M \in SUBSET Int
        BY <1>1, <1>4
      <4> QED
        BY <1>2, <2>2, <4>1, Extremes
    <3> DEFINE top == Max(M)
    <3>2. top \in 1 .. L /\ top \in M /\ \A v \in M : v <= top
      BY <1>4, <3>1
    <3> HIDE DEF top
    <3>3. M = 1 .. top
      <4>1. ASSUME NEW v \in 1 .. top PROVE v \in M
        <5>1. v \in 1 .. L /\ (v = top \/ v < top)
          BY <1>1, <3>2
        <5> QED
          BY <1>3, <3>2, <5>1
      <4>2. \A v \in M : v \in 1 .. top
        BY <1>1, <1>4, <3>2
      <4> QED
        BY <4>1, <4>2
    <3> QED
      BY <1>1, <3>2, <3>3
  <2> QED
    BY <2>1, <2>2
<1>7. k \in 0 .. L /\ M = 1 .. k
  <2> PICK n \in 0 .. L : M = 1 .. n
    BY <1>6
  <2>1. n \in Int /\ 1 \in Int /\ n \in Nat
    BY <1>1
  <2>2. Cardinality(1 .. n) = IF 1 > n THEN 0 ELSE n - 1 + 1
    BY <2>1, FS_Interval
  <2>3. Cardinality(1 .. n) = n
    BY <2>1, <2>2
  <2> QED
    BY <2>3
<1>8. \A l \in M : id[l] \in Int /\ id[l] = l
  BY <1>1, <1>4
<1> HIDE DEF id
<1>9. Header \in [1 .. k -> M]
  BY <1>2, <1>5, <1>8, ArrangedFacts
<1>10. ASSUME NEW q \in 1 .. k PROVE Header[q] = q
  <2> DEFINE v == Sorted(M, id)[q]
             upTo == {l \in M : id[l] <= v}
             below == {l \in M : id[l] < v}
  <2>1. v = id[Header[q]]
    BY <1>5 DEF Sorted
  <2>2. v = Header[q] /\ v \in 1 .. k
    BY <1>7, <1>8, <1>9, <2>1
  <2>3. Cardinality(upTo) >= q /\ Cardinality(below) < q
    BY <1>2, <1>8, RankOfSorted
  <2> HIDE DEF v
  <2>4. upTo = 1 .. v /\ below = 1 .. v - 1
    BY <1>1, <1>7, <1>8, <2>2
  <2> HIDE DEF upTo, below
  <2>5. v \in Int /\ v - 1 \in Int /\ 1 \in Int /\ v >= 1 /\ q \in Int
    BY <1>1, <1>7, <2>2
  <2>6. Cardinality(1 .. v) = IF 1 > v THEN 0 ELSE v - 1 + 1
    BY <2>5, FS_Interval
  <2>7. Cardinality(1 .. v - 1) = IF 1 > v - 1 THEN 0 ELSE v - 1 - 1 + 1
    BY <2>5, FS_Interval
  <2>8. v >= q /\ v - 1 < q
    BY <2>3, <2>4, <2>5, <2>6, <2>7
  <2> QED
    BY <2>2, <2>5, <2>8
<1> HIDE DEF k
<1>11. \A l \in 1 .. L : Measured(l) => l <= k
  BY <1>4, <1>7
<1> QED
  BY <1>4, <1>7, <1>9, <1>10, <1>11 DEF L

\* No header of the summary stands above the column of another level.  Unless a
\* signal came or nothing was to be run, all runs were made and every column has its
\* header.  A column with a header shows the mean of the runs that were made, and of
\* repeated runs their deviation, but for the rounding down (main.go:136-150,
\* 315-354, 441-463).
THEOREM Summarised == Spec => []SummaryShowsTheRuns
<1>1. ASSUME TypeOK, RunsInv PROVE SummaryShowsTheRuns
  <2>1. levels \in Seq(Nat) /\ repeat \in Nat /\ Len(levels) \in Nat
    BY <1>1, Setting
  <2>2. PICK k \in 0 .. Len(levels) :
          /\ Header \in [1 .. k -> 1 .. k]
          /\ \A l \in 1 .. k : Header[l] = l /\ Measured(l)
          /\ \A l \in 1 .. Len(levels) : Measured(l) => l <= k
    BY <1>1, HeaderFacts
  <2> DEFINE all == [l \in 1 .. Len(levels) |-> l]
  <2>3. IsPrefix(Header, Columns)
    <3> DEFINE top == Header
    <3>1. top \in Seq(Nat) /\ Len(top) = k
      BY <2>1, <2>2
    <3>2. all \in Seq(Nat) /\ Len(all) = Len(levels)
      BY <2>1
    <3>3. \A l \in 1 .. k : top[l] = all[l]
      BY <2>1, <2>2
    <3>4. Columns \in {top, all}
      BY DEF Columns
    <3> HIDE DEF top, all
    <3>5. IsPrefix(top, top)
      BY <3>1 DEF IsPrefix
    <3>6. IsPrefix(top, all)
      BY <2>1, <3>1, <3>2, <3>3 DEF IsPrefix
    <3> QED
      BY <3>4, <3>5, <3>6 DEF top
  <2>4. ASSUME mpc = "over", repeat > 0, ~ interrupted
        PROVE  Columns = Header /\ \A l \in 1 .. Len(levels) : Len(allRuns[l]) = repeat
    <3>1. \A l \in 1 .. Len(levels) : Len(allRuns[l]) = repeat
      BY <1>1, <2>1, <2>4 DEF RunsInv, TypeOK
    <3>2. \A l \in 1 .. Len(levels) : Measured(l)
      <4>1. Len(<<>>) = 0
        OBVIOUS
      <4> QED
        BY <2>1, <2>4, <3>1, <4>1 DEF Measured
    <3>3. k = Len(levels)
      BY <2>1, <2>2, <3>2
    <3>4. Header = all
      <4>1. \A l \in 1 .. Len(levels) : Header[l] = all[l]
        BY <2>2, <3>3
      <4>2. Header = [l \in 1 .. Len(levels) |-> Header[l]]
        BY <2>2, <3>3
      <4> QED
        BY <4>1, <4>2
    <3> QED
      BY <3>1, <3>4 DEF Columns
  <2>5. ASSUME NEW l \in Range(Header), NEW m \in Metrics, NEW row \in Rows
        PROVE  LET val  == Values(l, m, row)
                   runs == DOMAIN val
                   n    == Cardinality(runs)
                   sum  == SumFunctionOnSet(val, runs)
                   far  == [r \in runs |-> (n * val[r] - sum) * (n * val[r] - sum)]
               IN /\ n * Cell(l, m, row) <= sum /\ sum < n * (Cell(l, m, row) + 1)
                  /\ IsDeviation(Spread(l, m, row), SumFunctionOnSet(far, runs), n * n * n)
    <3> DEFINE runs == allRuns[l]
               R == DOMAIN runs
               val == Values(l, m, row)
               n == Cardinality(R)
               sum == SumFunctionOnSet(val, R)
               far == [r \in R |-> (n * val[r] - sum) * (n * val[r] - sum)]
    <3>1. l \in 1 .. Len(levels) /\ Measured(l)
      BY <2>1, <2>2 DEF Range
    <3>2. runs \in Seq(Run) /\ runs # <<>>
      BY <1>1, <3>1 DEF RunsInv, Measured
    <3>3. val = [r \in R |-> runs[r].pcts[m][row]]
      BY DEF Values
    <3>4. /\ Cell(l, m, row) = IF repeat = 1 THEN val[1] ELSE Mean(R, val)
          /\ Spread(l, m, row) = stddevF(R, val)
      BY DEF Cell, Spread
    <3> HIDE DEF val, runs
    <3>5. R = 1 .. Len(runs) /\ Len(runs) \in Nat \ {0} /\ 1 \in R
      BY <3>2
    <3>6. IsFiniteSet(R) /\ R # {}
      <4>1. Len(runs) \in Int /\ 1 \in Int
        BY <3>5
      <4>2. IsFiniteSet(1 .. Len(runs))
        BY <4>1, FS_Interval
      <4> HIDE DEF R
      <4> QED
        BY <3>5, <4>2
    <3>7. DOMAIN val = R /\ \A r \in R : val[r] \in Int
      <4>1. \A r \in R : runs[r] \in Run
        BY <3>2
      <4>2. \A r \in R : runs[r].pcts[m][row] \in Int
        BY <4>1 DEF Run
      <4> HIDE DEF R
      <4> QED
        BY <3>3, <4>2
    <3>8. n * Cell(l, m, row) <= sum /\ sum < n * (Cell(l, m, row) + 1)
      <4>1. CASE repeat = 1
        <5>1. Len(runs) = 1
          BY <1>1, <3>1, <3>5, <4>1 DEF TypeOK, runs
        <5>2. R = {1} /\ Cell(l, m, row) = val[1] /\ val[1] \in Int
          BY <3>4, <3>5, <3>7, <4>1, <5>1
        <5> HIDE DEF R
        <5>3. n = 1
          BY <5>2, FS_Singleton
        <5>4. sum \in Int /\ n * val[1] <= sum /\ sum <= n * val[1]
          <6>1. \A i \in R : val[i] \in Int /\ val[1] <= val[i] /\ val[i] <= val[1]
            BY <5>2
          <6> DEFINE only == val[1]
          <6>2. only \in Int /\ \A i \in R : val[i] \in Int /\ only <= val[i] /\ val[i] <= only
            BY <5>2, <6>1
          <6> HIDE DEF only
          <6>3. sum \in Int /\ n * only <= sum /\ sum <= n * only
            BY <3>6, <6>2, SumBounds
          <6> QED
            BY <6>3 DEF only
        <5> HIDE DEF n, sum
        <5> QED
          BY <5>2, <5>3, <5>4
      <4>2. CASE repeat # 1
        <5> HIDE DEF R
        <5>1. Cell(l, m, row) = Mean(R, val)
          BY <3>4, <4>2
        <5>2. n * Mean(R, val) <= sum /\ n * (Mean(R, val) + 1) > sum
          BY <3>6, <3>7, MeanIsFloor
        <5>3. n \in Int /\ sum \in Int /\ Mean(R, val) \in Int
          BY <3>6, <3>7, FS_CardinalityType, SumType, MeanIsFloor
        <5> HIDE DEF n, sum
        <5> QED
          BY <5>1, <5>2, <5>3
      <4> QED
        BY <4>1, <4>2
    <3> HIDE DEF R
    <3>9. IsDeviation(stddevF(R, val), SumFunctionOnSet(far, R), n * n * n)
      BY <3>6, <3>7, StddevFFacts
    <3> HIDE DEF n, sum, far
    <3> QED
      BY <3>4, <3>7, <3>8, <3>9 DEF val, n, sum, far
  <2> QED
    BY <2>3, <2>4, <2>5 DEF SummaryShowsTheRuns
<1> QED
  BY <1>1, Invariance, PTL

-----------------------------------------------------------------------------
(* The program ends: how many steps main has left, and a goroutine after a *)
(* signal.                                                                 *)

\* What main has left of its level, the summary included when it has left all.
Stage == CASE mpc = "next" -> 2 [] mpc = "run" -> 1 [] mpc = "clean" -> 0
LevelLeft == IF level > Len(levels) THEN 1
             ELSE 3 * (repeat - Len(allRuns[level])) + Stage - 1

\* A level is worth more steps than its repetitions take.
LevelSize == 3 * repeat + 2
MainLeft == IF Ended THEN 0 ELSE (Len(levels) + 1 - level) * LevelSize + LevelLeft

LEMMA LevelsCount ==
  ASSUME NEW d \in Nat, NEW e \in Nat, NEW k \in Nat, NEW g \in Nat, NEW h \in Nat,
         \/ e = d /\ g < h
         \/ e + 1 = d /\ g < k
  PROVE  e * k + g \in Nat /\ e * k + g < d * k + h
<1>1. e * k \in Nat /\ d * k \in Nat
  OBVIOUS
<1>2. CASE e = d /\ g < h
  BY <1>1, <1>2
<1>3. CASE e + 1 = d /\ g < k
  <2>1. (e + 1) * k = e * k + k
    OBVIOUS
  <2>2. d * k = e * k + k
    BY <1>3, <2>1
  <2> QED
    BY <1>1, <1>3, <2>2
<1> QED
  BY <1>2, <1>3

\* What is left of a level is a number of steps below the worth of a level.
LevelInv ==
  ~ Ended => /\ LevelLeft \in Nat /\ LevelLeft < LevelSize /\ LevelSize \in Nat
             /\ Len(levels) \in Nat /\ Len(levels) + 1 - level \in Nat
             /\ level \in Nat /\ repeat \in Nat

LEMMA LevelLeftBounds == TypeOK /\ RunsInv => LevelInv
<1> SUFFICES ASSUME TypeOK, RunsInv, ~ Ended
             PROVE  /\ LevelLeft \in Nat /\ LevelLeft < LevelSize /\ LevelSize \in Nat
                    /\ Len(levels) \in Nat /\ Len(levels) + 1 - level \in Nat
                    /\ level \in Nat /\ repeat \in Nat
  BY DEF LevelInv
<1>1. levels \in Seq(Nat) /\ repeat \in Nat /\ Len(levels) \in Nat /\ level \in 1 .. Len(levels) + 1
  BY Setting DEF TypeOK
<1>2. level <= Len(levels) => Len(allRuns[level]) \in 0 .. repeat
  BY <1>1 DEF TypeOK
<1>3. mpc \in {"next", "run", "clean"}
  BY DEF TypeOK, Ended
<1>4. mpc \in {"run", "clean"} => level <= Len(levels) /\ Len(allRuns[level]) < repeat
  BY DEF RunsInv
<1>5. LevelLeft \in Nat /\ LevelLeft < LevelSize
  <2>1. CASE level > Len(levels)
    BY <1>1, <2>1 DEF LevelLeft, LevelSize
  <2>2. CASE ~ (level > Len(levels))
    <3>1. LevelLeft = 3 * (repeat - Len(allRuns[level])) + Stage - 1
      BY <2>2 DEF LevelLeft
    <3>2. /\ Len(allRuns[level]) \in Nat /\ Len(allRuns[level]) <= repeat
          /\ Stage \in 0 .. 2
          /\ Stage = 2 \/ Len(allRuns[level]) < repeat
      BY <1>1, <1>2, <1>3, <1>4, <2>2 DEF Stage
    <3>3. \A n, r, t \in Nat : n <= r /\ t <= 2 /\ (t = 2 \/ n < r)
            => 3 * (r - n) + t - 1 \in Nat /\ 3 * (r - n) + t - 1 < 3 * r + 2
      OBVIOUS
    <3>4. Stage \in Nat /\ Stage <= 2
      BY <3>2
    <3> QED
      BY <1>1, <3>1, <3>2, <3>3, <3>4 DEF LevelSize
  <2> QED
    BY <2>1, <2>2
<1> QED
  BY <1>1, <1>5 DEF LevelSize

\* main makes a bounded number of steps, for any levels and repetitions: each brings
\* its end nearer, and neither a goroutine nor a signal puts it off
\* (main.go:123-150, 164-183).
THEOREM MainIsBounded ==
  Spec => [][IF Main THEN MainLeft' \in Nat /\ MainLeft' < MainLeft
             ELSE MainLeft' = MainLeft]_vars
<1> DEFINE Bounded == IF Main THEN MainLeft' \in Nat /\ MainLeft' < MainLeft
                      ELSE MainLeft' = MainLeft
<1>1. ASSUME BenchInv, TypeOK, RunsInv, LevelInv, LevelInv', Main
      PROVE  MainLeft' \in Nat /\ MainLeft' < MainLeft
  <2>1. ~ Ended
    BY <1>1 DEF Main, Launch, NextLevel, Wait, Collect, PrintSummary, Ended
  <2>2. /\ LevelLeft \in Nat /\ LevelLeft < LevelSize /\ LevelSize \in Nat
        /\ Len(levels) \in Nat /\ Len(levels) + 1 - level \in Nat
        /\ level \in Nat /\ repeat \in Nat
    BY <1>1, <2>1 DEF LevelInv
  <2>3. ~ Ended' => LevelLeft' \in Nat /\ LevelLeft' < LevelSize'
    BY <1>1 DEF LevelInv
  <2>4. /\ levels' = levels /\ LevelSize' = LevelSize
    BY <1>1 DEF Main, Launch, NextLevel, Wait, Collect, PrintSummary, flags, LevelSize
  <2>5. MainLeft = (Len(levels) + 1 - level) * LevelSize + LevelLeft
    BY <2>1 DEF MainLeft
  <2>6. CASE Launch \/ Wait \/ Collect
    <3>1. /\ level' = level /\ level <= Len(levels) /\ repeat' = repeat /\ ~ Ended'
      BY <1>1, <2>6 DEF Launch, Wait, Collect, flags, Ended, RunsInv
    <3>2. Len(allRuns[level]) \in 0 .. repeat /\ level \in DOMAIN allRuns
      BY <1>1, <2>2, <3>1 DEF TypeOK
    <3>0. /\ LevelLeft = 3 * (repeat - Len(allRuns[level])) + Stage - 1
          /\ LevelLeft' = 3 * (repeat - Len(allRuns'[level])) + Stage' - 1
      BY <2>2, <2>4, <3>1 DEF LevelLeft
    <3>3. ASSUME Launch \/ Wait PROVE LevelLeft' < LevelLeft
      <4>1. allRuns' = allRuns /\ Stage \in {1, 2} /\ Stage' = Stage - 1
        BY <3>3 DEF Launch, Wait, Stage
      <4>2. \A r, n, t \in Nat : 3 * (r - n) + (t - 1) - 1 < 3 * (r - n) + t - 1
        OBVIOUS
      <4>3. Stage \in Nat /\ Len(allRuns[level]) \in Nat
        BY <2>2, <3>2, <4>1
      <4> QED
        BY <2>2, <3>0, <4>1, <4>2, <4>3
    <3>4. ASSUME Collect PROVE LevelLeft' < LevelLeft
      <4>1. /\ mpc = "clean" /\ mpc' = "next" /\ allRuns' = [allRuns EXCEPT ![level] = Append(@, Reported)]
            /\ Reported \in Run
        BY <1>1, <3>4, CollectAppends
      <4>2. allRuns[level] \in Seq(Run)
        BY <1>1, <2>2, <3>1 DEF RunsInv, TypeOK
      <4>3. Len(allRuns'[level]) = Len(allRuns[level]) + 1
        BY <3>2, <4>1, <4>2
      <4>4. Stage = 0 /\ Stage' = 2
        BY <4>1 DEF Stage
      <4>5. \A r, n \in Nat : 3 * (r - (n + 1)) + 2 - 1 < 3 * (r - n) + 0 - 1
        OBVIOUS
      <4>6. Len(allRuns[level]) \in Nat
        BY <2>2, <3>2
      <4> QED
        BY <2>2, <3>0, <4>3, <4>4, <4>5, <4>6
    <3>5. LevelLeft' < LevelLeft
      BY <2>6, <3>3, <3>4
    <3>6. MainLeft' = (Len(levels) + 1 - level) * LevelSize + LevelLeft'
      BY <2>4, <3>1 DEF MainLeft
    <3> HIDE DEF LevelLeft, LevelSize
    <3> QED
      BY <2>2, <2>3, <2>4, <2>5, <3>1, <3>5, <3>6, LevelsCount
  <2>7. CASE NextLevel
    <3>1. level' = level + 1 /\ level <= Len(levels) /\ ~ Ended'
      BY <2>7 DEF NextLevel, Ended
    <3>2. MainLeft' = (Len(levels) + 1 - (level + 1)) * LevelSize + LevelLeft'
      BY <2>4, <3>1 DEF MainLeft
    <3> DEFINE d == Len(levels) + 1 - level
    <3> DEFINE e == Len(levels) + 1 - (level + 1)
    <3>3. d \in Nat /\ e \in Nat /\ e + 1 = d
      BY <2>2, <3>1
    <3>4. MainLeft' = e * LevelSize + LevelLeft' /\ MainLeft = d * LevelSize + LevelLeft
      BY <2>5, <3>2
    <3>5. LevelLeft' \in Nat /\ LevelLeft' < LevelSize
      BY <2>3, <2>4, <3>1
    <3> HIDE DEF d, e
    <3> QED
      BY <2>2, <3>3, <3>4, <3>5, LevelsCount
  <2>8. CASE PrintSummary
    <3>1. MainLeft' = 0
      BY <2>8 DEF PrintSummary, MainLeft, Ended
    <3>2. level = Len(levels) + 1
      BY <1>1, <2>2, <2>8 DEF PrintSummary, TypeOK
    <3>3. LevelLeft = 1
      BY <2>2, <3>2 DEF LevelLeft
    <3>4. Len(levels) + 1 - level = 0
      BY <2>2, <3>2
    <3>5. MainLeft = 1
      BY <2>2, <2>5, <3>3, <3>4
    <3> QED
      BY <3>1, <3>5
  <2> QED
    BY <1>1, <2>6, <2>7, <2>8 DEF Main
<1>2. ASSUME ~ Main, [Next]_vars PROVE MainLeft' = MainLeft
  <2>1. UNCHANGED <<flags, allRuns, mpc, level>>
    BY <1>2 DEF Next, Bench, Create, CreateFails, Timeout, Wake, Get, GetFails, Rest, Delete,
       Interrupt, vars
  <2> QED
    BY <2>1 DEF MainLeft, LevelLeft, Stage, LevelSize, Ended, flags
<1>3. BenchInv /\ TypeOK /\ RunsInv /\ LevelInv /\ LevelInv' /\ [Next]_vars => [Bounded]_vars
  BY <1>1, <1>2
<1> HIDE DEF Bounded
<1>4. Spec => [][Bounded]_vars
  BY <1>3, LevelLeftBounds, Invariance, PTL DEF Spec
<1> QED
  BY <1>4 DEF Bounded

\* The steps a goroutine has left after a signal, its deletion included.
GoLeft(i) ==
  (IF bench[i] = "done" THEN 0 ELSE IF bench[i] = "wait" THEN 2 ELSE 1)
    + IF i \in clean THEN 1 ELSE 0

\* A signal ends the polling: each step of a goroutine then brings its return
\* nearer, whatever its select takes when the sleep is over too, and only main
\* gives it another one, its deletion (main.go:164-183, 250-286).
THEOREM SignalEndsPolling ==
  Spec => [][interrupted => \A i \in Indices :
               IF Bench(i) \/ Delete(i) THEN GoLeft(i)' < GoLeft(i)
               ELSE Main \/ GoLeft(i)' = GoLeft(i)]_vars
<1> DEFINE Shorter == interrupted => \A i \in Indices :
               IF Bench(i) \/ Delete(i) THEN GoLeft(i)' < GoLeft(i)
               ELSE Main \/ GoLeft(i)' = GoLeft(i)
<1>1. ASSUME TypeOK, [Next]_vars, interrupted, NEW i \in Indices
      PROVE  IF Bench(i) \/ Delete(i) THEN GoLeft(i)' < GoLeft(i)
             ELSE Main \/ GoLeft(i)' = GoLeft(i)
  <2>1. CASE Bench(i)
    <3>1. clean' = clean
      BY <2>1 DEF Bench, Create, CreateFails, Timeout, Wake, Get, GetFails, Rest
    <3>2. \/ bench[i] \in {"create", "wait", "get"} /\ bench'[i] = "done"
          \/ bench[i] = "wait" /\ bench'[i] = "get"
      BY <1>1, <2>1 DEF Bench, Create, CreateFails, Timeout, Wake, Get, GetFails, Finish, Indices
    <3> QED
      BY <2>1, <3>1, <3>2 DEF GoLeft
  <2>2. CASE Delete(i)
    <3>1. i \in clean /\ i \notin clean' /\ bench' = bench
      BY <2>2 DEF Delete
    <3> QED
      BY <2>2, <3>1 DEF GoLeft
  <2>3. ASSUME ~ Bench(i), ~ Delete(i), ~ Main PROVE GoLeft(i)' = GoLeft(i)
    <3>1. bench'[i] = bench[i] /\ (i \in clean' <=> i \in clean)
      <4>1. CASE \E j \in Indices : Bench(j)
        <5> PICK j \in Indices : Bench(j)
          BY <4>1
        <5>1. j # i
          BY <2>3
        <5>2. clean' = clean
          BY DEF Bench, Create, CreateFails, Timeout, Wake, Get, GetFails, Rest
        <5>3. bench'[i] = bench[i]
          BY <5>1 DEF Bench, Create, CreateFails, Timeout, Wake, Get, GetFails, Finish, Indices
        <5> QED
          BY <5>2, <5>3
      <4>2. CASE \E j \in Indices : Delete(j)
        BY <2>3, <4>2 DEF Delete
      <4>3. CASE Interrupt \/ UNCHANGED vars
        BY <4>3 DEF Interrupt, vars
      <4> QED
        BY <1>1, <2>3, <4>1, <4>2, <4>3 DEF Next
    <3> QED
      BY <3>1 DEF GoLeft
  <2> QED
    BY <2>1, <2>2, <2>3
<1>2. TypeOK /\ [Next]_vars => [Shorter]_vars
  BY <1>1
<1> HIDE DEF Shorter
<1>3. Spec => [][Shorter]_vars
  BY <1>2, Invariance, PTL DEF Spec
<1> QED
  BY <1>3 DEF Shorter
=============================================================================
