--------------------------- MODULE OrderedProofs ---------------------------
(***************************************************************************)
(* Lemmas about numbers, finite sets in order and folds.                   *)
(***************************************************************************)
EXTENDS Ordered, FiniteSetsExt, FiniteSetTheorems, WellFoundedInduction, TLAPS

\* Every set of naturals that is not empty has a least element.
LEMMA LeastNumber ==
  ASSUME NEW T, T \subseteq Nat, T # {}
  PROVE  \E x \in T : \A y \in T : x <= y
<1>1. IsWellFoundedOn(OpToRel(<, Nat), Nat)
  BY NatLessThanWellFounded
<1>2. PICK x \in T : \A y \in T : ~(<<y, x>> \in OpToRel(<, Nat))
  BY <1>1, WFMin
<1>3. OpToRel(<, Nat) = {p \in Nat \X Nat : p[1] < p[2]}
  BY Zenon DEF OpToRel
<1>4. \A y \in T : <<y, x>> \in Nat \X Nat
  OBVIOUS
<1>5. \A y \in T : ~(y < x)
  BY <1>2, <1>3, <1>4
<1> QED BY <1>5

\* A set that holds 0, and the successor of each number in it, holds every
\* natural: what a proof by induction rests on.
LEMMA Induction ==
  ASSUME NEW T, 0 \in T, \A n \in Nat : n \in T => n + 1 \in T
  PROVE  Nat \subseteq T
<1> DEFINE Rest == Nat \ T
<1>1. SUFFICES ASSUME Rest # {} PROVE FALSE
  OBVIOUS
<1>2. PICK m \in Rest : \A y \in Rest : m <= y
  BY <1>1, LeastNumber
<1>3. m # 0 /\ m - 1 \in Nat /\ m - 1 \in T
  BY <1>2
<1> QED BY <1>2, <1>3

\* The same up to a bound.
LEMMA BoundedInduction ==
  ASSUME NEW m \in Nat, NEW T, 0 \in T, \A n \in 0..(m - 1) : n \in T => n + 1 \in T
  PROVE  0..m \subseteq T
<1> DEFINE Above == T \cup {n \in Nat : n > m}
<1>1. 0 \in Above /\ \A n \in Nat : n \in Above => n + 1 \in Above
  OBVIOUS
<1>2. Nat \subseteq Above
  <2> HIDE DEF Above
  <2> QED BY <1>1, Induction
<1> QED BY <1>2

\* Every set of naturals that is not empty and has a bound has a greatest element.
LEMMA GreatestNumber ==
  ASSUME NEW T, T \subseteq Nat, T # {}, NEW m \in Nat, \A x \in T : x <= m
  PROVE  \E x \in T : \A y \in T : y <= x
<1> DEFINE Gaps == {g \in 0..m : m - g \in T}
<1>1. \A x \in T : m - x \in Gaps /\ m - (m - x) = x
  OBVIOUS
<1>2. Gaps \subseteq Nat /\ Gaps # {}
  <2>1. PICK x \in T : TRUE
    OBVIOUS
  <2>2. m - x \in Gaps
    BY <1>1
  <2>3. \A g \in Gaps : g \in Nat
    OBVIOUS
  <2> HIDE DEF Gaps
  <2> QED BY <2>2, <2>3
<1>3. PICK g \in Gaps : \A y \in Gaps : g <= y
  BY <1>2, LeastNumber
<1>4. m - g \in T /\ g \in Nat
  BY <1>3
<1>5. \A x \in T : g <= m - x
  BY <1>1, <1>3
<1> QED BY <1>4, <1>5

LEMMA MaxOfNumbers ==
  ASSUME NEW T, T \subseteq Nat, T # {}, NEW m \in Nat, \A x \in T : x <= m
  PROVE  Max(T) \in T /\ \A y \in T : y <= Max(T)
<1>1. PICK x \in T : \A y \in T : x >= y
  BY GreatestNumber
<1> QED BY <1>1 DEF Max

LEMMA MinOfNumbers ==
  ASSUME NEW T, T \subseteq Nat, T # {}
  PROVE  Min(T) \in T /\ \A y \in T : Min(T) <= y
<1>1. PICK x \in T : \A y \in T : x =< y
  BY LeastNumber
<1> QED BY <1>1 DEF Min

\* What a function makes of a finite set is finite.
LEMMA ImageIsFinite ==
  ASSUME NEW S, IsFiniteSet(S), NEW f, f = [x \in S |-> f[x]],
         NEW T, \A y \in T : \E x \in S : y = f[x]
  PROVE  IsFiniteSet(T)
<1> DEFINE Image == {f[x] : x \in S}
<1>1. f \in [S -> Image] /\ \A y \in Image : \E x \in S : f[x] = y
  OBVIOUS
<1>2. f \in Surjection(S, Image)
  BY <1>1, Zenon DEF Surjection
<1>3. IsFiniteSet(Image)
  BY <1>2, FS_Surjection
<1>4. T \subseteq Image
  OBVIOUS
<1> HIDE DEF Image
<1> QED BY <1>3, <1>4, FS_Subset

-----------------------------------------------------------------------------
(* Folds *)

LEMMA MaxOfPrefix ==
  ASSUME NEW k \in Nat \ {0}, NEW T, T \subseteq 1..k, k \in T
  PROVE  Max(T) = k
<1>1. T \subseteq Nat /\ T # {} /\ \A x \in T : x <= k
  OBVIOUS
<1>2. Max(T) \in T /\ \A y \in T : y <= Max(T)
  BY <1>1, MaxOfNumbers
<1>3. Max(T) \in 1..k /\ k <= Max(T)
  BY <1>2
<1> QED BY <1>3

\* g solves the recursion by which FoldLeft is defined, for the step F.
Recursion(g, n, V, base, F) ==
  /\ g \in [SUBSET (1..n) -> V]
  /\ \A s \in SUBSET (1..n) :
       g[s] = IF s = {} THEN base ELSE F[<<g[s \ {Max(s)}], Max(s)>>]

\* it has the values of that recursion, on the first elements.
Unfolds(it, n, V, base, F) ==
  /\ it[{}] = base
  /\ \A k \in 1..n : it[1..(k - 1)] \in V => it[1..k] = F[<<it[1..(k - 1)], k>>]

\* G ends where it does.
Agrees(G, it, n) == G[n] = it[1..n]

\* G takes the first n steps one after the other.
Iteration(G, n, V, base, F) ==
  /\ G \in [0..n -> V]
  /\ G[0] = base
  /\ \A k \in 1..n : G[k] = F[<<G[k - 1], k>>]

\* The recursion by which FoldLeft is defined has a solution.
LEMMA FoldHasSolution ==
  ASSUME NEW n \in Nat, NEW V, NEW base \in V, NEW F \in [V \X (1..n) -> V]
  PROVE  \E g : Recursion(g, n, V, base, F)
<1> DEFINE Value(g, s) == IF s = {} THEN base ELSE F[<<g[s \ {Max(s)}], Max(s)>>]
           Solution(g, k) == /\ g \in [SUBSET (1..k) -> V]
                             /\ \A s \in SUBSET (1..k) : g[s] = Value(g, s)
           Solvable == {k \in 0..n : \E g : Solution(g, k)}
<1>1. 0 \in Solvable
  <2> DEFINE g == [s \in SUBSET (1..0) |-> base]
  <2>1. g \in [SUBSET (1..0) -> V] /\ \A s \in SUBSET (1..0) : s = {} /\ g[s] = base
    OBVIOUS
  <2>2. Solution(g, 0)
    BY <2>1
  <2> HIDE DEF g, Solution
  <2> QED BY <2>2
<1>2. ASSUME NEW k \in 0..(n - 1), k \in Solvable
      PROVE  k + 1 \in Solvable
  <2>1. PICK g : Solution(g, k)
    BY <1>2
  <2> DEFINE h == [s \in SUBSET (1..(k + 1)) |->
                     IF k + 1 \in s THEN F[<<g[s \ {k + 1}], k + 1>>] ELSE g[s]]
  <2>2. ASSUME NEW s \in SUBSET (1..(k + 1))
        PROVE  /\ k + 1 \in s => s \ {k + 1} \in SUBSET (1..k) /\ Max(s) = k + 1
               /\ k + 1 \notin s => s \in SUBSET (1..k)
    <3>1. k + 1 \in Nat \ {0} /\ s \subseteq 1..(k + 1)
      OBVIOUS
    <3>2. k + 1 \in s => Max(s) = k + 1
      BY <3>1, MaxOfPrefix
    <3> QED BY <3>2
  <2>3. h \in [SUBSET (1..(k + 1)) -> V]
    <3> SUFFICES ASSUME NEW s \in SUBSET (1..(k + 1))
                 PROVE  (IF k + 1 \in s THEN F[<<g[s \ {k + 1}], k + 1>>] ELSE g[s]) \in V
      OBVIOUS
    <3>1. CASE k + 1 \in s
      <4>1. g[s \ {k + 1}] \in V
        BY <3>1, <2>1, <2>2
      <4>2. F[<<g[s \ {k + 1}], k + 1>>] \in V
        BY <4>1
      <4> QED BY <3>1, <4>2
    <3>2. CASE k + 1 \notin s
      BY <3>2, <2>1, <2>2
    <3> QED BY <3>1, <3>2
  <2>4. \A s \in SUBSET (1..k) : s \in SUBSET (1..(k + 1)) /\ h[s] = g[s]
    OBVIOUS
  <2>5. ASSUME NEW s \in SUBSET (1..(k + 1))
        PROVE  h[s] = Value(h, s)
    <3>1. CASE k + 1 \in s
      <4>1. h[s] = F[<<g[s \ {k + 1}], k + 1>>] /\ s # {}
        BY <3>1
      <4>2. h[s \ {k + 1}] = g[s \ {k + 1}] /\ Max(s) = k + 1
        BY <3>1, <2>2, <2>4
      <4> HIDE DEF h
      <4> QED BY <4>1, <4>2
    <3>2. CASE k + 1 \notin s
      <4>1. s \in SUBSET (1..k) /\ s \ {Max(s)} \in SUBSET (1..k)
        BY <3>2, <2>2
      <4>2. h[s] = g[s] /\ h[s \ {Max(s)}] = g[s \ {Max(s)}]
        BY <4>1, <2>4
      <4>3. g[s] = Value(g, s)
        BY <4>1, <2>1
      <4> HIDE DEF h
      <4> QED BY <4>2, <4>3
    <3> QED BY <3>1, <3>2
  <2>6. Solution(h, k + 1)
    <3> HIDE DEF h, Value
    <3> QED BY <2>3, <2>5
  <2> HIDE DEF h, Solution
  <2> QED BY <2>6
<1>3. 0..n \subseteq Solvable
  <2> HIDE DEF Solvable
  <2> QED BY <1>1, <1>2, BoundedInduction
<1>4. n \in Solvable
  <2> HIDE DEF Solvable
  <2> QED BY <1>3
<1>5. PICK g : Solution(g, n)
  BY <1>4
<1>6. Recursion(g, n, V, base, F)
  BY <1>5 DEF Recursion
<1> QED BY <1>6

\* The values of the recursion on the first elements are those of folding them one
\* after the other.
LEMMA FoldSteps ==
  ASSUME NEW n \in Nat, NEW V, NEW base \in V, NEW F \in [V \X (1..n) -> V], NEW it,
         Unfolds(it, n, V, base, F)
  PROVE  \E G : Iteration(G, n, V, base, F) /\ Agrees(G, it, n)
<1> DEFINE G == [k \in 0..n |-> it[1..k]]
           Typed == {k \in 0..n : it[1..k] \in V}
<1>1. 1..0 = {}
  OBVIOUS
<1>2. 0 \in Typed
  BY <1>1 DEF Unfolds
<1>3. ASSUME NEW k \in 0..(n - 1), k \in Typed
      PROVE  k + 1 \in Typed
  <2>1. k + 1 \in 1..n /\ (k + 1) - 1 = k
    OBVIOUS
  <2>2. it[1..k] \in V
    BY <1>3
  <2>3. it[1..(k + 1)] = F[<<it[1..k], k + 1>>]
    BY <2>1, <2>2 DEF Unfolds
  <2>4. it[1..(k + 1)] \in V
    BY <2>1, <2>2, <2>3
  <2> QED BY <2>1, <2>4
<1>4. 0..n \subseteq Typed
  <2> HIDE DEF Typed
  <2> QED BY <1>2, <1>3, BoundedInduction
<1>5. \A k \in 0..n : it[1..k] \in V
  BY <1>4
<1>6. G \in [0..n -> V]
  BY <1>5
<1>7. G[0] = base /\ it[1..n] = G[n]
  BY <1>1 DEF Unfolds
<1>8. ASSUME NEW k \in 1..n
      PROVE  G[k] = F[<<G[k - 1], k>>]
  <2>1. k \in 0..n /\ k - 1 \in 0..n
    OBVIOUS
  <2>2. it[1..k] = F[<<it[1..(k - 1)], k>>]
    BY <1>5, <2>1 DEF Unfolds
  <2> QED BY <2>1, <2>2
<1> HIDE DEF G
<1>9. Iteration(G, n, V, base, F)
  BY <1>6, <1>7, <1>8 DEF Iteration
<1> QED BY <1>7, <1>9 DEF Agrees

LEMMA MaxOfPart ==
  ASSUME NEW n \in Nat, NEW T, T \subseteq 1..n, T # {}
  PROVE  Max(T) \in T /\ Max(T) \in 1..n
<1>1. T \subseteq Nat /\ \A x \in T : x <= n
  OBVIOUS
<1> QED BY <1>1, MaxOfNumbers

-----------------------------------------------------------------------------
(* InOrder *)

\* A comparison, as a set of pairs, that puts the elements of S in one order.
Total(S, R) ==
  /\ \A x \in S : <<x, x>> \notin R
  /\ \A x, y, z \in S : <<x, y>> \in R /\ <<y, z>> \in R => <<x, z>> \in R
  /\ \A x, y \in S : x # y => <<x, y>> \in R \/ <<y, x>> \in R

Below(S, R, x) == {y \in S : <<y, x>> \in R}

\* The nth of s has n - 1 elements of S below it, if any has.
Ranks(S, R, s) ==
  /\ s = [n \in 1..Cardinality(S) |-> s[n]]
  /\ \A n \in 1..Cardinality(S) : \A y \in S :
       Cardinality(Below(S, R, y)) = n - 1
         => s[n] \in S /\ Cardinality(Below(S, R, s[n])) = n - 1

\* s lists S, each element once, and in the order of R.
Lists(S, R, s) ==
  /\ Cardinality(S) \in Nat
  /\ s \in [1..Cardinality(S) -> S]
  /\ \A x \in S : \E n \in 1..Cardinality(S) : s[n] = x
  /\ \A m, n \in 1..Cardinality(S) : m < n <=> <<s[m], s[n]>> \in R

LEMMA RankGrows ==
  ASSUME NEW S, IsFiniteSet(S), NEW R, Total(S, R), NEW x \in S
  PROVE  /\ Cardinality(Below(S, R, x)) \in 0..(Cardinality(S) - 1)
         /\ \A y \in S : <<x, y>> \in R =>
              Cardinality(Below(S, R, x)) < Cardinality(Below(S, R, y))
<1>1. ASSUME NEW A, NEW B, IsFiniteSet(B), A \subseteq B, NEW z \in B, z \notin A
      PROVE  /\ Cardinality(A) \in Nat /\ Cardinality(B) \in Nat
             /\ Cardinality(A) < Cardinality(B)
  <2>1. IsFiniteSet(A) /\ Cardinality(A) <= Cardinality(B) /\ Cardinality(A) # Cardinality(B)
    BY <1>1, FS_Subset
  <2>2. Cardinality(A) \in Nat /\ Cardinality(B) \in Nat
    BY <1>1, <2>1, FS_CardinalityType
  <2> QED BY <2>1, <2>2
<1>2. Below(S, R, x) \subseteq S /\ x \notin Below(S, R, x)
  BY DEF Below, Total
<1>3. Cardinality(Below(S, R, x)) < Cardinality(S) /\ Cardinality(Below(S, R, x)) \in Nat
      /\ Cardinality(S) \in Nat
  BY <1>1, <1>2
<1>4. ASSUME NEW y \in S, <<x, y>> \in R
      PROVE  Cardinality(Below(S, R, x)) < Cardinality(Below(S, R, y))
  <2>1. Below(S, R, x) \subseteq Below(S, R, y) /\ x \in Below(S, R, y)
    BY <1>4 DEF Below, Total
  <2>2. IsFiniteSet(Below(S, R, y))
    BY FS_Subset DEF Below
  <2> QED BY <1>1, <1>2, <2>1, <2>2
<1> QED BY <1>3, <1>4

\* The sequence lists S, each element once, and in the order of R.
LEMMA RanksList ==
  ASSUME NEW S, IsFiniteSet(S), NEW R, Total(S, R), NEW s, Ranks(S, R, s)
  PROVE  Lists(S, R, s)
<1> DEFINE N == Cardinality(S)
           rank == [x \in S |-> Cardinality(Below(S, R, x))]
<1>1. N \in Nat
  BY FS_CardinalityType
<1>2. rank \in [S -> 0..(N - 1)]
  BY RankGrows
<1>3. \A x, y \in S : <<x, y>> \in R => rank[x] < rank[y]
  BY RankGrows
<1>4. \A x, y \in S : rank[x] = rank[y] => x = y
  <2> HIDE DEF rank
  <2> TAKE x, y \in S
  <2>1. rank[x] \in Int /\ rank[y] \in Int
    BY <1>1, <1>2
  <2>2. <<x, y>> \in R => rank[x] < rank[y]
    BY <1>3
  <2>3. <<y, x>> \in R => rank[y] < rank[x]
    BY <1>3
  <2>4. x # y => <<x, y>> \in R \/ <<y, x>> \in R
    BY DEF Total
  <2> QED BY <2>1, <2>2, <2>3, <2>4
<1>5. rank \in Injection(S, 0..(N - 1))
  BY <1>2, <1>4, Zenon DEF Injection, IsInjective
<1>6. IsFiniteSet(0..(N - 1)) /\ Cardinality(0..(N - 1)) = N
  <2>1. N - 1 \in Int /\ (IF 0 > N - 1 THEN 0 ELSE (N - 1) - 0 + 1) = N
    BY <1>1
  <2>2. /\ IsFiniteSet(0..(N - 1))
        /\ Cardinality(0..(N - 1)) = IF 0 > N - 1 THEN 0 ELSE (N - 1) - 0 + 1
    BY <2>1, FS_Interval
  <2> HIDE DEF N
  <2> QED BY <2>1, <2>2
<1>7. rank \in Surjection(S, 0..(N - 1))
  BY <1>5, <1>6, FS_Injection
<1>8. \A k \in 0..(N - 1) : \E x \in S : rank[x] = k
  BY <1>7, Zenon DEF Surjection
<1>9. ASSUME NEW n \in 1..N
      PROVE  s[n] \in S /\ rank[s[n]] = n - 1
  <2>1. \E x \in S : rank[x] = n - 1
    BY <1>1, <1>8
  <2>2. \E x \in S : Cardinality(Below(S, R, x)) = n - 1
    BY <2>1
  <2> QED BY <2>2 DEF Ranks
<1> HIDE DEF rank
<1>10. s \in [1..N -> S]
  BY <1>9 DEF Ranks
<1>11. \A x \in S : \E n \in 1..N : s[n] = x
  <2> TAKE x \in S
  <2>1. rank[x] + 1 \in 1..N
    BY <1>1, <1>2
  <2>2. rank[s[rank[x] + 1]] = rank[x]
    BY <1>9, <1>2, <2>1
  <2> QED BY <1>4, <1>9, <2>1, <2>2
<1>12. \A m, n \in 1..N : m < n <=> <<s[m], s[n]>> \in R
  <2> TAKE m, n \in 1..N
  <2>1. rank[s[m]] = m - 1 /\ rank[s[n]] = n - 1 /\ s[m] \in S /\ s[n] \in S
    BY <1>9
  <2>2. CASE m = n
    <3>1. ~(m < n) /\ s[m] = s[n]
      BY <2>2, <1>1
    <3> QED BY <2>1, <3>1 DEF Total
  <2>3. CASE m # n
    <3>1. m \in Int /\ n \in Int
      BY <1>1
    <3>2. s[m] # s[n]
      <4>1. m - 1 # n - 1
        BY <2>3, <3>1
      <4> QED BY <2>1, <4>1, Zenon
    <3>3. <<s[m], s[n]>> \in R \/ <<s[n], s[m]>> \in R
      BY <2>1, <3>2 DEF Total
    <3>4. <<s[m], s[n]>> \in R => m - 1 < n - 1
      BY <1>3, <2>1
    <3>5. <<s[n], s[m]>> \in R => n - 1 < m - 1
      BY <1>3, <2>1
    <3> QED BY <3>1, <3>3, <3>4, <3>5
  <2> QED BY <2>2, <2>3
<1> QED BY <1>1, <1>10, <1>11, <1>12 DEF Lists
=============================================================================
