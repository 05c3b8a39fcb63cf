-------------------------- MODULE SelectionProofs --------------------------
(***************************************************************************)
(* What normalizeScriptures makes of every list of references, and the     *)
(* invariants of Selection for every answer of the language model, number  *)
(* of toggles and order of saves, failures and extractions.                *)
(*                                                                         *)
(* The mentions of the list are numbered in the order of their places      *)
(* (AreAt), those of a passage are sorted by verse (AreSorted) and folded  *)
(* into runs (AreMerged: apart from each other, covering the verses that   *)
(* were mentioned, each with the order of its first mention), and the      *)
(* runs, with one moved to where the passage was first mentioned           *)
(* (IsPlacedFrom), are sorted by that order (AreInOrder).  Hence the       *)
(* result names the maximal runs of the verses, in the order of their      *)
(* first mention.                                                          *)
(*                                                                         *)
(* For Selection that says that a reading is among the options and that    *)
(* the readings leave room for themselves; the rest is an invariant of     *)
(* the row, the requests, lost ones too, and the draft of the window.      *)
(***************************************************************************)
EXTENDS Selection, OrderedProofs, SequenceTheorems

-----------------------------------------------------------------------------
(* Sets put in order *)

\* s has every element of S.
Listing(S, s) ==
  /\ Cardinality(S) \in Nat
  /\ s \in [1..Cardinality(S) -> S]
  /\ \A x \in S : \E n \in 1..Cardinality(S) : s[n] = x

\* Places are listed one reference after the other, and in each from the front.
LEMMA InPlaceOrder ==
  ASSUME NEW S, IsFiniteSet(S), S \subseteq Int \X Int
  PROVE  Listing(S, InOrder(S, Before))
         /\ \A m, n \in 1..Cardinality(S) :
              m < n <=> Before(InOrder(S, Before)[m], InOrder(S, Before)[n])
<1> DEFINE s == InOrder(S, Before)
           R == {p \in S \X S : Before(p[1], p[2])}
<1>1. \A a, b \in S : <<a, b>> \in R <=> Before(a, b)
  OBVIOUS
<1>2. Total(S, R)
  <2>1. \A x \in S : ~Before(x, x)
    BY DEF Before
  <2>2. \A x, y, z \in S : Before(x, y) /\ Before(y, z) => Before(x, z)
    BY DEF Before
  <2>3. \A x, y \in S : x # y => Before(x, y) \/ Before(y, x)
    BY DEF Before
  <2> HIDE DEF R
  <2> QED BY <1>1, <2>1, <2>2, <2>3 DEF Total
<1>3. \A x \in S : Preceding(S, Before, x) = Below(S, R, x)
  BY <1>1 DEF Preceding, Below
<1>4. s = [n \in 1..Cardinality(S) |->
             CHOOSE x \in S : Cardinality(Preceding(S, Before, x)) = n - 1]
  BY DEF InOrder
<1>5. s = [n \in 1..Cardinality(S) |-> s[n]]
  BY <1>4
<1>6. ASSUME NEW n \in 1..Cardinality(S), NEW y \in S, Cardinality(Below(S, R, y)) = n - 1
      PROVE  s[n] \in S /\ Cardinality(Below(S, R, s[n])) = n - 1
  <2>1. Cardinality(Preceding(S, Before, y)) = n - 1
    BY <1>3, <1>6
  <2>2. s[n] = CHOOSE x \in S : Cardinality(Preceding(S, Before, x)) = n - 1
    BY <1>4
  <2>3. s[n] \in S /\ Cardinality(Preceding(S, Before, s[n])) = n - 1
    BY <2>1, <2>2
  <2> QED BY <1>3, <2>3
<1> HIDE DEF s, R
<1>7. Ranks(S, R, s)
  BY <1>5, <1>6 DEF Ranks
<1>8. Lists(S, R, s)
  BY <1>2, <1>7, RanksList
<1>9. /\ Listing(S, s)
      /\ \A m, n \in 1..Cardinality(S) : m < n <=> <<s[m], s[n]>> \in R
  BY <1>8 DEF Lists, Listing
<1>10. \A n \in 1..Cardinality(S) : s[n] \in S
  BY <1>9 DEF Listing
<1> QED BY <1>1, <1>9, <1>10 DEF s

\* Runs are listed by their first verse.
LEMMA InVerseOrder ==
  ASSUME NEW S, IsFiniteSet(S), \A a \in S : a.start \in Int /\ a.order \in Int,
         \A a, b \in S : a.order = b.order => a = b
  PROVE  Listing(S, InOrder(S, ByVerse))
         /\ \A m, n \in 1..Cardinality(S) :
              m < n <=> ByVerse(InOrder(S, ByVerse)[m], InOrder(S, ByVerse)[n])
<1> DEFINE s == InOrder(S, ByVerse)
           R == {p \in S \X S : ByVerse(p[1], p[2])}
<1>1. \A a, b \in S : <<a, b>> \in R <=> ByVerse(a, b)
  OBVIOUS
<1>2. Total(S, R)
  <2>1. \A x \in S : ~ByVerse(x, x)
    BY DEF ByVerse
  <2>2. \A x, y, z \in S : ByVerse(x, y) /\ ByVerse(y, z) => ByVerse(x, z)
    BY DEF ByVerse
  <2>3. \A x, y \in S : x # y => ByVerse(x, y) \/ ByVerse(y, x)
    BY DEF ByVerse
  <2> HIDE DEF R
  <2> QED BY <1>1, <2>1, <2>2, <2>3 DEF Total
<1>3. \A x \in S : Preceding(S, ByVerse, x) = Below(S, R, x)
  BY <1>1 DEF Preceding, Below
<1>4. s = [n \in 1..Cardinality(S) |->
             CHOOSE x \in S : Cardinality(Preceding(S, ByVerse, x)) = n - 1]
  BY DEF InOrder
<1>5. s = [n \in 1..Cardinality(S) |-> s[n]]
  BY <1>4
<1>6. ASSUME NEW n \in 1..Cardinality(S), NEW y \in S, Cardinality(Below(S, R, y)) = n - 1
      PROVE  s[n] \in S /\ Cardinality(Below(S, R, s[n])) = n - 1
  <2>1. Cardinality(Preceding(S, ByVerse, y)) = n - 1
    BY <1>3, <1>6
  <2>2. s[n] = CHOOSE x \in S : Cardinality(Preceding(S, ByVerse, x)) = n - 1
    BY <1>4
  <2>3. s[n] \in S /\ Cardinality(Preceding(S, ByVerse, s[n])) = n - 1
    BY <2>1, <2>2
  <2> QED BY <1>3, <2>3
<1> HIDE DEF s, R
<1>7. Ranks(S, R, s)
  BY <1>5, <1>6 DEF Ranks
<1>8. Lists(S, R, s)
  BY <1>2, <1>7, RanksList
<1>9. /\ Listing(S, s)
      /\ \A m, n \in 1..Cardinality(S) : m < n <=> <<s[m], s[n]>> \in R
  BY <1>8 DEF Lists, Listing
<1>10. \A n \in 1..Cardinality(S) : s[n] \in S
  BY <1>9 DEF Listing
<1> QED BY <1>1, <1>9, <1>10 DEF s

\* The references of the result are listed by the mentions they stand for.
LEMMA InOutputOrder ==
  ASSUME NEW S, IsFiniteSet(S), \A a \in S : a.order \in Int,
         \A a, b \in S : a.order = b.order => a = b
  PROVE  Listing(S, InOrder(S, ByOrder))
         /\ \A m, n \in 1..Cardinality(S) :
              m < n <=> ByOrder(InOrder(S, ByOrder)[m], InOrder(S, ByOrder)[n])
<1> DEFINE s == InOrder(S, ByOrder)
           R == {p \in S \X S : ByOrder(p[1], p[2])}
<1>1. \A a, b \in S : <<a, b>> \in R <=> ByOrder(a, b)
  OBVIOUS
<1>2. Total(S, R)
  <2>1. \A x \in S : ~ByOrder(x, x)
    BY DEF ByOrder
  <2>2. \A x, y, z \in S : ByOrder(x, y) /\ ByOrder(y, z) => ByOrder(x, z)
    BY DEF ByOrder
  <2>3. \A x, y \in S : x # y => ByOrder(x, y) \/ ByOrder(y, x)
    BY DEF ByOrder
  <2> HIDE DEF R
  <2> QED BY <1>1, <2>1, <2>2, <2>3 DEF Total
<1>3. \A x \in S : Preceding(S, ByOrder, x) = Below(S, R, x)
  BY <1>1 DEF Preceding, Below
<1>4. s = [n \in 1..Cardinality(S) |->
             CHOOSE x \in S : Cardinality(Preceding(S, ByOrder, x)) = n - 1]
  BY DEF InOrder
<1>5. s = [n \in 1..Cardinality(S) |-> s[n]]
  BY <1>4
<1>6. ASSUME NEW n \in 1..Cardinality(S), NEW y \in S, Cardinality(Below(S, R, y)) = n - 1
      PROVE  s[n] \in S /\ Cardinality(Below(S, R, s[n])) = n - 1
  <2>1. Cardinality(Preceding(S, ByOrder, y)) = n - 1
    BY <1>3, <1>6
  <2>2. s[n] = CHOOSE x \in S : Cardinality(Preceding(S, ByOrder, x)) = n - 1
    BY <1>4
  <2>3. s[n] \in S /\ Cardinality(Preceding(S, ByOrder, s[n])) = n - 1
    BY <2>1, <2>2
  <2> QED BY <1>3, <2>3
<1> HIDE DEF s, R
<1>7. Ranks(S, R, s)
  BY <1>5, <1>6 DEF Ranks
<1>8. Lists(S, R, s)
  BY <1>2, <1>7, RanksList
<1>9. /\ Listing(S, s)
      /\ \A m, n \in 1..Cardinality(S) : m < n <=> <<s[m], s[n]>> \in R
  BY <1>8 DEF Lists, Listing
<1>10. \A n \in 1..Cardinality(S) : s[n] \in S
  BY <1>9 DEF Listing
<1> QED BY <1>1, <1>9, <1>10 DEF s

-----------------------------------------------------------------------------
(* Picked *)

\* The elements of s at the places are appended one after the other.
PickedBySteps(V, s, places, picked) ==
  \E G \in [0..Len(s) -> Seq(V)] :
    /\ G[0] = << >>
    /\ \A k \in 1..Len(s) : G[k] = IF k \in places THEN Append(G[k - 1], s[k]) ELSE G[k - 1]
    /\ picked = G[Len(s)]

LEMMA PickedSteps ==
  ASSUME NEW V, NEW s \in Seq(V), NEW places
  PROVE  PickedBySteps(V, s, places, Picked(s, places))
<1> DEFINE n == Len(s)
           W == Seq(V)
           Step(picked, k) == IF k \in places THEN Append(picked, s[k]) ELSE picked
           F == [p \in W \X (1..n) |-> Step(p[1], p[2])]
           kept == CHOOSE g : g = [k \in 0..n |-> IF k = 0 THEN << >> ELSE Step(g[k - 1], k)]
           T == {k \in 0..n : kept[k] \in W}
<1>1. n \in Nat /\ \A k \in 1..n : s[k] \in V
  BY LenProperties
<1>2. \A picked \in W, k \in 1..n : Step(picked, k) \in W
  BY <1>1, AppendProperties
<1>3. Picked(s, places) = kept[n]
  BY DEF Picked
<1>4. << >> \in W
  OBVIOUS
<1> HIDE DEF W, Step, n
<1>5. F \in [W \X (1..n) -> W]
  BY <1>2
<1>6. \A picked \in W, k \in 1..n : F[<<picked, k>>] = Step(picked, k)
  OBVIOUS
<1>7. \A S \in SUBSET (1..n) : S # {} => Max(S) \in S /\ Max(S) \in 1..n
  BY <1>1, MaxOfPart
<1> HIDE DEF F
<1>8. PICK it : Recursion(it, n, W, << >>, F)
  BY <1>1, <1>4, <1>5, FoldHasSolution
<1>9. ASSUME NEW k \in 1..n, it[1..(k - 1)] \in W
      PROVE  it[1..k] = F[<<it[1..(k - 1)], k>>]
  <2>1. 1..k \in SUBSET (1..n) /\ k \in 1..k /\ (1..k) \ {k} = 1..(k - 1)
    BY <1>1
  <2>2. Max(1..k) = k
    BY <1>1, <2>1, MaxOfPrefix
  <2>3. it[1..k] = IF 1..k = {} THEN << >> ELSE F[<<it[(1..k) \ {Max(1..k)}], Max(1..k)>>]
    BY <1>8, <2>1 DEF Recursion
  <2>4. 1..k # {}
    BY <2>1
  <2> QED BY <2>1, <2>2, <2>3, <2>4
<1>10. it[{}] = << >>
  BY <1>8 DEF Recursion
<1>11. PICK G : Iteration(G, n, W, << >>, F) /\ Agrees(G, it, n)
  <2>1. Unfolds(it, n, W, << >>, F)
    BY <1>9, <1>10 DEF Unfolds
  <2> QED BY <1>1, <1>4, <1>5, <2>1, FoldSteps
<1>12. G \in [0..n -> W] /\ G[0] = << >>
  BY <1>11 DEF Iteration
<1>13. ASSUME NEW k \in 1..n
       PROVE  G[k] = Step(G[k - 1], k)
  <2>1. k - 1 \in 0..n
    BY <1>1
  <2>2. G[k - 1] \in W /\ G[k] = F[<<G[k - 1], k>>]
    BY <1>11, <1>12, <2>1 DEF Iteration
  <2> QED BY <1>6, <2>2
<1>14. G = [k \in 0..n |-> IF k = 0 THEN << >> ELSE Step(G[k - 1], k)]
  <2>1. \A k \in 0..n : k # 0 => k \in 1..n
    BY <1>1
  <2>2. \A k \in 0..n : G[k] = IF k = 0 THEN << >> ELSE Step(G[k - 1], k)
    BY <1>12, <1>13, <2>1
  <2> QED BY <1>12, <2>2
<1>15. kept = [k \in 0..n |-> IF k = 0 THEN << >> ELSE Step(kept[k - 1], k)]
  BY <1>14
<1> HIDE DEF kept
<1>16. kept[0] = << >>
  BY <1>1, <1>15
<1>17. \A k \in 1..n : kept[k] = Step(kept[k - 1], k)
  BY <1>1, <1>15
<1>18. 0 \in T
  BY <1>1, <1>4, <1>16
<1>19. ASSUME NEW k \in 0..(n - 1), k \in T
       PROVE  k + 1 \in T
  <2>1. k + 1 \in 1..n /\ (k + 1) - 1 = k /\ k + 1 \in 0..n
    BY <1>1
  <2>2. kept[k + 1] = Step(kept[k], k + 1)
    BY <1>17, <2>1
  <2>3. kept[k] \in W
    BY <1>19
  <2> QED BY <1>2, <2>1, <2>2, <2>3
<1>20. 0..n \subseteq T
  <2> HIDE DEF T
  <2> QED BY <1>1, <1>18, <1>19, BoundedInduction
<1>21. kept \in [0..n -> W]
  <2>1. \A k \in 0..n : kept[k] \in W
    BY <1>20
  <2> QED BY <1>15, <2>1
<1> QED BY <1>3, <1>16, <1>17, <1>21 DEF PickedBySteps, W, Step, n

\* r has the elements of s at the places, and each once if s does.
PickedOf(V, s, places, r) ==
  /\ r \in Seq(V)
  /\ Len(r) <= Len(s)
  /\ \A i \in 1..Len(r) : \E j \in 1..Len(s) : j \in places /\ r[i] = s[j]
  /\ \A j \in 1..Len(s) : j \in places => \E i \in 1..Len(r) : r[i] = s[j]
  /\ Unique(s) => Unique(r)

LEMMA PickedElements ==
  ASSUME NEW V, NEW s \in Seq(V), NEW places
  PROVE  PickedOf(V, s, places, Picked(s, places))
<1> DEFINE n == Len(s)
<1>1. n \in Nat /\ DOMAIN s = 1..n /\ \A k \in 1..n : s[k] \in V
  BY LenProperties
<1>2. PICK G \in [0..n -> Seq(V)] :
        /\ G[0] = << >>
        /\ \A k \in 1..n : G[k] = IF k \in places THEN Append(G[k - 1], s[k]) ELSE G[k - 1]
        /\ Picked(s, places) = G[n]
  <2>1. PickedBySteps(V, s, places, Picked(s, places))
    BY PickedSteps
  <2> QED BY <2>1 DEF PickedBySteps
<1> DEFINE Good(k, r) ==
             /\ Len(r) <= k
             /\ \A i \in 1..Len(r) : \E j \in 1..k : j \in places /\ r[i] = s[j]
             /\ \A j \in 1..k : j \in places => \E i \in 1..Len(r) : r[i] = s[j]
             /\ Unique(s) => \A i, j \in 1..Len(r) : i # j => r[i] # r[j]
           T == {k \in 0..n : Good(k, G[k])}
<1>3. 0 \in T
  <2>1. Len(<< >>) = 0
    OBVIOUS
  <2> QED BY <1>1, <1>2, <2>1
<1>4. ASSUME NEW k \in 0..(n - 1), k \in T
      PROVE  k + 1 \in T
  <2> DEFINE r == G[k]
             t == G[k + 1]
  <2>1. k \in Nat /\ k + 1 \in 1..n /\ (k + 1) - 1 = k /\ k \in 0..n /\ k + 1 \in 0..n
    BY <1>1
  <2>2. r \in Seq(V) /\ Good(k, r)
    BY <1>2, <1>4, <2>1
  <2>3. Len(r) \in Nat
    BY <2>2, LenProperties
  <2>4. t = IF k + 1 \in places THEN Append(r, s[k + 1]) ELSE r
    BY <1>2, <2>1
  <2> HIDE DEF r, t
  <2>5. CASE k + 1 \notin places
    <3>1. t = r
      BY <2>4, <2>5
    <3>2. \A j \in 1..(k + 1) : j # k + 1 => j \in 1..k
      BY <2>1
    <3>3. \A j \in 1..k : j \in 1..(k + 1)
      BY <2>1
    <3>4. Good(k + 1, t)
      BY <2>1, <2>2, <2>3, <2>5, <3>1, <3>2, <3>3
    <3> QED BY <2>1, <3>4 DEF t
  <2>6. CASE k + 1 \in places
    <3> DEFINE m == Len(r) + 1
    <3>1. /\ Len(t) = m
          /\ \A i \in 1..Len(r) : t[i] = r[i]
          /\ t[m] = s[k + 1]
      BY <1>1, <2>1, <2>2, <2>4, <2>6, AppendProperties
    <3>2. /\ m \in 1..m
          /\ \A i \in 1..m : i # m => i \in 1..Len(r)
          /\ \A i \in 1..Len(r) : i \in 1..m
      BY <2>3
    <3>3. /\ \A j \in 1..(k + 1) : j # k + 1 => j \in 1..k
          /\ \A j \in 1..k : j \in 1..(k + 1) /\ j # k + 1 /\ j \in DOMAIN s
          /\ k + 1 \in DOMAIN s
      BY <1>1, <2>1
    <3>4. m <= k + 1
      BY <2>1, <2>2, <2>3
    <3> HIDE DEF m
    <3>5. \A i \in 1..m : \E j \in 1..(k + 1) : j \in places /\ t[i] = s[j]
      <4> TAKE i \in 1..m
      <4>1. CASE i = m
        BY <2>1, <2>6, <3>1, <4>1
      <4>2. CASE i # m
        BY <2>2, <3>1, <3>2, <3>3, <4>2
      <4> QED BY <4>1, <4>2
    <3>6. \A j \in 1..(k + 1) : j \in places => \E i \in 1..m : t[i] = s[j]
      <4> TAKE j \in 1..(k + 1)
      <4>1. CASE j = k + 1
        BY <3>1, <3>2, <4>1
      <4>2. CASE j # k + 1
        BY <2>2, <3>1, <3>2, <3>3, <4>2
      <4> QED BY <4>1, <4>2
    <3>7. ASSUME Unique(s)
          PROVE  \A i, j \in 1..m : i # j => t[i] # t[j]
      <4>1. ASSUME NEW i \in 1..Len(r)
            PROVE  r[i] # s[k + 1]
        BY <2>2, <3>3, <3>7 DEF Unique
      <4>2. \A i, j \in 1..Len(r) : i # j => r[i] # r[j]
        BY <2>2, <3>7
      <4> QED BY <3>1, <3>2, <4>1, <4>2
    <3>8. Good(k + 1, t)
      BY <3>1, <3>4, <3>5, <3>6, <3>7
    <3> QED BY <2>1, <3>8 DEF t
  <2> QED BY <2>5, <2>6
<1>5. 0..n \subseteq T
  <2> HIDE DEF T
  <2> QED BY <1>1, <1>3, <1>4, BoundedInduction
<1>6. Good(n, G[n]) /\ G[n] \in Seq(V)
  <2>1. n \in 0..n
    BY <1>1
  <2>2. n \in T
    <3> HIDE DEF T, n
    <3> QED BY <1>5, <2>1
  <2>3. Good(n, G[n])
    <3> HIDE DEF Good, n
    <3> QED BY <2>2
  <2> HIDE DEF Good, n
  <2> QED BY <1>2, <2>1, <2>3
<1>7. DOMAIN G[n] = 1..Len(G[n])
  BY <1>6, LenProperties
<1> DEFINE r == G[n]
<1>8. /\ r \in Seq(V) /\ Len(r) <= Len(s)
      /\ \A i \in 1..Len(r) : \E j \in 1..Len(s) : j \in places /\ r[i] = s[j]
      /\ \A j \in 1..Len(s) : j \in places => \E i \in 1..Len(r) : r[i] = s[j]
  BY <1>6
<1>9. Unique(s) => Unique(r)
  <2>1. Unique(s) => \A i, j \in 1..Len(r) : i # j => r[i] # r[j]
    BY <1>6
  <2>2. DOMAIN r = 1..Len(r)
    BY <1>7
  <2> HIDE DEF r
  <2> QED BY <2>1, <2>2 DEF Unique
<1>10. Picked(s, places) = r
  BY <1>2
<1> HIDE DEF r, n, Good
<1> QED BY <1>8, <1>9, <1>10 DEF PickedOf

-----------------------------------------------------------------------------
(* Mentions *)

LEMMA FirstNumbersAreFinite ==
  ASSUME NEW n \in Nat
  PROVE  IsFiniteSet(1..n)
BY FS_Interval

LEMMA ReferenceTypes ==
  ASSUME NEW r \in References
  PROVE  /\ r.passage \in Passages /\ r.parsed \in BOOLEAN
         /\ Len(r.ranges) \in Nat /\ DOMAIN r.ranges = 1..Len(r.ranges)
         /\ r.ranges = << >> <=> Len(r.ranges) = 0
         /\ \A j \in 1..Len(r.ranges) :
              /\ r.ranges[j].start \in Nat /\ r.ranges[j].end \in Nat
              /\ 1 <= r.ranges[j].start /\ r.ranges[j].start <= r.ranges[j].end
         /\ ~r.parsed => r.ranges = << >>
<1>1. /\ r.passage \in Passages /\ r.parsed \in BOOLEAN /\ r.ranges \in Seq(VerseRanges)
      /\ ~r.parsed => r.ranges = << >>
  BY DEF References
<1>2. /\ Len(r.ranges) \in Nat /\ DOMAIN r.ranges = 1..Len(r.ranges)
      /\ \A j \in 1..Len(r.ranges) : r.ranges[j] \in VerseRanges
  BY <1>1, LenProperties
<1>3. \A v \in VerseRanges : v.start \in Nat /\ v.end \in Nat /\ 1 <= v.start /\ v.start <= v.end
  BY DEF VerseRanges
<1>4. r.ranges = << >> <=> Len(r.ranges) = 0
  BY <1>1, EmptySeq
<1> QED BY <1>1, <1>2, <1>3, <1>4

\* What makes two references one.
LEMMA ReferenceFields ==
  ASSUME NEW a \in References, NEW b \in References,
         a.passage = b.passage, a.parsed = b.parsed, a.ranges = b.ranges
  PROVE  a = b
<1>1. /\ a \in [passage : Passages, parsed : BOOLEAN, ranges : Seq(VerseRanges)]
      /\ b \in [passage : Passages, parsed : BOOLEAN, ranges : Seq(VerseRanges)]
  BY DEF References
<1> HIDE DEF References
<1> QED BY <1>1

\* The places at which mentions stand.
AllPlaces(references) == UNION {PlacesIn(references, i) : i \in Firsts(references)}

\* p stands in the ith reference.
StandsIn(references, p, i) ==
  /\ p = <<p[1], p[2]>>
  /\ p[1] = i
  /\ IF references[i].ranges = << >> THEN p[2] = 0 ELSE p[2] \in 1..Len(references[i].ranges)

LEMMA PlacesOfReference ==
  ASSUME NEW references \in Seq(References), NEW i \in 1..Len(references)
  PROVE  /\ \A p : p \in PlacesIn(references, i) <=> StandsIn(references, p, i)
         /\ IsFiniteSet(PlacesIn(references, i))
         /\ PlacesIn(references, i) \subseteq Nat \X Nat
<1>1. references[i] \in References /\ i \in Nat
  BY LenProperties
<1>2. /\ Len(references[i].ranges) \in Nat
      /\ DOMAIN references[i].ranges = 1..Len(references[i].ranges)
  BY <1>1, ReferenceTypes
<1> DEFINE D == IF references[i].ranges = << >> THEN {0} ELSE 1..Len(references[i].ranges)
<1>3. PlacesIn(references, i) = {i} \X D
  BY <1>2 DEF PlacesIn
<1>4. D \subseteq Nat /\ IsFiniteSet(D)
  <2>1. IsFiniteSet({0})
    BY FS_Singleton
  <2>2. IsFiniteSet(1..Len(references[i].ranges))
    BY <1>2, FirstNumbersAreFinite
  <2> QED BY <1>2, <2>1, <2>2
<1>5. \A p : p \in {i} \X D <=> StandsIn(references, p, i)
  BY DEF StandsIn
<1>6. IsFiniteSet({i})
  BY FS_Singleton
<1> HIDE DEF D
<1>7. IsFiniteSet({i} \X D)
  BY <1>4, <1>6, FS_Product
<1> QED BY <1>1, <1>3, <1>4, <1>5, <1>7

LEMMA PlacesAreFinite ==
  ASSUME NEW references \in Seq(References)
  PROVE  /\ IsFiniteSet(AllPlaces(references))
         /\ AllPlaces(references) \subseteq Nat \X Nat
         /\ \A p : p \in AllPlaces(references) <=>
              \E i \in Firsts(references) : StandsIn(references, p, i)
         /\ Firsts(references) \subseteq 1..Len(references)
<1> DEFINE n == Len(references)
           I == Firsts(references)
           f == [i \in I |-> PlacesIn(references, i)]
           T == {PlacesIn(references, i) : i \in I}
<1>1. n \in Nat /\ DOMAIN references = 1..n
  BY LenProperties
<1>2. I \subseteq 1..n
  BY <1>1 DEF Firsts
<1>3. IsFiniteSet(I)
  <2>1. IsFiniteSet(1..n)
    BY <1>1, FS_Interval
  <2> QED BY <1>2, <2>1, FS_Subset
<1>4. f = [i \in I |-> f[i]] /\ \A y \in T : \E i \in I : y = f[i]
  OBVIOUS
<1>5. IsFiniteSet(T)
  <2> HIDE DEF f, T
  <2> QED BY <1>3, <1>4, ImageIsFinite
<1>6. \A i \in I : /\ \A p : p \in PlacesIn(references, i) <=> StandsIn(references, p, i)
                   /\ IsFiniteSet(PlacesIn(references, i))
                   /\ PlacesIn(references, i) \subseteq Nat \X Nat
  BY <1>2, PlacesOfReference
<1>7. \A S \in T : IsFiniteSet(S)
  BY <1>6
<1>8. IsFiniteSet(UNION T)
  <2> HIDE DEF T
  <2> QED BY <1>5, <1>7, FS_UNION
<1>9. AllPlaces(references) = UNION T
  BY DEF AllPlaces
<1>10. \A p : p \in UNION T <=> \E i \in I : p \in PlacesIn(references, i)
  OBVIOUS
<1> HIDE DEF T, I
<1> QED BY <1>2, <1>6, <1>8, <1>9, <1>10 DEF I

\* A mention of a passage that cannot be parsed is of the text as a whole.
IsMention(m) ==
  /\ m.passage \in Passages
  /\ m.parsed \in BOOLEAN
  /\ m.whole \in BOOLEAN
  /\ m.start \in Nat /\ m.end \in Nat
  /\ ~m.whole => 1 <= m.start /\ m.start <= m.end
  /\ ~m.parsed => m.whole

AreMentions(ms) ==
  /\ Len(ms) \in Nat
  /\ DOMAIN ms = 1..Len(ms)
  /\ \A k \in 1..Len(ms) : IsMention(ms[k])

\* places has the places of the mentions ms, in order.
AreAt(references, places, ms) ==
  /\ Len(places) = Len(ms)
  /\ \A k \in 1..Len(ms) :
       /\ places[k] \in AllPlaces(references)
       /\ places[k][1] \in 1..Len(references)
       /\ ms[k] = MentionAt(references[places[k][1]], places[k][2])
  /\ \A p \in AllPlaces(references) : \E k \in 1..Len(ms) : places[k] = p
  /\ \A j, k \in 1..Len(ms) : j < k <=> Before(places[j], places[k])

LEMMA MentionFields ==
  ASSUME NEW r, NEW j
  PROVE  LET m == MentionAt(r, j)
         IN  /\ m.passage = r.passage /\ m.parsed = r.parsed /\ m.whole = (j = 0)
             /\ m.start = (IF j = 0 THEN 0 ELSE r.ranges[j].start)
             /\ m.end = (IF j = 0 THEN 0 ELSE r.ranges[j].end)
BY DEF MentionAt

LEMMA MentionsListed ==
  ASSUME NEW references \in Seq(References)
  PROVE  /\ AreMentions(Mentions(references))
         /\ AreAt(references, MentionPlaces(references), Mentions(references))
<1> DEFINE P == AllPlaces(references)
           N == Cardinality(P)
           pl == MentionPlaces(references)
           ms == Mentions(references)
<1>1. /\ IsFiniteSet(P) /\ P \subseteq Nat \X Nat
      /\ \A p : p \in P <=> \E i \in Firsts(references) : StandsIn(references, p, i)
      /\ Firsts(references) \subseteq 1..Len(references)
  BY PlacesAreFinite
<1>2. pl = InOrder(P, Before)
  BY DEF MentionPlaces, AllPlaces
<1>3. P \subseteq Int \X Int
  BY <1>1
<1>4. /\ Listing(P, pl)
      /\ \A m, n \in 1..N : m < n <=> Before(pl[m], pl[n])
  <2> HIDE DEF P, pl
  <2> QED BY <1>1, <1>2, <1>3, InPlaceOrder
<1>5. N \in Nat /\ DOMAIN pl = 1..N /\ Len(pl) = N /\ \A k \in 1..N : pl[k] \in P
  BY <1>4 DEF Listing
<1>6. ms = [k \in 1..N |-> MentionAt(references[pl[k][1]], pl[k][2])]
  BY <1>5 DEF Mentions
<1> HIDE DEF ms, pl, N, P
<1>7. DOMAIN ms = 1..N /\ Len(ms) = N
      /\ \A k \in 1..N : ms[k] = MentionAt(references[pl[k][1]], pl[k][2])
  BY <1>5, <1>6
<1>8. ASSUME NEW k \in 1..N
      PROVE  pl[k][1] \in 1..Len(references) /\ IsMention(ms[k])
  <2> DEFINE i == pl[k][1]
             j == pl[k][2]
  <2>1. i \in 1..Len(references) /\ StandsIn(references, pl[k], i)
    BY <1>1, <1>5 DEF StandsIn
  <2>2. references[i] \in References
    BY <2>1, LenProperties
  <2>3. IF references[i].ranges = << >> THEN j = 0 ELSE j \in 1..Len(references[i].ranges)
    BY <2>1 DEF StandsIn
  <2>4. ms[k] = MentionAt(references[i], j)
    BY <1>7
  <2> HIDE DEF i, j
  <2> DEFINE r == references[i]
  <2>5. IsMention(MentionAt(r, j))
    <3>1. /\ r.passage \in Passages /\ r.parsed \in BOOLEAN /\ Len(r.ranges) \in Nat
          /\ \A x \in 1..Len(r.ranges) :
              /\ r.ranges[x].start \in Nat /\ r.ranges[x].end \in Nat
              /\ 1 <= r.ranges[x].start /\ r.ranges[x].start <= r.ranges[x].end
          /\ ~r.parsed => r.ranges = << >>
      BY <2>2, ReferenceTypes
    <3>2. ~r.parsed => j = 0
      BY <2>3, <3>1
    <3>3. j # 0 => j \in 1..Len(r.ranges)
      BY <2>3
    <3> HIDE DEF r
    <3> DEFINE m == MentionAt(r, j)
    <3>4. /\ m.passage = r.passage /\ m.parsed = r.parsed /\ m.whole = (j = 0)
          /\ m.start = (IF j = 0 THEN 0 ELSE r.ranges[j].start)
          /\ m.end = (IF j = 0 THEN 0 ELSE r.ranges[j].end)
      BY MentionFields
    <3> HIDE DEF m
    <3>5. j # 0 => /\ m.start \in Nat /\ m.end \in Nat /\ 1 <= m.start /\ m.start <= m.end
                   /\ r.parsed
      BY <3>1, <3>2, <3>3, <3>4
    <3>6. /\ m.whole \in BOOLEAN /\ (m.whole <=> j = 0)
          /\ m.parsed \in BOOLEAN /\ (m.parsed <=> r.parsed)
      BY <3>1, <3>4, Zenon
    <3>7. /\ m.passage \in Passages /\ m.start \in Nat /\ m.end \in Nat
          /\ ~m.whole => 1 <= m.start /\ m.start <= m.end
      <4>1. j = 0 => m.start = 0 /\ m.end = 0
        BY <3>4
      <4>2. 0 \in Nat
        OBVIOUS
      <4> QED BY <3>1, <3>4, <3>5, <3>6, <4>1, <4>2, Zenon
    <3>8. ~m.parsed => m.whole
      BY <3>2, <3>6, Zenon
    <3>9. IsMention(m)
      BY <3>6, <3>7, <3>8, Zenon DEF IsMention
    <3> QED BY <3>9 DEF m
  <2> QED BY <2>1, <2>4, <2>5 DEF i
<1>9. AreMentions(ms)
  BY <1>5, <1>7, <1>8 DEF AreMentions
<1>10. AreAt(references, pl, ms)
  BY <1>4, <1>5, <1>7, <1>8 DEF AreAt, Listing, P
<1> QED BY <1>9, <1>10 DEF ms, pl

-----------------------------------------------------------------------------
(* The fold of Merged *)

Runs == {r \in [start : Nat, end : Nat, order : Nat] : 1 <= r.start /\ r.start <= r.end}

\* r is g with x appended, or joined to the last of g.
Appends(g, x, r) ==
  /\ Len(r) = Len(g) + 1
  /\ \A a \in 1..Len(g) : r[a] = g[a]
  /\ r[Len(g) + 1] = x
Joins(g, x, r) ==
  /\ Len(r) = Len(g)
  /\ \A a \in 1..Len(g) : a # Len(g) => r[a] = g[a]
  /\ r[Len(g)].start = g[Len(g)].start
  /\ r[Len(g)].end = Larger(g[Len(g)].end, x.end)
  /\ r[Len(g)].order = Smaller(g[Len(g)].order, x.order)

LEMMA JoinedCases ==
  ASSUME NEW g \in Seq(Runs), NEW x \in Runs
  PROVE  /\ Joined(g, x) \in Seq(Runs)
         /\ \/ g # << >> /\ Touches(x, g[Len(g)]) /\ Joins(g, x, Joined(g, x))
            \/ ~(g # << >> /\ Touches(x, g[Len(g)])) /\ Appends(g, x, Joined(g, x))
<1> DEFINE n == Len(g)
           last == g[n]
           y == Run(last.start, Larger(last.end, x.end), Smaller(last.order, x.order))
<1>1. n \in Nat
  BY LenProperties
<1>2. CASE g # << >> /\ Touches(x, last)
  <2>1. n \in 1..n /\ last \in Runs
    BY <1>1, <1>2, EmptySeq, LenProperties
  <2>2. y \in Runs
    BY <2>1 DEF Runs, Run, Larger, Smaller
  <2>3. /\ y.start = last.start
        /\ y.end = Larger(last.end, x.end)
        /\ y.order = Smaller(last.order, x.order)
    BY DEF Run
  <2>4. Joined(g, x) = [g EXCEPT ![n] = y]
    BY <1>2 DEF Joined
  <2> HIDE DEF y, Runs
  <2>5. /\ [g EXCEPT ![n] = y] \in Seq(Runs)
        /\ Len([g EXCEPT ![n] = y]) = Len(g)
        /\ \A j \in 1..Len(g) : [g EXCEPT ![n] = y][j] = IF j = n THEN y ELSE g[j]
    BY <2>1, <2>2, ExceptSeq
  <2> DEFINE r == [g EXCEPT ![n] = y]
  <2> HIDE DEF r
  <2>6. Joins(g, x, r)
    BY <2>1, <2>3, <2>5 DEF Joins, r
  <2> QED BY <1>2, <2>4, <2>5, <2>6 DEF r
<1>3. CASE ~(g # << >> /\ Touches(x, last))
  <2>1. Joined(g, x) = Append(g, x)
    BY <1>3 DEF Joined
  <2> HIDE DEF Runs
  <2>2. Append(g, x) \in Seq(Runs) /\ Appends(g, x, Append(g, x))
    BY AppendProperties DEF Appends
  <2> QED BY <1>3, <2>1, <2>2
<1> QED BY <1>2, <1>3

\* The runs are joined one by one.
MergedBySteps(rs, merged) ==
  \E G \in [0..Len(rs) -> Seq(Runs)] :
    /\ G[0] = << >>
    /\ \A k \in 1..Len(rs) : G[k] = Joined(G[k - 1], rs[k])
    /\ merged = G[Len(rs)]

LEMMA MergedSteps ==
  ASSUME NEW ms, NEW passage, NEW rs, rs = SortedByVerse(ms, passage),
         Len(rs) \in Nat, DOMAIN rs = 1..Len(rs), \A k \in 1..Len(rs) : rs[k] \in Runs
  PROVE  MergedBySteps(rs, Merged(ms, passage))
<1> DEFINE n == Len(rs)
           V == Seq(Runs)
           base == << >>
           F == [p \in V \X (1..n) |-> Joined(p[1], rs[p[2]])]
           it == CHOOSE g : g = [s \in SUBSET (1..n) |->
                   IF s = {} THEN base ELSE Joined(g[s \ {Max(s)}], rs[Max(s)])]
<1>1. n \in Nat /\ DOMAIN rs = 1..n
  OBVIOUS
<1>2. \A g \in V, k \in 1..n : Joined(g, rs[k]) \in V
  BY JoinedCases
<1>3. Merged(ms, passage) = it[1..n]
  BY <1>1 DEF Merged, FoldLeft, MapThenFoldSet
<1>4. base \in V
  OBVIOUS
<1> HIDE DEF V, base, n
<1>5. F \in [V \X (1..n) -> V]
  BY <1>2
<1>6. \A g \in V, k \in 1..n : F[<<g, k>>] = Joined(g, rs[k])
  OBVIOUS
<1>7. \A s \in SUBSET (1..n) : s # {} => Max(s) \in s /\ Max(s) \in 1..n
  BY <1>1, MaxOfPart
<1> HIDE DEF F
<1>8. PICK g : Recursion(g, n, V, base, F)
  BY <1>1, <1>4, <1>5, FoldHasSolution
<1>9. ASSUME NEW s \in SUBSET (1..n)
      PROVE  g[s] = IF s = {} THEN base ELSE Joined(g[s \ {Max(s)}], rs[Max(s)])
  <2>1. s # {} => g[s \ {Max(s)}] \in V
    BY <1>8 DEF Recursion
  <2> QED BY <1>6, <1>7, <1>8, <2>1 DEF Recursion
<1>10. g = [s \in SUBSET (1..n) |->
              IF s = {} THEN base ELSE Joined(g[s \ {Max(s)}], rs[Max(s)])]
  BY <1>8, <1>9 DEF Recursion
<1>11. it = [s \in SUBSET (1..n) |->
               IF s = {} THEN base ELSE Joined(it[s \ {Max(s)}], rs[Max(s)])]
  BY <1>10
<1> HIDE DEF it
<1>12. it[{}] = base
  BY <1>11
<1>13. ASSUME NEW k \in 1..n, it[1..(k - 1)] \in V
       PROVE  it[1..k] = F[<<it[1..(k - 1)], k>>]
  <2>1. 1..k \in SUBSET (1..n) /\ k \in 1..k /\ (1..k) \ {k} = 1..(k - 1)
    BY <1>1
  <2>2. Max(1..k) = k
    BY <1>1, <2>1, MaxOfPrefix
  <2>3. it[1..k] = Joined(it[1..(k - 1)], rs[k])
    <3>1. it[1..k] = IF 1..k = {} THEN base ELSE Joined(it[(1..k) \ {Max(1..k)}], rs[Max(1..k)])
      BY <1>11, <2>1
    <3>2. 1..k # {}
      BY <2>1
    <3> QED BY <2>1, <2>2, <3>1, <3>2
  <2> QED BY <1>6, <1>13, <2>3
<1>14. PICK G : Iteration(G, n, V, base, F) /\ Agrees(G, it, n)
  <2>1. Unfolds(it, n, V, base, F)
    BY <1>12, <1>13 DEF Unfolds
  <2> QED BY <1>1, <1>4, <1>5, <2>1, FoldSteps
<1>15. G \in [0..n -> V] /\ G[0] = base
  BY <1>14 DEF Iteration
<1>16. ASSUME NEW k \in 1..n
       PROVE  G[k] = Joined(G[k - 1], rs[k])
  <2>1. k - 1 \in 0..n
    BY <1>1
  <2>2. G[k - 1] \in V /\ G[k] = F[<<G[k - 1], k>>]
    BY <1>14, <1>15, <2>1 DEF Iteration
  <2> QED BY <1>6, <2>2
<1> QED BY <1>3, <1>14, <1>15, <1>16 DEF Agrees, V, base, n, MergedBySteps

Specific(ms, passage) == {m \in MentionsOf(ms, passage) : ~ms[m].whole}

\* rs has the verses of the passage that are mentioned, by their first verse.
AreSorted(ms, passage, rs) ==
  /\ Len(rs) \in Nat
  /\ DOMAIN rs = 1..Len(rs)
  /\ \A a \in 1..Len(rs) :
       /\ rs[a] \in Runs
       /\ rs[a].order \in Specific(ms, passage)
       /\ rs[a].start = ms[rs[a].order].start
       /\ rs[a].end = ms[rs[a].order].end
  /\ \A k \in Specific(ms, passage) : \E a \in 1..Len(rs) : rs[a].order = k
  /\ \A a, b \in 1..Len(rs) : a < b => rs[a].start <= rs[b].start

LEMMA RunFields ==
  ASSUME NEW start, NEW end, NEW order
  PROVE  /\ Run(start, end, order).start = start
         /\ Run(start, end, order).end = end
         /\ Run(start, end, order).order = order
BY DEF Run

LEMMA MentionsAreSorted ==
  ASSUME NEW ms, NEW passage, AreMentions(ms)
  PROVE  AreSorted(ms, passage, SortedByVerse(ms, passage))
<1> DEFINE I == Specific(ms, passage)
           f == [k \in I |-> Run(ms[k].start, ms[k].end, k)]
           S == {Run(ms[k].start, ms[k].end, k) : k \in I}
           rs == SortedByVerse(ms, passage)
<1>1. rs = InOrder(S, ByVerse)
  BY DEF SortedByVerse, Specific
<1>2. I \subseteq 1..Len(ms) /\ \A k \in I : IsMention(ms[k]) /\ ~ms[k].whole
  BY DEF Specific, MentionsOf, AreMentions
<1>3. IsFiniteSet(I)
  <2>1. Len(ms) \in Nat
    BY DEF AreMentions
  <2>2. IsFiniteSet(1..Len(ms))
    BY <2>1, FirstNumbersAreFinite
  <2> QED BY <1>2, <2>2, FS_Subset
<1>4. IsFiniteSet(S)
  <2>1. f = [k \in I |-> f[k]] /\ \A y \in S : \E k \in I : y = f[k]
    OBVIOUS
  <2> HIDE DEF f, S
  <2> QED BY <1>3, <2>1, ImageIsFinite
<1>5. \A x \in S : /\ x \in Runs /\ x.order \in I
                   /\ x.start = ms[x.order].start /\ x.end = ms[x.order].end
  <2> SUFFICES ASSUME NEW k \in I
               PROVE  LET x == Run(ms[k].start, ms[k].end, k)
                      IN  /\ x \in Runs /\ x.order \in I
                          /\ x.start = ms[x.order].start /\ x.end = ms[x.order].end
    OBVIOUS
  <2>1. /\ k \in Nat /\ ms[k].start \in Nat /\ ms[k].end \in Nat
        /\ 1 <= ms[k].start /\ ms[k].start <= ms[k].end
    BY <1>2 DEF IsMention, AreMentions
  <2> QED BY <2>1, RunFields DEF Runs, Run
<1>6. \A k \in I : \E x \in S : x.order = k
  <2> TAKE k \in I
  <2>1. Run(ms[k].start, ms[k].end, k) \in S
    OBVIOUS
  <2> QED BY <2>1, RunFields
<1>7. \A a, b \in S : a.order = b.order => a = b
  BY RunFields
<1>8. \A a \in S : a.start \in Int /\ a.order \in Int
  BY <1>5 DEF Runs
<1> HIDE DEF S, I, rs
<1>9. /\ Listing(S, rs)
      /\ \A m, n \in 1..Cardinality(S) : m < n <=> ByVerse(rs[m], rs[n])
  BY <1>1, <1>4, <1>7, <1>8, InVerseOrder
<1>10. /\ Cardinality(S) \in Nat /\ DOMAIN rs = 1..Cardinality(S) /\ Len(rs) = Cardinality(S)
       /\ \A n \in 1..Len(rs) : rs[n] \in S
       /\ \A x \in S : \E n \in 1..Len(rs) : rs[n] = x
  BY <1>9 DEF Listing
<1>11. \A a, b \in 1..Len(rs) : a < b => rs[a].start <= rs[b].start
  BY <1>8, <1>9, <1>10 DEF ByVerse
<1>12. \A k \in I : \E a \in 1..Len(rs) : rs[a].order = k
  BY <1>6, <1>10
<1> QED BY <1>5, <1>10, <1>11, <1>12 DEF AreSorted, rs, I

Within(v, x) == x.start <= v /\ v <= x.end

\* What holds of the runs g made of the first k of rs.
Separate(g) == \A a, b \in 1..Len(g) : a < b => g[a].end + 1 < g[b].start
Covers(rs, k, g) ==
  \A v \in Nat : (\E j \in 1..k : Within(v, rs[j])) <=> (\E a \in 1..Len(g) : Within(v, g[a]))
Behind(rs, k, g) ==
  \A a \in 1..Len(g), j \in 1..Len(rs) : k < j => g[a].start <= rs[j].start
Heads(rs, k, g) ==
  \A a \in 1..Len(g) :
    /\ \E j \in 1..k : rs[j].order = g[a].order /\ Within(rs[j].start, g[a])
    /\ \A j \in 1..k : Within(rs[j].start, g[a]) => g[a].order <= rs[j].order
MergedTo(rs, k, g) ==
  /\ g \in Seq(Runs)
  /\ Separate(g) /\ Covers(rs, k, g) /\ Behind(rs, k, g) /\ Heads(rs, k, g)

\* The next of rs, when it begins a run of its own.
LEMMA MergeAppends ==
  ASSUME NEW rs, Len(rs) \in Nat, \A a \in 1..Len(rs) : rs[a] \in Runs,
         \A a, b \in 1..Len(rs) : a < b => rs[a].start <= rs[b].start,
         NEW k \in 0..(Len(rs) - 1), NEW g, MergedTo(rs, k, g),
         NEW r \in Seq(Runs), Appends(g, rs[k + 1], r),
         g = << >> \/ ~Touches(rs[k + 1], g[Len(g)])
  PROVE  MergedTo(rs, k + 1, r)
<1> DEFINE n == Len(g)
           x == rs[k + 1]
<1>1. /\ k \in Nat /\ k + 1 \in 1..Len(rs)
      /\ \A j \in 1..(k + 1) : j = k + 1 \/ j \in 1..k
      /\ \A j \in 1..k : j \in 1..(k + 1) /\ j \in 1..Len(rs) /\ j < k + 1
      /\ k + 1 \in 1..(k + 1)
  OBVIOUS
<1>2. g \in Seq(Runs) /\ n \in Nat /\ \A a \in 1..n : g[a] \in Runs
  BY LenProperties DEF MergedTo
<1>3. \A y \in Runs : y.start \in Nat /\ y.end \in Nat /\ y.order \in Nat /\ y.start <= y.end
  BY DEF Runs
<1>4. x \in Runs /\ x.start \in Nat /\ x.end \in Nat /\ x.order \in Nat /\ x.start <= x.end
  BY <1>1, <1>3
<1>5. Len(r) = n + 1 /\ r[n + 1] = x /\ \A a \in 1..n : r[a] = g[a]
  BY DEF Appends
<1>6. /\ \A a \in 1..(n + 1) : a = n + 1 \/ a \in 1..n
      /\ \A a \in 1..n : a \in 1..(n + 1) /\ a < n + 1
      /\ n + 1 \in 1..(n + 1)
  BY <1>2
<1> HIDE DEF n, x
\* every earlier run ends before the verse before x
<1>7. \A a \in 1..n : g[a].end + 1 < x.start
  <2> TAKE a \in 1..n
  <2>1. n \in 1..n /\ g # << >>
    <3>1. n # 0
      BY <1>2
    <3>2. n \in 1..n
      BY <1>2, <3>1
    <3> QED BY <1>2, <3>1, <3>2, EmptySeq DEF n
  <2>2. g[n].end + 1 < x.start
    <3>1. ~(x.start - 1 <= g[n].end)
      BY <2>1 DEF Touches, n, x
    <3> QED BY <1>2, <1>3, <1>4, <2>1, <3>1
  <2>3. a < n => g[a].end + 1 < g[n].start
    BY <2>1 DEF MergedTo, Separate, n
  <2>4. g[a].end \in Nat /\ g[n].start \in Nat /\ g[n].end \in Nat /\ g[n].start <= g[n].end
    BY <1>2, <1>3, <2>1
  <2>5. CASE a = n
    BY <2>2, <2>5
  <2>6. CASE a < n
    <3> DEFINE e == g[a].end
               b == g[n].start
               f == g[n].end
               c == x.start
    <3>1. /\ e \in Nat /\ b \in Nat /\ f \in Nat /\ c \in Nat
          /\ e + 1 < b /\ b <= f /\ f + 1 < c
      BY <1>4, <2>2, <2>3, <2>4, <2>6
    <3> HIDE DEF b, c, e, f
    <3>2. e + 1 < c
      BY <3>1
    <3> QED BY <3>2 DEF c, e
  <2>7. a = n \/ a < n
    BY <1>2
  <2> QED BY <2>5, <2>6, <2>7
<1>8. Separate(r)
  <2> SUFFICES ASSUME NEW a \in 1..(n + 1), NEW b \in 1..(n + 1), a < b
               PROVE  r[a].end + 1 < r[b].start
    BY <1>5 DEF Separate
  <2>1. a \in 1..n
    BY <1>2
  <2>2. CASE b = n + 1
    BY <1>5, <1>7, <2>1, <2>2
  <2>3. CASE b \in 1..n
    BY <1>5, <2>1, <2>3 DEF MergedTo, Separate, n
  <2> QED BY <1>6, <2>2, <2>3
<1>9. Covers(rs, k + 1, r)
  <2> SUFFICES ASSUME NEW v \in Nat
               PROVE  (\E j \in 1..(k + 1) : Within(v, rs[j]))
                        <=> (\E a \in 1..(n + 1) : Within(v, r[a]))
    BY <1>5 DEF Covers
  <2>1. (\E j \in 1..k : Within(v, rs[j])) <=> (\E a \in 1..n : Within(v, g[a]))
    BY DEF MergedTo, Covers, n
  <2>2. (\E j \in 1..(k + 1) : Within(v, rs[j])) <=> (\E j \in 1..k : Within(v, rs[j])) \/ Within(v, x)
    BY <1>1 DEF x
  <2>3. (\E a \in 1..(n + 1) : Within(v, r[a])) <=> (\E a \in 1..n : Within(v, g[a])) \/ Within(v, x)
    BY <1>5, <1>6
  <2> QED BY <2>1, <2>2, <2>3
<1>10. Behind(rs, k + 1, r)
  <2> SUFFICES ASSUME NEW a \in 1..(n + 1), NEW j \in 1..Len(rs), k + 1 < j
               PROVE  r[a].start <= rs[j].start
    BY <1>5 DEF Behind
  <2>1. CASE a = n + 1
    BY <1>1, <1>5, <2>1 DEF x
  <2>2. CASE a \in 1..n
    <3>1. k < j
      BY <1>1
    <3> QED BY <1>5, <2>2, <3>1 DEF MergedTo, Behind, n
  <2> QED BY <1>6, <2>1, <2>2
<1>11. Heads(rs, k + 1, r)
  <2> SUFFICES ASSUME NEW a \in 1..(n + 1)
               PROVE  /\ \E j \in 1..(k + 1) : rs[j].order = r[a].order /\ Within(rs[j].start, r[a])
                      /\ \A j \in 1..(k + 1) : Within(rs[j].start, r[a]) => r[a].order <= rs[j].order
    BY <1>5 DEF Heads
  <2>1. CASE a = n + 1
    <3>1. r[a] = x /\ rs[k + 1] = x
      BY <1>5, <2>1 DEF x
    <3>2. Within(x.start, x) /\ x.order <= x.order
      BY <1>4 DEF Within
    <3>3. ASSUME NEW j \in 1..k, Within(rs[j].start, x)
          PROVE  FALSE
      <4>1. rs[j].start \in Nat /\ Within(rs[j].start, rs[j])
        BY <1>1, <1>3 DEF Within
      <4>2. PICK b \in 1..n : Within(rs[j].start, g[b])
        BY <4>1 DEF MergedTo, Covers, n
      <4>3. g[b].end \in Nat
        BY <1>2, <1>3
      <4>4. x.start <= rs[j].start /\ rs[j].start <= g[b].end
        BY <3>3, <4>2 DEF Within
      <4>5. g[b].end + 1 < x.start
        BY <1>7, <4>2
      <4>6. x.start \in Nat
        BY <1>4
      <4> DEFINE u == rs[j].start
                 v == g[b].end
                 w == x.start
      <4>7. u \in Nat /\ v \in Nat /\ w \in Nat /\ w <= u /\ u <= v /\ v + 1 < w
        BY <4>1, <4>3, <4>4, <4>5, <4>6
      <4> HIDE DEF u, v, w
      <4> QED BY <4>7
    <3>4. \A j \in 1..(k + 1) : Within(rs[j].start, r[a]) => j = k + 1
      BY <1>1, <3>1, <3>3
    <3> QED BY <1>1, <3>1, <3>2, <3>4
  <2>2. CASE a \in 1..n
    <3>1. r[a] = g[a]
      BY <1>5, <2>2
    <3>2. /\ \E j \in 1..k : rs[j].order = g[a].order /\ Within(rs[j].start, g[a])
          /\ \A j \in 1..k : Within(rs[j].start, g[a]) => g[a].order <= rs[j].order
      BY <2>2 DEF MergedTo, Heads, n
    <3>3. ~Within(x.start, g[a])
      <4>1. g[a].end \in Nat /\ g[a].end + 1 < x.start
        BY <1>2, <1>3, <1>7, <2>2
      <4> QED BY <1>4, <4>1 DEF Within
    <3>4. \A j \in 1..(k + 1) : Within(rs[j].start, g[a]) => j \in 1..k
      BY <1>1, <3>3 DEF x
    <3> QED BY <1>1, <3>1, <3>2, <3>4
  <2> QED BY <1>6, <2>1, <2>2
<1> QED BY <1>8, <1>9, <1>10, <1>11 DEF MergedTo

\* The next of rs, when it is joined to the last run.
LEMMA MergeJoins ==
  ASSUME NEW rs, Len(rs) \in Nat, \A a \in 1..Len(rs) : rs[a] \in Runs,
         NEW k \in 0..(Len(rs) - 1), NEW g, MergedTo(rs, k, g),
         NEW r \in Seq(Runs), Joins(g, rs[k + 1], r),
         g # << >>, Touches(rs[k + 1], g[Len(g)]),
         \A j \in 1..Len(rs) : k + 1 < j => rs[k + 1].start <= rs[j].start
  PROVE  MergedTo(rs, k + 1, r)
<1> DEFINE n == Len(g)
           x == rs[k + 1]
<1>1. /\ k \in Nat /\ k + 1 \in 1..Len(rs) /\ k < k + 1
      /\ \A j \in 1..(k + 1) : j = k + 1 \/ j \in 1..k
      /\ \A j \in 1..k : j \in 1..(k + 1) /\ j \in 1..Len(rs) /\ j < k + 1
      /\ k + 1 \in 1..(k + 1)
  OBVIOUS
<1>2. g \in Seq(Runs) /\ n \in Nat /\ \A a \in 1..n : g[a] \in Runs
  BY LenProperties DEF MergedTo
<1>3. \A y \in Runs : y.start \in Nat /\ y.end \in Nat /\ y.order \in Nat /\ y.start <= y.end
  BY DEF Runs
<1>4. x \in Runs /\ x.start \in Nat /\ x.end \in Nat /\ x.order \in Nat /\ x.start <= x.end
  BY <1>1, <1>3
<1>5. n \in 1..n
  <2>1. n # 0
    BY <1>2, EmptySeq
  <2> QED BY <1>2, <2>1
<1>6. \A a \in 1..n : a = n \/ (a \in 1..n /\ a < n /\ a # n)
  BY <1>2
<1> DEFINE last == g[n]
           y == r[n]
<1>7. last \in Runs /\ last.start \in Nat /\ last.end \in Nat /\ last.order \in Nat /\ last.start <= last.end
  BY <1>2, <1>3, <1>5
<1>8. /\ Len(r) = n /\ \A a \in 1..n : a # n => r[a] = g[a]
      /\ y.start = last.start /\ y.end = Larger(last.end, x.end) /\ y.order = Smaller(last.order, x.order)
  BY DEF Joins
<1>9. last.start <= x.start /\ x.start <= last.end + 1
  <2>1. last.start <= x.start
    BY <1>1, <1>5 DEF MergedTo, Behind
  <2>2. x.start - 1 <= last.end
    BY DEF Touches
  <2> QED BY <1>4, <1>7, <2>1, <2>2
<1> HIDE DEF n, x, last, y
<1>10. y.start \in Nat /\ y.end \in Nat /\ y.order \in Nat
  BY <1>4, <1>7, <1>8 DEF Larger, Smaller
<1>11. \A v \in Nat : Within(v, y) <=> Within(v, last) \/ Within(v, x)
  <2> DEFINE s1 == last.start
             e1 == last.end
             s2 == x.start
             e2 == x.end
  <2>1. /\ s1 \in Nat /\ e1 \in Nat /\ s2 \in Nat /\ e2 \in Nat
        /\ s1 <= s2 /\ s2 <= e1 + 1 /\ s1 <= e1 /\ s2 <= e2
        /\ y.start = s1 /\ y.end = Larger(e1, e2)
    BY <1>4, <1>7, <1>8, <1>9
  <2>2. \A v \in Nat : /\ Within(v, y) <=> y.start <= v /\ v <= y.end
                       /\ Within(v, last) <=> s1 <= v /\ v <= e1
                       /\ Within(v, x) <=> s2 <= v /\ v <= e2
    BY DEF Within
  <2> HIDE DEF s1, e1, s2, e2
  <2>3. \A v \in Nat : s1 <= v /\ v <= Larger(e1, e2) <=> (s1 <= v /\ v <= e1) \/ (s2 <= v /\ v <= e2)
    BY <2>1 DEF Larger
  <2> QED BY <2>1, <2>2, <2>3
<1>12. y.order <= x.order /\ y.order <= last.order /\ (y.order = x.order \/ y.order = last.order)
  BY <1>4, <1>7, <1>8 DEF Smaller
<1>13. \A a \in 1..n : a # n => g[a].end \in Nat /\ g[a].end + 1 < last.start
  <2> TAKE a \in 1..n
  <2>1. g[a].end \in Nat
    BY <1>2, <1>3
  <2>2. a < n => g[a].end + 1 < g[n].start
    BY <1>5 DEF MergedTo, Separate, n
  <2> QED BY <1>6, <2>1, <2>2 DEF last
<1>14. \A v \in Nat, a \in 1..n : a # n /\ Within(v, g[a]) => ~Within(v, last) /\ ~Within(v, x)
  <2> SUFFICES ASSUME NEW v \in Nat, NEW a \in 1..n, a # n, Within(v, g[a])
               PROVE  ~Within(v, last) /\ ~Within(v, x)
    OBVIOUS
  <2> DEFINE e == g[a].end
             b == last.start
             c == x.start
  <2>1. e \in Nat /\ b \in Nat /\ c \in Nat /\ e + 1 < b /\ b <= c /\ v <= e
    BY <1>4, <1>7, <1>9, <1>13 DEF Within
  <2> HIDE DEF b, c, e
  <2>2. ~(b <= v) /\ ~(c <= v)
    BY <2>1
  <2> QED BY <2>2 DEF Within, b, c
<1>15. Separate(r)
  <2> SUFFICES ASSUME NEW a \in 1..n, NEW b \in 1..n, a < b
               PROVE  r[a].end + 1 < r[b].start
    BY <1>8 DEF Separate
  <2>1. a # n /\ a \in Int /\ b \in Int
    BY <1>2
  <2>2. g[a].end + 1 < g[b].start
    BY DEF MergedTo, Separate, n
  <2>3. CASE b = n
    BY <1>8, <1>13, <2>1, <2>3 DEF y
  <2>4. CASE b # n
    BY <1>8, <2>1, <2>2, <2>4
  <2> QED BY <2>3, <2>4
<1>16. Covers(rs, k + 1, r)
  <2> SUFFICES ASSUME NEW v \in Nat
               PROVE  (\E j \in 1..(k + 1) : Within(v, rs[j])) <=> (\E a \in 1..n : Within(v, r[a]))
    BY <1>8 DEF Covers
  <2>1. (\E j \in 1..k : Within(v, rs[j])) <=> (\E a \in 1..n : Within(v, g[a]))
    BY DEF MergedTo, Covers, n
  <2>2. (\E j \in 1..(k + 1) : Within(v, rs[j])) <=> (\E j \in 1..k : Within(v, rs[j])) \/ Within(v, x)
    BY <1>1 DEF x
  <2>3. (\E a \in 1..n : Within(v, g[a])) <=> (\E a \in 1..n : a # n /\ Within(v, g[a])) \/ Within(v, last)
    BY <1>5 DEF last
  <2>4. (\E a \in 1..n : Within(v, r[a])) <=> (\E a \in 1..n : a # n /\ Within(v, r[a])) \/ Within(v, y)
    BY <1>5 DEF y
  <2>5. (\E a \in 1..n : a # n /\ Within(v, r[a])) <=> (\E a \in 1..n : a # n /\ Within(v, g[a]))
    BY <1>8
  <2> QED BY <1>11, <2>1, <2>2, <2>3, <2>4, <2>5
<1>17. Behind(rs, k + 1, r)
  <2> SUFFICES ASSUME NEW a \in 1..n, NEW j \in 1..Len(rs), k + 1 < j
               PROVE  r[a].start <= rs[j].start
    BY <1>8 DEF Behind
  <2>1. k < j
    BY <1>1
  <2>2. g[a].start <= rs[j].start
    BY <2>1 DEF MergedTo, Behind, n
  <2>3. r[a].start = g[a].start
    BY <1>8 DEF y, last
  <2> QED BY <2>2, <2>3
<1>18. Heads(rs, k + 1, r)
  <2> SUFFICES ASSUME NEW a \in 1..n
               PROVE  /\ \E j \in 1..(k + 1) : rs[j].order = r[a].order /\ Within(rs[j].start, r[a])
                      /\ \A j \in 1..(k + 1) : Within(rs[j].start, r[a]) => r[a].order <= rs[j].order
    BY <1>8 DEF Heads
  <2>1. /\ \E j \in 1..k : rs[j].order = g[a].order /\ Within(rs[j].start, g[a])
        /\ \A j \in 1..k : Within(rs[j].start, g[a]) => g[a].order <= rs[j].order
    BY DEF MergedTo, Heads, n
  <2>2. \A j \in 1..Len(rs) : rs[j].start \in Nat /\ rs[j].order \in Nat /\ Within(rs[j].start, rs[j])
    BY <1>3 DEF Within
  <2>3. CASE a # n
    <3>1. r[a] = g[a]
      BY <1>8, <2>3
    <3>2. ~Within(x.start, g[a])
      <4>1. Within(x.start, x)
        BY <1>4 DEF Within
      <4> QED BY <1>4, <1>14, <2>3, <4>1
    <3>3. \A j \in 1..(k + 1) : Within(rs[j].start, g[a]) => j \in 1..k
      BY <1>1, <3>2 DEF x
    <3> QED BY <1>1, <2>1, <3>1, <3>3
  <2>4. CASE a = n
    <3>1. r[a] = y /\ g[a] = last
      BY <2>4 DEF y, last
    <3>2. \E j \in 1..(k + 1) : rs[j].order = y.order /\ Within(rs[j].start, y)
      <4>1. CASE y.order = x.order
        <5>1. Within(x.start, x)
          BY <1>4 DEF Within
        <5>2. Within(x.start, y)
          BY <1>4, <1>11, <5>1
        <5> QED BY <1>1, <4>1, <5>2 DEF x
      <4>2. CASE y.order = last.order
        <5>1. PICK j \in 1..k : rs[j].order = last.order /\ Within(rs[j].start, last)
          BY <2>1, <3>1
        <5>2. Within(rs[j].start, y)
          BY <1>1, <1>11, <2>2, <5>1
        <5> QED BY <1>1, <4>2, <5>1, <5>2
      <4> QED BY <1>12, <4>1, <4>2
    <3>3. ASSUME NEW j \in 1..(k + 1), Within(rs[j].start, y)
          PROVE  y.order <= rs[j].order
      <4>1. CASE j = k + 1
        BY <1>12, <4>1 DEF x
      <4>2. CASE j \in 1..k
        <5>1. rs[j].start \in Nat /\ rs[j].order \in Nat /\ Within(rs[j].start, rs[j])
          BY <1>1, <2>2, <4>2
        <5> DEFINE v == rs[j].start
        <5> HIDE DEF v
        <5>5. v \in Nat /\ \E i \in 1..k : Within(v, rs[i])
          BY <4>2, <5>1 DEF v
        <5>6. \E b \in 1..n : Within(v, g[b])
          BY <5>5 DEF MergedTo, Covers, n
        <5>2. PICK b \in 1..n : Within(rs[j].start, g[b])
          BY <5>6 DEF v
        <5>7. Within(v, y) /\ Within(v, g[b])
          BY <3>3, <5>2 DEF v
        <5>8. Within(v, last) \/ Within(v, x)
          BY <1>11, <5>5, <5>7
        <5>3. b = n
          BY <1>14, <5>2, <5>5, <5>7, <5>8
        <5>4. last.order <= rs[j].order
          BY <2>1, <2>4, <3>1, <4>2, <5>2, <5>3
        <5> DEFINE p == y.order
                   q == last.order
                   w == rs[j].order
        <5>9. p \in Nat /\ q \in Nat /\ w \in Nat /\ p <= q /\ q <= w
          BY <1>7, <1>10, <1>12, <5>1, <5>4
        <5> HIDE DEF p, q, w
        <5>10. p <= w
          BY <5>9
        <5> QED BY <5>10 DEF p, w
      <4> QED BY <1>1, <4>1, <4>2
    <3> QED BY <3>1, <3>2, <3>3
  <2> QED BY <2>3, <2>4
<1> QED BY <1>15, <1>16, <1>17, <1>18 DEF MergedTo

\* The runs of a passage: apart from each other, with the verses mentioned and no
\* others, each with the order of the mention that comes first in it.
AreMerged(ms, passage, runs) ==
  /\ runs \in Seq(Runs)
  /\ Separate(runs)
  /\ \A v \in Nat : (\E k \in Specific(ms, passage) : Within(v, ms[k]))
                      <=> (\E a \in 1..Len(runs) : Within(v, runs[a]))
  /\ \A a \in 1..Len(runs) :
       /\ runs[a].order \in Specific(ms, passage)
       /\ Within(ms[runs[a].order].start, runs[a])
       /\ \A k \in Specific(ms, passage) : Within(ms[k].start, runs[a]) => runs[a].order <= k

LEMMA RunsAreMerged ==
  ASSUME NEW ms, NEW passage, AreMentions(ms)
  PROVE  AreMerged(ms, passage, Merged(ms, passage))
<1> DEFINE rs == SortedByVerse(ms, passage)
           n == Len(rs)
           runs == Merged(ms, passage)
<1>1. AreSorted(ms, passage, rs)
  BY MentionsAreSorted
<1>2. /\ n \in Nat /\ DOMAIN rs = 1..n /\ \A k \in 1..n : rs[k] \in Runs
      /\ \A a, b \in 1..n : a < b => rs[a].start <= rs[b].start
  BY <1>1 DEF AreSorted
<1>3. MergedBySteps(rs, runs)
  BY <1>2, MergedSteps
<1>4. PICK G \in [0..n -> Seq(Runs)] :
        /\ G[0] = << >>
        /\ \A k \in 1..n : G[k] = Joined(G[k - 1], rs[k])
        /\ runs = G[n]
  BY <1>3 DEF MergedBySteps
<1> DEFINE T == {k \in 0..n : MergedTo(rs, k, G[k])}
<1>5. 0 \in T
  <2>1. Len(<< >>) = 0 /\ << >> \in Seq(Runs)
    OBVIOUS
  <2>2. MergedTo(rs, 0, << >>)
    BY <1>2, <2>1 DEF MergedTo, Separate, Covers, Behind, Heads
  <2> QED BY <1>2, <1>4, <2>2
<1>6. ASSUME NEW k \in 0..(n - 1), k \in T
      PROVE  k + 1 \in T
  <2> DEFINE g == G[k]
             r == G[k + 1]
             x == rs[k + 1]
  <2>1. k + 1 \in 1..n /\ (k + 1) - 1 = k /\ k \in 0..n /\ k + 1 \in 0..n
    BY <1>2
  <2>2. r = Joined(g, x) /\ g \in Seq(Runs) /\ x \in Runs
    BY <1>2, <1>4, <2>1
  <2>3. MergedTo(rs, k, g)
    BY <1>6
  <2> HIDE DEF g, r, n
  <2>4. /\ r \in Seq(Runs)
        /\ \/ g # << >> /\ Touches(x, g[Len(g)]) /\ Joins(g, x, r)
           \/ ~(g # << >> /\ Touches(x, g[Len(g)])) /\ Appends(g, x, r)
    BY <2>2, JoinedCases
  <2>5. MergedTo(rs, k + 1, r)
    <3>1. CASE g # << >> /\ Touches(x, g[Len(g)]) /\ Joins(g, x, r)
      <4>1. \A j \in 1..Len(rs) : k + 1 < j => rs[k + 1].start <= rs[j].start
        BY <1>2, <2>1 DEF n
      <4> QED BY <1>2, <2>3, <2>4, <3>1, <4>1, MergeJoins DEF n
    <3>2. CASE ~(g # << >> /\ Touches(x, g[Len(g)])) /\ Appends(g, x, r)
      BY <1>2, <2>3, <2>4, <3>2, MergeAppends DEF n
    <3> QED BY <2>4, <3>1, <3>2
  <2> QED BY <2>1, <2>5 DEF r
<1>7. 0..n \subseteq T
  <2> HIDE DEF T
  <2> QED BY <1>2, <1>5, <1>6, BoundedInduction
<1>8. n \in T
  <2>1. n \in 0..n
    BY <1>2
  <2> HIDE DEF T, n
  <2> QED BY <1>7, <2>1
<1>9. MergedTo(rs, n, runs)
  BY <1>4, <1>8
<1> HIDE DEF n, runs, rs, T
<1>10. \A v \in Nat : (\E k \in Specific(ms, passage) : Within(v, ms[k]))
                        <=> (\E j \in 1..n : Within(v, rs[j]))
  <2>1. \A j \in 1..n : rs[j].order \in Specific(ms, passage)
                        /\ \A v : Within(v, rs[j]) <=> Within(v, ms[rs[j].order])
    BY <1>1 DEF AreSorted, Within, n
  <2>2. \A k \in Specific(ms, passage) : \E j \in 1..n : rs[j].order = k
    BY <1>1 DEF AreSorted, n
  <2> QED BY <2>1, <2>2
<1>11. \A v \in Nat : (\E j \in 1..n : Within(v, rs[j]))
                        <=> (\E a \in 1..Len(runs) : Within(v, runs[a]))
  BY <1>9 DEF MergedTo, Covers
<1>12. ASSUME NEW a \in 1..Len(runs)
       PROVE  /\ runs[a].order \in Specific(ms, passage)
              /\ Within(ms[runs[a].order].start, runs[a])
              /\ \A k \in Specific(ms, passage) : Within(ms[k].start, runs[a]) => runs[a].order <= k
  <2>1. PICK j \in 1..n : rs[j].order = runs[a].order /\ Within(rs[j].start, runs[a])
    BY <1>9 DEF MergedTo, Heads
  <2>2. rs[j].order \in Specific(ms, passage) /\ rs[j].start = ms[rs[j].order].start
    BY <1>1 DEF AreSorted, n
  <2>3. ASSUME NEW k \in Specific(ms, passage), Within(ms[k].start, runs[a])
        PROVE  runs[a].order <= k
    <3>1. PICK i \in 1..n : rs[i].order = k
      BY <1>1 DEF AreSorted, n
    <3>2. rs[i].start = ms[k].start
      BY <1>1, <3>1 DEF AreSorted, n
    <3> QED BY <1>9, <2>3, <3>1, <3>2 DEF MergedTo, Heads
  <2> QED BY <2>1, <2>2, <2>3
<1> QED BY <1>9, <1>10, <1>11, <1>12 DEF AreMerged, MergedTo, runs

\* placed is runs, the one mentioned first in the place of the first mention.
IsPlacedFrom(ms, passage, runs, first, placed) ==
  /\ AreMerged(ms, passage, runs)
  /\ first \in 1..Len(runs)
  /\ \A a \in 1..Len(runs) : runs[first].order <= runs[a].order
  /\ Len(placed) = Len(runs)
  /\ DOMAIN placed = 1..Len(runs)
  /\ \A a \in 1..Len(runs) :
       /\ placed[a].start = runs[a].start
       /\ placed[a].end = runs[a].end
       /\ placed[a].order = IF a = first THEN Min(MentionsOf(ms, passage)) ELSE runs[a].order

ArePlaced(ms, passage, placed) ==
  IF Specific(ms, passage) = {} THEN placed = <<Run(0, 0, Min(MentionsOf(ms, passage)))>>
  ELSE \E runs, first : IsPlacedFrom(ms, passage, runs, first, placed)

LEMMA FirstMention ==
  ASSUME NEW ms, NEW passage, AreMentions(ms), MentionsOf(ms, passage) # {}
  PROVE  LET group == Min(MentionsOf(ms, passage))
         IN  /\ group \in MentionsOf(ms, passage)
             /\ \A k \in MentionsOf(ms, passage) : group <= k
<1> DEFINE M == MentionsOf(ms, passage)
<1>1. M \subseteq Nat
  BY DEF MentionsOf, AreMentions
<1> HIDE DEF M
<1> QED BY <1>1, MinOfNumbers DEF M

LEMMA SpecificMentions ==
  ASSUME NEW ms, NEW passage, AreMentions(ms), NEW k \in Specific(ms, passage)
  PROVE  /\ k \in MentionsOf(ms, passage) /\ k \in Nat /\ IsMention(ms[k])
         /\ ms[k].start \in Nat /\ ms[k].end \in Nat
         /\ 1 <= ms[k].start /\ ms[k].start <= ms[k].end
         /\ ms[k].passage = passage /\ ms[k].parsed
<1>1. k \in 1..Len(ms) /\ k \in Nat /\ IsMention(ms[k]) /\ ~ms[k].whole
      /\ k \in MentionsOf(ms, passage) /\ ms[k].passage = passage /\ ms[k].parsed
  BY DEF Specific, MentionsOf, AreMentions
<1> QED BY <1>1 DEF IsMention

\* The runs, and what is mentioned in them.
LEMMA MergedTypes ==
  ASSUME NEW ms, NEW passage, AreMentions(ms), NEW runs, AreMerged(ms, passage, runs)
  PROVE  /\ Len(runs) \in Nat /\ DOMAIN runs = 1..Len(runs)
         /\ \A a \in 1..Len(runs) :
              /\ runs[a] \in Runs
              /\ runs[a].start \in Nat /\ runs[a].end \in Nat /\ runs[a].order \in Nat
              /\ 1 <= runs[a].start /\ runs[a].start <= runs[a].end
         /\ \A a, b \in 1..Len(runs), v \in Nat : Within(v, runs[a]) /\ Within(v, runs[b]) => a = b
         /\ \A a, b \in 1..Len(runs) : runs[a].order = runs[b].order => a = b
         /\ runs = << >> <=> Specific(ms, passage) = {}
<1> DEFINE n == Len(runs)
<1>1. n \in Nat /\ DOMAIN runs = 1..n /\ \A a \in 1..n : runs[a] \in Runs
  BY LenProperties DEF AreMerged
<1>2. \A x \in Runs : /\ x.start \in Nat /\ x.end \in Nat /\ x.order \in Nat
                      /\ 1 <= x.start /\ x.start <= x.end
  BY DEF Runs
<1>3. ASSUME NEW a \in 1..n, NEW b \in 1..n, NEW v \in Nat, a < b,
             Within(v, runs[a]), Within(v, runs[b])
      PROVE  FALSE
  <2>1. runs[a].end + 1 < runs[b].start
    BY <1>3 DEF AreMerged, Separate
  <2>2. runs[a].end \in Nat /\ runs[b].start \in Nat /\ v <= runs[a].end /\ runs[b].start <= v
    BY <1>1, <1>2, <1>3 DEF Within
  <2> QED BY <2>1, <2>2
<1>4. \A a, b \in 1..n, v \in Nat : Within(v, runs[a]) /\ Within(v, runs[b]) => a = b
  <2> TAKE a, b \in 1..n, v \in Nat
  <2>1. a < b \/ a = b \/ b < a
    BY <1>1
  <2> QED BY <1>3, <2>1
<1>5. ASSUME NEW a \in 1..n, NEW b \in 1..n, runs[a].order = runs[b].order
      PROVE  a = b
  <2> DEFINE k == runs[a].order
  <2>1. k \in Specific(ms, passage) /\ Within(ms[k].start, runs[a])
    BY DEF AreMerged
  <2>2. Within(ms[k].start, runs[b])
    BY <1>5 DEF AreMerged
  <2>3. ms[k].start \in Nat
    BY <2>1, SpecificMentions
  <2> HIDE DEF k
  <2> QED BY <1>4, <2>1, <2>2, <2>3
<1>6. ASSUME n = 0
      PROVE  Specific(ms, passage) = {}
  <2> SUFFICES ASSUME NEW k \in Specific(ms, passage)
               PROVE  FALSE
    OBVIOUS
  <2>1. ms[k].start \in Nat /\ Within(ms[k].start, ms[k])
    BY SpecificMentions DEF Within
  <2>2. \E a \in 1..n : Within(ms[k].start, runs[a])
    BY <2>1 DEF AreMerged
  <2> QED BY <1>6, <2>2
<1>7. ASSUME n # 0
      PROVE  Specific(ms, passage) # {}
  <2>1. 1 \in 1..n
    BY <1>1, <1>7
  <2>2. runs[1].order \in Specific(ms, passage)
    BY <2>1 DEF AreMerged
  <2> QED BY <2>2
<1>8. runs = << >> <=> n = 0
  BY EmptySeq DEF AreMerged
<1> QED BY <1>1, <1>2, <1>4, <1>5, <1>6, <1>7, <1>8

LEMMA RunsArePlaced ==
  ASSUME NEW ms, NEW passage, AreMentions(ms), MentionsOf(ms, passage) # {}
  PROVE  ArePlaced(ms, passage, Placed(ms, passage))
<1> DEFINE runs == Merged(ms, passage)
           n == Len(runs)
           group == Min(MentionsOf(ms, passage))
           first == CHOOSE i \in DOMAIN runs : \A j \in DOMAIN runs : runs[i].order <= runs[j].order
           placed == Placed(ms, passage)
<1>1. AreMerged(ms, passage, runs)
  BY RunsAreMerged
<1> HIDE DEF runs
<1>2. /\ n \in Nat /\ DOMAIN runs = 1..n /\ \A a \in 1..n : runs[a] \in Runs /\ runs[a].order \in Nat
      /\ runs = << >> <=> Specific(ms, passage) = {}
  BY <1>1, MergedTypes
<1>3. placed = IF runs = << >> THEN <<Run(0, 0, group)>> ELSE [runs EXCEPT ![first].order = group]
  BY DEF Placed, runs
<1>4. CASE Specific(ms, passage) = {}
  BY <1>2, <1>3, <1>4 DEF ArePlaced
<1>5. CASE Specific(ms, passage) # {}
  <2>1. runs # << >> /\ n # 0
    BY <1>1, <1>2, <1>5, EmptySeq DEF AreMerged
  <2> DEFINE Orders == {runs[a].order : a \in 1..n}
  <2>2. Orders \subseteq Nat
    BY <1>2
  <2>3. Orders # {}
    <3>1. 1 \in 1..n
      BY <1>2, <2>1
    <3> QED BY <3>1
  <2>4. PICK x \in Orders : \A y \in Orders : x <= y
    <3> HIDE DEF Orders
    <3> QED BY <2>2, <2>3, LeastNumber
  <2>5. PICK i \in 1..n : x = runs[i].order
    BY <2>4
  <2>6. \A j \in 1..n : runs[i].order <= runs[j].order
    BY <2>4, <2>5
  <2>7. first \in 1..n /\ \A j \in 1..n : runs[first].order <= runs[j].order
    BY <1>2, <2>6
  <2>8. placed = [runs EXCEPT ![first].order = group]
    BY <1>3, <2>1
  <2> HIDE DEF first, group, placed, n
  <2>9. DOMAIN placed = 1..n /\ Len(placed) = n
    BY <1>2, <2>8
  <2>10. ASSUME NEW a \in 1..n
         PROVE  /\ placed[a].start = runs[a].start
                /\ placed[a].end = runs[a].end
                /\ placed[a].order = IF a = first THEN group ELSE runs[a].order
    <3>1. runs[a] \in Runs
      BY <1>2
    <3>2. placed[a] = IF a = first THEN [runs[a] EXCEPT !.order = group] ELSE runs[a]
      BY <1>2, <2>8
    <3> QED BY <3>1, <3>2 DEF Runs
  <2>11. IsPlacedFrom(ms, passage, runs, first, placed)
    BY <1>1, <2>7, <2>9, <2>10 DEF IsPlacedFrom, group, n
  <2> QED BY <1>5, <2>11 DEF ArePlaced, placed
<1> QED BY <1>4, <1>5

LEMMA PlacedTypes ==
  ASSUME NEW ms, NEW passage, AreMentions(ms), MentionsOf(ms, passage) # {},
         NEW placed, ArePlaced(ms, passage, placed)
  PROVE  /\ Len(placed) \in Nat /\ DOMAIN placed = 1..Len(placed) /\ 1 \in 1..Len(placed)
         /\ \A a \in 1..Len(placed) :
              /\ placed[a].order \in MentionsOf(ms, passage)
              /\ placed[a].start \in Nat /\ placed[a].end \in Nat
              /\ Specific(ms, passage) = {} => placed[a].start = 0
              /\ Specific(ms, passage) # {} => 1 <= placed[a].start /\ placed[a].start <= placed[a].end
         /\ \A a, b \in 1..Len(placed) : placed[a].order = placed[b].order => a = b
         /\ \A a, b \in 1..Len(placed) : placed[a].start = placed[b].start => a = b
<1> DEFINE M == MentionsOf(ms, passage)
           group == Min(M)
<1>1. group \in M /\ (\A k \in M : group <= k) /\ M \subseteq Nat
  <2>1. M \subseteq Nat
    BY DEF MentionsOf, AreMentions
  <2>2. group \in M /\ \A k \in M : group <= k
    BY FirstMention
  <2> QED BY <2>1, <2>2
<1>2. CASE Specific(ms, passage) = {}
  <2>1. placed = <<Run(0, 0, group)>>
    BY <1>2 DEF ArePlaced
  <2>2. Run(0, 0, group).start = 0 /\ Run(0, 0, group).end = 0 /\ Run(0, 0, group).order = group
    BY RunFields
  <2>3. Len(placed) = 1 /\ DOMAIN placed = 1..1 /\ placed[1] = Run(0, 0, group)
    BY <2>1
  <2> HIDE DEF group
  <2>4. \A a, b \in 1..1 : a = b /\ a = 1
    OBVIOUS
  <2> QED BY <1>1, <1>2, <2>2, <2>3, <2>4
<1>3. CASE Specific(ms, passage) # {}
  <2>1. PICK runs, first : IsPlacedFrom(ms, passage, runs, first, placed)
    BY <1>3 DEF ArePlaced
  <2> DEFINE n == Len(runs)
  <2>2. AreMerged(ms, passage, runs)
    BY <2>1 DEF IsPlacedFrom
  <2>3. /\ n \in Nat
        /\ \A a \in 1..n :
              /\ runs[a].start \in Nat /\ runs[a].end \in Nat /\ runs[a].order \in Nat
              /\ 1 <= runs[a].start /\ runs[a].start <= runs[a].end
        /\ \A a, b \in 1..n, v \in Nat : Within(v, runs[a]) /\ Within(v, runs[b]) => a = b
        /\ \A a, b \in 1..n : runs[a].order = runs[b].order => a = b
    BY <2>2, MergedTypes
  <2> DEFINE f == runs[first].order
  <2>4. /\ first \in 1..n
        /\ Len(placed) = n /\ DOMAIN placed = 1..n
        /\ \A a \in 1..n : /\ f <= runs[a].order
                           /\ placed[a].start = runs[a].start
                           /\ placed[a].end = runs[a].end
                           /\ placed[a].order = IF a = first THEN group ELSE runs[a].order
    BY <2>1 DEF IsPlacedFrom
  <2>5. \A a \in 1..n : runs[a].order \in M
    BY <2>2, SpecificMentions DEF AreMerged
  <2>6. f \in Nat /\ group \in Nat /\ group <= f
    BY <1>1, <2>3, <2>4, <2>5
  <2>7. 1 \in 1..n
    BY <2>3, <2>4
  <2> HIDE DEF M, group, n
  <2>8. ASSUME NEW a \in 1..n, a # first
        PROVE  placed[a].order # group
    <3> DEFINE x == runs[a].order
    <3>1. x \in Nat /\ f <= x /\ x # f /\ placed[a].order = x
      BY <2>3, <2>4, <2>8
    <3> HIDE DEF x, f
    <3>2. x # group
      BY <2>6, <3>1
    <3> QED BY <3>1, <3>2
  <2>9. \A a, b \in 1..n : placed[a].order = placed[b].order => a = b
    <3> TAKE a, b \in 1..n
    <3>1. CASE a = first \/ b = first
      BY <2>4, <2>8, <3>1
    <3>2. CASE a # first /\ b # first
      BY <2>3, <2>4, <3>2
    <3> QED BY <3>1, <3>2
  <2>10. \A a, b \in 1..n : placed[a].start = placed[b].start => a = b
    <3> TAKE a, b \in 1..n
    <3>1. Within(runs[a].start, runs[a])
      BY <2>3 DEF Within
    <3>2. runs[a].start = runs[b].start => Within(runs[a].start, runs[b])
      BY <2>3 DEF Within
    <3> QED BY <2>3, <2>4, <3>1, <3>2
  <2>11. \A a \in 1..n : placed[a].order \in M
    BY <1>1, <2>4, <2>5
  <2> QED BY <1>3, <2>3, <2>4, <2>7, <2>9, <2>10, <2>11 DEF M, n
<1> QED BY <1>2, <1>3

-----------------------------------------------------------------------------
(* Outputs *)

\* A text that cannot be parsed has one mention.
UnparsedOnce(ms) ==
  \A j, k \in 1..Len(ms) : ~ms[j].parsed /\ ~ms[k].parsed /\ ms[j].passage = ms[k].passage => j = k

LEMMA UnparsedMentions ==
  ASSUME NEW references \in Seq(References)
  PROVE  UnparsedOnce(Mentions(references))
<1> DEFINE ms == Mentions(references)
           pl == MentionPlaces(references)
<1>1. AreMentions(ms) /\ AreAt(references, pl, ms)
  BY MentionsListed
<1>2. \A p : p \in AllPlaces(references) <=> \E i \in Firsts(references) : StandsIn(references, p, i)
  BY PlacesAreFinite
<1> HIDE DEF ms, pl
<1> SUFFICES ASSUME NEW j \in 1..Len(ms), NEW k \in 1..Len(ms),
                    ~ms[j].parsed, ~ms[k].parsed, ms[j].passage = ms[k].passage
             PROVE  j = k
  BY DEF UnparsedOnce, ms
<1>3. ASSUME NEW m \in 1..Len(ms), ~ms[m].parsed
      PROVE  /\ pl[m][1] \in Firsts(references) /\ pl[m] = <<pl[m][1], 0>>
             /\ pl[m][2] = 0
             /\ pl[m][1] \in 1..Len(references)
             /\ references[pl[m][1]] \in References
             /\ references[pl[m][1]].parsed = FALSE
             /\ references[pl[m][1]].ranges = << >>
             /\ references[pl[m][1]].passage = ms[m].passage
  <2> DEFINE i == pl[m][1]
             r == references[i]
  <2>1. pl[m] \in AllPlaces(references) /\ i \in 1..Len(references) /\ ms[m] = MentionAt(r, pl[m][2])
    BY <1>1 DEF AreAt
  <2>2. i \in Firsts(references) /\ StandsIn(references, pl[m], i)
    BY <1>2, <2>1 DEF StandsIn
  <2>3. r \in References
    BY <2>1, LenProperties
  <2> HIDE DEF r
  <2>4. ms[m].parsed = r.parsed /\ ms[m].passage = r.passage
    BY <2>1, MentionFields
  <2>5. r.parsed \in BOOLEAN /\ (~r.parsed => r.ranges = << >>)
    BY <2>3, ReferenceTypes
  <2>6. r.parsed = FALSE /\ r.ranges = << >>
    BY <1>3, <2>4, <2>5, Zenon
  <2>7. pl[m] = <<i, 0>> /\ pl[m][2] = 0
    BY <2>2, <2>6 DEF StandsIn, r
  <2> QED BY <2>1, <2>2, <2>3, <2>4, <2>6, <2>7 DEF r
<1> DEFINE a == pl[j][1]
           b == pl[k][1]
<1>4. references[a] = references[b]
  BY <1>3, ReferenceFields
<1>5. a \in Firsts(references) /\ b \in Firsts(references)
  BY <1>3
<1>6. DOMAIN references = 1..Len(references) /\ Len(references) \in Nat
  BY LenProperties
<1>7. a \in 1..Len(references) /\ b \in 1..Len(references)
  BY <1>3
<1>8. a = b
  <2> HIDE DEF a, b
  <2>1. \A x \in Firsts(references), y \in Firsts(references) :
          references[x] = references[y] => ~(x < y)
    <3>1. \A x \in Firsts(references) : x \in DOMAIN references
            /\ ~\E y \in DOMAIN references : y < x /\ references[y] = references[x]
      BY DEF Firsts
    <3> QED BY <3>1
  <2>2. ~(a < b) /\ ~(b < a)
    BY <1>4, <1>5, <2>1
  <2>3. a \in Int /\ b \in Int
    BY <1>6, <1>7
  <2> QED BY <2>2, <2>3
<1>9. pl[j] = pl[k]
  BY <1>3, <1>8
<1>10. a \in Int
  BY <1>6, <1>7
<1>11. ~Before(pl[j], pl[k]) /\ ~Before(pl[k], pl[j])
  <2>1. pl[j][1] = a /\ pl[j][2] = 0
    BY <1>3
  <2> QED BY <1>9, <1>10, <2>1 DEF Before
<1>12. ~(j < k) /\ ~(k < j)
  BY <1>1, <1>11 DEF AreAt
<1>13. j \in Int /\ k \in Int
  BY <1>1 DEF AreMentions
<1> QED BY <1>12, <1>13

LEMMA OutputFields ==
  ASSUME NEW order, NEW reference
  PROVE  Output(order, reference).order = order /\ Output(order, reference).reference = reference
BY DEF Output

LEMMA EndsOfRange ==
  ASSUME NEW start, NEW end
  PROVE  VerseRange(start, end).start = start /\ VerseRange(start, end).end = end
BY DEF VerseRange

\* o stands for a run of its passage, or for a text that cannot be parsed.
IsRunOutput(ms, o, a) ==
  LET passage == ms[o.order].passage
      placed  == Placed(ms, passage)
  IN  /\ a \in 1..Len(placed)
      /\ o.order = placed[a].order
      /\ o.reference = Reference(passage, TRUE, IF placed[a].start = 0 THEN << >>
                                                ELSE <<VerseRange(placed[a].start, placed[a].end)>>)
IsTextOutput(ms, o) == o.reference = Reference(ms[o.order].passage, FALSE, << >>)

IsOutput(ms, o) ==
  /\ o = Output(o.order, o.reference)
  /\ o.order \in 1..Len(ms)
  /\ IF ms[o.order].parsed THEN \E a : IsRunOutput(ms, o, a) ELSE IsTextOutput(ms, o)

\* The runs of a passage that is mentioned.
LEMMA PlacedOfPassage ==
  ASSUME NEW ms, AreMentions(ms), NEW k \in 1..Len(ms), ms[k].parsed
  PROVE  /\ k \in MentionsOf(ms, ms[k].passage)
         /\ MentionsOf(ms, ms[k].passage) # {}
         /\ ArePlaced(ms, ms[k].passage, Placed(ms, ms[k].passage))
<1>1. k \in MentionsOf(ms, ms[k].passage)
  BY DEF MentionsOf, AreMentions
<1> QED BY <1>1, RunsArePlaced

LEMMA OutputsAre ==
  ASSUME NEW ms, AreMentions(ms)
  PROVE  \A o : o \in Outputs(ms) <=> IsOutput(ms, o)
<1>1. DOMAIN ms = 1..Len(ms)
  BY DEF AreMentions
<1>2. \A o : o \in Outputs(ms) <=>
        \/ \E k \in 1..Len(ms) : ~ms[k].parsed /\ o = Output(k, Reference(ms[k].passage, FALSE, << >>))
        \/ \E k \in 1..Len(ms) : ms[k].parsed /\ o \in OutputsOf(ms, ms[k].passage)
  BY <1>1 DEF Outputs, UnparsedOutputs
<1>3. ASSUME NEW k \in 1..Len(ms), ms[k].parsed, NEW o
      PROVE  o \in OutputsOf(ms, ms[k].passage) <=>
               \E a \in 1..Len(Placed(ms, ms[k].passage)) :
                  o = OutputOf(ms[k].passage, Placed(ms, ms[k].passage)[a])
  <2> DEFINE placed == Placed(ms, ms[k].passage)
  <2>1. DOMAIN placed = 1..Len(placed)
    BY <1>3, PlacedOfPassage, PlacedTypes
  <2> QED BY <2>1 DEF OutputsOf, ToSet
<1>4. ASSUME NEW k \in 1..Len(ms), ms[k].parsed, NEW a \in 1..Len(Placed(ms, ms[k].passage)), NEW o
      PROVE  /\ Placed(ms, ms[k].passage)[a].order \in 1..Len(ms)
             /\ ms[Placed(ms, ms[k].passage)[a].order].passage = ms[k].passage
             /\ ms[Placed(ms, ms[k].passage)[a].order].parsed
  <2> DEFINE x == Placed(ms, ms[k].passage)[a].order
  <2>1. x \in MentionsOf(ms, ms[k].passage)
    BY <1>3, <1>4, PlacedOfPassage, PlacedTypes
  <2> HIDE DEF x
  <2>2. x \in 1..Len(ms) /\ ms[x].passage = ms[k].passage /\ ms[x].parsed
    BY <1>1, <2>1 DEF MentionsOf
  <2> QED BY <2>2 DEF x
<1>5. ASSUME NEW o, o \in Outputs(ms)
      PROVE  IsOutput(ms, o)
  <2>1. ASSUME NEW k \in 1..Len(ms), ~ms[k].parsed, o = Output(k, Reference(ms[k].passage, FALSE, << >>))
        PROVE  IsOutput(ms, o)
    <3>1. o.order = k /\ o.reference = Reference(ms[k].passage, FALSE, << >>)
      BY <2>1, OutputFields
    <3> QED BY <2>1, <3>1 DEF IsOutput, IsTextOutput
  <2>2. ASSUME NEW k \in 1..Len(ms), ms[k].parsed, o \in OutputsOf(ms, ms[k].passage)
        PROVE  IsOutput(ms, o)
    <3> DEFINE placed == Placed(ms, ms[k].passage)
    <3>1. PICK a \in 1..Len(placed) : o = OutputOf(ms[k].passage, placed[a])
      BY <1>3, <2>2
    <3> DEFINE ref == Reference(ms[k].passage, TRUE, IF placed[a].start = 0 THEN << >>
                                 ELSE <<VerseRange(placed[a].start, placed[a].end)>>)
    <3>2. o = Output(placed[a].order, ref)
      BY <3>1 DEF OutputOf
    <3>3. /\ placed[a].order \in 1..Len(ms) /\ ms[placed[a].order].passage = ms[k].passage
          /\ ms[placed[a].order].parsed
      BY <1>4, <2>2
    <3> HIDE DEF ref
    <3>4. o.order = placed[a].order /\ o.reference = ref
      BY <3>2, OutputFields
    <3> HIDE DEF placed
    <3>5. IsRunOutput(ms, o, a)
      BY <3>3, <3>4 DEF IsRunOutput, placed, ref
    <3> QED BY <3>2, <3>3, <3>4, <3>5 DEF IsOutput
  <2> QED BY <1>2, <1>5, <2>1, <2>2
<1>6. ASSUME NEW o, IsOutput(ms, o)
      PROVE  o \in Outputs(ms)
  <2> DEFINE k == o.order
  <2>1. k \in 1..Len(ms) /\ o = Output(k, o.reference)
    BY <1>6 DEF IsOutput
  <2>2. CASE ~ms[k].parsed
    <3>1. o.reference = Reference(ms[k].passage, FALSE, << >>)
      BY <1>6, <2>2 DEF IsOutput, IsTextOutput
    <3> QED BY <1>2, <2>1, <2>2, <3>1
  <2>3. CASE ms[k].parsed
    <3>1. PICK a : IsRunOutput(ms, o, a)
      BY <1>6, <2>3 DEF IsOutput
    <3>2. /\ a \in 1..Len(Placed(ms, ms[k].passage))
          /\ o = OutputOf(ms[k].passage, Placed(ms, ms[k].passage)[a])
      BY <2>1, <3>1 DEF IsRunOutput, OutputOf
    <3>3. o \in OutputsOf(ms, ms[k].passage)
      BY <1>3, <2>1, <2>3, <3>2
    <3> QED BY <1>2, <2>1, <2>3, <3>3
  <2> QED BY <2>2, <2>3
<1> QED BY <1>5, <1>6

\* The range a run is written as.
RangesOf(run) == IF run.start = 0 THEN << >> ELSE <<VerseRange(run.start, run.end)>>

LEMMA RangesAre ==
  ASSUME NEW run, run.start \in Nat, run.end \in Nat, run.start <= run.end
  PROVE  /\ RangesOf(run) \in Seq(VerseRanges)
         /\ RangesOf(run) = << >> <=> run.start = 0
         /\ run.start # 0 => RangesOf(run)[1].start = run.start /\ RangesOf(run)[1].end = run.end
<1>1. CASE run.start = 0
  BY <1>1 DEF RangesOf
<1>2. CASE run.start # 0
  <2> DEFINE v == VerseRange(run.start, run.end)
  <2>1. v \in VerseRanges
    BY <1>2 DEF VerseRanges, VerseRange
  <2>2. v.start = run.start /\ v.end = run.end
    BY EndsOfRange
  <2>3. RangesOf(run) = <<v>>
    BY <1>2 DEF RangesOf
  <2> HIDE DEF v
  <2>4. <<v>> \in Seq(VerseRanges) /\ <<v>>[1] = v /\ <<v>> # << >>
    BY <2>1
  <2> QED BY <1>2, <2>2, <2>3, <2>4
<1> QED BY <1>1, <1>2

LEMMA OutputTypes ==
  ASSUME NEW ms, AreMentions(ms), NEW o, IsOutput(ms, o)
  PROVE  /\ o.order \in 1..Len(ms) /\ o.order \in Nat
         /\ o.reference \in References
         /\ o.reference.passage = ms[o.order].passage
         /\ o.reference.parsed = ms[o.order].parsed
         /\ \A a : IsRunOutput(ms, o, a) =>
              o.reference.ranges = RangesOf(Placed(ms, ms[o.order].passage)[a])
<1> DEFINE k == o.order
           passage == ms[k].passage
<1>1. k \in 1..Len(ms) /\ k \in Nat /\ passage \in Passages /\ ms[k].parsed \in BOOLEAN
  BY DEF IsOutput, AreMentions, IsMention
<1>2. \A a : IsRunOutput(ms, o, a) => o.reference = Reference(passage, TRUE, RangesOf(Placed(ms, passage)[a]))
  BY DEF IsRunOutput, RangesOf
<1>3. \A a : IsRunOutput(ms, o, a) => o.reference.ranges = RangesOf(Placed(ms, passage)[a])
  <2> SUFFICES ASSUME NEW a, IsRunOutput(ms, o, a)
               PROVE  o.reference.ranges = RangesOf(Placed(ms, passage)[a])
    OBVIOUS
  <2> DEFINE ranges == RangesOf(Placed(ms, passage)[a])
  <2>1. o.reference = Reference(passage, TRUE, ranges)
    BY <1>2
  <2> HIDE DEF ranges
  <2>2. o.reference.ranges = ranges
    BY <2>1 DEF Reference
  <2> QED BY <2>2 DEF ranges
<1>4. CASE ~ms[k].parsed
  <2>1. o.reference = Reference(passage, FALSE, << >>)
    BY <1>4 DEF IsOutput, IsTextOutput
  <2>2. Reference(passage, FALSE, << >>) \in References
    BY <1>1 DEF References, Reference
  <2>3. ms[k].parsed = FALSE
    BY <1>1, <1>4
  <2>4. o.reference.passage = passage /\ o.reference.parsed = FALSE
    BY <2>1 DEF Reference
  <2> QED BY <1>1, <1>3, <2>1, <2>2, <2>3, <2>4, Zenon
<1>5. CASE ms[k].parsed
  <2>1. PICK a : IsRunOutput(ms, o, a)
    BY <1>5 DEF IsOutput
  <2> DEFINE run == Placed(ms, passage)[a]
  <2>2. o.reference = Reference(passage, TRUE, RangesOf(run)) /\ a \in 1..Len(Placed(ms, passage))
    BY <1>2, <2>1 DEF IsRunOutput
  <2>3. run.start \in Nat /\ run.end \in Nat /\ run.start <= run.end
    <3>1. /\ run.start \in Nat /\ run.end \in Nat
          /\ Specific(ms, passage) # {} => run.start <= run.end
      BY <1>1, <1>5, <2>2, PlacedOfPassage, PlacedTypes
    <3>2. Specific(ms, passage) = {} => run.start <= run.end
      <4>1. ArePlaced(ms, passage, Placed(ms, passage))
        BY <1>1, <1>5, PlacedOfPassage
      <4>2. ASSUME Specific(ms, passage) = {}
            PROVE  run.start = 0
        <5>1. MentionsOf(ms, passage) # {}
          BY <1>1, <1>5, PlacedOfPassage
        <5> HIDE DEF passage
        <5> QED BY <2>2, <4>1, <4>2, <5>1, PlacedTypes
      <4> QED BY <3>1, <4>2
    <3> QED BY <3>1, <3>2
  <2> HIDE DEF run
  <2>4. RangesOf(run) \in Seq(VerseRanges)
    BY <2>3, RangesAre
  <2>5. Reference(passage, TRUE, RangesOf(run)) \in References
    BY <1>1, <2>4 DEF References, Reference
  <2>6. ms[k].parsed = TRUE
    BY <1>1, <1>5
  <2>7. o.reference.passage = passage /\ o.reference.parsed = TRUE
    BY <2>2 DEF Reference
  <2> QED BY <1>1, <1>3, <2>2, <2>5, <2>6, <2>7, Zenon
<1> QED BY <1>4, <1>5

LEMMA OutputsDiffer ==
  ASSUME NEW ms, AreMentions(ms), UnparsedOnce(ms), NEW a, IsOutput(ms, a), NEW b, IsOutput(ms, b)
  PROVE  /\ a.order = b.order => a = b
         /\ a.reference = b.reference => a = b
<1>1. /\ a.order \in 1..Len(ms) /\ b.order \in 1..Len(ms)
      /\ a.reference.passage = ms[a.order].passage /\ a.reference.parsed = ms[a.order].parsed
      /\ b.reference.passage = ms[b.order].passage /\ b.reference.parsed = ms[b.order].parsed
  BY OutputTypes
<1>2. a = Output(a.order, a.reference) /\ b = Output(b.order, b.reference)
  BY DEF IsOutput
<1> DEFINE passage == ms[a.order].passage
           placed == Placed(ms, passage)
<1>3. ASSUME ms[a.order].parsed, ms[b.order].parsed, ms[b.order].passage = passage
      PROVE  /\ a.order = b.order => a.reference = b.reference
             /\ a.reference = b.reference => a.order = b.order
  <2>1. PICK i : IsRunOutput(ms, a, i)
    BY <1>3 DEF IsOutput
  <2>2. PICK j : IsRunOutput(ms, b, j)
    BY <1>3 DEF IsOutput
  <2>3. MentionsOf(ms, passage) # {} /\ ArePlaced(ms, passage, placed)
    BY <1>1, <1>3, PlacedOfPassage
  <2>4. /\ i \in 1..Len(placed) /\ j \in 1..Len(placed)
        /\ a.order = placed[i].order /\ b.order = placed[j].order
        /\ a.reference = Reference(passage, TRUE, RangesOf(placed[i]))
        /\ b.reference = Reference(passage, TRUE, RangesOf(placed[j]))
    BY <1>3, <2>1, <2>2 DEF IsRunOutput, RangesOf
  <2>5. /\ a.reference.ranges = RangesOf(placed[i])
        /\ b.reference.ranges = RangesOf(placed[j])
    BY <1>3, <2>1, <2>2, OutputTypes
  <2> HIDE DEF placed, passage
  <2>6. /\ \A x \in 1..Len(placed) :
             /\ placed[x].start \in Nat /\ placed[x].end \in Nat
             /\ Specific(ms, passage) = {} => placed[x].start = 0
             /\ Specific(ms, passage) # {} => placed[x].start <= placed[x].end
        /\ \A x, y \in 1..Len(placed) : placed[x].order = placed[y].order => x = y
        /\ \A x, y \in 1..Len(placed) : placed[x].start = placed[y].start => x = y
    BY <2>3, PlacedTypes
  <2>7. a.order = b.order => i = j
    BY <2>4, <2>6
  <2>8. ASSUME RangesOf(placed[i]) = RangesOf(placed[j])
        PROVE  i = j
    <3>1. \A x \in 1..Len(placed) : placed[x].start <= placed[x].end
      <4> TAKE x \in 1..Len(placed)
      <4> QED BY <2>6
    <3> DEFINE r == placed[i]
               s == placed[j]
    <3>2. /\ r.start \in Nat /\ r.end \in Nat /\ r.start <= r.end
          /\ s.start \in Nat /\ s.end \in Nat /\ s.start <= s.end
      BY <2>4, <2>6, <3>1
    <3>3. RangesOf(r) = RangesOf(s)
      BY <2>8
    <3> HIDE DEF r, s
    <3>4. /\ RangesOf(r) = << >> <=> r.start = 0
          /\ RangesOf(s) = << >> <=> s.start = 0
          /\ r.start # 0 => RangesOf(r)[1].start = r.start
          /\ s.start # 0 => RangesOf(s)[1].start = s.start
      BY <3>2, RangesAre
    <3>5. r.start = s.start
      BY <3>3, <3>4
    <3> QED BY <2>4, <2>6, <3>5 DEF r, s
  <2> QED BY <2>4, <2>5, <2>7, <2>8
<1>4. ASSUME ~ms[a.order].parsed, ~ms[b.order].parsed, ms[b.order].passage = passage
      PROVE  /\ a.order = b.order => a.reference = b.reference
             /\ a.order = b.order
  <2>1. a.order = b.order
    BY <1>1, <1>4 DEF UnparsedOnce
  <2>2. /\ a.reference = Reference(passage, FALSE, << >>)
        /\ b.reference = Reference(passage, FALSE, << >>)
    BY <1>4 DEF IsOutput, IsTextOutput
  <2> QED BY <2>1, <2>2
<1>5. ASSUME a.order = b.order
      PROVE  a = b
  <2>1. /\ ms[b.order].passage = passage
        /\ ms[a.order].parsed <=> ms[b.order].parsed
    BY <1>5
  <2>2. a.reference = b.reference
    BY <1>3, <1>4, <1>5, <2>1
  <2> QED BY <1>2, <1>5, <2>2
<1>6. ASSUME a.reference = b.reference
      PROVE  a = b
  <2>1. /\ ms[b.order].passage = passage
        /\ ms[a.order].parsed <=> ms[b.order].parsed
    <3>1. ms[a.order].parsed = ms[b.order].parsed
      BY <1>1, <1>6, Zenon
    <3> QED BY <1>1, <1>6, <3>1, Zenon
  <2>2. a.order = b.order
    BY <1>3, <1>4, <1>6, <2>1
  <2> QED BY <1>2, <1>6, <2>2
<1> QED BY <1>5, <1>6

-----------------------------------------------------------------------------
(* The result *)

\* outputs has every reference of the result once, by the mentions they stand for.
AreInOrder(ms, outputs) ==
  /\ Len(outputs) \in Nat
  /\ Len(outputs) <= Len(ms)
  /\ \A n \in 1..Len(outputs) : IsOutput(ms, outputs[n])
  /\ \A o : IsOutput(ms, o) => \E n \in 1..Len(outputs) : outputs[n] = o
  /\ \A m, n \in 1..Len(outputs) : m < n <=> outputs[m].order < outputs[n].order

LEMMA OutputsListed ==
  ASSUME NEW ms, AreMentions(ms), UnparsedOnce(ms)
  PROVE  LET outputs == InOrder(Outputs(ms), ByOrder)
         IN  AreInOrder(ms, outputs) /\ DOMAIN outputs = 1..Len(outputs)
<1> DEFINE S == Outputs(ms)
           f == [o \in S |-> o.order]
           outputs == InOrder(S, ByOrder)
<1>1. \A o : o \in S <=> IsOutput(ms, o)
  BY OutputsAre
<1> HIDE DEF S
<1>2. \A o \in S : o.order \in 1..Len(ms) /\ o.order \in Int
  BY <1>1, OutputTypes
<1>3. \A a, b \in S : a.order = b.order => a = b
  BY <1>1, OutputsDiffer
<1>4. f \in Injection(S, 1..Len(ms))
  <2>1. f \in [S -> 1..Len(ms)] /\ \A a, b \in S : f[a] = f[b] => a = b
    BY <1>2, <1>3
  <2> QED BY <2>1, Zenon DEF Injection, IsInjective
<1>5. Len(ms) \in Nat /\ IsFiniteSet(1..Len(ms)) /\ Cardinality(1..Len(ms)) = Len(ms)
  <2> DEFINE n == Len(ms)
  <2>1. n \in Nat
    BY DEF AreMentions
  <2> HIDE DEF n
  <2>2. IsFiniteSet(1..n) /\ Cardinality(1..n) = n
    BY <2>1, FS_Interval
  <2> QED BY <2>1, <2>2 DEF n
<1>6. IsFiniteSet(S) /\ Cardinality(S) <= Len(ms)
  <2> HIDE DEF f
  <2> QED BY <1>4, <1>5, FS_Injection
<1>7. \A a \in S : a.order \in Int
  BY <1>2
<1> HIDE DEF outputs
<1>8. /\ Listing(S, outputs)
      /\ \A m, n \in 1..Cardinality(S) : m < n <=> ByOrder(outputs[m], outputs[n])
  BY <1>3, <1>6, <1>7, InOutputOrder DEF outputs
<1>9. /\ Cardinality(S) \in Nat /\ DOMAIN outputs = 1..Cardinality(S) /\ Len(outputs) = Cardinality(S)
      /\ \A n \in 1..Len(outputs) : outputs[n] \in S
      /\ \A x \in S : \E n \in 1..Len(outputs) : outputs[n] = x
  BY <1>8 DEF Listing
<1>10. AreInOrder(ms, outputs)
  BY <1>1, <1>6, <1>8, <1>9 DEF AreInOrder, ByOrder
<1> QED BY <1>9, <1>10 DEF outputs, S

\* The references of outputs.
AreReferencesOf(outputs, result) ==
  /\ Len(result) = Len(outputs)
  /\ \A n \in 1..Len(outputs) : result[n] = outputs[n].reference

LEMMA NormalizedListed ==
  ASSUME NEW references \in Seq(References)
  PROVE  LET result == normalizeScriptures(references)
         IN  /\ result \in Seq(References)
             /\ Unique(result)
             /\ \E outputs : /\ AreInOrder(Mentions(references), outputs)
                             /\ AreReferencesOf(outputs, result)
<1> DEFINE ms == Mentions(references)
           outputs == InOrder(Outputs(ms), ByOrder)
           result == normalizeScriptures(references)
<1>1. AreMentions(ms) /\ UnparsedOnce(ms)
  BY MentionsListed, UnparsedMentions
<1> HIDE DEF ms
<1>2. AreInOrder(ms, outputs) /\ DOMAIN outputs = 1..Len(outputs)
  BY <1>1, OutputsListed
<1>3. result = [n \in DOMAIN outputs |-> outputs[n].reference]
  BY DEF normalizeScriptures, ms
<1> HIDE DEF outputs, result
<1>4. /\ Len(outputs) \in Nat /\ DOMAIN result = 1..Len(outputs) /\ Len(result) = Len(outputs)
      /\ \A n \in 1..Len(outputs) : result[n] = outputs[n].reference
  BY <1>2, <1>3 DEF AreInOrder
<1>5. \A n \in 1..Len(outputs) : IsOutput(ms, outputs[n]) /\ outputs[n].order \in Nat
  BY <1>1, <1>2, OutputTypes DEF AreInOrder
<1>6. \A n \in 1..Len(outputs) : outputs[n].reference \in References
  BY <1>1, <1>5, OutputTypes
<1>7. result \in Seq(References)
  <2>1. result \in [1..Len(outputs) -> References]
    BY <1>2, <1>3, <1>4, <1>6
  <2> QED BY <1>4, <2>1, SeqDef
<1>8. Unique(result)
  <2> SUFFICES ASSUME NEW i \in 1..Len(outputs), NEW j \in 1..Len(outputs), i # j
               PROVE  result[i] # result[j]
    BY <1>4 DEF Unique
  <2>1. outputs[i].order # outputs[j].order
    <3>1. i < j \/ j < i
      BY <1>4
    <3>2. outputs[i].order < outputs[j].order \/ outputs[j].order < outputs[i].order
      BY <1>2, <3>1 DEF AreInOrder
    <3> QED BY <1>5, <3>2
  <2>2. outputs[i] # outputs[j]
    BY <2>1
  <2>3. outputs[i].reference # outputs[j].reference
    BY <1>1, <1>5, <2>2, OutputsDiffer
  <2> QED BY <1>4, <2>3
<1>9. AreReferencesOf(outputs, result)
  BY <1>4 DEF AreReferencesOf
<1> QED BY <1>2, <1>7, <1>8, <1>9 DEF result, ms

\* A reference is mentioned where it is first in the list.
LEMMA FirstOfReference ==
  ASSUME NEW references \in Seq(References), NEW i \in 1..Len(references)
  PROVE  \E j \in Firsts(references) : j <= i /\ references[j] = references[i]
<1> DEFINE T == {j \in 1..Len(references) : references[j] = references[i]}
<1>1. Len(references) \in Nat /\ DOMAIN references = 1..Len(references)
  BY LenProperties
<1>2. T \subseteq Nat /\ i \in T
  BY <1>1
<1>3. PICK j \in T : \A x \in T : j <= x
  <2> HIDE DEF T
  <2> QED BY <1>2, LeastNumber
<1>4. j \in 1..Len(references) /\ references[j] = references[i] /\ j <= i
  BY <1>2, <1>3
<1>5. ~\E x \in DOMAIN references : x < j /\ references[x] = references[j]
  <2> SUFFICES ASSUME NEW x \in 1..Len(references), x < j, references[x] = references[j]
               PROVE  FALSE
    BY <1>1
  <2>1. x \in T /\ x \in Int /\ j \in Int
    BY <1>1, <1>4
  <2>2. j <= x
    BY <1>3, <2>1
  <2> QED BY <2>1, <2>2
<1> QED BY <1>1, <1>4, <1>5 DEF Firsts

LEMMA PlaceOfMention ==
  ASSUME NEW references \in Seq(References), NEW k \in 1..Len(Mentions(references))
  PROVE  LET p == MentionPlaces(references)[k]
         IN  /\ p[1] \in 1..Len(references)
             /\ StandsIn(references, p, p[1])
             /\ Mentions(references)[k] = MentionAt(references[p[1]], p[2])
<1> DEFINE p == MentionPlaces(references)[k]
<1>1. AreAt(references, MentionPlaces(references), Mentions(references))
  BY MentionsListed
<1>2. /\ p \in AllPlaces(references) /\ p[1] \in 1..Len(references)
      /\ Mentions(references)[k] = MentionAt(references[p[1]], p[2])
  BY <1>1 DEF AreAt
<1>3. \E i \in Firsts(references) : StandsIn(references, p, i)
  BY <1>2, PlacesAreFinite
<1> HIDE DEF p
<1>4. StandsIn(references, p, p[1])
  BY <1>3 DEF StandsIn
<1> QED BY <1>2, <1>4 DEF p

\* Every place of the list has a mention, there or at an earlier place.
LEMMA MentionOfPlace ==
  ASSUME NEW references \in Seq(References), NEW i \in 1..Len(references),
         NEW p, StandsIn(references, p, i)
  PROVE  \E k \in 1..Len(Mentions(references)) :
           /\ Mentions(references)[k] = MentionAt(references[i], p[2])
           /\ MentionPlaces(references)[k] = p \/ Before(MentionPlaces(references)[k], p)
<1>1. PICK j \in Firsts(references) : j <= i /\ references[j] = references[i]
  BY FirstOfReference
<1> DEFINE q == <<j, p[2]>>
<1>2. q[1] = j /\ q[2] = p[2]
  OBVIOUS
<1>3. p = <<i, p[2]>> /\ p[1] = i
  BY DEF StandsIn
<1> HIDE DEF q
<1>4. q = <<q[1], q[2]>>
  BY <1>2 DEF q
<1>5. StandsIn(references, q, j)
  BY <1>1, <1>2, <1>4 DEF StandsIn
<1>6. q \in AllPlaces(references)
  BY <1>5, PlacesAreFinite
<1>7. AreAt(references, MentionPlaces(references), Mentions(references))
  BY MentionsListed
<1>8. PICK k \in 1..Len(Mentions(references)) : MentionPlaces(references)[k] = q
  BY <1>6, <1>7 DEF AreAt
<1>9. Mentions(references)[k] = MentionAt(references[i], p[2])
  BY <1>1, <1>2, <1>7, <1>8 DEF AreAt
<1>10. q = p \/ Before(q, p)
  <2>1. j \in Int /\ i \in Int
    <3>1. j \in 1..Len(references) /\ Len(references) \in Nat
      BY PlacesAreFinite, LenProperties
    <3> QED BY <3>1
  <2>2. CASE j = i
    BY <1>3, <2>2 DEF q
  <2>3. CASE j < i
    BY <1>2, <1>3, <2>3 DEF Before
  <2> QED BY <1>1, <2>1, <2>2, <2>3
<1> QED BY <1>8, <1>9, <1>10

\* The verses mentioned are those of the mentions.
LEMMA VersesAreMentioned ==
  ASSUME NEW references \in Seq(References), NEW passage
  PROVE  LET ms == Mentions(references)
         IN  /\ Verses(references, passage) \subseteq Nat
             /\ \A v \in Nat : v \in Verses(references, passage)
                                 <=> \E k \in Specific(ms, passage) : Within(v, ms[k])
<1> DEFINE ms == Mentions(references)
<1>1. AreMentions(ms)
  BY MentionsListed
<1>2. Len(references) \in Nat /\ DOMAIN references = 1..Len(references)
      /\ \A i \in 1..Len(references) : references[i] \in References
  BY LenProperties
<1>3. \A v : v \in Verses(references, passage) <=>
        \E i \in 1..Len(references) :
          /\ references[i].parsed /\ references[i].passage = passage
          /\ \E j \in DOMAIN references[i].ranges :
               v \in references[i].ranges[j].start..references[i].ranges[j].end
  BY <1>2 DEF Verses, ToSet
<1> HIDE DEF ms
<1>4. ASSUME NEW v, v \in Verses(references, passage)
      PROVE  v \in Nat /\ \E k \in Specific(ms, passage) : Within(v, ms[k])
  <2>1. PICK i \in 1..Len(references) :
          /\ references[i].parsed /\ references[i].passage = passage
          /\ \E j \in DOMAIN references[i].ranges :
               v \in references[i].ranges[j].start..references[i].ranges[j].end
    BY <1>3, <1>4
  <2> DEFINE r == references[i]
  <2>2. r \in References
    BY <1>2
  <2> HIDE DEF r
  <2>3. PICK j \in DOMAIN r.ranges : v \in r.ranges[j].start..r.ranges[j].end
    BY <2>1 DEF r
  <2>4. /\ Len(r.ranges) \in Nat /\ j \in 1..Len(r.ranges) /\ r.ranges # << >> /\ j # 0
        /\ r.ranges[j].start \in Nat /\ r.ranges[j].end \in Nat
    BY <2>2, <2>3, ReferenceTypes
  <2>5. StandsIn(references, <<i, j>>, i)
    BY <2>4 DEF StandsIn, r
  <2>6. PICK k \in 1..Len(ms) : ms[k] = MentionAt(r, j)
    <3>1. <<i, j>>[2] = j
      OBVIOUS
    <3> QED BY <2>5, <3>1, MentionOfPlace DEF ms, r
  <2>7. ms[k].passage = r.passage /\ ms[k].parsed = r.parsed /\ ms[k].whole = (j = 0)
    BY <2>6 DEF MentionAt
  <2>8. ms[k].start = r.ranges[j].start /\ ms[k].end = r.ranges[j].end
    BY <2>4, <2>6 DEF MentionAt
  <2>9. k \in Specific(ms, passage)
    <3>1. ms[k].parsed /\ ms[k].passage = passage /\ ~ms[k].whole
      BY <2>1, <2>4, <2>7 DEF r
    <3> QED BY <1>1, <3>1 DEF Specific, MentionsOf, AreMentions
  <2>10. v \in Nat /\ Within(v, ms[k])
    BY <2>3, <2>4, <2>8 DEF Within
  <2> QED BY <2>9, <2>10
<1>5. ASSUME NEW v \in Nat, NEW k \in Specific(ms, passage), Within(v, ms[k])
      PROVE  v \in Verses(references, passage)
  <2> DEFINE p == MentionPlaces(references)[k]
             i == p[1]
             j == p[2]
             r == references[i]
  <2>1. k \in 1..Len(ms) /\ ms[k].parsed /\ ms[k].passage = passage /\ ~ms[k].whole
    BY <1>1 DEF Specific, MentionsOf, AreMentions
  <2>2. i \in 1..Len(references) /\ StandsIn(references, p, i) /\ ms[k] = MentionAt(r, j)
    BY <2>1, PlaceOfMention DEF ms
  <2>3. IF r.ranges = << >> THEN j = 0 ELSE j \in 1..Len(r.ranges)
    BY <2>2 DEF StandsIn
  <2>4. r \in References
    BY <1>2, <2>2
  <2> HIDE DEF p, i, j, r
  <2>5. ms[k].passage = r.passage /\ ms[k].parsed = r.parsed /\ ms[k].whole = (j = 0)
    BY <2>2 DEF MentionAt
  <2>6. j # 0
    BY <2>1, <2>5
  <2>7. ms[k].start = r.ranges[j].start /\ ms[k].end = r.ranges[j].end
    BY <2>2, <2>6 DEF MentionAt
  <2>8. /\ j \in DOMAIN r.ranges
        /\ r.ranges[j].start \in Nat /\ r.ranges[j].end \in Nat
    BY <2>3, <2>4, <2>6, ReferenceTypes
  <2>9. v \in r.ranges[j].start..r.ranges[j].end
    BY <1>5, <2>7, <2>8 DEF Within
  <2>10. r.parsed /\ r.passage = passage
    BY <2>1, <2>5
  <2> QED BY <1>3, <2>2, <2>8, <2>9, <2>10 DEF r
<1> QED BY <1>4, <1>5 DEF ms

\* Before and after a run is a verse that was not mentioned.
LEMMA RunsAreApart ==
  ASSUME NEW ms, NEW passage, AreMentions(ms), NEW runs, AreMerged(ms, passage, runs),
         NEW a \in 1..Len(runs), NEW b \in 1..Len(runs)
  PROVE  ~Within(runs[a].start - 1, runs[b]) /\ ~Within(runs[a].end + 1, runs[b])
<1> DEFINE r == runs[a]
           s == runs[b]
<1>1. /\ Len(runs) \in Nat
      /\ r.start \in Nat /\ r.end \in Nat /\ r.start <= r.end
      /\ s.start \in Nat /\ s.end \in Nat /\ s.start <= s.end
  BY MergedTypes
<1>2. a < b => r.end + 1 < s.start
  BY DEF AreMerged, Separate
<1>3. b < a => s.end + 1 < r.start
  BY DEF AreMerged, Separate
<1>4. CASE a = b
  BY <1>1, <1>4 DEF Within
<1> HIDE DEF r, s
<1>5. CASE a < b
  <2>1. ~Within(r.start - 1, s) /\ ~Within(r.end + 1, s)
    BY <1>1, <1>2, <1>5 DEF Within
  <2> QED BY <2>1 DEF r, s
<1>6. CASE b < a
  <2>1. ~Within(r.start - 1, s) /\ ~Within(r.end + 1, s)
    BY <1>1, <1>3, <1>6 DEF Within
  <2> QED BY <2>1 DEF r, s
<1> QED BY <1>1, <1>4, <1>5, <1>6

\* The runs are the longest there are of the verses mentioned.
LEMMA RunsAreMaximal ==
  ASSUME NEW references \in Seq(References), NEW passage, NEW runs,
         AreMerged(Mentions(references), passage, runs)
  PROVE  MaximalRuns(Verses(references, passage))
           = {VerseRange(runs[a].start, runs[a].end) : a \in 1..Len(runs)}
<1> DEFINE ms == Mentions(references)
           verses == Verses(references, passage)
           n == Len(runs)
<1>1. AreMentions(ms)
  BY MentionsListed
<1>2. /\ verses \subseteq Nat
      /\ \A v \in Nat : v \in verses <=> \E a \in 1..n : Within(v, runs[a])
  <2>1. /\ verses \subseteq Nat
        /\ \A v \in Nat : v \in verses <=> \E k \in Specific(ms, passage) : Within(v, ms[k])
    BY VersesAreMentioned
  <2> QED BY <2>1 DEF AreMerged
<1> HIDE DEF ms, verses, n
<1>3. n \in Nat /\ \A a \in 1..n : /\ runs[a].start \in Nat /\ runs[a].end \in Nat
                                   /\ 1 <= runs[a].start /\ runs[a].start <= runs[a].end
  BY <1>1, MergedTypes DEF ms, n
<1>4. \A a \in 1..n : runs[a].start - 1 \notin verses /\ runs[a].end + 1 \notin verses
  <2> TAKE a \in 1..n
  <2>1. \A b \in 1..n : ~Within(runs[a].start - 1, runs[b]) /\ ~Within(runs[a].end + 1, runs[b])
    BY <1>1, RunsAreApart DEF ms, n
  <2> QED BY <1>2, <2>1
<1> DEFINE Q == {q \in verses \X verses : q[1]..q[2] \subseteq verses /\ q[1] <= q[2]
                                            /\ q[1] - 1 \notin verses /\ q[2] + 1 \notin verses}
<1>5. ASSUME NEW a \in 1..n
      PROVE  <<runs[a].start, runs[a].end>> \in Q
  <2> DEFINE s == runs[a].start
             e == runs[a].end
  <2>1. s \in Nat /\ e \in Nat /\ s <= e
    BY <1>3
  <2>2. \A v \in s..e : v \in verses
    <3> TAKE v \in s..e
    <3>1. v \in Nat /\ Within(v, runs[a])
      BY <2>1 DEF Within
    <3> QED BY <1>2, <3>1
  <2>3. s - 1 \notin verses /\ e + 1 \notin verses
    BY <1>4
  <2> HIDE DEF s, e
  <2>4. s \in verses /\ e \in verses
    BY <2>1, <2>2
  <2>5. <<s, e>> \in Q
    BY <2>1, <2>2, <2>3, <2>4
  <2> QED BY <2>5 DEF s, e
<1>6. ASSUME NEW q \in Q
      PROVE  \E a \in 1..n : q[1] = runs[a].start /\ q[2] = runs[a].end
  <2> DEFINE x == q[1]
             y == q[2]
  <2>1. /\ x \in verses /\ y \in verses /\ x <= y
        /\ x - 1 \notin verses /\ y + 1 \notin verses
        /\ \A v \in x..y : v \in verses
    BY <1>6
  <2>2. x \in Nat /\ y \in Nat
    BY <1>2, <2>1
  <2> HIDE DEF x, y, Q
  <2>3. PICK a \in 1..n : Within(x, runs[a])
    BY <1>2, <2>1, <2>2
  <2> DEFINE s == runs[a].start
             e == runs[a].end
  <2>4. /\ s \in Nat /\ e \in Nat /\ 1 <= s /\ s <= e /\ s <= x /\ x <= e
        /\ e + 1 \notin verses
    BY <1>3, <1>4, <2>3 DEF Within
  <2>5. \A v \in Nat : s <= v /\ v <= e => v \in verses
    BY <1>2 DEF Within
  <2> HIDE DEF s, e
  <2>6. s = x
    <3>1. SUFFICES ASSUME s < x PROVE FALSE
      BY <2>2, <2>4
    <3>2. x - 1 \in Nat /\ s <= x - 1 /\ x - 1 <= e
      BY <2>2, <2>4, <3>1
    <3> QED BY <2>1, <2>5, <3>2
  <2>7. ~(e < y)
    <3>1. SUFFICES ASSUME e < y PROVE FALSE
      OBVIOUS
    <3>2. e + 1 \in x..y
      BY <2>2, <2>4, <3>1
    <3> QED BY <2>1, <2>4, <3>2
  <2>8. ~(y < e)
    <3>1. SUFFICES ASSUME y < e PROVE FALSE
      OBVIOUS
    <3>2. y + 1 \in Nat /\ s <= y + 1 /\ y + 1 <= e
      BY <2>1, <2>2, <2>4, <2>6, <3>1
    <3> QED BY <2>1, <2>5, <3>2
  <2>9. e = y
    BY <2>2, <2>4, <2>7, <2>8
  <2> QED BY <2>6, <2>9 DEF x, y, s, e
<1>7. MaximalRuns(verses) = {VerseRange(q[1], q[2]) : q \in Q}
  BY DEF MaximalRuns
<1> HIDE DEF Q
<1>8. {VerseRange(q[1], q[2]) : q \in Q} \subseteq {VerseRange(runs[a].start, runs[a].end) : a \in 1..n}
  BY <1>6
<1>9. {VerseRange(runs[a].start, runs[a].end) : a \in 1..n} \subseteq {VerseRange(q[1], q[2]) : q \in Q}
  <2> SUFFICES ASSUME NEW a \in 1..n
               PROVE  \E q \in Q : VerseRange(runs[a].start, runs[a].end) = VerseRange(q[1], q[2])
    OBVIOUS
  <2> DEFINE q == <<runs[a].start, runs[a].end>>
  <2>1. q \in Q /\ q[1] = runs[a].start /\ q[2] = runs[a].end
    BY <1>5
  <2> QED BY <2>1
<1> QED BY <1>7, <1>8, <1>9 DEF verses, n

RangesIn(result, passage) == {r.ranges : r \in {x \in ToSet(result) : x.parsed /\ x.passage = passage}}
PlacedRanges(ms, passage) == {RangesOf(Placed(ms, passage)[a]) : a \in 1..Len(Placed(ms, passage))}

\* The ranges that the result has of a passage.
LEMMA RangesOfPassage ==
  ASSUME NEW ms, AreMentions(ms), NEW outputs, AreInOrder(ms, outputs),
         NEW result \in Seq(References), AreReferencesOf(outputs, result),
         NEW passage, MentionsOf(ms, passage) # {}
  PROVE  RangesIn(result, passage) = PlacedRanges(ms, passage)
<1> DEFINE placed == Placed(ms, passage)
           Have == {r.ranges : r \in {x \in ToSet(result) : x.parsed /\ x.passage = passage}}
           Want == {RangesOf(placed[a]) : a \in 1..Len(placed)}
<1>1. /\ Len(result) = Len(outputs) /\ DOMAIN result = 1..Len(outputs)
      /\ \A n \in 1..Len(outputs) : result[n] = outputs[n].reference /\ IsOutput(ms, outputs[n])
  BY LenProperties DEF AreReferencesOf, AreInOrder
<1>2. ASSUME NEW n \in 1..Len(outputs), result[n].parsed, result[n].passage = passage
      PROVE  result[n].ranges \in Want
  <2> DEFINE o == outputs[n]
  <2>1. IsOutput(ms, o) /\ result[n] = o.reference
    BY <1>1
  <2>2. o.reference.passage = ms[o.order].passage /\ o.reference.parsed = ms[o.order].parsed
    BY <2>1, OutputTypes
  <2>3. ms[o.order].passage = passage /\ ms[o.order].parsed
    BY <1>2, <2>1, <2>2
  <2>4. PICK a : IsRunOutput(ms, o, a)
    BY <2>1, <2>3 DEF IsOutput
  <2>5. o.reference.ranges = RangesOf(placed[a])
    BY <2>1, <2>3, <2>4, OutputTypes
  <2>6. a \in 1..Len(placed)
    BY <2>3, <2>4 DEF IsRunOutput
  <2> QED BY <2>1, <2>5, <2>6
<1>3. ASSUME NEW a \in 1..Len(placed)
      PROVE  RangesOf(placed[a]) \in Have
  <2> DEFINE k == placed[a].order
             ref == Reference(passage, TRUE, RangesOf(placed[a]))
             o == Output(k, ref)
  <2>1. k \in MentionsOf(ms, passage)
    BY RunsArePlaced, PlacedTypes
  <2>2. k \in 1..Len(ms) /\ ms[k].passage = passage /\ ms[k].parsed
    BY <2>1 DEF MentionsOf, AreMentions
  <2> HIDE DEF ref
  <2>3. o.order = k /\ o.reference = ref
    BY OutputFields
  <2> HIDE DEF o, k
  <2>4. o.reference = Reference(passage, TRUE, IF placed[a].start = 0 THEN << >>
                                        ELSE <<VerseRange(placed[a].start, placed[a].end)>>)
    BY <2>3 DEF ref, RangesOf
  <2>5. IsRunOutput(ms, o, a)
    BY <2>2, <2>3, <2>4 DEF IsRunOutput, k
  <2>6. IsOutput(ms, o)
    BY <2>2, <2>3, <2>5 DEF IsOutput, o
  <2>7. PICK n \in 1..Len(outputs) : outputs[n] = o
    BY <2>6 DEF AreInOrder
  <2>8. result[n] = ref
    BY <1>1, <2>3, <2>7
  <2>9. result[n].passage = passage /\ result[n].parsed = TRUE /\ result[n].ranges = RangesOf(placed[a])
    BY <2>8 DEF ref, Reference
  <2>10. result[n] \in ToSet(result)
    BY <1>1 DEF ToSet
  <2> QED BY <2>9, <2>10
<1>4. Have \subseteq Want
  <2> SUFFICES ASSUME NEW r \in ToSet(result), r.parsed, r.passage = passage
               PROVE  r.ranges \in Want
    OBVIOUS
  <2>1. PICK n \in 1..Len(outputs) : result[n] = r
    BY <1>1 DEF ToSet
  <2> QED BY <1>2, <2>1
<1> QED BY <1>3, <1>4 DEF RangesIn, PlacedRanges

\* The texts that the result has are those of the list.
LEMMA TextsAreKept ==
  ASSUME NEW references \in Seq(References)
  PROVE  {r \in ToSet(normalizeScriptures(references)) : ~r.parsed}
           = {r \in ToSet(references) : ~r.parsed}
<1> DEFINE ms == Mentions(references)
           result == normalizeScriptures(references)
<1>1. AreMentions(ms)
  BY MentionsListed
<1>2. result \in Seq(References)
  BY NormalizedListed
<1>3. PICK outputs : AreInOrder(ms, outputs) /\ AreReferencesOf(outputs, result)
  BY NormalizedListed
<1>4. /\ DOMAIN references = 1..Len(references)
      /\ \A i \in 1..Len(references) : references[i] \in References
  BY LenProperties
<1> HIDE DEF ms, result
<1>5. /\ Len(result) = Len(outputs) /\ DOMAIN result = 1..Len(outputs)
      /\ \A n \in 1..Len(outputs) : result[n] = outputs[n].reference /\ IsOutput(ms, outputs[n])
                                    /\ result[n] \in References
  BY <1>2, <1>3, LenProperties DEF AreReferencesOf, AreInOrder
<1>6. ASSUME NEW n \in 1..Len(outputs), ~result[n].parsed
      PROVE  \E i \in 1..Len(references) : references[i] = result[n]
  <2> DEFINE o == outputs[n]
             k == o.order
             p == MentionPlaces(references)[k]
             r == references[p[1]]
  <2>1. IsOutput(ms, o) /\ result[n] = o.reference /\ result[n] \in References
    BY <1>5
  <2>2. k \in 1..Len(ms) /\ result[n].passage = ms[k].passage /\ result[n].parsed = ms[k].parsed
    BY <1>1, <2>1, OutputTypes
  <2>3. p[1] \in 1..Len(references) /\ ms[k] = MentionAt(r, p[2])
    BY <2>2, PlaceOfMention DEF ms
  <2>4. r \in References
    BY <1>4, <2>3
  <2> HIDE DEF r, p, k, o
  <2>5. ms[k].passage = r.passage /\ ms[k].parsed = r.parsed
    BY <2>3 DEF MentionAt
  <2>6. result[n].passage = r.passage /\ result[n].parsed = r.parsed
    BY <2>2, <2>5, Zenon
  <2>7. result[n].ranges = << >> /\ r.ranges = << >>
    BY <1>6, <2>1, <2>4, <2>6 DEF References
  <2>8. result[n] = r
    BY <2>1, <2>4, <2>6, <2>7, ReferenceFields
  <2> QED BY <2>3, <2>8 DEF r
<1>7. ASSUME NEW i \in 1..Len(references), ~references[i].parsed
      PROVE  \E n \in 1..Len(outputs) : references[i] = result[n]
  <2> DEFINE r == references[i]
  <2>1. r \in References /\ r.ranges = << >>
    BY <1>4, <1>7 DEF References
  <2>2. <<i, 0>>[2] = 0 /\ <<i, 0>>[1] = i
    OBVIOUS
  <2>3. StandsIn(references, <<i, 0>>, i)
    BY <2>1, <2>2 DEF StandsIn
  <2>4. PICK k \in 1..Len(ms) : ms[k] = MentionAt(r, 0)
    BY <2>2, <2>3, MentionOfPlace DEF ms
  <2> HIDE DEF r
  <2>5. ms[k].passage = r.passage /\ ms[k].parsed = r.parsed
    BY <2>4 DEF MentionAt
  <2> DEFINE ref == Reference(r.passage, FALSE, << >>)
             o == Output(k, ref)
  <2>6. ref.passage = r.passage /\ ref.parsed = FALSE /\ ref.ranges = << >>
    BY DEF Reference
  <2>7. r.parsed = FALSE
    BY <1>7, <2>1 DEF References, r
  <2>8. ref = r
    BY <2>1, <2>7 DEF References, Reference
  <2> HIDE DEF ref
  <2>9. o.order = k /\ o.reference = ref
    BY OutputFields
  <2> HIDE DEF o
  <2>10. IsOutput(ms, o)
    <3>1. ~ms[k].parsed
      BY <2>5, <2>7
    <3> QED BY <2>5, <2>9, <3>1 DEF IsOutput, IsTextOutput, o, ref
  <2>11. PICK n \in 1..Len(outputs) : outputs[n] = o
    BY <1>3, <2>10 DEF AreInOrder
  <2>12. result[n] = r
    BY <1>5, <2>8, <2>9, <2>11
  <2> QED BY <2>12 DEF r
<1>8. \A r : r \in ToSet(result) <=> \E n \in 1..Len(outputs) : r = result[n]
  BY <1>5 DEF ToSet
<1>9. \A r : r \in ToSet(references) <=> \E i \in 1..Len(references) : r = references[i]
  BY <1>4 DEF ToSet
<1> QED BY <1>6, <1>7, <1>8, <1>9 DEF result

\* A passage of the list or the result has a mention.
LEMMA PassagesAreMentioned ==
  ASSUME NEW references \in Seq(References), NEW r, r.parsed,
         r \in ToSet(normalizeScriptures(references)) \cup ToSet(references)
  PROVE  MentionsOf(Mentions(references), r.passage) # {}
<1> DEFINE ms == Mentions(references)
           result == normalizeScriptures(references)
<1>1. AreMentions(ms)
  BY MentionsListed
<1>2. result \in Seq(References)
  BY NormalizedListed
<1>3. PICK outputs : AreInOrder(ms, outputs) /\ AreReferencesOf(outputs, result)
  BY NormalizedListed
<1> HIDE DEF ms, result
<1>4. ASSUME NEW k \in 1..Len(ms), ms[k].parsed, ms[k].passage = r.passage
      PROVE  MentionsOf(ms, r.passage) # {}
  BY <1>1, <1>4, PlacedOfPassage
<1>5. CASE r \in ToSet(result)
  <2>1. PICK n \in 1..Len(outputs) : r = outputs[n].reference /\ IsOutput(ms, outputs[n])
    BY <1>2, <1>3, <1>5, LenProperties DEF ToSet, AreReferencesOf, AreInOrder
  <2> DEFINE k == outputs[n].order
  <2> DEFINE o == outputs[n]
  <2>3. /\ o.order \in 1..Len(ms) /\ o.reference.passage = ms[o.order].passage
        /\ o.reference.parsed = ms[o.order].parsed
    <3>1. IsOutput(ms, o)
      BY <2>1
    <3> HIDE DEF o
    <3> QED BY <1>1, <3>1, OutputTypes
  <2>2. k \in 1..Len(ms) /\ r.passage = ms[k].passage /\ r.parsed = ms[k].parsed
    BY <2>1, <2>3, Zenon
  <2> HIDE DEF k, o
  <2> QED BY <1>4, <2>2 DEF ms
<1>6. CASE r \in ToSet(references)
  <2>1. PICK i \in 1..Len(references) : r = references[i] /\ r \in References
    BY <1>6, LenProperties DEF ToSet
  <2> DEFINE j == IF r.ranges = << >> THEN 0 ELSE 1
             p == <<i, j>>
  <2>2. StandsIn(references, p, i) /\ p[2] = j
    <3>1. Len(r.ranges) \in Nat /\ (r.ranges = << >> <=> Len(r.ranges) = 0)
      BY <2>1, ReferenceTypes
    <3>2. r.ranges # << >> => 1 \in 1..Len(r.ranges)
      BY <3>1
    <3> QED BY <2>1, <3>2 DEF StandsIn
  <2> HIDE DEF p
  <2>3. PICK k \in 1..Len(ms) : ms[k] = MentionAt(r, j)
    BY <2>1, <2>2, MentionOfPlace DEF ms
  <2>4. ms[k].passage = r.passage /\ ms[k].parsed = r.parsed
    BY <2>3 DEF MentionAt
  <2> QED BY <1>4, <2>4 DEF ms
<1> QED BY <1>5, <1>6 DEF result

\* The result names for each passage the longest runs of verses mentioned, or the
\* chapter if none were, and keeps the texts that cannot be parsed.
LEMMA MostSpecific ==
  ASSUME NEW references \in Seq(References)
  PROVE  IsMostSpecific(references)
<1> DEFINE ms == Mentions(references)
           result == normalizeScriptures(references)
           Wanted(passage) == LET verses == Verses(references, passage)
                              IN  IF verses = {} THEN {<< >>} ELSE {<<run>> : run \in MaximalRuns(verses)}
<1>1. AreMentions(ms)
  BY MentionsListed
<1>2. result \in Seq(References)
  BY NormalizedListed
<1>3. PICK outputs : AreInOrder(ms, outputs) /\ AreReferencesOf(outputs, result)
  BY NormalizedListed
<1>4. ASSUME NEW r, r \in ToSet(result) \cup ToSet(references), r.parsed
      PROVE  RangesIn(result, r.passage) = Wanted(r.passage)
  <2> DEFINE passage == r.passage
             placed == Placed(ms, passage)
             verses == Verses(references, passage)
  <2>1. MentionsOf(ms, passage) # {}
    BY <1>4, PassagesAreMentioned
  <2> HIDE DEF ms, result, passage
  <2>2. RangesIn(result, passage) = {RangesOf(placed[a]) : a \in 1..Len(placed)}
    <3>1. RangesIn(result, passage) = PlacedRanges(ms, passage)
      BY <1>1, <1>2, <1>3, <2>1, RangesOfPassage
    <3> QED BY <3>1 DEF PlacedRanges
  <2>3. ArePlaced(ms, passage, placed)
    BY <1>1, <2>1, RunsArePlaced
  <2>4. /\ verses \subseteq Nat
        /\ \A v \in Nat : v \in verses <=> \E k \in Specific(ms, passage) : Within(v, ms[k])
    BY VersesAreMentioned DEF ms
  <2> HIDE DEF placed, verses
  <2>5. CASE Specific(ms, passage) = {}
    <3>1. verses = {}
      BY <2>4, <2>5
    <3>2. placed = <<Run(0, 0, Min(MentionsOf(ms, passage)))>>
      BY <2>3, <2>5 DEF ArePlaced
    <3>3. Len(placed) = 1 /\ placed[1].start = 0
      BY <3>2, RunFields
    <3>4. {RangesOf(placed[a]) : a \in 1..Len(placed)} = {<< >>}
      <4>1. RangesOf(placed[1]) = << >>
        BY <3>3 DEF RangesOf
      <4>2. \A a \in 1..Len(placed) : a = 1
        BY <3>3
      <4>3. 1 \in 1..Len(placed)
        BY <3>3
      <4> QED BY <4>1, <4>2, <4>3
    <3> QED BY <2>2, <3>1, <3>4 DEF verses, passage
  <2>6. CASE Specific(ms, passage) # {}
    <3>1. PICK runs, first : IsPlacedFrom(ms, passage, runs, first, placed)
      BY <2>3, <2>6 DEF ArePlaced
    <3>2. AreMerged(ms, passage, runs)
      BY <3>1 DEF IsPlacedFrom
    <3>3. MaximalRuns(verses) = {VerseRange(runs[a].start, runs[a].end) : a \in 1..Len(runs)}
      BY <3>2, RunsAreMaximal DEF verses, ms
    <3>4. \A a \in 1..Len(runs) : runs[a].start # 0
      <4>1. \A a \in 1..Len(runs) : runs[a].start \in Nat /\ 1 <= runs[a].start
        BY <1>1, <3>2, MergedTypes
      <4> QED BY <4>1
    <3>5. \A a \in 1..Len(runs) : RangesOf(placed[a]) = <<VerseRange(runs[a].start, runs[a].end)>>
      BY <3>1, <3>4 DEF IsPlacedFrom, RangesOf
    <3>6. {RangesOf(placed[a]) : a \in 1..Len(placed)} = {<<run>> : run \in MaximalRuns(verses)}
      <4>1. Len(placed) = Len(runs)
        BY <3>1 DEF IsPlacedFrom
      <4> QED BY <3>3, <3>5, <4>1
    <3>7. verses # {}
      <4>1. PICK k \in Specific(ms, passage) : TRUE
        BY <2>6
      <4>2. ms[k].start \in Nat /\ Within(ms[k].start, ms[k])
        BY <1>1, SpecificMentions DEF Within
      <4> QED BY <2>4, <4>2
    <3> QED BY <2>2, <3>6, <3>7 DEF verses, passage
  <2> QED BY <2>5, <2>6
<1>5. \A passage \in {r.passage : r \in {x \in ToSet(result) \cup ToSet(references) : x.parsed}} :
        {x.ranges : x \in {y \in ToSet(result) : y.parsed /\ y.passage = passage}} = Wanted(passage)
  <2> HIDE DEF result, Wanted
  <2> QED BY <1>4 DEF RangesIn
<1>6. {r \in ToSet(result) : ~r.parsed} = {r \in ToSet(references) : ~r.parsed}
  BY TextsAreKept
<1> HIDE DEF result
<1> QED BY <1>5, <1>6 DEF IsMostSpecific, result

-----------------------------------------------------------------------------
(* The order of the result *)

LEMMA EarliestIs ==
  ASSUME NEW places, places \subseteq Nat \X Nat, NEW p \in places,
         \A q \in places : p = q \/ Before(p, q)
  PROVE  Earliest(places) = p
<1> DEFINE e == Earliest(places)
<1>1. e \in places /\ \A q \in places : e = q \/ Before(e, q)
  BY DEF Earliest
<1>2. \A x, y \in places : ~(Before(x, y) /\ Before(y, x))
  BY DEF Before
<1> HIDE DEF e
<1> QED BY <1>1, <1>2 DEF e

LEMMA BeforeIsTransitive ==
  ASSUME NEW p \in Nat \X Nat, NEW q \in Nat \X Nat, NEW r \in Nat \X Nat,
         Before(p, q), Before(q, r)
  PROVE  Before(p, r)
BY DEF Before

\* The kth mention is one of the verses of r.
Matches(ms, r, k) ==
  /\ k \in 1..Len(ms)
  /\ ms[k].passage = r.passage
  /\ ms[k].parsed = r.parsed
  /\ r.ranges # << >> => ~ms[k].whole /\ ms[k].start \in r.ranges[1].start..r.ranges[1].end

\* The verses of r are first mentioned at the place of their first mention.
LEMMA FirstOwnPlace ==
  ASSUME NEW references \in Seq(References), NEW r, r.parsed \in BOOLEAN,
         NEW k, Matches(Mentions(references), r, k),
         \A m : Matches(Mentions(references), r, m) => k <= m
  PROVE  Earliest(OwnPlaces(references, r)) = MentionPlaces(references)[k]
<1> DEFINE ms == Mentions(references)
           pl == MentionPlaces(references)
           own == OwnPlaces(references, r)
<1>1. AreMentions(ms) /\ AreAt(references, pl, ms)
  BY MentionsListed
<1>2. /\ Len(references) \in Nat /\ DOMAIN references = 1..Len(references)
      /\ \A i \in 1..Len(references) : references[i] \in References /\ references[i].parsed \in BOOLEAN
  BY LenProperties DEF References
<1> HIDE DEF ms, pl
<1>3. \A q : q \in Places(references, r) <=>
        \E i \in 1..Len(references) : SamePassage(references[i], r) /\ StandsIn(references, q, i)
  <2>1. \A q : q \in Places(references, r) <=>
          \E i \in 1..Len(references) : SamePassage(references[i], r) /\ q \in PlacesIn(references, i)
    BY <1>2 DEF Places
  <2>2. \A i \in 1..Len(references) : \A q : q \in PlacesIn(references, i) <=> StandsIn(references, q, i)
    BY PlacesOfReference
  <2> QED BY <2>1, <2>2
<1>4. \A q : q \in own <=> /\ q \in Places(references, r)
                           /\ r.ranges # << >> =>
                                q[2] # 0 /\ references[q[1]].ranges[q[2]].start
                                              \in r.ranges[1].start..r.ranges[1].end
  BY DEF OwnPlaces
<1>5. own \subseteq Nat \X Nat
  <2>1. \A i \in 1..Len(references) : \A q : StandsIn(references, q, i) => q \in Nat \X Nat
    BY PlacesOfReference
  <2> QED BY <1>3, <1>4, <2>1
<1> HIDE DEF own
\* the place of a mention of r, and the mention at a place of r
<1>6. pl[k] \in own
  <2> DEFINE i == pl[k][1]
             j == pl[k][2]
             x == references[i]
  <2>1. k \in 1..Len(ms) /\ ms[k].passage = r.passage /\ ms[k].parsed = r.parsed
    BY DEF Matches, ms
  <2>2. i \in 1..Len(references) /\ StandsIn(references, pl[k], i) /\ ms[k] = MentionAt(x, j)
    BY <2>1, PlaceOfMention DEF ms, pl
  <2> HIDE DEF j, x
  <2>3. ms[k].passage = x.passage /\ ms[k].parsed = x.parsed /\ ms[k].whole = (j = 0)
    BY <2>2 DEF MentionAt
  <2>4. SamePassage(x, r)
    BY <2>1, <2>3, Zenon DEF SamePassage
  <2>5. pl[k] \in Places(references, r)
    BY <1>3, <2>2, <2>4 DEF x
  <2>6. ASSUME r.ranges # << >>
        PROVE  j # 0 /\ x.ranges[j].start \in r.ranges[1].start..r.ranges[1].end
    <3>1. ~ms[k].whole /\ ms[k].start \in r.ranges[1].start..r.ranges[1].end
      BY <2>6 DEF Matches, ms
    <3>2. j # 0
      BY <2>3, <3>1
    <3>3. ms[k].start = x.ranges[j].start
      BY <2>2, <3>2 DEF MentionAt
    <3> QED BY <3>1, <3>2, <3>3
  <2> QED BY <1>4, <2>5, <2>6 DEF x, j
<1>7. ASSUME NEW q \in own
      PROVE  \E m : Matches(ms, r, m) /\ (pl[m] = q \/ Before(pl[m], q))
  <2>1. PICK i \in 1..Len(references) : SamePassage(references[i], r) /\ StandsIn(references, q, i)
    BY <1>3, <1>4
  <2> DEFINE j == q[2]
             x == references[i]
  <2>2. PICK m \in 1..Len(ms) : ms[m] = MentionAt(x, j) /\ (pl[m] = q \/ Before(pl[m], q))
    BY <2>1, MentionOfPlace DEF ms, pl
  <2>3. q[1] = i
    BY <2>1 DEF StandsIn
  <2>4. x.passage = r.passage /\ x.parsed = r.parsed
    BY <2>1 DEF SamePassage
  <2>5. r.ranges # << >> => j # 0 /\ x.ranges[j].start \in r.ranges[1].start..r.ranges[1].end
    BY <1>4, <2>3
  <2> HIDE DEF j, x
  <2>6. ms[m].passage = x.passage /\ ms[m].parsed = x.parsed /\ ms[m].whole = (j = 0)
    BY <2>2 DEF MentionAt
  <2>7. ASSUME r.ranges # << >>
        PROVE  ~ms[m].whole /\ ms[m].start \in r.ranges[1].start..r.ranges[1].end
    <3>1. j # 0 /\ x.ranges[j].start \in r.ranges[1].start..r.ranges[1].end
      BY <2>5, <2>7
    <3>2. ms[m].start = x.ranges[j].start
      BY <2>2, <3>1 DEF MentionAt
    <3> QED BY <2>6, <3>1, <3>2
  <2>8. Matches(ms, r, m)
    <3>1. ms[m].passage = r.passage /\ ms[m].parsed = r.parsed
      BY <2>4, <2>6, Zenon
    <3> QED BY <2>7, <3>1, Zenon DEF Matches
  <2> QED BY <2>2, <2>8
<1>8. ASSUME NEW q \in own
      PROVE  pl[k] = q \/ Before(pl[k], q)
  <2>1. PICK m : Matches(ms, r, m) /\ (pl[m] = q \/ Before(pl[m], q))
    BY <1>7
  <2>2. k \in 1..Len(ms) /\ m \in 1..Len(ms) /\ k <= m
    BY <2>1 DEF Matches, ms
  <2>3. CASE k = m
    BY <2>1, <2>3
  <2>4. CASE k # m
    <3>1. k < m
      BY <1>1, <2>2, <2>4 DEF AreMentions
    <3>2. Before(pl[k], pl[m])
      BY <1>1, <2>2, <3>1 DEF AreAt
    <3>3. pl[m] \in Nat \X Nat
      BY <1>1, <2>2, PlacesAreFinite DEF AreAt
    <3>4. pl[k] \in Nat \X Nat /\ q \in Nat \X Nat
      BY <1>5, <1>6
    <3> QED BY <2>1, <3>2, <3>3, <3>4, BeforeIsTransitive
  <2> QED BY <2>3, <2>4
<1> QED BY <1>5, <1>6, <1>8, EarliestIs DEF own, pl

\* The kth mention is of the passage of r.
Concerns(ms, r, k) ==
  k \in 1..Len(ms) /\ ms[k].passage = r.passage /\ ms[k].parsed = r.parsed

\* The passage of r is first mentioned at the place of its first mention.
LEMMA FirstPlace ==
  ASSUME NEW references \in Seq(References), NEW r, r.parsed \in BOOLEAN,
         NEW k, Concerns(Mentions(references), r, k),
         \A m : Concerns(Mentions(references), r, m) => k <= m
  PROVE  /\ Earliest(Places(references, r)) = MentionPlaces(references)[k]
         /\ r.ranges = << >> => Earliest(OwnPlaces(references, r)) = MentionPlaces(references)[k]
<1> DEFINE ms == Mentions(references)
           x == Reference(r.passage, r.parsed, << >>)
<1>1. x.passage = r.passage /\ x.parsed = r.parsed /\ x.ranges = << >>
  BY DEF Reference
<1> HIDE DEF x, ms
<1>2. \A m : Matches(ms, x, m) <=> Concerns(ms, r, m)
  BY <1>1 DEF Matches, Concerns
<1>3. Matches(ms, x, k) /\ \A m : Matches(ms, x, m) => k <= m
  BY <1>2 DEF ms
<1>4. x.parsed \in BOOLEAN
  BY <1>1
<1>5. Earliest(OwnPlaces(references, x)) = MentionPlaces(references)[k]
  BY <1>3, <1>4, FirstOwnPlace DEF ms
<1>6. Places(references, x) = Places(references, r)
  BY <1>1 DEF Places, SamePassage
<1>7. \A y : y.ranges = << >> => OwnPlaces(references, y) = Places(references, y)
  BY DEF OwnPlaces
<1> QED BY <1>1, <1>5, <1>6, <1>7

\* result has the references of outputs, which stand for the mentions of references.
Normalizes(references, outputs, result) ==
  /\ AreInOrder(Mentions(references), outputs)
  /\ AreReferencesOf(outputs, result)
  /\ result \in Seq(References)

LEMMA ResultTypes ==
  ASSUME NEW references \in Seq(References), NEW outputs, NEW result,
         Normalizes(references, outputs, result)
  PROVE  LET ms == Mentions(references)
         IN  /\ Len(result) \in Nat /\ DOMAIN result = 1..Len(result) /\ Len(outputs) = Len(result)
             /\ \A n \in 1..Len(result) :
                  /\ result[n] \in References /\ result[n].parsed \in BOOLEAN
                  /\ IsOutput(ms, outputs[n]) /\ result[n] = outputs[n].reference
                  /\ outputs[n].order \in 1..Len(ms) /\ outputs[n].order \in Nat
                  /\ Concerns(ms, result[n], outputs[n].order)
<1> DEFINE ms == Mentions(references)
<1>1. AreMentions(ms)
  BY MentionsListed
<1> HIDE DEF ms
<1>2. /\ Len(result) \in Nat /\ DOMAIN result = 1..Len(result) /\ Len(outputs) = Len(result)
      /\ \A n \in 1..Len(result) : result[n] \in References
  BY LenProperties DEF Normalizes, AreReferencesOf
<1>3. ASSUME NEW n \in 1..Len(result)
      PROVE  /\ result[n] \in References /\ result[n].parsed \in BOOLEAN
             /\ IsOutput(ms, outputs[n]) /\ result[n] = outputs[n].reference
             /\ outputs[n].order \in 1..Len(ms) /\ outputs[n].order \in Nat
             /\ Concerns(ms, result[n], outputs[n].order)
  <2> DEFINE o == outputs[n]
  <2>1. IsOutput(ms, o) /\ result[n] = o.reference
    BY <1>2 DEF Normalizes, AreInOrder, AreReferencesOf, ms
  <2>2. result[n] \in References /\ result[n].parsed \in BOOLEAN
    BY <1>2 DEF References
  <2> HIDE DEF o
  <2>3. /\ o.order \in 1..Len(ms) /\ o.order \in Nat
        /\ o.reference.passage = ms[o.order].passage
        /\ o.reference.parsed = ms[o.order].parsed
    BY <1>1, <2>1, OutputTypes
  <2>4. result[n].passage = ms[o.order].passage /\ result[n].parsed = ms[o.order].parsed
    BY <2>1, <2>3, Zenon
  <2>5. Concerns(ms, result[n], o.order)
    BY <2>3, <2>4 DEF Concerns
  <2> QED BY <2>1, <2>2, <2>3, <2>5 DEF o
<1> QED BY <1>2, <1>3 DEF ms

\* The nth reference of the result is the ath run of its passage.
IsRunOfResult(references, outputs, result, runs, first, n, a) ==
  LET ms == Mentions(references)
  IN  /\ n \in 1..Len(result)
      /\ result[n].parsed
      /\ IsPlacedFrom(ms, result[n].passage, runs, first, Placed(ms, result[n].passage))
      /\ a \in 1..Len(runs)
      /\ outputs[n].order = Placed(ms, result[n].passage)[a].order

\* A run of the result is first mentioned where its order says.
LEMMA OwnPlaceOfRun ==
  ASSUME NEW references \in Seq(References), NEW outputs, NEW result,
         Normalizes(references, outputs, result),
         NEW runs, NEW first, NEW n, NEW a,
         IsRunOfResult(references, outputs, result, runs, first, n, a)
  PROVE  Earliest(OwnPlaces(references, result[n])) = MentionPlaces(references)[runs[a].order]
<1> DEFINE ms == Mentions(references)
           r == result[n]
           o == outputs[n]
           passage == r.passage
           placed == Placed(ms, passage)
           k == runs[a].order
<1>1. AreMentions(ms)
  BY MentionsListed
<1>2. /\ n \in 1..Len(result) /\ r.parsed /\ a \in 1..Len(runs)
      /\ IsPlacedFrom(ms, passage, runs, first, placed)
      /\ o.order = placed[a].order
  BY DEF IsRunOfResult
<1> HIDE DEF ms
<1>3. /\ r \in References /\ r.parsed \in BOOLEAN /\ IsOutput(ms, o) /\ r = o.reference
      /\ Concerns(ms, r, o.order)
  BY <1>2, ResultTypes DEF ms
<1>4. AreMerged(ms, passage, runs)
  BY <1>2 DEF IsPlacedFrom
<1> HIDE DEF r, o, passage, placed
<1>5. /\ o.order \in 1..Len(ms) /\ ms[o.order].passage = passage /\ ms[o.order].parsed
  BY <1>2, <1>3 DEF Concerns, passage
<1>6. MentionsOf(ms, passage) # {} /\ ArePlaced(ms, passage, placed)
  BY <1>1, <1>5, PlacedOfPassage DEF placed
<1>7. r.ranges = <<VerseRange(runs[a].start, runs[a].end)>>
  <2>1. PICK b : IsRunOutput(ms, o, b)
    BY <1>3, <1>5 DEF IsOutput
  <2>2. b \in 1..Len(placed) /\ o.order = placed[b].order /\ r.ranges = RangesOf(placed[b])
    <3>1. \A c : IsRunOutput(ms, o, c) =>
                   o.reference.ranges = RangesOf(Placed(ms, ms[o.order].passage)[c])
      BY <1>1, <1>3, OutputTypes
    <3>2. o.reference.ranges = RangesOf(Placed(ms, ms[o.order].passage)[b])
      BY <2>1, <3>1
    <3>3. b \in 1..Len(Placed(ms, ms[o.order].passage))
          /\ o.order = Placed(ms, ms[o.order].passage)[b].order
      BY <2>1 DEF IsRunOutput
    <3> QED BY <1>3, <1>5, <3>2, <3>3 DEF placed
  <2>3. a \in 1..Len(placed) /\ placed[a].start = runs[a].start /\ placed[a].end = runs[a].end
    BY <1>2 DEF IsPlacedFrom
  <2>4. a = b
    BY <1>1, <1>2, <1>6, <2>2, <2>3, PlacedTypes
  <2>5. runs[a].start # 0
    <3>1. runs[a].start \in Nat /\ 1 <= runs[a].start
      BY <1>1, <1>2, <1>4, MergedTypes
    <3> QED BY <3>1
  <2> QED BY <2>2, <2>3, <2>4, <2>5 DEF RangesOf
<1> DEFINE run == runs[a]
<1>8. r.ranges # << >> /\ r.ranges[1].start = run.start /\ r.ranges[1].end = run.end
  <2>1. r.ranges # << >> /\ r.ranges[1] = VerseRange(runs[a].start, runs[a].end)
    BY <1>7
  <2> QED BY <2>1, EndsOfRange
<1>9. run.start \in Nat /\ run.end \in Nat
  BY <1>1, <1>2, <1>4, MergedTypes
<1>10. /\ k \in Specific(ms, passage) /\ Within(ms[k].start, run)
       /\ \A m \in Specific(ms, passage) : Within(ms[m].start, run) => k <= m
  BY <1>2, <1>4 DEF AreMerged
<1> HIDE DEF run, k
<1>11. r.parsed = TRUE
  BY <1>2, <1>3 DEF r
<1>12. \A m : Matches(ms, r, m) <=> m \in Specific(ms, passage) /\ Within(ms[m].start, run)
  <2> TAKE m
  <2>1. Matches(ms, r, m) <=> /\ m \in 1..Len(ms) /\ ms[m].passage = passage /\ ms[m].parsed = r.parsed
                              /\ ~ms[m].whole
                              /\ ms[m].start \in run.start..run.end
    BY <1>8 DEF Matches, passage
  <2>2. m \in Specific(ms, passage) <=> /\ m \in 1..Len(ms) /\ ms[m].passage = passage /\ ms[m].parsed
                                        /\ ~ms[m].whole
    BY <1>1 DEF Specific, MentionsOf, AreMentions
  <2>3. m \in 1..Len(ms) => (ms[m].parsed = r.parsed <=> ms[m].parsed)
    BY <1>1, <1>11 DEF AreMentions, IsMention
  <2>4. m \in 1..Len(ms) /\ ~ms[m].whole =>
          (ms[m].start \in run.start..run.end <=> Within(ms[m].start, run))
    BY <1>1, <1>9 DEF AreMentions, IsMention, Within
  <2> QED BY <2>1, <2>2, <2>3, <2>4, Zenon
<1>13. Matches(ms, r, k) /\ \A m : Matches(ms, r, m) => k <= m
  BY <1>10, <1>12
<1> QED BY <1>3, <1>13, FirstOwnPlace DEF ms, r, k

\* A reference of the result with verses is one of the runs of its passage.
LEMMA RunOfResult ==
  ASSUME NEW references \in Seq(References), NEW outputs, NEW result,
         Normalizes(references, outputs, result),
         NEW n \in 1..Len(result), result[n].parsed,
         NEW runs, NEW first,
         IsPlacedFrom(Mentions(references), result[n].passage, runs, first,
                      Placed(Mentions(references), result[n].passage))
  PROVE  \E a : IsRunOfResult(references, outputs, result, runs, first, n, a)
<1> DEFINE ms == Mentions(references)
           o == outputs[n]
           passage == result[n].passage
<1>1. IsOutput(ms, o) /\ Concerns(ms, result[n], o.order) /\ result[n].parsed \in BOOLEAN
  BY ResultTypes
<1>2. o.order \in 1..Len(ms) /\ ms[o.order].passage = passage /\ ms[o.order].parsed
  BY <1>1 DEF Concerns
<1>3. PICK a : IsRunOutput(ms, o, a)
  BY <1>1, <1>2 DEF IsOutput
<1>4. a \in 1..Len(Placed(ms, passage)) /\ o.order = Placed(ms, passage)[a].order
  BY <1>2, <1>3 DEF IsRunOutput
<1>5. Len(Placed(ms, passage)) = Len(runs)
  BY DEF IsPlacedFrom
<1>6. IsRunOfResult(references, outputs, result, runs, first, n, a)
  BY <1>4, <1>5 DEF IsRunOfResult
<1> QED BY <1>6

\* r has the first verses that result has of its passage, and its rank in the result.
Led(references, result, r) ==
  \A x \in ToSet(result) : SamePassage(x, r) =>
     x = r \/ Before(Earliest(OwnPlaces(references, r)), Earliest(OwnPlaces(references, x)))
RankOf(references, result, r) ==
  IF Led(references, result, r) THEN Earliest(Places(references, r))
                                ELSE Earliest(OwnPlaces(references, r))

\* A text, and a chapter without verses, rank by the first mention of them.
LEMMA RankOfChapter ==
  ASSUME NEW references \in Seq(References), NEW result, NEW r, r.parsed \in BOOLEAN,
         r.ranges = << >>,
         NEW k, Concerns(Mentions(references), r, k),
         \A m : Concerns(Mentions(references), r, m) => k <= m
  PROVE  RankOf(references, result, r) = MentionPlaces(references)[k]
BY FirstPlace DEF RankOf

LEMMA RankOfText ==
  ASSUME NEW references \in Seq(References), NEW outputs, NEW result,
         Normalizes(references, outputs, result),
         NEW n \in 1..Len(result), ~result[n].parsed
  PROVE  RankOf(references, result, result[n]) = MentionPlaces(references)[outputs[n].order]
<1> DEFINE ms == Mentions(references)
           r == result[n]
           k == outputs[n].order
<1>1. r \in References /\ r.parsed \in BOOLEAN /\ Concerns(ms, r, k) /\ k \in Nat
  BY ResultTypes
<1>2. r.ranges = << >>
  BY <1>1, ReferenceTypes
<1>3. UnparsedOnce(ms)
  BY UnparsedMentions
<1> HIDE DEF ms, r, k
<1>4. ASSUME NEW m, Concerns(ms, r, m)
      PROVE  k <= m
  <2>1. m \in 1..Len(ms) /\ k \in 1..Len(ms) /\ ms[m].passage = ms[k].passage
        /\ ~ms[m].parsed /\ ~ms[k].parsed
    BY <1>1, <1>4 DEF Concerns, r
  <2>2. m = k
    BY <1>3, <2>1 DEF UnparsedOnce
  <2> QED BY <1>1, <2>2
<1> QED BY <1>1, <1>2, <1>4, RankOfChapter DEF ms, r, k

LEMMA RankOfWholeChapter ==
  ASSUME NEW references \in Seq(References), NEW outputs, NEW result,
         Normalizes(references, outputs, result),
         NEW n \in 1..Len(result), result[n].parsed,
         Specific(Mentions(references), result[n].passage) = {}
  PROVE  RankOf(references, result, result[n]) = MentionPlaces(references)[outputs[n].order]
<1> DEFINE ms == Mentions(references)
           r == result[n]
           o == outputs[n]
           k == o.order
           passage == r.passage
           placed == Placed(ms, passage)
           group == Min(MentionsOf(ms, passage))
<1>1. AreMentions(ms)
  BY MentionsListed
<1>2. r.parsed \in BOOLEAN /\ IsOutput(ms, o) /\ r = o.reference /\ Concerns(ms, r, k)
  BY ResultTypes
<1>3. k \in 1..Len(ms) /\ ms[k].passage = passage /\ ms[k].parsed
  BY <1>2 DEF Concerns
<1>4. MentionsOf(ms, passage) # {} /\ ArePlaced(ms, passage, placed)
  BY <1>1, <1>3, PlacedOfPassage
<1>5. placed = <<Run(0, 0, group)>>
  BY <1>4 DEF ArePlaced
<1>6. r.parsed = TRUE
  BY <1>2
<1> HIDE DEF ms, r, o, placed, group
<1>7. PICK a : IsRunOutput(ms, o, a)
  BY <1>2, <1>3 DEF IsOutput
<1>8. \A c : IsRunOutput(ms, o, c) =>
              o.reference.ranges = RangesOf(Placed(ms, ms[o.order].passage)[c])
  BY <1>1, <1>2, OutputTypes
<1>9. a \in 1..Len(placed) /\ k = placed[a].order
  BY <1>3, <1>7 DEF IsRunOutput, placed
<1>10. r.ranges = RangesOf(placed[a])
  BY <1>2, <1>3, <1>7, <1>8 DEF placed
<1>11. placed[a] = Run(0, 0, group)
  BY <1>5, <1>9
<1>12. k = group /\ r.ranges = << >>
  BY <1>9, <1>10, <1>11 DEF Run, RangesOf
<1>13. group \in MentionsOf(ms, passage) /\ \A m \in MentionsOf(ms, passage) : group <= m
  BY <1>1, <1>4, FirstMention DEF group
<1>14. \A m : Concerns(ms, r, m) => m \in MentionsOf(ms, passage)
  BY <1>1, <1>6 DEF Concerns, MentionsOf, AreMentions
<1>15. Concerns(ms, r, k) /\ \A m : Concerns(ms, r, m) => k <= m
  BY <1>2, <1>12, <1>13, <1>14
<1> HIDE DEF k
<1>16. RankOf(references, result, r) = MentionPlaces(references)[k]
  BY <1>2, <1>12, <1>15, RankOfChapter DEF ms
<1> QED BY <1>16 DEF r, o, k

\* What the runs of a passage in the result say of each other.
LEMMA RunsOfResult ==
  ASSUME NEW references \in Seq(References), NEW outputs, NEW result,
         Normalizes(references, outputs, result),
         NEW runs, NEW first, NEW n, NEW a, NEW m, NEW b,
         IsRunOfResult(references, outputs, result, runs, first, n, a),
         IsRunOfResult(references, outputs, result, runs, first, m, b),
         result[m].passage = result[n].passage
  PROVE  /\ a = b => m = n
         /\ runs[a].order \in Nat /\ runs[b].order \in Nat
         /\ runs[a].order = runs[b].order => a = b
         /\ Before(Earliest(OwnPlaces(references, result[n])), Earliest(OwnPlaces(references, result[m])))
              <=> runs[a].order < runs[b].order
<1> DEFINE ms == Mentions(references)
           pl == MentionPlaces(references)
           passage == result[n].passage
           j == runs[a].order
           k == runs[b].order
<1>1. AreMentions(ms) /\ AreAt(references, pl, ms)
  BY MentionsListed
<1>2. /\ n \in 1..Len(result) /\ m \in 1..Len(result) /\ a \in 1..Len(runs) /\ b \in 1..Len(runs)
      /\ outputs[n].order = Placed(ms, passage)[a].order
      /\ outputs[m].order = Placed(ms, passage)[b].order
      /\ AreMerged(ms, passage, runs)
  BY DEF IsRunOfResult, IsPlacedFrom
<1>3. Earliest(OwnPlaces(references, result[n])) = pl[j]
  BY OwnPlaceOfRun
<1>4. Earliest(OwnPlaces(references, result[m])) = pl[k]
  BY OwnPlaceOfRun
<1>5. j \in Specific(ms, passage) /\ k \in Specific(ms, passage)
  BY <1>2 DEF AreMerged
<1>6. j \in 1..Len(ms) /\ k \in 1..Len(ms)
  BY <1>1, <1>5 DEF Specific, MentionsOf, AreMentions
<1>7. Before(pl[j], pl[k]) <=> j < k
  BY <1>1, <1>6 DEF AreAt
<1>8. j \in Nat /\ k \in Nat /\ (j = k => a = b)
  BY <1>1, <1>2, MergedTypes
<1>9. a = b => m = n
  <2>1. SUFFICES ASSUME outputs[n].order = outputs[m].order
                 PROVE  m = n
    BY <1>2
  <2>2. Len(outputs) = Len(result) /\ outputs[n].order \in Nat /\ outputs[m].order \in Nat
    BY <1>2, ResultTypes
  <2>3. \A x, y \in 1..Len(outputs) : x < y <=> outputs[x].order < outputs[y].order
    BY DEF Normalizes, AreInOrder
  <2>4. (n < m <=> outputs[n].order < outputs[m].order) /\ (m < n <=> outputs[m].order < outputs[n].order)
    BY <1>2, <2>2, <2>3
  <2>5. n \in Nat /\ m \in Nat
    BY <1>2
  <2> QED BY <2>1, <2>2, <2>4, <2>5
<1> QED BY <1>3, <1>4, <1>7, <1>8, <1>9

\* Each run of a passage is in the result.
LEMMA RunsAreInResult ==
  ASSUME NEW references \in Seq(References), NEW outputs, NEW result,
         Normalizes(references, outputs, result),
         NEW runs, NEW first, NEW n, NEW a,
         IsRunOfResult(references, outputs, result, runs, first, n, a),
         NEW b \in 1..Len(runs)
  PROVE  \E m : /\ IsRunOfResult(references, outputs, result, runs, first, m, b)
                /\ result[m].passage = result[n].passage
<1> DEFINE ms == Mentions(references)
           passage == result[n].passage
           placed == Placed(ms, passage)
           o == Output(placed[b].order, Reference(passage, TRUE, IF placed[b].start = 0 THEN << >>
                                          ELSE <<VerseRange(placed[b].start, placed[b].end)>>))
<1>1. AreMentions(ms)
  BY MentionsListed
<1>2. n \in 1..Len(result) /\ IsPlacedFrom(ms, passage, runs, first, placed)
      /\ result[n].parsed
  BY DEF IsRunOfResult
<1>3. Concerns(ms, result[n], outputs[n].order) /\ result[n].parsed \in BOOLEAN
  BY <1>2, ResultTypes
<1>4. outputs[n].order \in 1..Len(ms) /\ ms[outputs[n].order].passage = passage
      /\ ms[outputs[n].order].parsed
  BY <1>2, <1>3 DEF Concerns
<1>5. MentionsOf(ms, passage) # {} /\ ArePlaced(ms, passage, placed)
  BY <1>1, <1>4, PlacedOfPassage
<1>6. b \in 1..Len(placed)
  BY <1>2 DEF IsPlacedFrom
<1> HIDE DEF ms, passage, placed
<1>7. placed[b].order \in MentionsOf(ms, passage)
  <2>1. \A c \in 1..Len(placed) : placed[c].order \in MentionsOf(ms, passage)
    BY <1>1, <1>5, PlacedTypes
  <2> QED BY <1>6, <2>1
<1>8. placed[b].order \in 1..Len(ms) /\ ms[placed[b].order].passage = passage
      /\ ms[placed[b].order].parsed
  BY <1>1, <1>7 DEF MentionsOf, AreMentions
<1>9. /\ o.order = placed[b].order
      /\ o.reference = Reference(passage, TRUE, IF placed[b].start = 0 THEN << >>
                                   ELSE <<VerseRange(placed[b].start, placed[b].end)>>)
      /\ o = Output(o.order, o.reference)
  BY DEF Output
<1> HIDE DEF o
<1>10. IsRunOutput(ms, o, b)
  BY <1>6, <1>8, <1>9 DEF IsRunOutput, placed
<1>11. IsOutput(ms, o)
  BY <1>8, <1>9, <1>10 DEF IsOutput
<1>12. PICK m \in 1..Len(outputs) : outputs[m] = o
  BY <1>11 DEF Normalizes, AreInOrder, ms
<1>13. m \in 1..Len(result) /\ result[m] = o.reference
  BY <1>12, ResultTypes
<1>14. result[m].passage = passage /\ result[m].parsed
  BY <1>9, <1>13 DEF Reference
<1>15. IsRunOfResult(references, outputs, result, runs, first, m, b)
  BY <1>2, <1>9, <1>12, <1>13, <1>14 DEF IsRunOfResult, ms, placed
<1> QED BY <1>14, <1>15 DEF passage

LEMMA RankOfRun ==
  ASSUME NEW references \in Seq(References), NEW outputs, NEW result,
         Normalizes(references, outputs, result),
         NEW runs, NEW first, NEW n, NEW a,
         IsRunOfResult(references, outputs, result, runs, first, n, a)
  PROVE  RankOf(references, result, result[n]) = MentionPlaces(references)[outputs[n].order]
<1> DEFINE ms == Mentions(references)
           pl == MentionPlaces(references)
           r == result[n]
           k == outputs[n].order
           passage == r.passage
           Own(x) == Earliest(OwnPlaces(references, x))
           group == Min(MentionsOf(ms, passage))
<1>1. AreMentions(ms)
  BY MentionsListed
<1>2. /\ n \in 1..Len(result) /\ a \in 1..Len(runs) /\ r.parsed
      /\ IsPlacedFrom(ms, passage, runs, first, Placed(ms, passage))
      /\ k = Placed(ms, passage)[a].order
  BY DEF IsRunOfResult
<1>3. /\ first \in 1..Len(runs) /\ \A b \in 1..Len(runs) : runs[first].order <= runs[b].order
      /\ k = IF a = first THEN group ELSE runs[a].order
  BY <1>2 DEF IsPlacedFrom
<1>4. Concerns(ms, r, k) /\ r.parsed \in BOOLEAN
  BY <1>2, ResultTypes
<1>5. r.parsed = TRUE
  BY <1>2, <1>4
<1>6. DOMAIN result = 1..Len(result) /\ \A m \in 1..Len(result) : result[m].parsed \in BOOLEAN
  BY ResultTypes
<1>7. ASSUME a = first
      PROVE  Led(references, result, r) /\ Earliest(Places(references, r)) = pl[k]
  <2>1. ASSUME NEW x \in ToSet(result), SamePassage(x, r)
        PROVE  x = r \/ Before(Own(r), Own(x))
    <3>1. PICK m \in 1..Len(result) : result[m] = x
      BY <1>6, <2>1 DEF ToSet
    <3>2. result[m].passage = passage /\ result[m].parsed
      BY <1>5, <2>1, <3>1 DEF SamePassage
    <3>3. PICK b : IsRunOfResult(references, outputs, result, runs, first, m, b)
      BY <1>2, <3>2, RunOfResult
    <3>4. /\ a = b => m = n
          /\ runs[a].order \in Nat /\ runs[b].order \in Nat
          /\ runs[a].order = runs[b].order => a = b
          /\ Before(Own(result[n]), Own(result[m])) <=> runs[a].order < runs[b].order
      BY <3>2, <3>3, RunsOfResult
    <3>5. b \in 1..Len(runs)
      BY <3>3 DEF IsRunOfResult
    <3>6. runs[a].order <= runs[b].order
      BY <1>3, <1>7, <3>5
    <3> QED BY <3>1, <3>4, <3>6
  <2>2. k = group
    BY <1>3, <1>7
  <2>3. MentionsOf(ms, passage) # {}
    BY <1>1, <1>4, <1>5, PlacedOfPassage DEF Concerns
  <2>4. \A m \in MentionsOf(ms, passage) : group <= m
    BY <1>1, <2>3, FirstMention
  <2> HIDE DEF ms, r, k, pl, group
  <2>5. \A m : Concerns(ms, r, m) => m \in MentionsOf(ms, passage)
    BY <1>1, <1>5 DEF Concerns, MentionsOf, AreMentions
  <2>6. Concerns(ms, r, k) /\ \A m : Concerns(ms, r, m) => k <= m
    BY <1>4, <2>2, <2>4, <2>5
  <2>7. Earliest(Places(references, r)) = pl[k]
    BY <1>4, <2>6, FirstPlace DEF ms, pl
  <2> QED BY <2>1, <2>7 DEF Led
<1>8. ASSUME a # first
      PROVE  ~Led(references, result, r)
  <2>1. PICK m : /\ IsRunOfResult(references, outputs, result, runs, first, m, first)
                 /\ result[m].passage = passage
    BY <1>3, RunsAreInResult
  <2>2. m \in 1..Len(result) /\ result[m].parsed
    BY <2>1 DEF IsRunOfResult
  <2>3. /\ runs[a].order \in Nat /\ runs[first].order \in Nat
        /\ runs[a].order = runs[first].order => a = first
        /\ Before(Own(r), Own(result[m])) <=> runs[a].order < runs[first].order
    BY <2>1, RunsOfResult
  <2>4. Before(Own(result[m]), Own(r)) <=> runs[first].order < runs[a].order
    BY <2>1, RunsOfResult
  <2>5. runs[first].order <= runs[a].order
    BY <1>2, <1>3
  <2>6. ~Before(Own(r), Own(result[m])) /\ Before(Own(result[m]), Own(r))
    BY <1>8, <2>3, <2>4, <2>5
  <2>7. result[m] \in ToSet(result) /\ SamePassage(result[m], r)
    BY <1>5, <1>6, <2>1, <2>2 DEF ToSet, SamePassage
  <2>8. result[m] # r
    BY <2>6
  <2> QED BY <2>6, <2>7, <2>8 DEF Led
<1>9. a # first => Own(r) = pl[k]
  BY <1>3, OwnPlaceOfRun
<1> QED BY <1>7, <1>8, <1>9 DEF RankOf

\* The rank of a reference of the result is the place its order names.
LEMMA RankIs ==
  ASSUME NEW references \in Seq(References), NEW outputs, NEW result,
         Normalizes(references, outputs, result), NEW n \in 1..Len(result)
  PROVE  RankOf(references, result, result[n]) = MentionPlaces(references)[outputs[n].order]
<1> DEFINE ms == Mentions(references)
           passage == result[n].passage
<1>1. CASE ~result[n].parsed
  BY <1>1, RankOfText
<1>2. CASE result[n].parsed /\ Specific(ms, passage) = {}
  BY <1>2, RankOfWholeChapter
<1>3. CASE result[n].parsed /\ Specific(ms, passage) # {}
  <2>1. AreMentions(ms)
    BY MentionsListed
  <2>2. Concerns(ms, result[n], outputs[n].order) /\ result[n].parsed \in BOOLEAN
    BY ResultTypes
  <2>3. outputs[n].order \in 1..Len(ms) /\ ms[outputs[n].order].passage = passage
        /\ ms[outputs[n].order].parsed
    BY <1>3, <2>2 DEF Concerns
  <2>4. ArePlaced(ms, passage, Placed(ms, passage))
    BY <2>1, <2>3, PlacedOfPassage
  <2>5. PICK runs, first : IsPlacedFrom(ms, passage, runs, first, Placed(ms, passage))
    BY <1>3, <2>4 DEF ArePlaced
  <2>6. PICK a : IsRunOfResult(references, outputs, result, runs, first, n, a)
    BY <1>3, <2>5, RunOfResult
  <2> QED BY <2>6, RankOfRun
<1> QED BY <1>1, <1>2, <1>3

\* The result is in the order of the first mentions.
LEMMA InOrderOfMentions ==
  ASSUME NEW references \in Seq(References)
  PROVE  IsInOrder(references)
<1> DEFINE ms == Mentions(references)
           pl == MentionPlaces(references)
           result == normalizeScriptures(references)
<1>1. result \in Seq(References)
      /\ \E outputs : AreInOrder(ms, outputs) /\ AreReferencesOf(outputs, result)
  BY NormalizedListed
<1>2. PICK outputs : AreInOrder(ms, outputs) /\ AreReferencesOf(outputs, result)
  BY <1>1
<1>3. Normalizes(references, outputs, result)
  BY <1>1, <1>2 DEF Normalizes
<1>4. AreAt(references, pl, ms)
  BY MentionsListed
<1> HIDE DEF ms, pl, result
<1>5. DOMAIN result = 1..Len(result) /\ Len(outputs) = Len(result)
      /\ \A n \in 1..Len(result) : outputs[n].order \in 1..Len(ms)
  BY <1>3, ResultTypes DEF ms
<1>6. ASSUME NEW i \in DOMAIN result, NEW j \in DOMAIN result, i < j
      PROVE  Before(RankOf(references, result, result[i]), RankOf(references, result, result[j]))
  <2>1. outputs[i].order < outputs[j].order
    BY <1>2, <1>5, <1>6 DEF AreInOrder
  <2>2. Before(pl[outputs[i].order], pl[outputs[j].order])
    BY <1>4, <1>5, <2>1 DEF AreAt
  <2>3. RankOf(references, result, result[i]) = pl[outputs[i].order]
    BY <1>3, <1>5, RankIs DEF pl
  <2>4. RankOf(references, result, result[j]) = pl[outputs[j].order]
    BY <1>3, <1>5, RankIs DEF pl
  <2> QED BY <2>2, <2>3, <2>4
<1> QED BY <1>6 DEF IsInOrder, RankOf, Led, result

\* normalizeScriptures names, of every list of references, the longest runs of the
\* verses mentioned and what it cannot parse, in the order of their first mention.
THEOREM Normalized ==
  \A references \in Seq(References) : IsMostSpecific(references) /\ IsInOrder(references)
BY MostSpecific, InOrderOfMentions

-----------------------------------------------------------------------------
(* The selection of a sermon *)

Sermons == [old : Seq(References), new : Seq(References),
            selected : Seq(References), options : Seq(References)]

\* The elements of sequences that are cut, joined and picked from.
LEMMA Cut ==
  ASSUME NEW V, NEW s \in Seq(V), NEW n \in Nat
  PROVE  /\ UpTo(n, s) \in Seq(V)
         /\ Len(UpTo(n, s)) = Smaller(n, Len(s))
         /\ \A i \in 1..Smaller(n, Len(s)) : UpTo(n, s)[i] = s[i]
         /\ ToSet(UpTo(n, s)) \subseteq ToSet(s)
<1> DEFINE m == Smaller(n, Len(s))
           t == UpTo(n, s)
<1>1. Len(s) \in Nat /\ DOMAIN s = 1..Len(s)
  BY LenProperties
<1>2. m \in 0..Len(s) /\ m \in Nat
  BY <1>1 DEF Smaller
<1>3. t \in Seq(V) /\ Len(t) = m /\ \A i \in 1..m : t[i] = s[i]
  <2>1. t = SubSeq(s, 1, m)
    BY DEF UpTo
  <2>2. SubSeq(s, 1, m) \in Seq(V) /\ Len(SubSeq(s, 1, m)) = m
        /\ \A i \in 1..m : SubSeq(s, 1, m)[i] = s[i]
    <3> HIDE DEF m
    <3> QED BY <1>1, <1>2, SubSeqProperties
  <2> QED BY <2>1, <2>2
<1> HIDE DEF m, t
<1>4. DOMAIN t = 1..m
  BY <1>3, LenProperties
<1>5. \A i \in 1..m : i \in 1..Len(s)
  BY <1>1, <1>2
<1>6. ToSet(t) \subseteq ToSet(s)
  BY <1>1, <1>3, <1>4, <1>5 DEF ToSet
<1> QED BY <1>3, <1>6 DEF m, t

LEMMA ElementsOfBoth ==
  ASSUME NEW V, NEW s \in Seq(V), NEW t \in Seq(V)
  PROVE  s \o t \in Seq(V) /\ ToSet(s \o t) = ToSet(s) \cup ToSet(t)
<1>1. /\ Len(s) \in Nat /\ DOMAIN s = 1..Len(s) /\ Len(t) \in Nat /\ DOMAIN t = 1..Len(t)
      /\ s \o t \in Seq(V) /\ DOMAIN (s \o t) = 1..(Len(s) + Len(t))
      /\ \A i \in 1..(Len(s) + Len(t)) : (s \o t)[i] = IF i <= Len(s) THEN s[i] ELSE t[i - Len(s)]
  BY LenProperties, ConcatProperties
<1>2. ASSUME NEW i \in 1..(Len(s) + Len(t))
      PROVE  (s \o t)[i] \in ToSet(s) \cup ToSet(t)
  BY <1>1 DEF ToSet
<1>3. ASSUME NEW i \in 1..Len(s)
      PROVE  s[i] \in ToSet(s \o t)
  <2>1. i \in 1..(Len(s) + Len(t)) /\ i <= Len(s)
    BY <1>1
  <2>2. (s \o t)[i] = s[i]
    BY <1>1, <2>1
  <2> QED BY <1>1, <2>1, <2>2 DEF ToSet
<1>4. ASSUME NEW i \in 1..Len(t)
      PROVE  t[i] \in ToSet(s \o t)
  <2>1. Len(s) + i \in 1..(Len(s) + Len(t)) /\ ~(Len(s) + i <= Len(s)) /\ Len(s) + i - Len(s) = i
    BY <1>1
  <2>2. (s \o t)[Len(s) + i] = t[i]
    BY <1>1, <2>1
  <2> QED BY <1>1, <2>1, <2>2 DEF ToSet
<1>5. ToSet(s \o t) \subseteq ToSet(s) \cup ToSet(t)
  BY <1>1, <1>2 DEF ToSet
<1>6. ToSet(s) \subseteq ToSet(s \o t) /\ ToSet(t) \subseteq ToSet(s \o t)
  BY <1>1, <1>3, <1>4 DEF ToSet
<1> QED BY <1>1, <1>5, <1>6

LEMMA ElementsPicked ==
  ASSUME NEW V, NEW s \in Seq(V), NEW places
  PROVE  /\ Picked(s, places) \in Seq(V)
         /\ ToSet(Picked(s, places)) = {s[i] : i \in DOMAIN s \cap places}
<1> DEFINE r == Picked(s, places)
<1>1. PickedOf(V, s, places, r)
  BY PickedElements
<1>2. DOMAIN s = 1..Len(s)
  BY LenProperties
<1> HIDE DEF r
<1>3. r \in Seq(V) /\ DOMAIN r = 1..Len(r)
  BY <1>1, LenProperties DEF PickedOf
<1>4. ASSUME NEW i \in 1..Len(r)
      PROVE  \E j \in DOMAIN s \cap places : r[i] = s[j]
  BY <1>1, <1>2 DEF PickedOf
<1>5. ASSUME NEW j \in DOMAIN s \cap places
      PROVE  \E i \in 1..Len(r) : r[i] = s[j]
  BY <1>1, <1>2 DEF PickedOf
<1>6. ToSet(r) \subseteq {s[i] : i \in DOMAIN s \cap places}
  BY <1>3, <1>4 DEF ToSet
<1>7. {s[i] : i \in DOMAIN s \cap places} \subseteq ToSet(r)
  BY <1>3, <1>5 DEF ToSet
<1> QED BY <1>3, <1>6, <1>7 DEF r

LEMMA WithoutOthers ==
  ASSUME NEW V, NEW s \in Seq(V), NEW others
  PROVE  Without(s, others) \in Seq(V) /\ ToSet(Without(s, others)) \subseteq ToSet(s)
<1> DEFINE places == {i \in DOMAIN s : s[i] \notin ToSet(others)}
<1>1. Without(s, others) = Picked(s, places)
  BY DEF Without
<1> HIDE DEF places
<1>2. Picked(s, places) \in Seq(V) /\ ToSet(Picked(s, places)) = {s[i] : i \in DOMAIN s \cap places}
  BY ElementsPicked
<1>3. {s[i] : i \in DOMAIN s \cap places} \subseteq ToSet(s)
  BY DEF ToSet
<1> QED BY <1>1, <1>2, <1>3

\* What a window offers of a sermon, and what it sends of that.
LEMMA OfferedOf ==
  ASSUME NEW sermon \in Sermons
  PROVE  /\ Available(sermon) \in Seq(References)
         /\ Offered(sermon) \in Seq(References)
         /\ ToSet(Offered(sermon)) \subseteq ToSet(sermon.old \o sermon.new) \cup ToSet(Available(sermon))
<1> DEFINE readings == sermon.old \o sermon.new
           others == Without(Available(sermon), readings)
<1>1. sermon.old \in Seq(References) /\ sermon.new \in Seq(References)
      /\ Available(sermon) \in Seq(References)
  BY DEF Sermons, Available
<1>2. readings \in Seq(References)
  BY <1>1, ElementsOfBoth
<1> HIDE DEF readings
<1>3. others \in Seq(References) /\ ToSet(others) \subseteq ToSet(Available(sermon))
  BY <1>1, WithoutOthers
<1> HIDE DEF others
<1>4. readings \o others \in Seq(References)
      /\ ToSet(readings \o others) = ToSet(readings) \cup ToSet(others)
  BY <1>2, <1>3, ElementsOfBoth
<1>5. maxScriptureOptions \in Nat
  BY LimitsAssumption
<1>6. Offered(sermon) = UpTo(maxScriptureOptions, readings \o others)
  BY DEF Offered, readings, others
<1>7. /\ UpTo(maxScriptureOptions, readings \o others) \in Seq(References)
      /\ ToSet(UpTo(maxScriptureOptions, readings \o others)) \subseteq ToSet(readings \o others)
  BY <1>4, <1>5, Cut
<1> QED BY <1>1, <1>3, <1>4, <1>6, <1>7 DEF readings

LEMMA ChosenOf ==
  ASSUME NEW sermon \in Sermons, NEW draft
  PROVE  /\ Chosen(draft, sermon) \in Seq(References)
         /\ ToSet(Chosen(draft, sermon)) = draft \cap ToSet(Offered(sermon))
<1> DEFINE offered == Offered(sermon)
           places == {i \in DOMAIN offered : offered[i] \in draft}
<1>1. offered \in Seq(References)
  BY OfferedOf
<1>2. Chosen(draft, sermon) = Picked(offered, places)
  BY DEF Chosen
<1>3. {offered[i] : i \in DOMAIN offered \cap places} = draft \cap ToSet(offered)
  BY DEF ToSet
<1> HIDE DEF offered, places
<1>4. /\ Picked(offered, places) \in Seq(References)
      /\ ToSet(Picked(offered, places)) = {offered[i] : i \in DOMAIN offered \cap places}
  BY <1>1, ElementsPicked
<1> QED BY <1>2, <1>3, <1>4 DEF offered

\* A save keeps what the sermon has available, and with it what a window offers.
LEMMA SavedOf ==
  ASSUME NEW read \in Sermons, NEW selection \in Seq(References),
         ToSet(selection) \subseteq ToSet(Available(read))
  PROVE  LET saved == Saved(read, selection)
         IN  /\ saved \in Sermons
             /\ saved.old = read.old /\ saved.new = read.new /\ saved.selected = selection
             /\ Available(saved) = Available(read)
             /\ Offered(saved) = Offered(read)
<1> DEFINE saved == Saved(read, selection)
<1>1. Available(read) \in Seq(References)
  BY OfferedOf
<1>2. /\ saved \in Sermons
      /\ saved.old = read.old /\ saved.new = read.new /\ saved.selected = selection
      /\ saved.options = Available(read)
  BY <1>1 DEF Saved, Sermons
<1> HIDE DEF saved
<1>3. Available(saved) = Available(read)
  <2>1. CASE Available(read) # << >>
    BY <1>2, <2>1 DEF Available
  <2>2. CASE Available(read) = << >>
    <3>1. ToSet(selection) = {}
      BY <2>2 DEF ToSet
    <3>2. selection = << >>
      BY <3>1 DEF ToSet
    <3>3. Available(saved) = saved.selected
      BY <1>2, <2>2 DEF Available
    <3> QED BY <1>2, <2>2, <3>2, <3>3
  <2> QED BY <2>1, <2>2
<1>4. Offered(saved) = Offered(read)
  BY <1>2, <1>3 DEF Offered
<1> QED BY <1>2, <1>3, <1>4 DEF saved

LEMMA NormalizedTypes ==
  ASSUME NEW references \in Seq(References)
  PROVE  /\ normalizeScriptures(references) \in Seq(References)
         /\ Unique(normalizeScriptures(references))
         /\ IsMostSpecific(references)
BY NormalizedListed, MostSpecific

\* Each reference of a result has one range at most, and two references of one
\* range make a result of two at most.
LEMMA FewRanges ==
  ASSUME NEW references \in Seq(References), NEW r \in ToSet(normalizeScriptures(references))
  PROVE  r \in References /\ Len(r.ranges) <= 1
<1> DEFINE ms == Mentions(references)
           result == normalizeScriptures(references)
<1>1. result \in Seq(References)
      /\ \E outputs : AreInOrder(ms, outputs) /\ AreReferencesOf(outputs, result)
  BY NormalizedListed
<1>2. PICK outputs : Normalizes(references, outputs, result)
  BY <1>1 DEF Normalizes
<1>3. AreMentions(ms)
  BY MentionsListed
<1> HIDE DEF ms, result
<1>4. DOMAIN result = 1..Len(result)
  BY <1>2, ResultTypes
<1>5. PICK n \in 1..Len(result) : r = result[n]
  BY <1>4 DEF ToSet, result
<1> DEFINE o == outputs[n]
<1>6. r \in References /\ r.parsed \in BOOLEAN /\ IsOutput(ms, o) /\ r = o.reference
      /\ Concerns(ms, r, o.order)
  BY <1>2, <1>5, ResultTypes DEF ms
<1> HIDE DEF o
<1>7. CASE ~r.parsed
  <2>1. r.ranges = << >>
    BY <1>6, <1>7, ReferenceTypes
  <2> QED BY <1>6, <2>1
<1>8. CASE r.parsed
  <2>1. ms[o.order].parsed
    BY <1>6, <1>8 DEF Concerns
  <2>2. PICK a : IsRunOutput(ms, o, a)
    BY <1>6, <2>1 DEF IsOutput
  <2>3. \A c : IsRunOutput(ms, o, c) =>
                o.reference.ranges = RangesOf(Placed(ms, ms[o.order].passage)[c])
    BY <1>3, <1>6, OutputTypes
  <2> DEFINE run == Placed(ms, ms[o.order].passage)[a]
  <2>4. r.ranges = RangesOf(run)
    BY <1>6, <2>2, <2>3
  <2> HIDE DEF run
  <2>5. Len(RangesOf(run)) <= 1
    BY DEF RangesOf
  <2> QED BY <1>6, <2>4, <2>5
<1> QED BY <1>7, <1>8

LEMMA FewReferences ==
  ASSUME NEW references \in Seq(References), Len(references) <= 2,
         \A i \in 1..Len(references) : Len(references[i].ranges) <= 1
  PROVE  Len(normalizeScriptures(references)) <= 2
<1> DEFINE ms == Mentions(references)
           pl == MentionPlaces(references)
           result == normalizeScriptures(references)
<1>1. result \in Seq(References)
      /\ \E outputs : AreInOrder(ms, outputs) /\ AreReferencesOf(outputs, result)
  BY NormalizedListed
<1>2. PICK outputs : AreInOrder(ms, outputs) /\ AreReferencesOf(outputs, result)
  BY <1>1
<1>3. Len(result) <= Len(ms) /\ Len(result) \in Nat
  BY <1>1, <1>2, LenProperties DEF AreInOrder, AreReferencesOf
<1>4. AreMentions(ms) /\ AreAt(references, pl, ms)
  BY MentionsListed
<1>5. Len(ms) \in Nat /\ Len(references) \in Nat
  BY <1>4, LenProperties DEF AreMentions
<1> HIDE DEF ms, pl, result
<1>6. ASSUME NEW k \in 1..Len(ms)
      PROVE  /\ pl[k][1] \in 1..Len(references)
             /\ pl[k][2] = IF references[pl[k][1]].ranges = << >> THEN 0 ELSE 1
  <2> DEFINE i == pl[k][1]
  <2>1. i \in 1..Len(references) /\ StandsIn(references, pl[k], i)
    BY <1>6, PlaceOfMention DEF ms, pl
  <2>2. references[i] \in References /\ Len(references[i].ranges) <= 1
    BY <2>1
  <2>3. Len(references[i].ranges) \in Nat
    BY <2>2, ReferenceTypes
  <2> HIDE DEF i
  <2> QED BY <2>1, <2>2, <2>3 DEF StandsIn, i
<1>7. ASSUME NEW j \in 1..Len(ms), NEW k \in 1..Len(ms), j < k
      PROVE  pl[j][1] < pl[k][1]
  <2>1. Before(pl[j], pl[k])
    BY <1>4, <1>7 DEF AreAt
  <2>2. pl[j][1] < pl[k][1] \/ (pl[j][1] = pl[k][1] /\ pl[j][2] < pl[k][2])
    BY <2>1 DEF Before
  <2>3. pl[j][1] = pl[k][1] => pl[j][2] = pl[k][2]
    BY <1>6
  <2>4. pl[k][2] \in Nat
    BY <1>6
  <2> QED BY <2>2, <2>3, <2>4
<1>8. SUFFICES ASSUME Len(ms) >= 3
               PROVE  FALSE
  BY <1>3, <1>5 DEF result
<1>9. 1 \in 1..Len(ms) /\ 2 \in 1..Len(ms) /\ 3 \in 1..Len(ms)
  BY <1>5, <1>8
<1>10. pl[1][1] < pl[2][1] /\ pl[2][1] < pl[3][1]
  BY <1>7, <1>9
<1>11. pl[1][1] \in 1..Len(references) /\ pl[2][1] \in 1..Len(references)
       /\ pl[3][1] \in 1..Len(references)
  BY <1>6, <1>9
<1> DEFINE x == pl[1][1]
           y == pl[2][1]
           z == pl[3][1]
<1>12. x \in Nat /\ 1 <= x /\ x < y /\ y \in Nat /\ y < z /\ z \in Nat /\ z <= 2
  BY <1>5, <1>10, <1>11
<1> HIDE DEF x, y, z
<1> QED BY <1>12

\* A stretch of verses is its own longest run.
LEMMA RunOfOne ==
  ASSUME NEW first \in Nat, NEW last \in Nat, first <= last
  PROVE  MaximalRuns(first..last) = {VerseRange(first, last)}
<1> DEFINE verses == first..last
<1>1. ASSUME NEW q \in verses \X verses,
             q[1]..q[2] \subseteq verses, q[1] <= q[2], q[1] - 1 \notin verses, q[2] + 1 \notin verses
      PROVE  q[1] = first /\ q[2] = last
  <2> DEFINE x == q[1]
             y == q[2]
  <2>1. x \in first..last /\ y \in first..last /\ x - 1 \notin first..last /\ y + 1 \notin first..last
    BY <1>1
  <2> HIDE DEF x, y
  <2>2. x = first /\ y = last
    BY <2>1
  <2> QED BY <2>2 DEF x, y
<1>2. LET q == <<first, last>>
      IN  /\ q \in verses \X verses /\ q[1]..q[2] \subseteq verses /\ q[1] <= q[2]
          /\ q[1] - 1 \notin verses /\ q[2] + 1 \notin verses
  OBVIOUS
<1> DEFINE Maximal(q) == q[1]..q[2] \subseteq verses /\ q[1] <= q[2]
                          /\ q[1] - 1 \notin verses /\ q[2] + 1 \notin verses
<1>3. Maximal(<<first, last>>) /\ <<first, last>> \in verses \X verses
  BY <1>2
<1>4. \A q \in verses \X verses : Maximal(q) => q[1] = first /\ q[2] = last
  BY <1>1
<1>5. MaximalRuns(verses) = {VerseRange(q[1], q[2]) : q \in {p \in verses \X verses : Maximal(p)}}
  BY DEF MaximalRuns
<1> HIDE DEF Maximal, verses
<1>6. ASSUME NEW q \in {p \in verses \X verses : Maximal(p)}
      PROVE  VerseRange(q[1], q[2]) = VerseRange(first, last)
  BY <1>4
<1>7. VerseRange(first, last) \in {VerseRange(q[1], q[2]) : q \in {p \in verses \X verses : Maximal(p)}}
  <2>1. <<first, last>> \in {p \in verses \X verses : Maximal(p)}
    BY <1>3
  <2>2. VerseRange(first, last) = VerseRange(<<first, last>>[1], <<first, last>>[2])
    OBVIOUS
  <2> QED BY <2>1, <2>2
<1> QED BY <1>5, <1>6, <1>7 DEF verses

\* A reference of one range whose passage no other mentions is kept as it is.
LEMMA KeptAsItIs ==
  ASSUME NEW references \in Seq(References), NEW i \in 1..Len(references),
         Len(references[i].ranges) <= 1,
         \A j \in 1..Len(references) : references[j].passage = references[i].passage => j = i
  PROVE  references[i] \in ToSet(normalizeScriptures(references))
<1> DEFINE r == references[i]
           passage == r.passage
           result == ToSet(normalizeScriptures(references))
           verses == Verses(references, passage)
           Here == {x \in result : x.parsed /\ x.passage = passage}
<1>1. Len(references) \in Nat /\ DOMAIN references = 1..Len(references)
      /\ \A j \in 1..Len(references) : references[j] \in References
  BY LenProperties
<1>2. r \in References /\ r.parsed \in BOOLEAN /\ Len(r.ranges) \in Nat
      /\ DOMAIN r.ranges = 1..Len(r.ranges) /\ (r.ranges = << >> <=> Len(r.ranges) = 0)
      /\ Len(r.ranges) <= 1
  BY <1>1, ReferenceTypes
<1>3. r \in ToSet(references) /\ \A x \in ToSet(references) : x.passage = passage => x = r
  BY <1>1 DEF ToSet
<1>4. IsMostSpecific(references)
  BY NormalizedTypes
<1>5. \A x \in result : x \in References
  BY FewRanges
<1> HIDE DEF r, result, verses
<1>6. CASE ~r.parsed
  <2>1. {x \in result : ~x.parsed} = {x \in ToSet(references) : ~x.parsed}
    BY <1>4 DEF IsMostSpecific, result
  <2>2. r \in {x \in ToSet(references) : ~x.parsed}
    BY <1>3, <1>6
  <2> QED BY <2>1, <2>2 DEF r, result
<1>7. CASE r.parsed
  <2> DEFINE Named == {x.passage : x \in {y \in result \cup ToSet(references) : y.parsed}}
  <2>1. r.passage \in Named
    BY <1>3, <1>7
  <2>2. \A p \in Named : {x.ranges : x \in {y \in result : y.parsed /\ y.passage = p}}
                           = (IF Verses(references, p) = {} THEN {<< >>}
                              ELSE {<<run>> : run \in MaximalRuns(Verses(references, p))})
    BY <1>4 DEF IsMostSpecific, result
  <2> HIDE DEF Named
  <2>3. {x.ranges : x \in Here} = IF verses = {} THEN {<< >>} ELSE {<<run>> : run \in MaximalRuns(verses)}
    BY <2>1, <2>2 DEF verses
  <2>4. verses = UNION {v.start..v.end : v \in ToSet(r.ranges)}
    <3>1. {x \in ToSet(references) : x.parsed /\ x.passage = passage} = {r}
      BY <1>3, <1>7
    <3> QED BY <3>1 DEF verses, Verses
  <2>5. r.ranges \in {x.ranges : x \in Here}
    <3>1. CASE r.ranges = << >>
      <4>1. ToSet(r.ranges) = {}
        BY <3>1 DEF ToSet
      <4>2. verses = {}
        BY <2>4, <4>1
      <4> QED BY <2>3, <3>1, <4>2
    <3>2. CASE r.ranges # << >>
      <4> DEFINE v == r.ranges[1]
      <4>1. Len(r.ranges) = 1 /\ DOMAIN r.ranges = {1}
        <5> DEFINE n == Len(r.ranges)
        <5>1. n \in Nat /\ n # 0 /\ n <= 1 /\ DOMAIN r.ranges = 1..n
          BY <1>2, <3>2
        <5> HIDE DEF n
        <5>2. n = 1
          BY <5>1
        <5> QED BY <5>1, <5>2 DEF n
      <4>2. ToSet(r.ranges) = {v}
        BY <4>1 DEF ToSet
      <4>3. v \in VerseRanges
        BY <1>2, <4>1 DEF References
      <4>4. v.start \in Nat /\ v.end \in Nat /\ v.start <= v.end /\ v = VerseRange(v.start, v.end)
        BY <4>3 DEF VerseRanges, VerseRange
      <4>5. r.ranges = <<v>>
        <5>1. r.ranges \in Seq(VerseRanges)
          BY <1>2 DEF References
        <5>2. <<v>> \in Seq(VerseRanges) /\ Len(<<v>>) = 1 /\ <<v>>[1] = v
          BY <4>3
        <5>3. Len(<<v>>) = Len(r.ranges) /\ \A n \in 1..Len(r.ranges) : r.ranges[n] = <<v>>[n]
          BY <4>1, <5>2 DEF v
        <5> HIDE DEF v
        <5> QED BY <5>1, <5>2, <5>3, SeqEqual
      <4> HIDE DEF v
      <4>6. verses = v.start..v.end
        BY <2>4, <4>2
      <4>7. MaximalRuns(verses) = {v}
        BY <4>4, <4>6, RunOfOne
      <4>8. verses # {}
        BY <4>4, <4>6
      <4> QED BY <2>3, <4>5, <4>7, <4>8
    <3> QED BY <3>1, <3>2
  <2>6. PICK x \in Here : x.ranges = r.ranges
    BY <2>5
  <2>7. x \in References /\ x.passage = r.passage /\ x.parsed \in BOOLEAN /\ x.parsed
    BY <1>5, <2>6 DEF References
  <2>8. x.parsed = r.parsed
    BY <1>2, <1>7, <2>7
  <2>9. x = r
    BY <1>2, <2>6, <2>7, <2>8, ReferenceFields
  <2> QED BY <2>6, <2>9 DEF r, result
<1> QED BY <1>2, <1>6, <1>7

-----------------------------------------------------------------------------

\* What a sermon's selection, readings and options have to do with each other.
ReadingsDiffer(sermon) ==
  sermon.old # << >> /\ sermon.new # << >> => sermon.old[1].passage # sermon.new[1].passage
Consistent(sermon) ==
  /\ Unique(sermon.selected)
  /\ ToSet(sermon.selected) \subseteq ToSet(Available(sermon))
  /\ ReadingsDiffer(sermon) => ToSet(sermon.old \o sermon.new) \subseteq ToSet(Available(sermon))

LEMMA ReadingOf ==
  ASSUME NEW reading \in Seq(References)
  PROVE  /\ Reading(reading) \in Seq(References)
         /\ Len(Reading(reading)) <= 1
         /\ \A r \in ToSet(Reading(reading)) : Len(r.ranges) <= 1
<1> DEFINE result == normalizeScriptures(reading)
<1>1. result \in Seq(References)
  BY NormalizedTypes
<1>2. \A r \in ToSet(result) : Len(r.ranges) <= 1
  BY FewRanges
<1> HIDE DEF result
<1>3. /\ UpTo(1, result) \in Seq(References)
      /\ Len(UpTo(1, result)) = Smaller(1, Len(result))
      /\ ToSet(UpTo(1, result)) \subseteq ToSet(result)
  BY <1>1, Cut
<1>4. Smaller(1, Len(result)) <= 1
  BY <1>1, LenProperties DEF Smaller
<1> QED BY <1>2, <1>3, <1>4 DEF Reading, result

\* The selection comes first among the options.
LEMMA OptionsHave ==
  ASSUME NEW selected \in Seq(References), NEW candidates \in Seq(References),
         Len(selected) <= maxScriptureOptions
  PROVE  /\ OptionsOf(selected, candidates) \in Seq(References)
         /\ ToSet(selected) \subseteq ToSet(OptionsOf(selected, candidates))
<1> DEFINE rest == Without(candidates, selected)
           all == selected \o rest
           options == UpTo(maxScriptureOptions, all)
<1>1. rest \in Seq(References)
  BY WithoutOthers
<1> HIDE DEF rest
<1>2. /\ Len(selected) \in Nat /\ DOMAIN selected = 1..Len(selected) /\ Len(rest) \in Nat
      /\ all \in Seq(References) /\ Len(all) = Len(selected) + Len(rest)
      /\ \A i \in 1..(Len(selected) + Len(rest)) :
           all[i] = IF i <= Len(selected) THEN selected[i] ELSE rest[i - Len(selected)]
  BY <1>1, LenProperties, ConcatProperties
<1> HIDE DEF all
<1>3. maxScriptureOptions \in Nat
  BY LimitsAssumption
<1>4. /\ options \in Seq(References)
      /\ Len(options) = Smaller(maxScriptureOptions, Len(all))
      /\ \A i \in 1..Smaller(maxScriptureOptions, Len(all)) : options[i] = all[i]
  BY <1>2, <1>3, Cut
<1>5. OptionsOf(selected, candidates) = options
  BY DEF OptionsOf, options, all, rest
<1> HIDE DEF options
<1>6. DOMAIN options = 1..Len(options)
  BY <1>4, LenProperties
<1>7. ASSUME NEW i \in 1..Len(selected)
      PROVE  selected[i] \in ToSet(options)
  <2>1. i \in 1..Smaller(maxScriptureOptions, Len(all)) /\ i \in 1..(Len(selected) + Len(rest))
        /\ i <= Len(selected)
    BY <1>2, <1>3 DEF Smaller
  <2>2. options[i] = selected[i]
    BY <1>2, <1>4, <2>1
  <2> QED BY <1>4, <1>6, <2>1, <2>2 DEF ToSet
<1> QED BY <1>2, <1>4, <1>5, <1>7 DEF ToSet

\* Two readings of a reference each, one after the other.
LEMMA ReadingsTogether ==
  ASSUME NEW old \in Seq(References), Len(old) <= 1, NEW new \in Seq(References), Len(new) <= 1
  PROVE  /\ old \o new \in Seq(References) /\ Len(old \o new) <= 2
         /\ ToSet(old \o new) = ToSet(old) \cup ToSet(new)
         /\ (old # << >> /\ new # << >> => old[1].passage # new[1].passage) =>
              \A i, j \in 1..Len(old \o new) :
                (old \o new)[i].passage = (old \o new)[j].passage => i = j
<1> DEFINE both == old \o new
<1>1. /\ Len(old) \in Nat /\ Len(new) \in Nat /\ (old = << >> <=> Len(old) = 0)
      /\ (new = << >> <=> Len(new) = 0)
  BY LenProperties, EmptySeq
<1>2. /\ both \in Seq(References) /\ Len(both) = Len(old) + Len(new)
      /\ \A i \in 1..(Len(old) + Len(new)) :
           both[i] = IF i <= Len(old) THEN old[i] ELSE new[i - Len(old)]
  BY ConcatProperties
<1>3. ToSet(both) = ToSet(old) \cup ToSet(new)
  BY ElementsOfBoth
<1> HIDE DEF both
<1>4. ASSUME old # << >> /\ new # << >> => old[1].passage # new[1].passage,
             NEW i \in 1..Len(both), NEW j \in 1..Len(both), i # j
      PROVE  both[i].passage # both[j].passage
  <2>1. Len(old) = 1 /\ Len(new) = 1 /\ ((i = 1 /\ j = 2) \/ (i = 2 /\ j = 1))
    <3> DEFINE m == Len(old)
               n == Len(new)
    <3>1. m \in Nat /\ n \in Nat /\ m <= 1 /\ n <= 1 /\ i \in 1..(m + n) /\ j \in 1..(m + n) /\ i # j
      BY <1>1, <1>2, <1>4
    <3> HIDE DEF m, n
    <3>2. m = 1 /\ n = 1 /\ ((i = 1 /\ j = 2) \/ (i = 2 /\ j = 1))
      BY <3>1
    <3> QED BY <3>2 DEF m, n
  <2>2. both[1] = old[1] /\ both[2] = new[1]
    <3>1. 1 \in 1..(Len(old) + Len(new)) /\ 2 \in 1..(Len(old) + Len(new))
          /\ 1 <= Len(old) /\ ~(2 <= Len(old)) /\ 2 - Len(old) = 1
      BY <2>1
    <3> QED BY <1>2, <3>1
  <2>3. old[1].passage # new[1].passage
    BY <1>1, <1>4, <2>1
  <2> QED BY <2>1, <2>2, <2>3
<1>5. Len(both) <= 2
  BY <1>1, <1>2
<1> QED BY <1>2, <1>3, <1>4, <1>5 DEF both

\* An extraction writes a sermon that is consistent.
LEMMA ExtractedOf ==
  ASSUME NEW sermon \in Extractions
  PROVE  sermon \in Sermons /\ Consistent(sermon)
<1>1. PICK a \in Answers : sermon = Extracted(a)
  BY DEF Extractions
<1>2. a.old \in Seq(References) /\ a.new \in Seq(References) /\ a.scriptures \in Seq(References)
  BY AnswersAssumption
<1> DEFINE old == Reading(a.old)
           new == Reading(a.new)
           both == old \o new
           selected == normalizeScriptures(both)
           candidates == normalizeScriptures(a.scriptures)
           options == OptionsOf(selected, candidates)
<1>3. /\ old \in Seq(References) /\ Len(old) <= 1 /\ \A r \in ToSet(old) : Len(r.ranges) <= 1
      /\ new \in Seq(References) /\ Len(new) <= 1 /\ \A r \in ToSet(new) : Len(r.ranges) <= 1
  BY <1>2, ReadingOf
<1>4. sermon.old = old /\ sermon.new = new /\ sermon.selected = selected /\ sermon.options = options
      /\ sermon = [old |-> old, new |-> new, selected |-> selected, options |-> options]
  BY <1>1 DEF Extracted
<1> HIDE DEF old, new
<1>5. /\ both \in Seq(References) /\ Len(both) <= 2 /\ ToSet(both) = ToSet(old) \cup ToSet(new)
      /\ ReadingsDiffer(sermon) =>
           \A i, j \in 1..Len(both) : both[i].passage = both[j].passage => i = j
  BY <1>3, <1>4, ReadingsTogether DEF ReadingsDiffer
<1> HIDE DEF both
<1>6. DOMAIN both = 1..Len(both)
  BY <1>5, LenProperties
<1>7. \A i \in 1..Len(both) : Len(both[i].ranges) <= 1
  BY <1>3, <1>5, <1>6 DEF ToSet
<1>8. selected \in Seq(References) /\ Unique(selected) /\ candidates \in Seq(References)
  BY <1>2, <1>5, NormalizedTypes
<1>9. Len(selected) <= 2
  BY <1>5, <1>7, FewReferences
<1>10. ReadingsDiffer(sermon) => ToSet(both) \subseteq ToSet(selected)
  <2>1. ASSUME ReadingsDiffer(sermon), NEW i \in 1..Len(both)
        PROVE  both[i] \in ToSet(selected)
    BY <1>5, <1>7, <2>1, KeptAsItIs
  <2> QED BY <1>6, <2>1 DEF ToSet
<1> HIDE DEF selected, candidates
<1>11. options \in Seq(References) /\ ToSet(selected) \subseteq ToSet(options)
  <2>1. Len(selected) <= maxScriptureOptions
    BY <1>8, <1>9, LimitsAssumption, LenProperties
  <2> QED BY <1>8, <2>1, OptionsHave
<1> HIDE DEF options
<1>12. ToSet(selected) \subseteq ToSet(Available(sermon))
  BY <1>4, <1>11 DEF Available
<1>13. sermon \in Sermons
  BY <1>3, <1>4, <1>8, <1>11 DEF Sermons
<1> QED BY <1>4, <1>8, <1>10, <1>12, <1>13 DEF Consistent, both

-----------------------------------------------------------------------------
(* The inductive invariant *)

Drafts == {NoDraft} \cup {<<d>> : d \in SUBSET References}

RequestStates == {"none", "sent", "read", "saved", "answered", "failed"}
Requested == [state : RequestStates, selection : Seq(References), sermon : Sermons]

SelectionTypes ==
  /\ row \in Sermons
  /\ request \in Requested
  /\ lost \in [1..MaxFailures -> Requested]
  /\ window \in [sermon : Sermons, draft : Drafts, saving : BOOLEAN, error : BOOLEAN]
  /\ wanted \in Drafts
  /\ undone \in BOOLEAN

\* What a save has read is as good as the row.
RowsAreConsistent ==
  /\ Consistent(row)
  /\ request.state = "read" => Consistent(request.sermon)
  /\ \A b \in 1..MaxFailures : lost[b].state = "read" => Consistent(lost[b].sermon)

\* The window has a draft while a save is under way or has failed.
DraftIsKept ==
  /\ window.saving <=> request.state # "none"
  /\ window.error => ~window.saving
  /\ window.draft = NoDraft <=> ~window.saving /\ ~window.error

\* What the user chose since the offer changed last is in the draft, and what the
\* awaited save has read and stored is of the same offer; what it has stored is in
\* the row unless a lost handler has written since.
ChoiceIsKept ==
  wanted # NoDraft =>
    /\ Offered(window.sermon) = Offered(row)
    /\ window.draft # NoDraft => window.draft = wanted
    /\ request.state \in {"read", "answered"} => Offered(request.sermon) = Offered(row)
    /\ request.state \in {"saved", "answered"} /\ ~undone => row.selected = request.selection
    /\ window.draft = NoDraft /\ ~undone
         => ToSet(row.selected) = wanted[1] \cap ToSet(Offered(row))

LEMMA NothingYet ==
  NoRow \in Sermons /\ Consistent(NoRow)
<1>1. NoRow \in Sermons /\ NoRow.selected = << >> /\ NoRow.old = << >> /\ NoRow.new = << >>
  BY DEF NoRow, Sermons
<1>2. ToSet(<< >>) = {} /\ ToSet(<< >> \o << >>) = {}
  BY DEF ToSet
<1>3. Unique(<< >>)
  BY DEF Unique
<1> QED BY <1>1, <1>2, <1>3 DEF Consistent

LEMMA SelectionStart ==
  Init => SelectionTypes /\ RowsAreConsistent /\ DraftIsKept /\ ChoiceIsKept
<1> SUFFICES ASSUME Init PROVE SelectionTypes /\ RowsAreConsistent /\ DraftIsKept /\ ChoiceIsKept
  OBVIOUS
<1>1. row \in Sermons /\ Consistent(row)
  <2>1. CASE row = NoRow
    BY <2>1, NothingYet
  <2>2. CASE row \in Extractions
    BY <2>2, ExtractedOf
  <2>3. ASSUME NEW a \in Answers, row = [NoRow EXCEPT !.selected = normalizeScriptures(a.scriptures)]
        PROVE  row \in Sermons /\ Consistent(row)
    <3>1. a.scriptures \in Seq(References)
      BY AnswersAssumption
    <3> DEFINE selected == normalizeScriptures(a.scriptures)
    <3>2. selected \in Seq(References) /\ Unique(selected)
      BY <3>1, NormalizedTypes
    <3> HIDE DEF selected
    <3>3. row = [old |-> << >>, new |-> << >>, selected |-> selected, options |-> << >>]
      BY <2>3 DEF NoRow, selected
    <3>4. row \in Sermons /\ Available(row) = selected /\ row.selected = selected
          /\ row.old = << >> /\ row.new = << >>
      BY <3>2, <3>3 DEF Sermons, Available
    <3>5. ToSet(<< >> \o << >>) = {}
      BY DEF ToSet
    <3> QED BY <3>2, <3>4, <3>5 DEF Consistent
  <2> QED BY <2>1, <2>2, <2>3 DEF Init
<1>2. << >> \in Seq(References) /\ NoDraft \in Drafts
  BY DEF Drafts
<1>3. request = [state |-> "none", selection |-> << >>, sermon |-> NoRow]
  BY DEF Init, NoRequest, Request
<1>4. SelectionTypes
  <2>1. request \in Requested /\ NoRequest = request
    BY <1>2, <1>3, NothingYet DEF Requested, RequestStates, Init
  <2>2. lost \in [1..MaxFailures -> Requested]
    BY <2>1 DEF Init
  <2> QED BY <1>1, <1>2, <2>1, <2>2 DEF SelectionTypes, Init
<1>5. RowsAreConsistent /\ DraftIsKept /\ ChoiceIsKept
  <2>1. \A b \in 1..MaxFailures : lost[b] = request
    BY DEF Init
  <2> QED BY <1>1, <1>3, <2>1 DEF Init, RowsAreConsistent, DraftIsKept, ChoiceIsKept
<1> QED BY <1>4, <1>5

\* The actions that take a request on.
LEMMA RequestIs ==
  ASSUME NEW state \in RequestStates,
         NEW selection \in Seq(References), NEW sermon \in Sermons
  PROVE  /\ Request(state, selection, sermon) \in Requested
         /\ Request(state, selection, sermon).state = state
         /\ Request(state, selection, sermon).selection = selection
         /\ Request(state, selection, sermon).sermon = sermon
BY DEF Request, Requested, RequestStates

\* A handler that has lost its connection goes on and changes nothing but itself,
\* or it stores a selection.
LEMMA LostHandler ==
  ASSUME NEW b \in 1..MaxFailures, LostReads(b) \/ LostSaves(b)
  PROVE  /\ UNCHANGED <<request, window>>
         /\ \/ /\ UNCHANGED <<row, wanted, undone>>
               /\ \/ lost' = [lost EXCEPT ![b] = NoRequest]
                  \/ lost' = [lost EXCEPT ![b] = Request("read", lost[b].selection, row)]
            \/ /\ lost[b].state = "read" /\ Allowed(lost[b].sermon, lost[b].selection)
               /\ row' = Saved(lost[b].sermon, lost[b].selection)
               /\ lost' = [lost EXCEPT ![b] = NoRequest]
               /\ undone' = TRUE
               /\ wanted' = IF Offered(row') = Offered(row) THEN wanted ELSE NoDraft
<1>1. CASE LostReads(b)
  BY <1>1 DEF LostReads
<1>2. CASE LostSaves(b) /\ Allowed(lost[b].sermon, lost[b].selection)
  BY <1>2 DEF LostSaves
<1>3. CASE LostSaves(b) /\ ~Allowed(lost[b].sermon, lost[b].selection)
  BY <1>3 DEF LostSaves
<1> QED BY <1>1, <1>2, <1>3

LEMMA SelectionTypesStep ==
  SelectionTypes /\ [Next]_vars => SelectionTypes'
<1> SUFFICES ASSUME SelectionTypes, [Next]_vars PROVE SelectionTypes'
  OBVIOUS
<1> DEFINE Windows == [sermon : Sermons, draft : Drafts, saving : BOOLEAN, error : BOOLEAN]
<1>1. /\ row \in Sermons /\ request \in Requested /\ window \in Windows /\ wanted \in Drafts
      /\ lost \in [1..MaxFailures -> Requested] /\ undone \in BOOLEAN
  BY DEF SelectionTypes
<1>2. /\ request.selection \in Seq(References) /\ request.sermon \in Sermons
      /\ window.sermon \in Sermons /\ window.draft \in Drafts
  BY <1>1 DEF Requested
<1>3. /\ NoDraft \in Drafts /\ << >> \in Seq(References) /\ NoRow \in Sermons
  BY NothingYet DEF Drafts
<1>4. \A state \in RequestStates, selection \in Seq(References), sermon \in Sermons :
        Request(state, selection, sermon) \in Requested
  BY RequestIs
<1>5. \A selection \in Seq(References) : Send(selection) => request' \in Requested
  BY <1>3, <1>4 DEF Send, RequestStates
<1>6. \A draft : \A sermon \in Sermons : Chosen(draft, sermon) \in Seq(References)
  BY ChosenOf
<1>7. CASE Extract
  <2>1. row' \in Sermons
    BY <1>7, ExtractedOf DEF Extract
  <2> QED BY <1>1, <1>3, <1>7, <2>1 DEF Extract, SelectionTypes
<1>8. CASE ReadSermon
  <2>1. request' \in Requested
    BY <1>1, <1>2, <1>4, <1>8 DEF ReadSermon, RequestStates
  <2> QED BY <1>1, <1>8, <2>1 DEF ReadSermon, SelectionTypes
<1>9. CASE SaveScriptureSelection
  <2>1. request' \in Requested
    BY <1>2, <1>3, <1>4, <1>9 DEF SaveScriptureSelection, RequestStates
  <2>2. row' \in Sermons
    <3>1. CASE Allowed(request.sermon, request.selection)
      BY <1>2, <1>9, <3>1, SavedOf DEF SaveScriptureSelection, Allowed
    <3> QED BY <1>1, <1>9, <3>1 DEF SaveScriptureSelection
  <2> QED BY <1>1, <1>9, <2>1, <2>2 DEF SaveScriptureSelection, SelectionTypes
<1>10. CASE Reload
  <2>1. request' \in Requested
    BY <1>1, <1>2, <1>4, <1>10 DEF Reload, RequestStates
  <2> QED BY <1>1, <1>10, <2>1 DEF Reload, SelectionTypes
<1>11. CASE StoreFails
  <2>1. request' \in Requested
    BY <1>3, <1>4, <1>11 DEF StoreFails, RequestStates
  <2> QED BY <1>1, <1>11, <2>1 DEF StoreFails, SelectionTypes
<1>12. CASE ConnectionBreaks
  <2>1. request' \in Requested
    BY <1>3, <1>4, <1>12 DEF ConnectionBreaks, RequestStates
  <2>2. lost' \in [1..MaxFailures -> Requested]
    BY <1>1, <1>12 DEF ConnectionBreaks
  <2> QED BY <1>1, <1>12, <2>1, <2>2 DEF ConnectionBreaks, SelectionTypes
<1>13. ASSUME NEW b \in 1..MaxFailures, LostReads(b) \/ LostSaves(b)
       PROVE  SelectionTypes'
  <2>1. /\ lost[b] \in Requested /\ lost[b].selection \in Seq(References)
        /\ lost[b].sermon \in Sermons
    BY <1>1 DEF Requested
  <2>2. Request("read", lost[b].selection, row) \in Requested /\ NoRequest \in Requested
    BY <1>1, <1>3, <1>4, <2>1 DEF NoRequest, RequestStates
  <2>3. lost' \in [1..MaxFailures -> Requested]
    BY <1>1, <2>2, <1>13, LostHandler
  <2>4. row' \in Sermons
    <3>1. \/ row' = row
          \/ /\ Allowed(lost[b].sermon, lost[b].selection)
             /\ row' = Saved(lost[b].sermon, lost[b].selection)
      BY <1>13, LostHandler
    <3> QED BY <1>1, <2>1, <3>1, SavedOf DEF Allowed
  <2>5. wanted' \in Drafts /\ undone' \in BOOLEAN /\ UNCHANGED <<request, window>>
    BY <1>1, <1>3, <1>13, LostHandler
  <2> QED BY <1>1, <2>3, <2>4, <2>5 DEF SelectionTypes
<1>14. CASE Refresh
  BY <1>1, <1>14 DEF Refresh, SelectionTypes
<1>15. CASE ScriptureSaveFinished
  <2> DEFINE latest == Latest(request.selection, request.sermon)
  <2>1. latest \in Seq(References)
    BY <1>2, <1>6 DEF Latest
  <2> HIDE DEF latest
  <2>2. CASE latest = request.selection
    <3>1. window' = [sermon |-> request.sermon, draft |-> NoDraft, saving |-> FALSE, error |-> FALSE]
          /\ request' = NoRequest /\ UNCHANGED <<row, lost, wanted, undone>>
      BY <1>15, <2>2 DEF ScriptureSaveFinished, latest
    <3>2. NoRequest \in Requested
      BY <1>3, <1>4 DEF NoRequest, RequestStates
    <3> QED BY <1>1, <1>2, <1>3, <3>1, <3>2 DEF SelectionTypes
  <2>3. CASE latest # request.selection
    <3>1. window' = [window EXCEPT !.sermon = request.sermon, !.error = FALSE]
          /\ Send(latest) /\ UNCHANGED <<row, lost, wanted, undone>>
      BY <1>15, <2>3 DEF ScriptureSaveFinished, latest
    <3>2. request' \in Requested
      BY <1>5, <2>1, <3>1
    <3> QED BY <1>1, <1>2, <3>1, <3>2 DEF SelectionTypes
  <2> QED BY <2>2, <2>3
<1>16. CASE ScriptureSaveFailed
  <2>1. NoRequest \in Requested
    BY <1>3, <1>4 DEF NoRequest, RequestStates
  <2> QED BY <1>1, <1>16, <2>1 DEF ScriptureSaveFailed, SaveFailed, SelectionTypes
<1>17. CASE RetryScriptureSave
  <2>1. window.sermon.selected \in Seq(References)
    BY <1>2 DEF Sermons
  <2>2. request' \in Requested
    BY <1>2, <1>5, <1>6, <1>17, <2>1 DEF RetryScriptureSave
  <2> QED BY <1>1, <1>17, <2>2 DEF RetryScriptureSave, SelectionTypes
<1>18. ASSUME NEW reference \in ToSet(Offered(window.sermon)), ToggleScripture(reference)
       PROVE  SelectionTypes'
  <2> DEFINE current == IF window.draft = NoDraft THEN ToSet(window.sermon.selected) ELSE window.draft[1]
             updated == IF reference \in current THEN current \ {reference} ELSE current \cup {reference}
  <2>1. /\ wanted' = (IF Offered(window.sermon) = Offered(row) /\ (window.saving => wanted # NoDraft)
                      THEN <<updated>> ELSE NoDraft)
        /\ window' = [window EXCEPT !.draft = <<updated>>, !.error = FALSE, !.saving = TRUE]
        /\ IF window.saving THEN UNCHANGED request ELSE Send(Chosen(updated, window.sermon))
        /\ UNCHANGED <<row, lost, undone>>
    BY <1>18 DEF ToggleScripture
  <2>2. \A s \in Seq(References) : ToSet(s) \subseteq References
    BY DEF ToSet
  <2>3. reference \in References
    BY <1>2, <2>2, OfferedOf
  <2>4. current \subseteq References
    <3>1. window.draft # NoDraft => \E d \in SUBSET References : window.draft = <<d>>
      BY <1>2 DEF Drafts
    <3>2. window.sermon.selected \in Seq(References)
      BY <1>2 DEF Sermons
    <3> QED BY <2>2, <3>1, <3>2
  <2> HIDE DEF current
  <2>5. updated \subseteq References
    BY <2>3, <2>4
  <2> HIDE DEF updated
  <2>6. <<updated>> \in Drafts
    BY <2>5 DEF Drafts
  <2>7. request' \in Requested
    BY <1>1, <1>2, <1>5, <1>6, <2>1
  <2>8. window' \in Windows
    BY <1>1, <2>1, <2>6
  <2>9. wanted' \in Drafts
    BY <1>3, <2>1, <2>6
  <2> QED BY <1>1, <2>1, <2>7, <2>8, <2>9 DEF SelectionTypes
<1>19. CASE UNCHANGED vars
  BY <1>1, <1>19 DEF vars, SelectionTypes
<1> QED BY <1>7, <1>8, <1>9, <1>10, <1>11, <1>12, <1>13, <1>14, <1>15, <1>16,
           <1>17, <1>18, <1>19
        DEF Next, Handles, Fails, GoesOn, Answered, Clicks

\* A selection that the handler stores is consistent with what it read.
LEMMA SavedIsConsistent ==
  ASSUME NEW read \in Sermons, NEW selection \in Seq(References),
         Consistent(read), Allowed(read, selection)
  PROVE  Consistent(Saved(read, selection))
<1> DEFINE stored == Saved(read, selection)
<1>1. /\ stored.old = read.old /\ stored.new = read.new /\ stored.selected = selection
      /\ Available(stored) = Available(read)
  BY SavedOf DEF Allowed
<1> HIDE DEF stored
<1>2. Consistent(stored)
  BY <1>1 DEF Consistent, ReadingsDiffer, Allowed
<1> QED BY <1>2 DEF stored

LEMMA RowsStep ==
  SelectionTypes /\ RowsAreConsistent /\ [Next]_vars => RowsAreConsistent'
<1> SUFFICES ASSUME SelectionTypes, RowsAreConsistent, [Next]_vars PROVE RowsAreConsistent'
  OBVIOUS
<1>1. /\ row \in Sermons /\ request.selection \in Seq(References) /\ request.sermon \in Sermons
      /\ Consistent(row) /\ (request.state = "read" => Consistent(request.sermon))
      /\ lost \in [1..MaxFailures -> Requested]
      /\ \A b \in 1..MaxFailures : lost[b].state = "read" => Consistent(lost[b].sermon)
  BY DEF SelectionTypes, RowsAreConsistent, Requested
<1>2. \A state, selection, sermon : Request(state, selection, sermon).state = state
                                    /\ Request(state, selection, sermon).sermon = sermon
  BY DEF Request
<1>3. ASSUME UNCHANGED <<row, lost>>, request'.state # "read"
      PROVE  RowsAreConsistent'
  BY <1>1, <1>3 DEF RowsAreConsistent
<1>4. CASE Extract
  <2>1. Consistent(row')
    BY <1>4, ExtractedOf DEF Extract
  <2> QED BY <1>1, <1>4, <2>1 DEF Extract, RowsAreConsistent
<1>5. CASE ReadSermon
  <2>1. request'.sermon = row /\ UNCHANGED <<row, lost>>
    BY <1>2, <1>5 DEF ReadSermon
  <2> QED BY <1>1, <2>1 DEF RowsAreConsistent
<1>6. CASE SaveScriptureSelection
  <2> DEFINE read == request.sermon
             selection == request.selection
  <2>1. request'.state # "read" /\ UNCHANGED lost
    BY <1>2, <1>6 DEF SaveScriptureSelection
  <2>2. CASE Allowed(read, selection)
    <3>1. row' = Saved(read, selection) /\ Consistent(read)
      BY <1>1, <1>6, <2>2 DEF SaveScriptureSelection
    <3>2. Consistent(row')
      BY <1>1, <2>2, <3>1, SavedIsConsistent
    <3> QED BY <1>1, <2>1, <3>2 DEF RowsAreConsistent
  <2>3. CASE ~Allowed(read, selection)
    <3>1. UNCHANGED row
      BY <1>6, <2>3 DEF SaveScriptureSelection
    <3> QED BY <1>3, <2>1, <3>1
  <2> QED BY <2>2, <2>3
<1>7. CASE Reload
  BY <1>2, <1>3, <1>7 DEF Reload
<1>8. CASE StoreFails
  BY <1>2, <1>3, <1>8 DEF StoreFails
<1>9. CASE ConnectionBreaks
  <2>1. request'.state # "read" /\ UNCHANGED row
    BY <1>2, <1>9 DEF ConnectionBreaks
  <2>2. \A b \in 1..MaxFailures : lost'[b] = lost[b] \/ lost'[b] = request
    BY <1>1, <1>9 DEF ConnectionBreaks
  <2> QED BY <1>1, <2>1, <2>2 DEF RowsAreConsistent
<1>10. ASSUME NEW b \in 1..MaxFailures, LostReads(b) \/ LostSaves(b)
       PROVE  RowsAreConsistent'
  <2>1. UNCHANGED request
    BY <1>10, LostHandler
  <2>2. lost[b].selection \in Seq(References) /\ lost[b].sermon \in Sermons
    BY <1>1 DEF Requested
  <2>3. Consistent(row')
    BY <1>1, <1>10, <2>2, LostHandler, SavedIsConsistent
  <2>4. /\ \A c \in 1..MaxFailures \ {b} : lost'[c] = lost[c]
        /\ lost'[b] = NoRequest \/ lost'[b] = Request("read", lost[b].selection, row)
    BY <1>1, <1>10, LostHandler
  <2>5. NoRequest.state # "read"
    BY <1>2 DEF NoRequest
  <2> QED BY <1>1, <1>2, <2>1, <2>3, <2>4, <2>5 DEF RowsAreConsistent
<1>11. CASE Refresh
  BY <1>1, <1>11 DEF Refresh, RowsAreConsistent
<1>12. CASE ScriptureSaveFinished
  <2>1. UNCHANGED <<row, lost>> /\ (request' = NoRequest \/ \E s : Send(s))
    BY <1>12 DEF ScriptureSaveFinished
  <2>2. request'.state # "read"
    BY <1>2, <2>1 DEF NoRequest, Send
  <2> QED BY <1>3, <2>1, <2>2
<1>13. CASE ScriptureSaveFailed
  BY <1>2, <1>3, <1>13 DEF ScriptureSaveFailed, NoRequest
<1>14. CASE RetryScriptureSave
  BY <1>2, <1>3, <1>14 DEF RetryScriptureSave, Send
<1>15. ASSUME NEW reference \in ToSet(Offered(window.sermon)), ToggleScripture(reference)
       PROVE  RowsAreConsistent'
  <2>1. UNCHANGED <<row, lost>> /\ (UNCHANGED request \/ \E s : Send(s))
    BY <1>15 DEF ToggleScripture
  <2>2. CASE UNCHANGED request
    BY <1>1, <2>1, <2>2 DEF RowsAreConsistent
  <2>3. ASSUME NEW s, Send(s) PROVE request'.state # "read"
    BY <1>2, <2>3 DEF Send
  <2> QED BY <1>3, <2>1, <2>2, <2>3
<1>16. CASE UNCHANGED vars
  BY <1>1, <1>16 DEF vars, RowsAreConsistent
<1> QED BY <1>4, <1>5, <1>6, <1>7, <1>8, <1>9, <1>10, <1>11, <1>12, <1>13, <1>14,
           <1>15, <1>16
        DEF Next, Handles, Fails, GoesOn, Answered, Clicks

LEMMA DraftStep ==
  SelectionTypes /\ DraftIsKept /\ [Next]_vars => DraftIsKept'
<1> SUFFICES ASSUME SelectionTypes, DraftIsKept, [Next]_vars PROVE DraftIsKept'
  OBVIOUS
<1>1. /\ window.saving \in BOOLEAN /\ window.error \in BOOLEAN
      /\ (window.saving <=> request.state # "none")
      /\ (window.error => ~window.saving)
      /\ (window.draft = NoDraft <=> ~window.saving /\ ~window.error)
      /\ window \in [sermon : Sermons, draft : Drafts, saving : BOOLEAN, error : BOOLEAN]
  BY DEF SelectionTypes, DraftIsKept
<1>2. \A state, selection, sermon : Request(state, selection, sermon).state = state
  BY DEF Request
<1>3. NoRequest.state = "none" /\ \A s : Send(s) => request'.state = "sent"
  BY <1>2 DEF NoRequest, Send
<1>4. ASSUME UNCHANGED window, request'.state # "none", request.state # "none"
      PROVE  DraftIsKept'
  BY <1>1, <1>4 DEF DraftIsKept
<1>5. ASSUME UNCHANGED <<window, request>>
      PROVE  DraftIsKept'
  BY <1>1, <1>5 DEF DraftIsKept
<1>6. CASE Extract
  BY <1>5, <1>6 DEF Extract
<1>7. CASE ReadSermon
  BY <1>2, <1>4, <1>7 DEF ReadSermon
<1>8. CASE SaveScriptureSelection
  BY <1>2, <1>4, <1>8 DEF SaveScriptureSelection
<1>9. CASE Reload
  BY <1>2, <1>4, <1>9 DEF Reload
<1>10. CASE Fails
  BY <1>2, <1>4, <1>10 DEF Fails, StoreFails, ConnectionBreaks
<1>11. CASE GoesOn
  BY <1>5, <1>11, LostHandler DEF GoesOn
<1>12. CASE Refresh
  BY <1>1, <1>12 DEF Refresh, DraftIsKept
<1>13. CASE ScriptureSaveFinished
  <2>1. CASE Latest(request.selection, request.sermon) = request.selection
    BY <1>3, <1>13, <2>1 DEF ScriptureSaveFinished, DraftIsKept
  <2>2. CASE Latest(request.selection, request.sermon) # request.selection
    <3>1. window' = [window EXCEPT !.sermon = request.sermon, !.error = FALSE]
          /\ request'.state = "sent" /\ request.state = "answered"
      BY <1>3, <1>13, <2>2 DEF ScriptureSaveFinished
    <3>2. window'.saving = window.saving /\ window'.error = FALSE /\ window'.draft = window.draft
      BY <1>1, <3>1
    <3> QED BY <1>1, <3>1, <3>2 DEF DraftIsKept
  <2> QED BY <2>1, <2>2
<1>14. CASE ScriptureSaveFailed
  <2>1. window'.saving = FALSE /\ window'.error = TRUE /\ window'.draft = window.draft
        /\ request.state = "failed" /\ request'.state = "none"
    BY <1>1, <1>3, <1>14 DEF ScriptureSaveFailed, SaveFailed
  <2> QED BY <1>1, <2>1 DEF DraftIsKept
<1>15. CASE RetryScriptureSave
  <2>1. window'.saving = TRUE /\ window'.error = FALSE /\ window'.draft = window.draft
        /\ window.error /\ request'.state = "sent"
    BY <1>1, <1>3, <1>15 DEF RetryScriptureSave
  <2> QED BY <1>1, <2>1 DEF DraftIsKept
<1>16. ASSUME NEW reference, ToggleScripture(reference)
       PROVE  DraftIsKept'
  <2>1. PICK updated : /\ window' = [window EXCEPT !.draft = <<updated>>, !.error = FALSE, !.saving = TRUE]
                       /\ IF window.saving THEN UNCHANGED request ELSE \E s : Send(s)
    BY <1>16 DEF ToggleScripture
  <2>2. window'.draft = <<updated>> /\ window'.error = FALSE /\ window'.saving = TRUE
    BY <1>1, <2>1
  <2>3. <<updated>> # NoDraft
    BY DEF NoDraft
  <2>4. request'.state # "none"
    BY <1>1, <1>3, <2>1
  <2> QED BY <2>2, <2>3, <2>4 DEF DraftIsKept
<1>17. CASE UNCHANGED vars
  BY <1>5, <1>17 DEF vars
<1> QED BY <1>6, <1>7, <1>8, <1>9, <1>10, <1>11, <1>12, <1>13, <1>14, <1>15, <1>16,
           <1>17
        DEF Next, Handles, Answered, Clicks

LEMMA ChoiceStep ==
  SelectionTypes /\ DraftIsKept /\ ChoiceIsKept /\ [Next]_vars => ChoiceIsKept'
<1> SUFFICES ASSUME SelectionTypes, DraftIsKept, ChoiceIsKept, [Next]_vars PROVE ChoiceIsKept'
  OBVIOUS
<1>1. /\ row \in Sermons /\ request.selection \in Seq(References) /\ request.sermon \in Sermons
      /\ window.sermon \in Sermons /\ lost \in [1..MaxFailures -> Requested]
      /\ window \in [sermon : Sermons, draft : Drafts, saving : BOOLEAN, error : BOOLEAN]
      /\ (window.saving <=> request.state # "none")
      /\ (window.draft = NoDraft <=> ~window.saving /\ ~window.error)
  BY DEF SelectionTypes, DraftIsKept, Requested
<1>2. wanted # NoDraft =>
        /\ Offered(window.sermon) = Offered(row)
        /\ window.draft # NoDraft => window.draft = wanted
        /\ request.state \in {"read", "answered"} => Offered(request.sermon) = Offered(row)
        /\ request.state \in {"saved", "answered"} /\ ~undone => row.selected = request.selection
        /\ window.draft = NoDraft /\ ~undone
             => ToSet(row.selected) = wanted[1] \cap ToSet(Offered(row))
  BY DEF ChoiceIsKept
<1>3. \A state, selection, sermon : /\ Request(state, selection, sermon).state = state
                                    /\ Request(state, selection, sermon).selection = selection
                                    /\ Request(state, selection, sermon).sermon = sermon
  BY DEF Request
<1>4. NoRequest.state = "none" /\ \A s : Send(s) => request'.state = "sent"
  BY <1>3 DEF NoRequest, Send
<1>5. CASE Extract
  BY <1>5 DEF Extract, ChoiceIsKept
<1>6. CASE ReadSermon
  <2>1. request'.state = "read" /\ request'.sermon = row /\ UNCHANGED <<row, window, wanted, undone>>
    BY <1>3, <1>6 DEF ReadSermon
  <2> QED BY <1>2, <2>1 DEF ChoiceIsKept
<1>7. CASE SaveScriptureSelection
  <2> DEFINE read == request.sermon
             selection == request.selection
  <2>1. request.state = "read" /\ UNCHANGED <<window, wanted>>
    BY <1>7 DEF SaveScriptureSelection
  <2>2. window.draft # NoDraft
    BY <1>1, <2>1
  <2>3. CASE Allowed(read, selection)
    <3>1. row' = Saved(read, selection) /\ request'.state = "saved" /\ request'.selection = selection
      BY <1>3, <1>7, <2>3 DEF SaveScriptureSelection
    <3>2. row'.selected = selection /\ Offered(row') = Offered(read)
      BY <1>1, <2>3, <3>1, SavedOf DEF Allowed
    <3> QED BY <1>2, <2>1, <2>2, <3>1, <3>2 DEF ChoiceIsKept
  <2>4. CASE ~Allowed(read, selection)
    <3>1. UNCHANGED <<row, undone>> /\ request'.state = "failed"
      BY <1>3, <1>7, <2>4 DEF SaveScriptureSelection
    <3> QED BY <1>2, <2>1, <2>2, <3>1 DEF ChoiceIsKept
  <2> QED BY <2>3, <2>4
<1>8. CASE Reload
  <2>1. /\ request.state = "saved" /\ request'.state = "answered" /\ request'.sermon = row
        /\ request'.selection = request.selection /\ UNCHANGED <<row, window, wanted, undone>>
    BY <1>3, <1>8 DEF Reload
  <2> QED BY <1>2, <2>1 DEF ChoiceIsKept
<1>9. CASE Fails
  <2>1. request'.state = "failed" /\ UNCHANGED <<row, window, wanted, undone>>
    BY <1>3, <1>9 DEF Fails, StoreFails, ConnectionBreaks
  <2> QED BY <1>2, <2>1 DEF ChoiceIsKept
<1>10. ASSUME NEW b \in 1..MaxFailures, LostReads(b) \/ LostSaves(b)
       PROVE  ChoiceIsKept'
  <2>1. CASE UNCHANGED <<row, request, window, wanted, undone>>
    BY <1>2, <2>1 DEF ChoiceIsKept
  <2>2. CASE /\ UNCHANGED <<request, window>> /\ undone' = TRUE
             /\ wanted' = IF Offered(row') = Offered(row) THEN wanted ELSE NoDraft
    BY <1>2, <2>2 DEF ChoiceIsKept
  <2> QED BY <1>10, <2>1, <2>2, LostHandler
<1>11. CASE Refresh
  <2>1. window'.sermon = row /\ window'.draft = window.draft /\ UNCHANGED <<row, request, wanted, undone>>
    BY <1>1, <1>11 DEF Refresh
  <2> QED BY <1>2, <2>1 DEF ChoiceIsKept
<1>12. CASE ScriptureSaveFinished
  <2> DEFINE latest == Latest(request.selection, request.sermon)
  <2>1. request.state = "answered" /\ UNCHANGED <<row, wanted, undone>>
    BY <1>12 DEF ScriptureSaveFinished
  <2>2. window.draft # NoDraft
    BY <1>1, <2>1
  <2>3. latest = Chosen(window.draft[1], request.sermon)
    BY <2>2 DEF Latest
  <2>4. ToSet(latest) = window.draft[1] \cap ToSet(Offered(request.sermon))
    BY <1>1, <2>3, ChosenOf
  <2>5. CASE latest = request.selection
    <3>1. window'.sermon = request.sermon /\ window'.draft = NoDraft /\ request'.state = "none"
      BY <1>4, <1>12, <2>5 DEF ScriptureSaveFinished
    <3> HIDE DEF latest
    <3> QED BY <1>2, <2>1, <2>2, <2>4, <2>5, <3>1 DEF ChoiceIsKept
  <2>6. CASE latest # request.selection
    <3>1. window' = [window EXCEPT !.sermon = request.sermon, !.error = FALSE]
          /\ request'.state = "sent"
      BY <1>4, <1>12, <2>6 DEF ScriptureSaveFinished
    <3>2. window'.sermon = request.sermon /\ window'.draft = window.draft
      BY <1>1, <3>1
    <3> HIDE DEF latest
    <3> QED BY <1>2, <2>1, <2>2, <3>1, <3>2 DEF ChoiceIsKept
  <2> QED BY <2>5, <2>6
<1>13. CASE ScriptureSaveFailed
  <2>1. window'.sermon = window.sermon /\ window'.draft = window.draft
        /\ request'.state = "none" /\ UNCHANGED <<row, wanted, undone>>
    BY <1>1, <1>4, <1>13 DEF ScriptureSaveFailed, SaveFailed
  <2> QED BY <1>2, <2>1 DEF ChoiceIsKept
<1>14. CASE RetryScriptureSave
  <2>1. window'.sermon = window.sermon /\ window'.draft = window.draft
        /\ request'.state = "sent" /\ UNCHANGED <<row, wanted, undone>>
    BY <1>1, <1>4, <1>14 DEF RetryScriptureSave
  <2> QED BY <1>2, <2>1 DEF ChoiceIsKept
<1>15. ASSUME NEW reference, ToggleScripture(reference)
       PROVE  ChoiceIsKept'
  <2>1. PICK updated :
          /\ wanted' = (IF Offered(window.sermon) = Offered(row) /\ (window.saving => wanted # NoDraft)
                        THEN <<updated>> ELSE NoDraft)
          /\ window' = [window EXCEPT !.draft = <<updated>>, !.error = FALSE, !.saving = TRUE]
          /\ IF window.saving THEN UNCHANGED request ELSE \E s : Send(s)
          /\ UNCHANGED <<row, undone>>
    BY <1>15 DEF ToggleScripture
  <2>2. window'.sermon = window.sermon /\ window'.draft = <<updated>>
    BY <1>1, <2>1
  <2>3. <<updated>> # NoDraft
    BY DEF NoDraft
  <2>4. ASSUME wanted' # NoDraft
        PROVE  /\ wanted' = <<updated>>
               /\ Offered(window.sermon) = Offered(row)
               /\ \/ wanted # NoDraft /\ UNCHANGED request
                  \/ request'.state = "sent"
    BY <1>4, <2>1, <2>4
  <2> QED BY <1>2, <2>1, <2>2, <2>3, <2>4 DEF ChoiceIsKept
<1>16. CASE UNCHANGED vars
  BY <1>2, <1>16 DEF vars, ChoiceIsKept
<1> QED BY <1>5, <1>6, <1>7, <1>8, <1>9, <1>10, <1>11, <1>12, <1>13, <1>14, <1>15,
           <1>16
        DEF Next, Handles, GoesOn, Answered, Clicks

-----------------------------------------------------------------------------
(* The theorems of Selection *)

SelectionInvariant == SelectionTypes /\ RowsAreConsistent /\ DraftIsKept /\ ChoiceIsKept

\* The strengthened invariant: the row and what a handler has read, its connection
\* broken or not, are consistent, and the draft and the choice are kept until the
\* awaited save has stored them.
THEOREM SelectionInvariantHolds == Spec => []SelectionInvariant
<1>1. Init => SelectionInvariant
  BY SelectionStart DEF SelectionInvariant
<1>2. SelectionInvariant /\ [Next]_vars => SelectionInvariant'
  BY SelectionTypesStep, RowsStep, DraftStep, ChoiceStep DEF SelectionInvariant
<1> QED BY <1>1, <1>2, PTL DEF Spec

\* However saves, lost ones too, and extractions overlap, a stored selection is of
\* what the sermon offers, each reference once, so that it can be saved again.
THEOREM StoredSelection == Spec => []SelectionIsAvailable
<1>1. SelectionInvariant => SelectionIsAvailable
  BY DEF SelectionInvariant, RowsAreConsistent, Consistent, SelectionIsAvailable
<1> QED BY <1>1, SelectionInvariantHolds, PTL

\* The server accepts every reference that a window with the stored row offers.
THEOREM AcceptedOffers == Spec => []OfferedIsAccepted
<1>1. SelectionInvariant => OfferedIsAccepted
  <2> SUFFICES ASSUME SelectionInvariant, ReadingsDiffer(row)
               PROVE  ToSet(Offered(row)) \subseteq ToSet(Available(row))
    BY DEF OfferedIsAccepted, ReadingsDiffer
  <2>1. row \in Sermons /\ ToSet(row.old \o row.new) \subseteq ToSet(Available(row))
    BY DEF SelectionInvariant, SelectionTypes, RowsAreConsistent, Consistent
  <2>2. ToSet(Offered(row)) \subseteq ToSet(row.old \o row.new) \cup ToSet(Available(row))
    BY <2>1, OfferedOf
  <2> QED BY <2>1, <2>2
<1> QED BY <1>1, SelectionInvariantHolds, PTL

\* Toggles made while a save is under way are saved by the next one: a window
\* without a save and an error shows that the choice is stored, unless a handler
\* whose connection broke has written last.
THEOREM StoredToggles == Spec => []ToggleIsNotLost
<1>1. SelectionInvariant => ToggleIsNotLost
  BY DEF SelectionInvariant, DraftIsKept, ChoiceIsKept, ToggleIsNotLost
<1> QED BY <1>1, SelectionInvariantHolds, PTL

=============================================================================
