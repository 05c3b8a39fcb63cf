--------------------------- MODULE TimelineProofs ---------------------------
(***************************************************************************)
(* Every invariant of Timeline, for every recording, transcription, draft  *)
(* and number of changes.  A draft in the store passed Validate, and that  *)
(* is the inductive invariant: breakpoints ascend by MinGap at least.      *)
(*                                                                         *)
(* SpeakerDraft, keptRanges and MapTranscript are loops, here folds and    *)
(* sets put in order.  Each is first described as the sequence of its      *)
(* steps (Tried, Collected, Summed, Composed), about which induction on    *)
(* the number of steps proves what holds after all of them.                *)
(***************************************************************************)
EXTENDS Timeline, OrderedProofs, SequenceTheorems

\* What the sort by time yields, of breakpoints that leave no ties.
LEMMA InTimeOrder ==
  ASSUME NEW M, IsFiniteSet(M), \A m \in M : m.time \in Int,
         \A a, b \in M : a # b => Precedes(a, b) \/ Precedes(b, a)
  PROVE  LET s == InOrder(M, Precedes)
         IN  /\ Cardinality(M) \in Nat
             /\ s \in [1..Cardinality(M) -> M]
             /\ \A x \in M : \E n \in 1..Cardinality(M) : s[n] = x
             /\ \A m, n \in 1..Cardinality(M) : m < n <=> Precedes(s[m], s[n])
<1> DEFINE s == InOrder(M, Precedes)
           R == {p \in M \X M : Precedes(p[1], p[2])}
<1>1. \A a, b \in M : <<a, b>> \in R <=> Precedes(a, b)
  OBVIOUS
<1>2. Total(M, R)
  <2>1. \A x \in M : ~Precedes(x, x)
    BY DEF Precedes
  <2>2. \A x, y, z \in M : Precedes(x, y) /\ Precedes(y, z) => Precedes(x, z)
    BY DEF Precedes
  <2> HIDE DEF R
  <2> QED BY <1>1, <2>1, <2>2 DEF Total
<1>3. \A x \in M : Preceding(M, Precedes, x) = Below(M, R, x)
  BY <1>1 DEF Preceding, Below
<1>4. s = [n \in 1..Cardinality(M) |->
             CHOOSE x \in M : Cardinality(Preceding(M, Precedes, x)) = n - 1]
  BY DEF InOrder
<1>5. s = [n \in 1..Cardinality(M) |-> s[n]]
  BY <1>4
<1>6. ASSUME NEW n \in 1..Cardinality(M), NEW y \in M, Cardinality(Below(M, R, y)) = n - 1
      PROVE  s[n] \in M /\ Cardinality(Below(M, R, s[n])) = n - 1
  <2>1. Cardinality(Preceding(M, Precedes, y)) = n - 1
    BY <1>3, <1>6
  <2>2. s[n] = CHOOSE x \in M : Cardinality(Preceding(M, Precedes, x)) = n - 1
    BY <1>4
  <2>3. s[n] \in M /\ Cardinality(Preceding(M, Precedes, s[n])) = n - 1
    BY <2>1, <2>2
  <2> QED BY <1>3, <2>3
<1> HIDE DEF s, R
<1>7. Ranks(M, R, s)
  BY <1>5, <1>6 DEF Ranks
<1>8. Lists(M, R, s)
  BY <1>2, <1>7, RanksList
<1>9. /\ Cardinality(M) \in Nat
      /\ s \in [1..Cardinality(M) -> M]
      /\ \A x \in M : \E n \in 1..Cardinality(M) : s[n] = x
      /\ \A m, n \in 1..Cardinality(M) : m < n <=> <<s[m], s[n]>> \in R
  BY <1>8 DEF Lists
<1>10. \A n \in 1..Cardinality(M) : s[n] \in M
  BY <1>9
<1> QED BY <1>1, <1>9, <1>10 DEF s

-----------------------------------------------------------------------------
(* The fold of Marks *)

\* The breakpoints SpeakerDraft begins with.
Kept0(d, t, preserveEdited) ==
  {Beginning, Ending} \cup (IF preserveEdited THEN Preserved(d, t) ELSE {})

\* From base to marks in steps, each of which tries a candidate.
Tried(cs, n, All, base, marks) ==
  \E G \in [0..n -> SUBSET All] :
    /\ G[0] = base
    /\ \A k \in 1..n : G[k] = IF Fits(cs[k], G[k - 1]) THEN G[k - 1] \cup {cs[k]} ELSE G[k - 1]
    /\ marks = G[n]

\* Marks takes the candidates one by one.
LEMMA MarksSteps ==
  ASSUME NEW d, NEW t, NEW preserveEdited, NEW n \in Nat,
         NEW cs, cs = InOrder(Candidates(t), Precedes), DOMAIN cs = 1..n,
         NEW All, Kept0(d, t, preserveEdited) \subseteq All, \A k \in 1..n : cs[k] \in All
  PROVE  Tried(cs, n, All, Kept0(d, t, preserveEdited), Marks(d, t, preserveEdited))
<1> DEFINE V == SUBSET All
           base == Kept0(d, t, preserveEdited)
           Step(marks, c) == IF Fits(c, marks) THEN marks \cup {c} ELSE marks
           F == [p \in V \X (1..n) |-> Step(p[1], cs[p[2]])]
           it == CHOOSE g : g = [s \in SUBSET (1..n) |->
                   IF s = {} THEN base ELSE Step(g[s \ {Max(s)}], cs[Max(s)])]
<1>1. F \in [V \X (1..n) -> V]
  OBVIOUS
<1>2. \A m \in V, k \in 1..n : F[<<m, k>>] = Step(m, cs[k])
  OBVIOUS
<1>3. base \in V
  OBVIOUS
<1>4. Marks(d, t, preserveEdited) = it[1..n]
  BY DEF Marks, FoldLeft, MapThenFoldSet, Kept0
<1>5. \A s \in SUBSET (1..n) : s # {} => Max(s) \in s /\ Max(s) \in 1..n
  BY MaxOfPart
<1> HIDE DEF V, F, Step, base
<1>6. PICK g : Recursion(g, n, V, base, F)
  BY <1>1, <1>3, FoldHasSolution
<1>7. ASSUME NEW s \in SUBSET (1..n)
      PROVE  g[s] = IF s = {} THEN base ELSE Step(g[s \ {Max(s)}], cs[Max(s)])
  <2>1. s # {} => g[s \ {Max(s)}] \in V
    BY <1>6 DEF Recursion
  <2> QED BY <1>2, <1>5, <1>6, <2>1 DEF Recursion
<1>8. g = [s \in SUBSET (1..n) |->
             IF s = {} THEN base ELSE Step(g[s \ {Max(s)}], cs[Max(s)])]
  BY <1>6, <1>7 DEF Recursion
<1>9. it = [s \in SUBSET (1..n) |->
              IF s = {} THEN base ELSE Step(it[s \ {Max(s)}], cs[Max(s)])]
  BY <1>8
<1> HIDE DEF it
<1>10. it[{}] = base
  BY <1>9
<1>11. ASSUME NEW k \in 1..n, it[1..(k - 1)] \in V
       PROVE  it[1..k] = F[<<it[1..(k - 1)], k>>]
  <2>1. 1..k \in SUBSET (1..n) /\ k \in 1..k /\ (1..k) \ {k} = 1..(k - 1)
    OBVIOUS
  <2>2. Max(1..k) = k
    BY <2>1, MaxOfPrefix
  <2>3. it[1..k] = Step(it[1..(k - 1)], cs[k])
    BY <1>9, <2>1, <2>2
  <2> QED BY <1>2, <1>11, <2>3
<1>12. PICK G : Iteration(G, n, V, base, F) /\ Agrees(G, it, n)
  <2>1. Unfolds(it, n, V, base, F)
    BY <1>10, <1>11 DEF Unfolds
  <2> QED BY <1>1, <1>3, <2>1, FoldSteps
<1>13. G \in [0..n -> V] /\ G[0] = base
  BY <1>12 DEF Iteration
<1>14. ASSUME NEW k \in 1..n
       PROVE  G[k] = Step(G[k - 1], cs[k])
  <2>1. k - 1 \in 0..n
    OBVIOUS
  <2>2. G[k - 1] \in V /\ G[k] = F[<<G[k - 1], k>>]
    BY <1>12, <1>13, <2>1 DEF Iteration
  <2> QED BY <1>2, <2>2
<1> QED BY <1>4, <1>12, <1>13, <1>14 DEF Agrees, V, Step, base, Tried

-----------------------------------------------------------------------------
(* Candidates *)

LEMMA MarkFields ==
  ASSUME NEW time, NEW kind, NEW edited, NEW origin
  PROVE  LET m == Mark(time, kind, edited, origin)
         IN  m.time = time /\ m.kind = kind /\ m.edited = edited /\ m.source = origin
BY DEF Mark

LEMMA SegmentTypes ==
  ASSUME NEW t \in Transcriptions
  PROVE  /\ Len(t.segments) \in Nat /\ DOMAIN t.segments = 1..Len(t.segments)
         /\ IsFiniteSet(DOMAIN t.segments)
         /\ \A i \in DOMAIN t.segments : t.segments[i] \in Passages
         /\ \A s \in Range(t.segments) : \E i \in DOMAIN t.segments : s = t.segments[i]
<1>1. t.segments \in Seq(Passages)
  BY DEF Transcriptions
<1>2. Len(t.segments) \in Nat /\ DOMAIN t.segments = 1..Len(t.segments)
  BY <1>1
<1>3. IsFiniteSet(DOMAIN t.segments)
  BY <1>2, FS_Interval
<1>4. \A i \in DOMAIN t.segments : t.segments[i] \in Passages
  BY <1>1, <1>2
<1> QED BY <1>2, <1>3, <1>4 DEF Range

LEMMA SuggestedTimes ==
  ASSUME NEW t \in Transcriptions
  PROVE  /\ \A time \in Starts(t) : \E i \in DOMAIN t.segments : time = t.segments[i].start
         /\ \A time \in Pauses(t) : \E i \in DOMAIN t.segments : time = t.segments[i].end
         /\ \A time \in Starts(t) \cup Pauses(t) : time \in Nat
<1>1. ASSUME NEW time \in Starts(t)
      PROVE  \E i \in DOMAIN t.segments : time = t.segments[i].start
  <2>1. PICK s \in Range(t.segments) : time = s.start
    BY <1>1 DEF Starts
  <2>2. PICK i \in DOMAIN t.segments : s = t.segments[i]
    BY SegmentTypes
  <2> QED BY <2>1, <2>2
<1>2. ASSUME NEW time \in Pauses(t)
      PROVE  \E i \in DOMAIN t.segments : time = t.segments[i].end
  BY <1>2 DEF Pauses, Speaking
<1>3. \A i \in DOMAIN t.segments : t.segments[i].start \in Nat /\ t.segments[i].end \in Nat
  BY SegmentTypes DEF Passages
<1>4. ASSUME NEW time \in Starts(t) \cup Pauses(t)
      PROVE  time \in Nat
  BY <1>1, <1>2, <1>3
<1> QED BY <1>1, <1>2, <1>4

LEMMA CandidateCases ==
  ASSUME NEW t, NEW c
  PROVE  c \in Candidates(t) <=>
           \/ \E time \in Starts(t) : c = Mark(time, "speaker", FALSE, time)
           \/ \E time \in Pauses(t) : c = Mark(time, "silence_start", FALSE, time)
BY Zenon DEF Candidates

LEMMA CandidateTypes ==
  ASSUME NEW t \in Transcriptions, NEW c \in Candidates(t)
  PROVE  /\ c.time \in Nat /\ c.kind \in {"speaker", "silence_start"}
         /\ c.edited = FALSE /\ c.source = c.time
         /\ c = Mark(c.time, c.kind, FALSE, c.time)
<1>1. CASE \E time \in Starts(t) : c = Mark(time, "speaker", FALSE, time)
  <2>1. PICK time \in Starts(t) : c = Mark(time, "speaker", FALSE, time)
    BY <1>1
  <2>2. c.time = time /\ c.kind = "speaker" /\ c.edited = FALSE /\ c.source = time
    BY <2>1 DEF Mark
  <2> QED BY <2>1, <2>2, SuggestedTimes
<1>2. CASE \E time \in Pauses(t) : c = Mark(time, "silence_start", FALSE, time)
  <2>1. PICK time \in Pauses(t) : c = Mark(time, "silence_start", FALSE, time)
    BY <1>2
  <2>2. c.time = time /\ c.kind = "silence_start" /\ c.edited = FALSE /\ c.source = time
    BY <2>1 DEF Mark
  <2> QED BY <2>1, <2>2, SuggestedTimes
<1> QED BY <1>1, <1>2, CandidateCases

LEMMA CandidatesDiffer ==
  ASSUME NEW t \in Transcriptions,
         NEW a \in Candidates(t), NEW b \in Candidates(t), a # b
  PROVE  Precedes(a, b) \/ Precedes(b, a)
<1>1. /\ a.time \in Nat /\ a.kind \in {"speaker", "silence_start"}
      /\ a = Mark(a.time, a.kind, FALSE, a.time)
  BY CandidateTypes
<1>2. /\ b.time \in Nat /\ b.kind \in {"speaker", "silence_start"}
      /\ b = Mark(b.time, b.kind, FALSE, b.time)
  BY CandidateTypes
<1>3. a.time # b.time \/ a.kind # b.kind
  BY <1>1, <1>2
<1> QED BY <1>1, <1>2, <1>3 DEF Precedes

LEMMA CandidatesAreFinite ==
  ASSUME NEW t \in Transcriptions
  PROVE  IsFiniteSet(Candidates(t))
<1> DEFINE D == DOMAIN t.segments
           f == [i \in D |-> Mark(t.segments[i].start, "speaker", FALSE, t.segments[i].start)]
           g == [i \in D |-> Mark(t.segments[i].end, "silence_start", FALSE, t.segments[i].end)]
           A == {Mark(time, "speaker", FALSE, time) : time \in Starts(t)}
           B == {Mark(time, "silence_start", FALSE, time) : time \in Pauses(t)}
<1>1. IsFiniteSet(D)
  BY SegmentTypes
<1>2. ASSUME NEW y \in A
      PROVE  \E i \in D : y = f[i]
  <2>1. PICK time \in Starts(t) : y = Mark(time, "speaker", FALSE, time)
    BY <1>2
  <2>2. PICK i \in D : time = t.segments[i].start
    BY SuggestedTimes
  <2> QED BY <2>1, <2>2
<1>3. ASSUME NEW y \in B
      PROVE  \E i \in D : y = g[i]
  <2>1. PICK time \in Pauses(t) : y = Mark(time, "silence_start", FALSE, time)
    BY <1>3
  <2>2. PICK i \in D : time = t.segments[i].end
    BY SuggestedTimes
  <2> QED BY <2>1, <2>2
<1>4. f = [i \in D |-> f[i]] /\ g = [i \in D |-> g[i]]
  OBVIOUS
<1>5. Candidates(t) = A \cup B
  BY DEF Candidates
<1> HIDE DEF D, f, g, A, B
<1>6. IsFiniteSet(A) /\ IsFiniteSet(B)
  BY <1>1, <1>2, <1>3, <1>4, ImageIsFinite
<1> QED BY <1>5, <1>6, FS_Union

\* The candidates in the order in which they are tried.
LEMMA CandidatesInOrder ==
  ASSUME NEW t \in Transcriptions
  PROVE  LET cs == InOrder(Candidates(t), Precedes)
             n  == Cardinality(Candidates(t))
         IN  /\ n \in Nat /\ DOMAIN cs = 1..n
             /\ \A k \in 1..n : cs[k] \in Candidates(t)
             /\ \A c \in Candidates(t) : \E k \in 1..n : cs[k] = c
             /\ \A i, k \in 1..n : i < k <=> Precedes(cs[i], cs[k])
<1>1. \A c \in Candidates(t) : c.time \in Int
  <2> TAKE c \in Candidates(t)
  <2>1. c.time \in Nat
    BY CandidateTypes
  <2> QED BY <2>1
<1>2. IsFiniteSet(Candidates(t))
  BY CandidatesAreFinite
<1>3. \A a, b \in Candidates(t) : a # b => Precedes(a, b) \/ Precedes(b, a)
  BY CandidatesDiffer
<1> QED BY <1>1, <1>2, <1>3, InTimeOrder

-----------------------------------------------------------------------------
(* Drafts *)

LEMMA DraftTypes ==
  ASSUME NEW d \in Drafts, Validate(d)
  PROVE  LET n == Len(d.keep)
         IN  /\ n \in Nat \ {0} /\ DOMAIN d.keep = 1..n /\ SectionsOf(d) = 1..n
             /\ Len(d.breakpoints) = n + 1 /\ DOMAIN d.breakpoints = 1..(n + 1)
             /\ Interior(d) = 2..n
             /\ \A i \in 1..n : d.keep[i] \in BOOLEAN
             /\ \A i \in 1..(n + 1) : d.breakpoints[i] \in Breakpoints /\ At(d, i) \in Times
             /\ d.breakpoints[1].kind = "start" /\ At(d, 1) = 0
             /\ d.breakpoints[n + 1].kind = "end" /\ At(d, n + 1) = Duration
<1>1. d.breakpoints \in Seq(Breakpoints) /\ d.keep \in Seq(BOOLEAN)
  BY DEF Drafts
<1>2. Len(d.breakpoints) >= 2 /\ Len(d.keep) = Len(d.breakpoints) - 1
  BY DEF Validate
<1>3. /\ Len(d.breakpoints) \in Nat /\ DOMAIN d.breakpoints = 1..Len(d.breakpoints)
      /\ Len(d.keep) \in Nat /\ DOMAIN d.keep = 1..Len(d.keep)
  BY <1>1
<1>4. Len(d.breakpoints) = Len(d.keep) + 1
  BY <1>2, <1>3
<1>5. \A i \in 1..Len(d.keep) : d.keep[i] \in BOOLEAN
  BY <1>1, <1>3
<1>6. \A i \in 1..Len(d.breakpoints) : d.breakpoints[i] \in Breakpoints
  BY <1>1, <1>3
<1>7. \A i \in 1..Len(d.breakpoints) : At(d, i) \in Times
  BY <1>6 DEF At, Breakpoints
<1>8. SectionsOf(d) = 1..Len(d.keep) /\ Interior(d) = 2..Len(d.keep)
  BY <1>2, <1>3, <1>4 DEF SectionsOf, Interior
<1>9. /\ d.breakpoints[1].kind = "start" /\ At(d, 1) = 0
      /\ d.breakpoints[Len(d.breakpoints)].kind = "end" /\ At(d, Len(d.breakpoints)) = Duration
  BY DEF Validate, Last, At
<1> QED BY <1>2, <1>3, <1>4, <1>5, <1>6, <1>7, <1>8, <1>9

\* Breakpoints apart from each other are at least MinGap apart.
LEMMA BreakpointsAscend ==
  ASSUME NEW d \in Drafts, Validate(d),
         NEW i \in 1..(Len(d.keep) + 1), NEW j \in 1..(Len(d.keep) + 1), i < j
  PROVE  At(d, j) - At(d, i) >= MinGap
<1> DEFINE n == Len(d.keep)
           Far == {k \in 0..(n - i) : At(d, i + k + 1) - At(d, i) >= MinGap}
<1>1. n \in Nat /\ i \in Nat /\ j \in Nat /\ i <= n /\ n - i \in Nat /\ MinGap \in Nat
  BY DraftTypes, TimesAssumption
<1>2. ASSUME NEW k \in 1..n
      PROVE  At(d, k + 1) - At(d, k) >= MinGap /\ At(d, k) \in Nat /\ At(d, k + 1) \in Nat
  <2>1. k \in 1..(n + 1) /\ k + 1 \in 1..(n + 1)
    BY <1>1
  <2>2. At(d, k) \in Times /\ At(d, k + 1) \in Times
    BY <2>1, DraftTypes
  <2>3. k \in SectionsOf(d)
    BY DraftTypes
  <2> QED BY <2>2, <2>3 DEF Validate, Times
<1>3. 0 \in Far
  <2>1. i \in 1..n /\ i + 0 + 1 = i + 1
    BY <1>1
  <2>2. At(d, i + 1) - At(d, i) >= MinGap
    BY <1>2, <2>1
  <2>3. At(d, i + 0 + 1) - At(d, i) >= MinGap
    BY <2>1, <2>2
  <2> QED BY <1>1, <2>3
<1>4. ASSUME NEW k \in 0..((n - i) - 1), k \in Far
      PROVE  k + 1 \in Far
  <2>1. i + k + 1 \in 1..n /\ i + (k + 1) + 1 = (i + k + 1) + 1 /\ k + 1 \in 0..(n - i) /\ i \in 1..n
    BY <1>1
  <2>2. At(d, (i + k + 1) + 1) - At(d, i + k + 1) >= MinGap
        /\ At(d, i + k + 1) \in Nat /\ At(d, (i + k + 1) + 1) \in Nat
    BY <1>2, <2>1
  <2>3. At(d, i) \in Nat
    BY <1>2, <2>1
  <2>4. At(d, i + k + 1) - At(d, i) >= MinGap
    BY <1>4
  <2>5. At(d, (i + k + 1) + 1) - At(d, i) >= MinGap
    BY <1>1, <2>2, <2>3, <2>4
  <2>6. At(d, i + (k + 1) + 1) - At(d, i) >= MinGap
    BY <2>1, <2>5
  <2> QED BY <2>1, <2>6
<1>5. 0..(n - i) \subseteq Far
  <2> HIDE DEF Far
  <2> QED BY <1>1, <1>3, <1>4, BoundedInduction
<1>6. j - i - 1 \in 0..(n - i) /\ i + (j - i - 1) + 1 = j
  BY <1>1
<1>7. j - i - 1 \in Far
  <2> HIDE DEF Far
  <2> QED BY <1>5, <1>6
<1>8. At(d, i + (j - i - 1) + 1) - At(d, i) >= MinGap
  BY <1>7
<1> QED BY <1>6, <1>8

-----------------------------------------------------------------------------
(* Recalled and Preserved *)

LEMMA NearestStart ==
  ASSUME NEW t \in Transcriptions, Starts(t) # {}, NEW time \in Nat
  PROVE  \E s \in Starts(t) : \A other \in Starts(t) :
           \/ Distance(s, time) < Distance(other, time)
           \/ Distance(s, time) = Distance(other, time) /\ s <= other
<1> DEFINE Distances == {n \in Nat : \E s \in Starts(t) : n = Distance(s, time)}
<1>1. \A s \in Starts(t) : s \in Nat /\ Distance(s, time) \in Nat
  BY SuggestedTimes DEF Distance
<1>2. Distances \subseteq Nat /\ Distances # {}
  <2>1. PICK s \in Starts(t) : TRUE
    OBVIOUS
  <2>2. Distance(s, time) \in Distances
    BY <1>1
  <2> QED BY <2>2
<1>3. PICK least \in Distances : \A n \in Distances : least <= n
  BY <1>2, LeastNumber
<1> DEFINE Nearest == {s \in Starts(t) : Distance(s, time) = least}
<1>4. Nearest \subseteq Nat /\ Nearest # {}
  <2>1. PICK s \in Starts(t) : least = Distance(s, time)
    BY <1>3
  <2>2. s \in Nearest
    BY <2>1
  <2>3. \A x \in Nearest : x \in Nat
    BY <1>1
  <2> HIDE DEF Nearest
  <2> QED BY <2>2, <2>3
<1>5. PICK s \in Nearest : \A n \in Nearest : s <= n
  BY <1>4, LeastNumber
<1>6. s \in Starts(t) /\ Distance(s, time) = least /\ least \in Nat
  BY <1>3, <1>5
<1>7. ASSUME NEW other \in Starts(t)
      PROVE  \/ Distance(s, time) < Distance(other, time)
             \/ Distance(s, time) = Distance(other, time) /\ s <= other
  <2>1. Distance(other, time) \in Nat /\ Distance(other, time) \in Distances
    BY <1>1
  <2>2. least <= Distance(other, time)
    BY <1>3, <2>1
  <2>3. CASE least = Distance(other, time)
    <3>1. other \in Nearest
      BY <2>3
    <3> HIDE DEF Nearest
    <3> QED BY <1>5, <1>6, <2>3, <3>1
  <2>4. CASE least # Distance(other, time)
    BY <1>6, <2>1, <2>2, <2>4
  <2> QED BY <2>3, <2>4
<1> QED BY <1>6, <1>7

\* What is recalled of a breakpoint: its place and kind, and that it was edited.
\* Recalling again changes nothing.
LEMMA RecalledTypes ==
  ASSUME NEW t \in Transcriptions, NEW b \in Breakpoints
  PROVE  LET r == Recalled(b, t)
         IN  /\ r \in Breakpoints /\ r.time = b.time /\ r.kind = b.kind
             /\ b.edited => r.edited
             /\ Recalled(r, t) = r
<1> DEFINE r == Recalled(b, t)
<1>1. b.time \in Nat /\ b.edited \in BOOLEAN
  BY DEF Breakpoints, Times
<1>2. CASE b.kind = "speaker" /\ b.source = Never /\ Starts(t) # {}
  <2> DEFINE near == CHOOSE s \in Starts(t) : \A other \in Starts(t) :
                       \/ Distance(s, b.time) < Distance(other, b.time)
                       \/ Distance(s, b.time) = Distance(other, b.time) /\ s <= other
  <2>1. near \in Starts(t)
    BY <1>1, <1>2, NearestStart
  <2>2. near \in Nat /\ near # Never
    <3>1. \A s \in Starts(t) : s \in Nat /\ s # Never
      BY SuggestedTimes DEF Never
    <3> HIDE DEF near
    <3> QED BY <2>1, <3>1
  <2>3. r = [b EXCEPT !.source = near, !.edited = @ \/ near # b.time]
    BY <1>2 DEF Recalled
  <2> HIDE DEF near
  <2>4. /\ r.time = b.time /\ r.kind = b.kind /\ r.source = near
        /\ r.edited = (b.edited \/ near # b.time)
    BY <2>3 DEF Breakpoints
  <2>5. r \in Breakpoints
    BY <1>1, <2>2, <2>3 DEF Breakpoints
  <2>6. Recalled(r, t) = r
    BY <2>2, <2>4 DEF Recalled
  <2> QED BY <2>4, <2>5, <2>6
<1>3. CASE ~(b.kind = "speaker" /\ b.source = Never /\ Starts(t) # {})
  <2>1. r = b
    BY <1>3 DEF Recalled
  <2> QED BY <2>1
<1> QED BY <1>2, <1>3

-----------------------------------------------------------------------------
(* Marks: what SpeakerDraft makes breakpoints of *)

\* Breakpoints of which Validate accepts the list: none closer than MinGap.
Apart(M) == \A a, b \in M : a # b => Distance(a.time, b.time) >= MinGap
Good(M) ==
  /\ IsFiniteSet(M) /\ M \subseteq Breakpoints
  /\ Beginning \in M /\ Ending \in M
  /\ \A b \in M \ {Beginning, Ending} : b.kind \notin {"start", "end"}
  /\ Apart(M)

\* Where a breakpoint that Kept0 has comes from in the old draft.
Placed(d, t, i) == IF i = 1 THEN Beginning
                   ELSE IF i = Len(d.breakpoints) THEN Ending
                   ELSE Recalled(d.breakpoints[i], t)

LEMMA PlacedTypes ==
  ASSUME NEW d \in Drafts, Validate(d), NEW t \in Transcriptions,
         NEW i \in 1..(Len(d.keep) + 1)
  PROVE  /\ Placed(d, t, i) \in Breakpoints /\ Placed(d, t, i).time = At(d, i)
         /\ 1 < i /\ i < Len(d.keep) + 1 => Placed(d, t, i).kind \notin {"start", "end"}
<1>1. /\ Len(d.keep) \in Nat \ {0} /\ Len(d.breakpoints) = Len(d.keep) + 1
      /\ d.breakpoints[i] \in Breakpoints
  BY DraftTypes
<1>2. CASE i = 1
  <2>1. Placed(d, t, i) = Beginning /\ At(d, i) = 0
    BY <1>1, <1>2, DraftTypes DEF Placed
  <2>2. Beginning \in Breakpoints /\ Beginning.time = 0
    BY TimesAssumption DEF Beginning, Mark, Breakpoints, Kinds, Times, Never
  <2> QED BY <1>2, <2>1, <2>2
<1>3. CASE i = Len(d.breakpoints)
  <2>1. Placed(d, t, i) = Ending /\ At(d, i) = Duration
    BY <1>1, <1>3, DraftTypes DEF Placed
  <2>2. Ending \in Breakpoints /\ Ending.time = Duration
    BY TimesAssumption DEF Ending, Mark, Breakpoints, Kinds, Times, Never
  <2> QED BY <1>1, <1>3, <2>1, <2>2
<1>4. CASE i # 1 /\ i # Len(d.breakpoints)
  <2>1. Placed(d, t, i) = Recalled(d.breakpoints[i], t)
    BY <1>4 DEF Placed
  <2>2. /\ Recalled(d.breakpoints[i], t) \in Breakpoints
        /\ Recalled(d.breakpoints[i], t).time = d.breakpoints[i].time
        /\ Recalled(d.breakpoints[i], t).kind = d.breakpoints[i].kind
    BY <1>1, RecalledTypes
  <2>3. i \in Interior(d)
    BY <1>1, <1>4, DraftTypes
  <2>4. d.breakpoints[i].kind \notin {"start", "end"}
    BY <2>3 DEF Validate
  <2> QED BY <2>1, <2>2, <2>4 DEF At
<1> QED BY <1>2, <1>3, <1>4

LEMMA PreservedPlaces ==
  ASSUME NEW d \in Drafts, Validate(d), NEW t \in Transcriptions, NEW b
  PROVE  b \in Preserved(d, t) <=>
           \E i \in 2..Len(d.keep) : /\ b = Placed(d, t, i) /\ b = Recalled(d.breakpoints[i], t)
                                     /\ b.edited \/ b.kind = "manual"
<1>1. Interior(d) = 2..Len(d.keep) /\ Len(d.breakpoints) = Len(d.keep) + 1 /\ Len(d.keep) \in Nat
  BY DraftTypes
<1>2. \A i \in 2..Len(d.keep) : Placed(d, t, i) = Recalled(d.breakpoints[i], t)
  BY <1>1 DEF Placed
<1>3. b \in Preserved(d, t) <=>
        (\E i \in Interior(d) : b = Recalled(d.breakpoints[i], t)) /\ (b.edited \/ b.kind = "manual")
  BY Zenon DEF Preserved
<1> QED BY <1>1, <1>2, <1>3

LEMMA Kept0Places ==
  ASSUME NEW d \in Drafts, Validate(d), NEW t \in Transcriptions, NEW preserveEdited,
         NEW b \in Kept0(d, t, preserveEdited)
  PROVE  \E i \in 1..(Len(d.keep) + 1) : b = Placed(d, t, i)
<1>1. Len(d.keep) \in Nat \ {0} /\ Len(d.breakpoints) = Len(d.keep) + 1
  BY DraftTypes
<1>2. b = Beginning \/ b = Ending \/ b \in Preserved(d, t)
  BY DEF Kept0
<1>3. CASE b = Beginning
  BY <1>1, <1>3 DEF Placed
<1>4. CASE b = Ending
  <2>1. Placed(d, t, Len(d.keep) + 1) = Ending
    BY <1>1 DEF Placed
  <2> QED BY <1>1, <1>4, <2>1
<1>5. CASE b \in Preserved(d, t)
  <2>1. PICK i \in 2..Len(d.keep) : b = Placed(d, t, i)
    BY <1>5, PreservedPlaces
  <2> QED BY <1>1, <2>1
<1> QED BY <1>2, <1>3, <1>4, <1>5

LEMMA Kept0Good ==
  ASSUME NEW d \in Drafts, Validate(d), NEW t \in Transcriptions, NEW preserveEdited
  PROVE  Good(Kept0(d, t, preserveEdited))
<1> DEFINE K == Kept0(d, t, preserveEdited)
           n == Len(d.keep)
           f == [i \in 1..(n + 1) |-> Placed(d, t, i)]
<1>1. n \in Nat \ {0} /\ Len(d.breakpoints) = n + 1
  BY DraftTypes
<1>2. \A b \in K : \E i \in 1..(n + 1) : b = Placed(d, t, i)
  BY Kept0Places
<1>3. \A i \in 1..(n + 1) :
        /\ Placed(d, t, i) \in Breakpoints /\ Placed(d, t, i).time = At(d, i)
        /\ 1 < i /\ i < n + 1 => Placed(d, t, i).kind \notin {"start", "end"}
  BY PlacedTypes
<1>4. Placed(d, t, 1) = Beginning /\ Placed(d, t, n + 1) = Ending
  BY <1>1 DEF Placed
<1>5. Beginning \in K /\ Ending \in K
  BY DEF Kept0
<1> HIDE DEF K
<1>6. IsFiniteSet(K)
  <2>1. IsFiniteSet(1..(n + 1)) /\ f = [i \in 1..(n + 1) |-> f[i]]
    BY <1>1, FS_Interval
  <2>2. \A b \in K : \E i \in 1..(n + 1) : b = f[i]
    BY <1>2
  <2> HIDE DEF f
  <2> QED BY <2>1, <2>2, ImageIsFinite
<1>7. K \subseteq Breakpoints
  BY <1>2, <1>3
<1>8. ASSUME NEW b \in K \ {Beginning, Ending}
      PROVE  b.kind \notin {"start", "end"}
  <2>1. PICK i \in 1..(n + 1) : b = Placed(d, t, i)
    BY <1>2
  <2>2. 1 < i /\ i < n + 1
    BY <1>1, <1>4, <2>1
  <2> QED BY <1>3, <2>1, <2>2
<1>9. ASSUME NEW a \in K, NEW b \in K, a # b
      PROVE  Distance(a.time, b.time) >= MinGap
  <2>1. PICK i \in 1..(n + 1) : a = Placed(d, t, i)
    BY <1>2
  <2>2. PICK j \in 1..(n + 1) : b = Placed(d, t, j)
    BY <1>2
  <2>3. a.time = At(d, i) /\ b.time = At(d, j) /\ At(d, i) \in Times /\ At(d, j) \in Times
    BY <1>3, <2>1, <2>2, DraftTypes
  <2>4. i # j
    BY <1>9, <2>1, <2>2
  <2>5. CASE i < j
    <3>1. At(d, j) - At(d, i) >= MinGap
      BY <2>5, BreakpointsAscend
    <3> QED BY <2>3, <3>1, TimesAssumption DEF Distance, Times
  <2>6. CASE j < i
    <3>1. At(d, i) - At(d, j) >= MinGap
      BY <2>6, BreakpointsAscend
    <3> QED BY <2>3, <3>1, TimesAssumption DEF Distance, Times
  <2> QED BY <1>1, <2>4, <2>5, <2>6
<1>10. Good(K)
  BY <1>5, <1>6, <1>7, <1>8, <1>9 DEF Good, Apart
<1> QED BY <1>10 DEF K

LEMMA FittingKeepsGood ==
  ASSUME NEW t \in Transcriptions, NEW c \in Candidates(t), NEW M, Good(M), Fits(c, M)
  PROVE  Good(M \cup {c})
<1>1. /\ c.time \in Nat /\ c.kind \in {"speaker", "silence_start"}
      /\ c.edited = FALSE /\ c.source = c.time
      /\ c = Mark(c.time, c.kind, FALSE, c.time)
  BY CandidateTypes
<1>2. c.time \in Times /\ c.time + MinGap <= Duration
  BY <1>1, TimesAssumption DEF Fits, Times
<1>3. c \in Breakpoints
  BY <1>1, <1>2 DEF Breakpoints, Mark, Kinds
<1>4. IsFiniteSet(M \cup {c})
  BY FS_AddElement DEF Good
<1>5. ASSUME NEW a \in M \cup {c}, NEW b \in M \cup {c}, a # b
      PROVE  Distance(a.time, b.time) >= MinGap
  <2>1. \A m \in M : m.time \in Nat /\ Distance(c.time, m.time) >= MinGap
    BY DEF Fits, Good, Breakpoints, Times
  <2>2. \A m \in M : Distance(m.time, c.time) = Distance(c.time, m.time)
    BY <1>1, <2>1 DEF Distance
  <2>3. a \in M /\ b \in M => Distance(a.time, b.time) >= MinGap
    BY <1>5 DEF Good, Apart
  <2> QED BY <1>5, <2>1, <2>2, <2>3
<1>6. \A b \in (M \cup {c}) \ {Beginning, Ending} : b.kind \notin {"start", "end"}
  BY <1>1 DEF Good
<1> QED BY <1>3, <1>4, <1>5, <1>6 DEF Good, Apart

\* Marks is good, and its reasons: it has what is kept of the old draft, and each
\* candidate, or else marks that come before it and that it did not fit.
LEMMA MarksProperties ==
  ASSUME NEW d \in Drafts, Validate(d), NEW t \in Transcriptions, NEW preserveEdited
  PROVE  LET marks == Marks(d, t, preserveEdited)
             base  == Kept0(d, t, preserveEdited)
         IN  /\ Good(marks)
             /\ base \subseteq marks /\ marks \subseteq base \cup Candidates(t)
             /\ \A c \in Candidates(t) :
                  \E before : /\ before \subseteq marks
                              /\ \A b \in before : b \in base \/ Precedes(b, c)
                              /\ Fits(c, before) => c \in marks
<1> DEFINE cs == InOrder(Candidates(t), Precedes)
           n  == Cardinality(Candidates(t))
           base == Kept0(d, t, preserveEdited)
           marks == Marks(d, t, preserveEdited)
           All == base \cup Candidates(t)
<1>1. /\ n \in Nat /\ DOMAIN cs = 1..n
      /\ \A k \in 1..n : cs[k] \in Candidates(t)
      /\ \A c \in Candidates(t) : \E k \in 1..n : cs[k] = c
      /\ \A i, k \in 1..n : i < k <=> Precedes(cs[i], cs[k])
  BY CandidatesInOrder
<1>2. PICK G \in [0..n -> SUBSET All] :
        /\ G[0] = base
        /\ \A k \in 1..n : G[k] = IF Fits(cs[k], G[k - 1]) THEN G[k - 1] \cup {cs[k]} ELSE G[k - 1]
        /\ marks = G[n]
  <2>1. base \subseteq All /\ \A k \in 1..n : cs[k] \in All
    BY <1>1
  <2> HIDE DEF All, n
  <2>2. Tried(cs, n, All, base, marks)
    BY <1>1, <2>1, MarksSteps
  <2> QED BY <2>2 DEF Tried
<1> HIDE DEF cs, n, base, marks
\* What is in a step: the base and candidates tried so far.
<1> DEFINE Sound(k) == /\ Good(G[k])
                       /\ \A b \in G[k] : b \in base \/ \E i \in 1..k : b = cs[i]
           Sounds == {k \in 0..n : Sound(k)}
<1>3. 0 \in Sounds
  <2>1. Good(base)
    BY Kept0Good DEF base
  <2> QED BY <1>1, <1>2, <2>1
<1>4. ASSUME NEW k \in 0..(n - 1), k \in Sounds
      PROVE  k + 1 \in Sounds
  <2>1. k + 1 \in 1..n /\ (k + 1) - 1 = k /\ cs[k + 1] \in Candidates(t) /\ k + 1 \in 0..n
    BY <1>1
  <2>2. G[k + 1] = IF Fits(cs[k + 1], G[k]) THEN G[k] \cup {cs[k + 1]} ELSE G[k]
    BY <1>2, <2>1
  <2>3. Good(G[k]) /\ \A b \in G[k] : b \in base \/ \E i \in 1..k : b = cs[i]
    BY <1>4
  <2>4. Good(G[k + 1])
    BY <2>1, <2>2, <2>3, FittingKeepsGood
  <2>5. ASSUME NEW b \in G[k + 1]
        PROVE  b \in base \/ \E i \in 1..(k + 1) : b = cs[i]
    BY <2>1, <2>2, <2>3
  <2> QED BY <2>1, <2>4, <2>5
<1>5. 0..n \subseteq Sounds
  <2> HIDE DEF Sounds
  <2> QED BY <1>1, <1>3, <1>4, BoundedInduction
<1>6. \A k \in 0..n : Good(G[k]) /\ \A b \in G[k] : b \in base \/ \E i \in 1..k : b = cs[i]
  BY <1>5
<1> HIDE DEF Sounds
\* A step only adds.
<1>7. ASSUME NEW k \in 0..n
      PROVE  G[k] \subseteq marks
  <2> DEFINE Later0 == {m \in 0..(n - k) : G[k] \subseteq G[k + m]}
  <2>1. 0 \in Later0
    BY <1>1
  <2>2. ASSUME NEW m \in 0..((n - k) - 1), m \in Later0
        PROVE  m + 1 \in Later0
    <3>1. k + m + 1 \in 1..n /\ (k + m + 1) - 1 = k + m /\ k + (m + 1) = k + m + 1 /\ m + 1 \in 0..(n - k)
      BY <1>1
    <3>2. G[k + m] \subseteq G[k + m + 1]
      BY <1>2, <3>1
    <3>3. G[k] \subseteq G[k + m]
      BY <2>2
    <3>4. G[k] \subseteq G[k + (m + 1)]
      BY <3>1, <3>2, <3>3
    <3> QED BY <3>1, <3>4
  <2>3. n - k \in Nat /\ k + (n - k) = n
    BY <1>1
  <2>4. 0..(n - k) \subseteq Later0
    <3> HIDE DEF Later0
    <3> QED BY <2>1, <2>2, <2>3, BoundedInduction
  <2>5. n - k \in Later0
    <3> HIDE DEF Later0
    <3> QED BY <2>3, <2>4
  <2>6. G[k] \subseteq G[k + (n - k)]
    BY <2>5
  <2> QED BY <1>2, <2>3, <2>6
<1>8. Good(marks) /\ base \subseteq marks
  <2>1. 0 \in 0..n /\ n \in 0..n
    BY <1>1
  <2> QED BY <1>2, <1>6, <1>7, <2>1
<1>9. marks \subseteq base \cup Candidates(t)
  BY <1>1, <1>2
<1>10. ASSUME NEW c \in Candidates(t)
       PROVE  \E before : /\ before \subseteq marks
                          /\ \A b \in before : b \in base \/ Precedes(b, c)
                          /\ Fits(c, before) => c \in marks
  <2>1. PICK k \in 1..n : cs[k] = c
    BY <1>1
  <2>2. k - 1 \in 0..n /\ k \in 0..n
    BY <1>1
  <2>3. G[k - 1] \subseteq marks /\ G[k] \subseteq marks
    BY <1>7, <2>2
  <2>4. ASSUME NEW b \in G[k - 1]
        PROVE  b \in base \/ Precedes(b, c)
    <3>1. b \in base \/ \E i \in 1..(k - 1) : b = cs[i]
      BY <1>6, <2>2
    <3>2. ASSUME NEW i \in 1..(k - 1), b = cs[i]
          PROVE  Precedes(b, c)
      <4>1. i \in 1..n /\ i < k
        BY <1>1
      <4> QED BY <1>1, <2>1, <3>2, <4>1
    <3> QED BY <3>1, <3>2
  <2>5. CASE Fits(c, G[k - 1])
    <3>1. c \in G[k]
      BY <1>2, <2>1, <2>5
    <3> QED BY <2>3, <2>4, <2>5, <3>1
  <2>6. CASE ~Fits(c, G[k - 1])
    <3> QED BY <2>3, <2>4, <2>6
  <2> QED BY <2>5, <2>6
<1> QED BY <1>8, <1>9, <1>10 DEF base, marks

\* Good marks in order begin and end with the recording.
LEMMA GoodInOrder ==
  ASSUME NEW M, Good(M)
  PROVE  LET s == InOrder(M, Precedes)
             n == Cardinality(M)
         IN  /\ n \in Nat /\ n >= 2
             /\ s \in [1..n -> M] /\ s \in Seq(Breakpoints) /\ Len(s) = n
             /\ \A x \in M : \E i \in 1..n : s[i] = x
             /\ \A i, j \in 1..n : i < j => s[j].time - s[i].time >= MinGap
             /\ s[1] = Beginning /\ s[n] = Ending
             /\ \A i \in 2..(n - 1) : s[i].kind \notin {"start", "end"}
<1> DEFINE s == InOrder(M, Precedes)
           n == Cardinality(M)
<1>1. \A m \in M : m \in Breakpoints /\ m.time \in Nat /\ m.time <= Duration
  BY DEF Good, Breakpoints, Times
<1>2. Beginning \in M /\ Ending \in M /\ Beginning.time = 0 /\ Ending.time = Duration
  BY DEF Good, Beginning, Ending, Mark
<1>3. \A a, b \in M : a # b => a.time # b.time
  BY <1>1, TimesAssumption DEF Good, Apart, Distance
<1>4. \A a, b \in M : a # b => Precedes(a, b) \/ Precedes(b, a)
  BY <1>1, <1>3 DEF Precedes
<1>5. \A a, b \in M : Precedes(a, b) => b.time - a.time >= MinGap
  <2> TAKE a \in M, b \in M
  <2> HAVE Precedes(a, b)
  <2>1. a # b /\ a.time <= b.time
    BY <1>1 DEF Precedes
  <2>2. Distance(a.time, b.time) >= MinGap
    BY <2>1 DEF Good, Apart
  <2> QED BY <1>1, <2>1, <2>2, <1>3 DEF Distance
<1>6. /\ n \in Nat /\ s \in [1..n -> M]
      /\ \A x \in M : \E i \in 1..n : s[i] = x
      /\ \A i, j \in 1..n : i < j <=> Precedes(s[i], s[j])
  <2>1. IsFiniteSet(M) /\ \A m \in M : m.time \in Int
    BY <1>1 DEF Good
  <2> QED BY <1>4, <2>1, InTimeOrder
<1> HIDE DEF s, n
<1>7. \A i, j \in 1..n : i < j => s[j].time - s[i].time >= MinGap
  BY <1>5, <1>6
<1>8. PICK i0 \in 1..n : s[i0] = Beginning
  BY <1>2, <1>6
<1>9. PICK i1 \in 1..n : s[i1] = Ending
  BY <1>2, <1>6
<1>10. MinGap \in Nat \ {0} /\ Duration >= MinGap /\ Duration \in Nat
  BY TimesAssumption
<1>11. \A i \in 1..n : s[i] \in M /\ s[i].time \in Nat /\ s[i].time <= Duration
  BY <1>1, <1>6
<1>12. i0 = 1
  <2>1. 1 \in 1..n
    BY <1>6
  <2>2. 1 < i0 => s[i0].time - s[1].time >= MinGap
    BY <1>7, <2>1
  <2> QED BY <1>2, <1>8, <1>10, <1>11, <2>1, <2>2
<1>13. i1 = n
  <2>1. n \in 1..n
    BY <1>6, <1>8
  <2>2. i1 < n => s[n].time - s[i1].time >= MinGap
    BY <1>7, <2>1
  <2> QED BY <1>2, <1>9, <1>10, <1>11, <2>1, <2>2
<1>14. n >= 2
  <2>1. Beginning.time # Ending.time
    BY <1>2, <1>10
  <2> QED BY <1>6, <1>8, <1>9, <1>12, <1>13, <2>1
<1>15. s \in Seq(Breakpoints) /\ Len(s) = n
  <2>1. M \subseteq Breakpoints
    BY DEF Good
  <2> QED BY <1>6, <2>1
<1>16. ASSUME NEW i \in 2..(n - 1)
       PROVE  s[i].kind \notin {"start", "end"}
  <2>1. i \in 1..n /\ 1 \in 1..n /\ n \in 1..n /\ 1 < i /\ i < n
    BY <1>6
  <2>2. s[i].time - s[1].time >= MinGap /\ s[n].time - s[i].time >= MinGap
    BY <1>7, <2>1
  <2>3. s[i] # Beginning /\ s[i] # Ending
    BY <1>2, <1>8, <1>9, <1>10, <1>11, <1>12, <1>13, <2>1, <2>2
  <2>4. s[i] \in M \ {Beginning, Ending}
    BY <1>11, <2>1, <2>3
  <2> QED BY <2>4 DEF Good
<1>17. s[1] = Beginning /\ s[n] = Ending
  BY <1>8, <1>9, <1>12, <1>13
<1> QED BY <1>6, <1>7, <1>14, <1>15, <1>16, <1>17 DEF s, n

\* The decision SpeakerDraft makes for the ith section between marks.
Decision(d, t, preserveEdited, marks, i) ==
  LET from   == marks[i].time
      to     == marks[i + 1].time
      silent == marks[i].kind = "silence_start"
  IN  IF preserveEdited THEN Inherited(d, from, to, silent)
                        ELSE ~silent /\ HasTranscript(t, from, to)

\* What SpeakerDraft makes of good marks: a draft that Validate accepts.
LEMMA DraftOfMarks ==
  ASSUME NEW d \in Drafts, Validate(d), NEW t \in Transcriptions, NEW preserveEdited
  PROVE  LET new   == SpeakerDraft(d, t, preserveEdited)
             marks == InOrder(Marks(d, t, preserveEdited), Precedes)
             n     == Cardinality(Marks(d, t, preserveEdited))
         IN  /\ new.breakpoints = marks
             /\ DOMAIN new.keep = 1..(n - 1) /\ Len(new.keep) = n - 1
             /\ \A i \in 1..(n - 1) : new.keep[i] = Decision(d, t, preserveEdited, marks, i)
             /\ new \in Drafts /\ Validate(new)
<1> DEFINE M == Marks(d, t, preserveEdited)
           marks == InOrder(M, Precedes)
           n == Cardinality(M)
           new == SpeakerDraft(d, t, preserveEdited)
<1>1. Good(M)
  BY MarksProperties
<1> HIDE DEF M
<1>2. /\ n \in Nat /\ n >= 2
      /\ marks \in [1..n -> M] /\ marks \in Seq(Breakpoints) /\ Len(marks) = n
      /\ \A i, j \in 1..n : i < j => marks[j].time - marks[i].time >= MinGap
      /\ marks[1] = Beginning /\ marks[n] = Ending
      /\ \A i \in 2..(n - 1) : marks[i].kind \notin {"start", "end"}
  BY <1>1, GoodInOrder
<1>3. new = [breakpoints |-> marks,
             keep |-> [i \in 1..(n - 1) |-> Decision(d, t, preserveEdited, marks, i)]]
  BY <1>2 DEF SpeakerDraft, Decision, M
<1> HIDE DEF marks, n, new
<1>4. \A i \in 1..(n - 1) : Decision(d, t, preserveEdited, marks, i) \in BOOLEAN
  BY DEF Decision, Inherited, HasTranscript
<1>5. new.breakpoints = marks /\ new.keep = [i \in 1..(n - 1) |-> Decision(d, t, preserveEdited, marks, i)]
  BY <1>3
<1>6. new.keep \in Seq(BOOLEAN) /\ Len(new.keep) = n - 1 /\ DOMAIN new.keep = 1..(n - 1)
  <2>1. new.keep \in [1..(n - 1) -> BOOLEAN] /\ n - 1 \in Nat
    BY <1>2, <1>4, <1>5
  <2> QED BY <2>1
<1>7. \A i \in 1..(n - 1) : new.keep[i] = Decision(d, t, preserveEdited, marks, i)
  BY <1>5
<1>8. new \in Drafts
  BY <1>2, <1>3, <1>5, <1>6 DEF Drafts
<1>9. Validate(new)
  <2>1. Len(new.breakpoints) = n /\ Last(new.breakpoints) = Ending /\ new.breakpoints[1] = Beginning
    BY <1>2, <1>5 DEF Last
  <2>2. Beginning.kind = "start" /\ Beginning.time = 0 /\ Ending.kind = "end" /\ Ending.time = Duration
    BY DEF Beginning, Ending, Mark
  <2>3. \A i \in SectionsOf(new) : At(new, i + 1) - At(new, i) >= MinGap
    <3>1. \A i \in 1..(n - 1) : i \in 1..n /\ i + 1 \in 1..n /\ i < i + 1
      BY <1>2
    <3> QED BY <1>2, <1>5, <1>6, <3>1 DEF SectionsOf, At
  <2>4. \A i \in Interior(new) : new.breakpoints[i].kind \notin {"start", "end"}
    BY <1>2, <1>5, <2>1 DEF Interior
  <2> QED BY <1>2, <1>6, <2>1, <2>2, <2>3, <2>4 DEF Validate, At
<1> QED BY <1>5, <1>6, <1>7, <1>8, <1>9 DEF new, marks, n, M

-----------------------------------------------------------------------------
(* The editor *)

\* new is s with e inserted at i, or with its ith element removed.
WithInserted(new, S, s, i, e) ==
  /\ new \in Seq(S) /\ Len(new) = Len(s) + 1
  /\ \A j \in 1..(i - 1) : new[j] = s[j]
  /\ new[i] = e
  /\ \A j \in (i + 1)..(Len(s) + 1) : new[j] = s[j - 1]
WithRemoved(new, S, s, i) ==
  /\ new \in Seq(S) /\ Len(new) = Len(s) - 1
  /\ \A j \in 1..(i - 1) : new[j] = s[j]
  /\ \A j \in i..(Len(s) - 1) : new[j] = s[j + 1]

LEMMA Inserted ==
  ASSUME NEW S, NEW s \in Seq(S), NEW e \in S, NEW i \in 1..(Len(s) + 1)
  PROVE  WithInserted(InsertAt(s, i, e), S, s, i, e)
<1> DEFINE before == SubSeq(s, 1, i - 1)
           after  == SubSeq(s, i, Len(s))
           head   == before \o <<e>>
<1>1. Len(s) \in Nat /\ i \in Nat /\ i >= 1 /\ i <= Len(s) + 1 /\ \A j \in 1..Len(s) : s[j] \in S
  OBVIOUS
<1>2. /\ before \in Seq(S) /\ Len(before) = i - 1
      /\ \A j \in 1..(i - 1) : before[j] = s[j]
  <2>1. \A j \in 1..(i - 1) : s[j] \in S
    BY <1>1
  <2> QED BY <1>1, <2>1, SubSeqProperties
<1>3. /\ after \in Seq(S) /\ Len(after) = Len(s) - i + 1
      /\ \A j \in 1..(Len(s) - i + 1) : after[j] = s[i + j - 1]
  <2>1. \A j \in i..Len(s) : s[j] \in S
    BY <1>1
  <2> QED BY <1>1, <2>1, SubSeqProperties
<1>4. <<e>> \in Seq(S) /\ Len(<<e>>) = 1 /\ <<e>>[1] = e
  OBVIOUS
<1> HIDE DEF before, after
<1>5. /\ head \in Seq(S) /\ Len(head) = i
      /\ \A j \in 1..i : head[j] = IF j <= i - 1 THEN before[j] ELSE <<e>>[j - (i - 1)]
  BY <1>1, <1>2, <1>4, ConcatProperties
<1>6. (\A j \in 1..(i - 1) : head[j] = s[j]) /\ head[i] = e
  BY <1>1, <1>2, <1>4, <1>5
<1>7. InsertAt(s, i, e) = head \o after
  BY DEF InsertAt, before, after
<1> HIDE DEF head
<1>8. /\ head \o after \in Seq(S) /\ Len(head \o after) = Len(s) + 1
      /\ \A j \in 1..(Len(s) + 1) : (head \o after)[j] = IF j <= i THEN head[j] ELSE after[j - i]
  BY <1>1, <1>3, <1>5, ConcatProperties
<1>9. ASSUME NEW j \in (i + 1)..(Len(s) + 1)
      PROVE  (head \o after)[j] = s[j - 1]
  <2>1. j - i \in 1..(Len(s) - i + 1) /\ i + (j - i) - 1 = j - 1 /\ j \in 1..(Len(s) + 1) /\ ~(j <= i)
    BY <1>1
  <2> QED BY <1>3, <1>8, <2>1
<1>10. \A j \in 1..i : j \in 1..(Len(s) + 1) /\ j <= i
  BY <1>1
<1>11. \A j \in 1..i : (head \o after)[j] = head[j]
  BY <1>8, <1>10
<1>12. \A j \in 1..(i - 1) : j \in 1..i /\ i \in 1..i
  BY <1>1
<1>13. i \in 1..i
  BY <1>1
<1>14. (\A j \in 1..(i - 1) : (head \o after)[j] = s[j]) /\ (head \o after)[i] = e
  BY <1>6, <1>11, <1>12, <1>13
<1> DEFINE new == head \o after
<1>15. /\ new \in Seq(S) /\ Len(new) = Len(s) + 1
       /\ (\A j \in 1..(i - 1) : new[j] = s[j]) /\ new[i] = e
       /\ \A j \in (i + 1)..(Len(s) + 1) : new[j] = s[j - 1]
  BY <1>8, <1>9, <1>14
<1> HIDE DEF new
<1>16. WithInserted(new, S, s, i, e)
  BY <1>15 DEF WithInserted
<1> QED BY <1>7, <1>16 DEF new

LEMMA Removed ==
  ASSUME NEW S, NEW s \in Seq(S), NEW i \in 1..Len(s)
  PROVE  WithRemoved(RemoveAt(s, i), S, s, i)
<1> DEFINE before == SubSeq(s, 1, i - 1)
           after  == SubSeq(s, i + 1, Len(s))
<1>1. Len(s) \in Nat /\ i \in Nat /\ i >= 1 /\ i <= Len(s) /\ \A j \in 1..Len(s) : s[j] \in S
  OBVIOUS
<1>2. /\ before \in Seq(S) /\ Len(before) = i - 1
      /\ \A j \in 1..(i - 1) : before[j] = s[j]
  <2>1. \A j \in 1..(i - 1) : s[j] \in S
    BY <1>1
  <2> QED BY <1>1, <2>1, SubSeqProperties
<1>3. /\ after \in Seq(S) /\ Len(after) = Len(s) - i
      /\ \A j \in 1..(Len(s) - i) : after[j] = s[i + j]
  <2>1. \A j \in (i + 1)..Len(s) : s[j] \in S
    BY <1>1
  <2>2. /\ after \in Seq(S) /\ Len(after) = IF i + 1 <= Len(s) THEN Len(s) - (i + 1) + 1 ELSE 0
        /\ \A j \in 1..(Len(s) - (i + 1) + 1) : after[j] = s[(i + 1) + j - 1]
    BY <1>1, <2>1, SubSeqProperties
  <2>3. /\ Len(s) - (i + 1) + 1 = Len(s) - i /\ \A j \in 1..(Len(s) - i) : (i + 1) + j - 1 = i + j
        /\ i + 1 <= Len(s) \/ Len(s) - i = 0
    BY <1>1
  <2> HIDE DEF after
  <2>4. Len(after) = Len(s) - i
    BY <2>2, <2>3
  <2>5. \A j \in 1..(Len(s) - i) : after[j] = s[i + j]
    BY <2>2, <2>3
  <2> QED BY <2>2, <2>4, <2>5
<1>4. RemoveAt(s, i) = before \o after
  BY DEF RemoveAt
<1> HIDE DEF before, after
<1>5. /\ before \o after \in Seq(S) /\ Len(before \o after) = Len(s) - 1
      /\ \A j \in 1..(Len(s) - 1) :
           (before \o after)[j] = IF j <= i - 1 THEN before[j] ELSE after[j - (i - 1)]
  <2>1. /\ before \o after \in Seq(S) /\ Len(before \o after) = Len(before) + Len(after)
        /\ \A j \in 1..(Len(before) + Len(after)) :
             (before \o after)[j] = IF j <= Len(before) THEN before[j] ELSE after[j - Len(before)]
    BY <1>2, <1>3, ConcatProperties
  <2>2. Len(before) + Len(after) = Len(s) - 1 /\ Len(before) = i - 1
    BY <1>1, <1>2, <1>3
  <2> QED BY <2>1, <2>2
<1>6. ASSUME NEW j \in i..(Len(s) - 1)
      PROVE  (before \o after)[j] = s[j + 1]
  <2>1. /\ j - (i - 1) \in 1..(Len(s) - i) /\ i + (j - (i - 1)) = j + 1
        /\ j \in 1..(Len(s) - 1) /\ ~(j <= i - 1)
    BY <1>1
  <2> QED BY <1>3, <1>5, <2>1
<1>7. \A j \in 1..(i - 1) : j \in 1..(Len(s) - 1) /\ j <= i - 1
  BY <1>1
<1>8. \A j \in 1..(i - 1) : (before \o after)[j] = s[j]
  BY <1>2, <1>5, <1>7
<1> QED BY <1>4, <1>5, <1>6, <1>8 DEF WithRemoved

\* What Validate asks of the breakpoints b of n sections.
Bounds(b, n) ==
  /\ b[1].kind = "start" /\ b[1].time = 0
  /\ b[n + 1].kind = "end" /\ b[n + 1].time = Duration
  /\ \A i \in 2..n : b[i].kind \notin {"start", "end"}
  /\ \A i \in 1..n : b[i + 1].time - b[i].time >= MinGap

LEMMA AcceptedFromParts ==
  ASSUME NEW n \in Nat \ {0}, NEW b \in [1..(n + 1) -> Breakpoints], NEW k \in [1..n -> BOOLEAN],
         Bounds(b, n)
  PROVE  [breakpoints |-> b, keep |-> k] \in Drafts /\ Validate([breakpoints |-> b, keep |-> k])
<1> DEFINE d == [breakpoints |-> b, keep |-> k]
<1>1. d.breakpoints = b /\ d.keep = k
  OBVIOUS
<1>2. b \in Seq(Breakpoints) /\ Len(b) = n + 1 /\ k \in Seq(BOOLEAN) /\ Len(k) = n /\ DOMAIN k = 1..n
  BY n + 1 \in Nat
<1>3. d \in Drafts
  BY <1>2 DEF Drafts
<1> HIDE DEF d
<1>4. Last(d.breakpoints) = b[n + 1] /\ Interior(d) = 2..n /\ SectionsOf(d) = 1..n
  BY <1>1, <1>2 DEF Last, Interior, SectionsOf
<1>5. Validate(d)
  BY <1>1, <1>2, <1>4 DEF Validate, Bounds, At
<1> QED BY <1>3, <1>5 DEF d

\* And the other way round.
LEMMA PartsOfAccepted ==
  ASSUME NEW d \in Drafts, Validate(d)
  PROVE  LET n == Len(d.keep)
         IN  /\ n \in Nat \ {0}
             /\ d.breakpoints \in [1..(n + 1) -> Breakpoints] /\ d.keep \in [1..n -> BOOLEAN]
             /\ d.breakpoints \in Seq(Breakpoints) /\ d.keep \in Seq(BOOLEAN)
             /\ Len(d.breakpoints) = n + 1
             /\ Bounds(d.breakpoints, n)
             /\ SectionsOf(d) = 1..n /\ Interior(d) = 2..n
             /\ d = [breakpoints |-> d.breakpoints, keep |-> d.keep]
<1>1. d.breakpoints \in Seq(Breakpoints) /\ d.keep \in Seq(BOOLEAN)
      /\ d = [breakpoints |-> d.breakpoints, keep |-> d.keep]
  BY DEF Drafts
<1>2. /\ Len(d.keep) \in Nat \ {0} /\ Len(d.breakpoints) = Len(d.keep) + 1
      /\ SectionsOf(d) = 1..Len(d.keep) /\ Interior(d) = 2..Len(d.keep)
      /\ d.breakpoints[1].kind = "start" /\ d.breakpoints[1].time = 0
      /\ d.breakpoints[Len(d.keep) + 1].kind = "end"
      /\ d.breakpoints[Len(d.keep) + 1].time = Duration
  BY DraftTypes DEF At
<1>3. d.breakpoints \in [1..(Len(d.keep) + 1) -> Breakpoints] /\ d.keep \in [1..Len(d.keep) -> BOOLEAN]
  BY <1>1, <1>2
<1>4. Bounds(d.breakpoints, Len(d.keep))
  BY <1>2 DEF Bounds, Validate, At
<1> QED BY <1>1, <1>2, <1>3, <1>4

LEMMA KeepAccepted ==
  ASSUME NEW d \in Drafts, Validate(d), NEW i \in SectionsOf(d)
  PROVE  [d EXCEPT !.keep[i] = ~@] \in Drafts /\ Validate([d EXCEPT !.keep[i] = ~@])
<1> DEFINE n == Len(d.keep)
           k == [d.keep EXCEPT ![i] = ~@]
<1>1. /\ n \in Nat \ {0} /\ d.breakpoints \in [1..(n + 1) -> Breakpoints]
      /\ d.keep \in [1..n -> BOOLEAN] /\ Bounds(d.breakpoints, n) /\ SectionsOf(d) = 1..n
      /\ d = [breakpoints |-> d.breakpoints, keep |-> d.keep]
  BY PartsOfAccepted
<1>2. [d EXCEPT !.keep[i] = ~@] = [breakpoints |-> d.breakpoints, keep |-> k]
  BY DEF Drafts
<1>3. k \in [1..n -> BOOLEAN]
  BY <1>1
<1> HIDE DEF k, n
<1> QED BY <1>1, <1>2, <1>3, AcceptedFromParts

LEMMA NudgeAccepted ==
  ASSUME NEW d \in Drafts, Validate(d), NEW i \in Interior(d), NEW time \in Times,
         At(d, i - 1) + MinGap <= time, time <= At(d, i + 1) - MinGap
  PROVE  LET new == [d EXCEPT !.breakpoints[i].time = time,
                              !.breakpoints[i].edited = @ \/ time # At(d, i)]
         IN  new \in Drafts /\ Validate(new)
<1> DEFINE n == Len(d.keep)
           moved == [d.breakpoints[i] EXCEPT !.time = time, !.edited = @ \/ time # At(d, i)]
           b == [d.breakpoints EXCEPT ![i] = moved]
           new == [d EXCEPT !.breakpoints[i].time = time,
                            !.breakpoints[i].edited = @ \/ time # At(d, i)]
<1>1. /\ n \in Nat \ {0} /\ d.breakpoints \in [1..(n + 1) -> Breakpoints]
      /\ d.keep \in [1..n -> BOOLEAN] /\ Bounds(d.breakpoints, n) /\ Interior(d) = 2..n
      /\ d = [breakpoints |-> d.breakpoints, keep |-> d.keep]
  BY PartsOfAccepted
<1>2. i \in 2..n /\ i \in 1..(n + 1) /\ d.breakpoints[i] \in Breakpoints
  BY <1>1
<1>3. new = [breakpoints |-> b, keep |-> d.keep]
  <2> DEFINE e  == d.breakpoints[i].edited \/ time # At(d, i)
             m1 == [d.breakpoints[i] EXCEPT !.time = time]
             b1 == [d.breakpoints EXCEPT ![i] = m1]
             d1 == [d EXCEPT !.breakpoints = b1]
  <2>1. moved = [m1 EXCEPT !.edited = e]
    BY <1>2 DEF Breakpoints
  <2>2. new = [d1 EXCEPT !.breakpoints = [d1.breakpoints EXCEPT ![i] = [d1.breakpoints[i] EXCEPT !.edited = e]]]
    OBVIOUS
  <2> HIDE DEF e, m1, moved, new
  <2>3. b1[i] = m1 /\ [b1 EXCEPT ![i] = [m1 EXCEPT !.edited = e]] = b
    BY <1>1, <1>2, <2>1
  <2> HIDE DEF b1
  <2>4. d1 = [breakpoints |-> b1, keep |-> d.keep]
    BY DEF Drafts
  <2> HIDE DEF d1, b
  <2>5. new = [d1 EXCEPT !.breakpoints = b]
    BY <2>2, <2>3, <2>4
  <2> QED BY <2>4, <2>5
<1>4. moved \in Breakpoints /\ moved.time = time /\ moved.kind = d.breakpoints[i].kind
  BY <1>2 DEF Breakpoints
<1> HIDE DEF moved
<1>5. b \in [1..(n + 1) -> Breakpoints] /\ b[i] = moved /\ \A j \in 1..(n + 1) : j # i => b[j] = d.breakpoints[j]
  BY <1>1, <1>2, <1>4
<1>6. Bounds(b, n)
  <2>1. \A j \in 1..n : d.breakpoints[j + 1].time - d.breakpoints[j].time >= MinGap
    BY <1>1 DEF Bounds
  <2>2. \A j \in 1..n : j \in 1..(n + 1) /\ j + 1 \in 1..(n + 1)
    BY <1>1
  <2>3. time - d.breakpoints[i - 1].time >= MinGap /\ d.breakpoints[i + 1].time - time >= MinGap
    <3>1. i - 1 \in 1..(n + 1) /\ i + 1 \in 1..(n + 1)
      BY <1>1, <1>2
    <3>2. d.breakpoints[i - 1].time \in Nat /\ d.breakpoints[i + 1].time \in Nat
      BY <1>1, <3>1 DEF Breakpoints, Times
    <3> QED BY <3>2, TimesAssumption DEF At, Times
  <2> HIDE DEF b, n
  <2>4. ASSUME NEW j \in 1..n
        PROVE  b[j + 1].time - b[j].time >= MinGap
    <3>1. CASE j = i
      <4>1. j + 1 \in 1..(n + 1) /\ j + 1 # i
        BY <1>1, <2>2, <3>1
      <4>2. b[j + 1] = d.breakpoints[i + 1] /\ b[j].time = time
        BY <1>4, <1>5, <3>1, <4>1
      <4> QED BY <2>3, <4>2
    <3>2. CASE j + 1 = i
      <4>1. j = i - 1 /\ j # i
        BY <1>1, <1>2, <3>2
      <4> QED BY <1>4, <1>5, <2>2, <2>3, <3>2, <4>1
    <3>3. CASE j # i /\ j + 1 # i
      BY <1>5, <2>1, <2>2, <3>3
    <3> QED BY <3>1, <3>2, <3>3
  <2>5. b[1] = d.breakpoints[1] /\ b[n + 1] = d.breakpoints[n + 1]
    <3>1. 1 \in 1..(n + 1) /\ n + 1 \in 1..(n + 1) /\ 1 # i /\ n + 1 # i
      BY <1>1, <1>2
    <3> QED BY <1>5, <3>1
  <2>6. ASSUME NEW j \in 2..n
        PROVE  b[j].kind = d.breakpoints[j].kind
    <3>1. j \in 1..(n + 1)
      BY <1>1
    <3> QED BY <1>4, <1>5, <3>1
  <2> QED BY <1>1, <2>4, <2>5, <2>6 DEF Bounds
<1> HIDE DEF b, n, new
<1>7. new \in Drafts /\ Validate(new)
  BY <1>1, <1>3, <1>5, <1>6, AcceptedFromParts
<1> QED BY <1>7 DEF new

LEMMA AddBoundaryAccepted ==
  ASSUME NEW d \in Drafts, Validate(d), NEW i \in SectionsOf(d), NEW time \in Times,
         time - At(d, i) >= MinGap, At(d, i + 1) - time >= MinGap
  PROVE  LET new == [breakpoints |-> InsertAt(d.breakpoints, i + 1, Mark(time, "manual", TRUE, Never)),
                     keep |-> InsertAt(d.keep, i + 1, d.keep[i])]
         IN  new \in Drafts /\ Validate(new)
<1> DEFINE n == Len(d.keep)
           added == Mark(time, "manual", TRUE, Never)
           b == InsertAt(d.breakpoints, i + 1, added)
           k == InsertAt(d.keep, i + 1, d.keep[i])
<1>1. /\ n \in Nat \ {0} /\ d.breakpoints \in [1..(n + 1) -> Breakpoints]
      /\ d.keep \in [1..n -> BOOLEAN] /\ Bounds(d.breakpoints, n) /\ i \in 1..n
      /\ Len(d.breakpoints) = n + 1
      /\ d.breakpoints \in Seq(Breakpoints) /\ d.keep \in Seq(BOOLEAN)
  BY PartsOfAccepted
<1>2. added \in Breakpoints /\ added.time = time /\ added.kind = "manual"
  BY DEF Mark, Breakpoints, Kinds, Never
<1> HIDE DEF added, b, k, n
<1>3. /\ b \in Seq(Breakpoints) /\ Len(b) = n + 2
      /\ \A j \in 1..i : b[j] = d.breakpoints[j]
      /\ b[i + 1] = added
      /\ \A j \in (i + 2)..(n + 2) : b[j] = d.breakpoints[j - 1]
  <2>1. i + 1 \in 1..(Len(d.breakpoints) + 1) /\ (i + 1) - 1 = i /\ (i + 1) + 1 = i + 2
        /\ Len(d.breakpoints) + 1 = n + 2
    BY <1>1
  <2>2. WithInserted(b, Breakpoints, d.breakpoints, i + 1, added)
    BY <1>1, <1>2, <2>1, Inserted DEF b
  <2> QED BY <2>1, <2>2 DEF WithInserted
<1>4. k \in Seq(BOOLEAN) /\ Len(k) = n + 1
  <2>1. i + 1 \in 1..(Len(d.keep) + 1) /\ d.keep[i] \in BOOLEAN
    BY <1>1 DEF n
  <2>2. WithInserted(k, BOOLEAN, d.keep, i + 1, d.keep[i])
    BY <1>1, <2>1, Inserted DEF k
  <2> QED BY <2>2 DEF WithInserted, n
<1>5. /\ \A j \in 1..i : b[j] = d.breakpoints[j]
      /\ b[i + 1] = added
      /\ \A j \in (i + 2)..(n + 2) : b[j] = d.breakpoints[j - 1]
  BY <1>3
<1>6. b \in [1..((n + 1) + 1) -> Breakpoints] /\ k \in [1..(n + 1) -> BOOLEAN]
  <2>1. (n + 1) + 1 = n + 2
    BY <1>1
  <2> QED BY <1>3, <1>4, <2>1
<1>7. Bounds(b, n + 1)
  <2>1. ASSUME NEW j \in 1..(n + 1)
        PROVE  b[j + 1].time - b[j].time >= MinGap
    <3>1. CASE j < i
      <4>1. j \in 1..i /\ j + 1 \in 1..i /\ j \in 1..n
        BY <1>1, <3>1
      <4> QED BY <1>1, <1>5, <4>1 DEF Bounds
    <3>2. CASE j = i
      BY <1>1, <1>2, <1>5, <3>2 DEF At
    <3>3. CASE j = i + 1
      <4>1. j + 1 \in (i + 2)..(n + 2) /\ (j + 1) - 1 = i + 1
        BY <1>1, <3>3
      <4>2. b[j + 1] = d.breakpoints[i + 1] /\ b[j] = added
        BY <1>5, <3>3, <4>1
      <4> QED BY <1>2, <4>2 DEF At
    <3>4. CASE j > i + 1
      <4>1. j \in (i + 2)..(n + 2) /\ j + 1 \in (i + 2)..(n + 2) /\ (j + 1) - 1 = (j - 1) + 1 /\ j - 1 \in 1..n
        BY <1>1, <3>4
      <4>2. b[j] = d.breakpoints[j - 1] /\ b[j + 1] = d.breakpoints[(j - 1) + 1]
        BY <1>5, <4>1
      <4> QED BY <1>1, <4>1, <4>2 DEF Bounds
    <3> QED BY <1>1, <3>1, <3>2, <3>3, <3>4
  <2>2. b[1] = d.breakpoints[1] /\ b[(n + 1) + 1] = d.breakpoints[n + 1]
    <3>1. 1 \in 1..i /\ (n + 1) + 1 \in (i + 2)..(n + 2) /\ ((n + 1) + 1) - 1 = n + 1
      BY <1>1
    <3> QED BY <1>5, <3>1
  <2>3. ASSUME NEW j \in 2..(n + 1)
        PROVE  b[j].kind \notin {"start", "end"}
    <3>1. CASE j <= i
      <4>1. j \in 1..i /\ j \in 2..n
        BY <1>1, <3>1
      <4> QED BY <1>1, <1>5, <4>1 DEF Bounds
    <3>2. CASE j = i + 1
      BY <1>2, <1>5, <3>2
    <3>3. CASE j > i + 1
      <4>1. j \in (i + 2)..(n + 2) /\ j - 1 \in 2..n
        BY <1>1, <3>3
      <4> QED BY <1>1, <1>5, <4>1 DEF Bounds
    <3> QED BY <1>1, <3>1, <3>2, <3>3
  <2> QED BY <1>1, <2>1, <2>2, <2>3 DEF Bounds
<1>8. n + 1 \in Nat \ {0}
  BY <1>1
<1>9. [breakpoints |-> b, keep |-> k] \in Drafts /\ Validate([breakpoints |-> b, keep |-> k])
  BY <1>6, <1>7, <1>8, AcceptedFromParts
<1> QED BY <1>9 DEF added, b, k, n

\* new is s with e before it.
WithFirst(new, S, s, e) ==
  /\ new \in Seq(S) /\ Len(new) = Len(s) + 1
  /\ new[1] = e /\ \A j \in 2..(Len(s) + 1) : new[j] = s[j - 1]

LEMMA Prefixed ==
  ASSUME NEW S, NEW s \in Seq(S), NEW e \in S
  PROVE  WithFirst(<<e>> \o s, S, s, e)
<1> DEFINE h == <<e>>
<1>1. h \in Seq(S) /\ Len(h) = 1 /\ h[1] = e /\ Len(s) \in Nat
  OBVIOUS
<1> HIDE DEF h
<1>2. /\ h \o s \in Seq(S) /\ Len(h \o s) = Len(h) + Len(s)
      /\ \A j \in 1..(Len(h) + Len(s)) : (h \o s)[j] = IF j <= Len(h) THEN h[j] ELSE s[j - Len(h)]
  BY <1>1, ConcatProperties
<1>3. WithFirst(h \o s, S, s, e)
  BY <1>1, <1>2 DEF WithFirst
<1> QED BY <1>3 DEF h

LEMMA RemoveBoundaryAccepted ==
  ASSUME NEW d \in Drafts, Validate(d), NEW i \in Interior(d)
  PROVE  LET new == [breakpoints |-> RemoveAt(d.breakpoints, i),
                     keep |-> RemoveAt([d.keep EXCEPT ![i - 1] = @ \/ d.keep[i]], i)]
         IN  new \in Drafts /\ Validate(new)
<1> DEFINE n == Len(d.keep)
           joined == [d.keep EXCEPT ![i - 1] = @ \/ d.keep[i]]
           b == RemoveAt(d.breakpoints, i)
           k == RemoveAt(joined, i)
<1>1. /\ n \in Nat \ {0} /\ d.breakpoints \in [1..(n + 1) -> Breakpoints]
      /\ d.keep \in [1..n -> BOOLEAN] /\ Bounds(d.breakpoints, n) /\ i \in 2..n
      /\ Len(d.breakpoints) = n + 1
      /\ d.breakpoints \in Seq(Breakpoints)
  BY PartsOfAccepted
<1>2. joined \in Seq(BOOLEAN) /\ Len(joined) = n
  <2>1. i - 1 \in 1..n /\ (d.keep[i - 1] \/ d.keep[i]) \in BOOLEAN
    BY <1>1
  <2>2. joined \in [1..n -> BOOLEAN]
    BY <1>1, <2>1
  <2> HIDE DEF joined, n
  <2> QED BY <1>1, <2>2
<1> HIDE DEF b, k, n, joined
<1>3. /\ b \in Seq(Breakpoints) /\ Len(b) = n
      /\ \A j \in 1..(i - 1) : b[j] = d.breakpoints[j]
      /\ \A j \in i..n : b[j] = d.breakpoints[j + 1]
  <2>1. i \in 1..Len(d.breakpoints) /\ Len(d.breakpoints) - 1 = n
    BY <1>1
  <2>2. WithRemoved(b, Breakpoints, d.breakpoints, i)
    BY <1>1, <2>1, Removed DEF b
  <2> QED BY <2>1, <2>2 DEF WithRemoved
<1>4. k \in Seq(BOOLEAN) /\ Len(k) = n - 1
  <2>1. i \in 1..Len(joined)
    BY <1>1, <1>2
  <2>2. WithRemoved(k, BOOLEAN, joined, i)
    BY <1>2, <2>1, Removed DEF k
  <2> QED BY <1>2, <2>2 DEF WithRemoved
<1>5. n - 1 \in Nat \ {0} /\ (n - 1) + 1 = n
  BY <1>1
<1>6. \A j \in 1..(n + 1) : d.breakpoints[j].time \in Nat
  BY <1>1 DEF Breakpoints, Times
<1>7. \A j \in 1..n : d.breakpoints[j + 1].time - d.breakpoints[j].time >= MinGap
  BY <1>1 DEF Bounds
<1>8. Bounds(b, n - 1)
  <2>1. ASSUME NEW j \in 1..(n - 1)
        PROVE  b[j + 1].time - b[j].time >= MinGap
    <3>1. j \in 1..n /\ j + 1 \in 1..n /\ (j + 1) + 1 \in 1..(n + 1) /\ j \in 1..(n + 1) /\ j + 1 \in 1..(n + 1)
      BY <1>1
    <3>2. CASE j < i - 1
      <4>1. j \in 1..(i - 1) /\ j + 1 \in 1..(i - 1)
        BY <1>1, <3>2
      <4> QED BY <1>3, <1>7, <3>1, <4>1
    <3>3. CASE j = i - 1
      <4>1. j \in 1..(i - 1) /\ j + 1 \in i..n
        BY <1>1, <3>3
      <4>2. b[j] = d.breakpoints[j] /\ b[j + 1] = d.breakpoints[(j + 1) + 1]
        BY <1>3, <4>1
      <4>3. /\ d.breakpoints[j + 1].time - d.breakpoints[j].time >= MinGap
            /\ d.breakpoints[(j + 1) + 1].time - d.breakpoints[j + 1].time >= MinGap
        BY <1>7, <3>1
      <4>4. /\ d.breakpoints[j].time \in Nat /\ d.breakpoints[j + 1].time \in Nat
            /\ d.breakpoints[(j + 1) + 1].time \in Nat
        BY <1>6, <3>1
      <4> QED BY <4>2, <4>3, <4>4, TimesAssumption
    <3>4. CASE j >= i
      <4>1. j \in i..n /\ j + 1 \in i..n
        BY <1>1, <3>1, <3>4
      <4>2. b[j] = d.breakpoints[j + 1] /\ b[j + 1] = d.breakpoints[(j + 1) + 1]
        BY <1>3, <4>1
      <4> QED BY <1>7, <3>1, <4>2
    <3> QED BY <1>1, <3>1, <3>2, <3>3, <3>4
  <2>2. b[1] = d.breakpoints[1] /\ b[n] = d.breakpoints[n + 1]
    <3>1. 1 \in 1..(i - 1) /\ n \in i..n
      BY <1>1
    <3> QED BY <1>3, <3>1
  <2>3. ASSUME NEW j \in 2..(n - 1)
        PROVE  b[j].kind \notin {"start", "end"}
    <3>1. j \in 2..n /\ j + 1 \in 2..n
      BY <1>1
    <3>2. CASE j < i
      <4>1. j \in 1..(i - 1)
        BY <1>1, <3>2
      <4> QED BY <1>1, <1>3, <3>1, <4>1 DEF Bounds
    <3>3. CASE j >= i
      <4>1. j \in i..n
        BY <1>1, <3>3
      <4> QED BY <1>1, <1>3, <3>1, <4>1 DEF Bounds
    <3> QED BY <1>1, <3>2, <3>3
  <2> QED BY <1>1, <1>5, <2>1, <2>2, <2>3 DEF Bounds
<1>9. b \in [1..((n - 1) + 1) -> Breakpoints] /\ k \in [1..(n - 1) -> BOOLEAN]
  BY <1>3, <1>4, <1>5
<1>10. [breakpoints |-> b, keep |-> k] \in Drafts /\ Validate([breakpoints |-> b, keep |-> k])
  BY <1>5, <1>8, <1>9, AcceptedFromParts
<1> QED BY <1>10 DEF b, k, joined

LEMMA DeleteBeforeAccepted ==
  ASSUME NEW d \in Drafts, Validate(d), NEW i \in Interior(d)
  PROVE  LET new == [breakpoints |-> <<Head(d.breakpoints)>>
                                       \o SubSeq(d.breakpoints, i, Len(d.breakpoints)),
                     keep |-> <<FALSE>> \o SubSeq(d.keep, i, Len(d.keep))]
         IN  new \in Drafts /\ Validate(new)
<1> DEFINE n == Len(d.keep)
           m == n + 2 - i
           rest  == SubSeq(d.breakpoints, i, Len(d.breakpoints))
           after == SubSeq(d.keep, i, Len(d.keep))
           b == <<Head(d.breakpoints)>> \o rest
           k == <<FALSE>> \o after
<1>1. /\ n \in Nat \ {0} /\ d.breakpoints \in [1..(n + 1) -> Breakpoints]
      /\ d.keep \in [1..n -> BOOLEAN] /\ Bounds(d.breakpoints, n) /\ i \in 2..n
      /\ Len(d.breakpoints) = n + 1
  BY PartsOfAccepted
<1>2. m \in Nat \ {0} /\ m >= 2 /\ m + 1 = (n + 1) - i + 2
  BY <1>1
<1>3. /\ rest \in Seq(Breakpoints) /\ Len(rest) = m
      /\ \A j \in 1..m : rest[j] = d.breakpoints[i + j - 1]
  <2>1. \A j \in i..(n + 1) : d.breakpoints[j] \in Breakpoints
    BY <1>1
  <2>2. i <= n + 1 /\ (n + 1) - i + 1 = m /\ n + 1 \in Int /\ i \in Int
    BY <1>1
  <2> HIDE DEF m, n
  <2> QED BY <1>1, <2>1, <2>2, SubSeqProperties
<1>4. after \in Seq(BOOLEAN) /\ Len(after) = m - 1
  <2>1. \A j \in i..n : d.keep[j] \in BOOLEAN
    BY <1>1
  <2>2. i <= n /\ n - i + 1 = m - 1 /\ n \in Int /\ i \in Int
    BY <1>1
  <2> HIDE DEF m
  <2> QED BY <1>1, <2>1, <2>2, SubSeqProperties
<1>5. Head(d.breakpoints) = d.breakpoints[1] /\ d.breakpoints[1] \in Breakpoints
  BY <1>1
<1> HIDE DEF rest, after
<1>6. /\ b \in Seq(Breakpoints) /\ Len(b) = m + 1
      /\ b[1] = d.breakpoints[1] /\ \A j \in 2..(m + 1) : b[j] = d.breakpoints[i + j - 2]
  <2>1. Head(d.breakpoints) \in Breakpoints
    BY <1>5
  <2>2. WithFirst(b, Breakpoints, rest, Head(d.breakpoints))
    BY <1>3, <2>1, Prefixed
  <2>3. ASSUME NEW j \in 2..(m + 1)
        PROVE  rest[j - 1] = d.breakpoints[i + j - 2]
    <3>1. j - 1 \in 1..m /\ i + (j - 1) - 1 = i + j - 2
      BY <1>1, <1>2
    <3> QED BY <1>3, <3>1
  <2> HIDE DEF b, m
  <2> QED BY <1>3, <1>5, <2>2, <2>3 DEF WithFirst
<1>7. k \in Seq(BOOLEAN) /\ Len(k) = m
  <2>1. WithFirst(k, BOOLEAN, after, FALSE)
    BY <1>4, Prefixed
  <2> HIDE DEF k, m
  <2> QED BY <1>2, <1>4, <2>1 DEF WithFirst
<1> HIDE DEF b, k
<1>8. Bounds(b, m)
  <2>1. ASSUME NEW j \in 1..m
        PROVE  b[j + 1].time - b[j].time >= MinGap
    <3>1. CASE j = 1
      <4>1. b[j + 1] = d.breakpoints[i] /\ b[j] = d.breakpoints[1]
        BY <1>1, <1>2, <1>6, <3>1
      <4>2. At(d, i) - At(d, 1) >= MinGap
        <5>1. i \in 1..(n + 1) /\ 1 \in 1..(n + 1) /\ 1 < i
          BY <1>1
        <5> QED BY <5>1, BreakpointsAscend
      <4> QED BY <4>1, <4>2 DEF At
    <3>2. CASE j > 1
      <4>1. /\ j \in 2..(m + 1) /\ j + 1 \in 2..(m + 1)
            /\ i + (j + 1) - 2 = (i + j - 2) + 1 /\ i + j - 2 \in 1..n
        BY <1>1, <3>2
      <4>2. b[j + 1] = d.breakpoints[(i + j - 2) + 1] /\ b[j] = d.breakpoints[i + j - 2]
        BY <1>6, <4>1
      <4> QED BY <1>1, <4>1, <4>2 DEF Bounds
    <3> QED BY <3>1, <3>2
  <2>2. b[1] = d.breakpoints[1] /\ b[m + 1] = d.breakpoints[n + 1]
    <3>1. m + 1 \in 2..(m + 1) /\ i + (m + 1) - 2 = n + 1
      BY <1>1
    <3> QED BY <1>6, <3>1
  <2>3. ASSUME NEW j \in 2..m
        PROVE  b[j].kind \notin {"start", "end"}
    <3>1. j \in 2..(m + 1) /\ i + j - 2 \in 2..n
      BY <1>1
    <3> QED BY <1>1, <1>6, <3>1 DEF Bounds
  <2> HIDE DEF m
  <2> QED BY <1>1, <2>1, <2>2, <2>3 DEF Bounds
<1> HIDE DEF m
<1>9. b \in [1..(m + 1) -> Breakpoints] /\ k \in [1..m -> BOOLEAN]
  BY <1>6, <1>7
<1>10. [breakpoints |-> b, keep |-> k] \in Drafts /\ Validate([breakpoints |-> b, keep |-> k])
  BY <1>2, <1>8, <1>9, AcceptedFromParts
<1> QED BY <1>10 DEF b, k, rest, after

LEMMA DeleteAfterAccepted ==
  ASSUME NEW d \in Drafts, Validate(d), NEW i \in Interior(d)
  PROVE  LET new == [breakpoints |-> Append(SubSeq(d.breakpoints, 1, i), Last(d.breakpoints)),
                     keep |-> Append(SubSeq(d.keep, 1, i - 1), FALSE)]
         IN  new \in Drafts /\ Validate(new)
<1> DEFINE n == Len(d.keep)
           before == SubSeq(d.breakpoints, 1, i)
           kept   == SubSeq(d.keep, 1, i - 1)
           b == Append(before, Last(d.breakpoints))
           k == Append(kept, FALSE)
<1>1. /\ n \in Nat \ {0} /\ d.breakpoints \in [1..(n + 1) -> Breakpoints]
      /\ d.keep \in [1..n -> BOOLEAN] /\ Bounds(d.breakpoints, n) /\ i \in 2..n
      /\ Len(d.breakpoints) = n + 1
  BY PartsOfAccepted
<1>2. /\ before \in Seq(Breakpoints) /\ Len(before) = i
      /\ \A j \in 1..i : before[j] = d.breakpoints[j]
  <2>1. \A j \in 1..i : d.breakpoints[j] \in Breakpoints
    <3>1. \A j \in 1..i : j \in 1..(n + 1)
      BY <1>1
    <3> QED BY <1>1, <3>1
  <2>2. 1 <= i /\ i - 1 + 1 = i /\ 1 \in Int /\ i \in Int /\ \A j \in 1..i : 1 + j - 1 = j
    BY <1>1
  <2>3. /\ before \in Seq(Breakpoints) /\ Len(before) = IF 1 <= i THEN i - 1 + 1 ELSE 0
        /\ \A j \in 1..(i - 1 + 1) : before[j] = d.breakpoints[1 + j - 1]
    BY <2>1, <2>2, SubSeqProperties
  <2> HIDE DEF before
  <2> QED BY <2>2, <2>3
<1>3. kept \in Seq(BOOLEAN) /\ Len(kept) = i - 1
  <2>1. \A j \in 1..(i - 1) : d.keep[j] \in BOOLEAN
    <3>1. \A j \in 1..(i - 1) : j \in 1..n
      BY <1>1
    <3> QED BY <1>1, <3>1
  <2>2. 1 <= i - 1 /\ (i - 1) - 1 + 1 = i - 1 /\ 1 \in Int /\ i - 1 \in Int
    BY <1>1
  <2> QED BY <2>1, <2>2, SubSeqProperties
<1>4. Last(d.breakpoints) = d.breakpoints[n + 1] /\ d.breakpoints[n + 1] \in Breakpoints
  BY <1>1 DEF Last
<1> HIDE DEF before, kept
<1>5. /\ b \in Seq(Breakpoints) /\ Len(b) = i + 1
      /\ \A j \in 1..i : b[j] = d.breakpoints[j]
      /\ b[i + 1] = d.breakpoints[n + 1]
  BY <1>1, <1>2, <1>4, AppendProperties
<1>6. k \in Seq(BOOLEAN) /\ Len(k) = i
  <2>1. k \in Seq(BOOLEAN) /\ Len(k) = (i - 1) + 1
    BY <1>3, AppendProperties
  <2> QED BY <1>1, <2>1
<1> HIDE DEF b, k
<1>7. Bounds(b, i)
  <2>1. ASSUME NEW j \in 1..i
        PROVE  b[j + 1].time - b[j].time >= MinGap
    <3>1. CASE j = i
      <4>1. At(d, n + 1) - At(d, i) >= MinGap
        <5>1. i \in 1..(n + 1) /\ n + 1 \in 1..(n + 1) /\ i < n + 1
          BY <1>1
        <5> QED BY <5>1, BreakpointsAscend
      <4> QED BY <1>5, <3>1, <4>1 DEF At
    <3>2. CASE j < i
      <4>1. j \in 1..n /\ j \in 1..i /\ j + 1 \in 1..i
        BY <1>1, <3>2
      <4> QED BY <1>1, <1>5, <4>1 DEF Bounds
    <3> QED BY <1>1, <3>1, <3>2
  <2>2. b[1] = d.breakpoints[1]
    BY <1>1, <1>5
  <2>3. ASSUME NEW j \in 2..i
        PROVE  b[j].kind \notin {"start", "end"}
    <3>1. j \in 1..i /\ j \in 2..n
      BY <1>1
    <3> QED BY <1>1, <1>5, <3>1 DEF Bounds
  <2> HIDE DEF n
  <2> QED BY <1>1, <1>5, <2>1, <2>2, <2>3 DEF Bounds
<1>8. i \in Nat \ {0} /\ b \in [1..(i + 1) -> Breakpoints] /\ k \in [1..i -> BOOLEAN]
  BY <1>1, <1>5, <1>6
<1>9. [breakpoints |-> b, keep |-> k] \in Drafts /\ Validate([breakpoints |-> b, keep |-> k])
  BY <1>7, <1>8, AcceptedFromParts
<1> QED BY <1>9 DEF b, k, before, kept

-----------------------------------------------------------------------------
(* Every draft is one that Validate accepts *)

\* The inductive invariant: what is stored passed Validate.
IInv == TypeOK /\ (draft # NoDraft => Validate(draft))

\* What prepare_edit hands to SpeakerDraft.
Whole == [breakpoints |-> <<Beginning, Ending>>, keep |-> <<TRUE>>]

LEMMA WholeAccepted == Whole \in Drafts /\ Validate(Whole)
<1> DEFINE b == <<Beginning, Ending>>
           k == <<TRUE>>
<1>1. Beginning \in Breakpoints /\ Ending \in Breakpoints
  BY TimesAssumption DEF Beginning, Ending, Mark, Breakpoints, Kinds, Times, Never
<1>2. /\ Beginning.kind = "start" /\ Beginning.time = 0
      /\ Ending.kind = "end" /\ Ending.time = Duration
  BY DEF Beginning, Ending, Mark
<1>3. /\ b \in Seq(Breakpoints) /\ Len(b) = 2 /\ b[1] = Beginning /\ b[2] = Ending
      /\ k \in Seq(BOOLEAN) /\ Len(k) = 1
  BY <1>1
<1> HIDE DEF b, k
<1>4. Bounds(b, 1) /\ b \in [1..(1 + 1) -> Breakpoints] /\ k \in [1..1 -> BOOLEAN]
  <2>1. b[1 + 1] = Ending /\ (\A i \in 2..1 : FALSE) /\ \A i \in 1..1 : i = 1
    BY <1>3
  <2>2. b[1 + 1].time - b[1].time >= MinGap
    BY <1>2, <1>3, <2>1, TimesAssumption
  <2>3. \A i \in 1..1 : b[i + 1].time - b[i].time >= MinGap
    BY <2>1, <2>2
  <2>4. Bounds(b, 1)
    BY <1>2, <1>3, <2>1, <2>3 DEF Bounds
  <2>5. 1 + 1 = 2
    OBVIOUS
  <2>6. b \in [1..2 -> Breakpoints] /\ k \in [1..1 -> BOOLEAN]
    <3>1. b \in [1..Len(b) -> Breakpoints] /\ k \in [1..Len(k) -> BOOLEAN]
      BY <1>3, LenProperties
    <3> QED BY <1>3, <3>1
  <2> QED BY <2>4, <2>5, <2>6
<1>5. [breakpoints |-> b, keep |-> k] \in Drafts /\ Validate([breakpoints |-> b, keep |-> k])
  BY <1>4, 1 \in Nat \ {0}, AcceptedFromParts
<1> QED BY <1>5 DEF b, k, Whole

LEMMA NewestTranscription ==
  ASSUME source \in Transcripts
  PROVE  source \in Transcriptions
BY TranscriptsAssumption

LEMMA EditsAccepted ==
  ASSUME IInv, Edit
  PROVE  IInv'
<1>1. CASE draft = NoDraft
  BY <1>1 DEF Edit, Keep, AddBoundary, Nudge, RemoveBoundary, DeleteBefore, DeleteAfter, Change
<1>2. CASE draft # NoDraft
  <2>1. draft \in Drafts /\ Validate(draft)
    BY <1>2 DEF IInv, TypeOK
  <2>2. ASSUME NEW d \in Drafts, Validate(d), Change(d)
        PROVE  IInv'
    BY <2>2, BoundAssumption DEF Change, IInv, TypeOK, Validate, vars
  <2>3. ASSUME NEW i \in SectionsOf(draft), Keep(i)
        PROVE  IInv'
    <3> DEFINE new == [draft EXCEPT !.keep[i] = ~@]
    <3>1. new \in Drafts /\ Validate(new)
      BY <2>1, KeepAccepted
    <3>2. Change(new)
      BY <2>3 DEF Keep
    <3> HIDE DEF new
    <3> QED BY <2>2, <3>1, <3>2
  <2>4. ASSUME NEW i \in SectionsOf(draft), NEW time \in Times, AddBoundary(i, time)
        PROVE  IInv'
    <3> DEFINE new == [breakpoints |-> InsertAt(draft.breakpoints, i + 1, Mark(time, "manual", TRUE, Never)),
                       keep |-> InsertAt(draft.keep, i + 1, draft.keep[i])]
    <3>1. /\ time - At(draft, i) >= MinGap /\ At(draft, i + 1) - time >= MinGap
          /\ Change(new)
      BY <2>4 DEF AddBoundary
    <3>2. new \in Drafts /\ Validate(new)
      BY <2>1, <3>1, AddBoundaryAccepted
    <3> HIDE DEF new
    <3> QED BY <2>2, <3>1, <3>2
  <2>5. ASSUME NEW i \in Interior(draft), NEW time \in Times, Nudge(i, time)
        PROVE  IInv'
    <3> DEFINE new == [draft EXCEPT !.breakpoints[i].time = time,
                                    !.breakpoints[i].edited = @ \/ time # At(draft, i)]
    <3>1. /\ At(draft, i - 1) + MinGap <= time /\ time <= At(draft, i + 1) - MinGap
          /\ Change(new)
      BY <2>5 DEF Nudge
    <3>2. new \in Drafts /\ Validate(new)
      BY <2>1, <3>1, NudgeAccepted
    <3> HIDE DEF new
    <3> QED BY <2>2, <3>1, <3>2
  <2>6. ASSUME NEW i \in Interior(draft), RemoveBoundary(i)
        PROVE  IInv'
    <3> DEFINE new == [breakpoints |-> RemoveAt(draft.breakpoints, i),
                       keep |-> RemoveAt([draft.keep EXCEPT ![i - 1] = @ \/ draft.keep[i]], i)]
    <3>1. new \in Drafts /\ Validate(new)
      BY <2>1, RemoveBoundaryAccepted
    <3>2. Change(new)
      BY <2>6 DEF RemoveBoundary
    <3> HIDE DEF new
    <3> QED BY <2>2, <3>1, <3>2
  <2>7. ASSUME NEW i \in Interior(draft), DeleteBefore(i)
        PROVE  IInv'
    <3> DEFINE new == [breakpoints |-> <<Head(draft.breakpoints)>>
                                         \o SubSeq(draft.breakpoints, i, Len(draft.breakpoints)),
                       keep |-> <<FALSE>> \o SubSeq(draft.keep, i, Len(draft.keep))]
    <3>1. new \in Drafts /\ Validate(new)
      BY <2>1, DeleteBeforeAccepted
    <3>2. Change(new)
      BY <2>7 DEF DeleteBefore
    <3> HIDE DEF new
    <3> QED BY <2>2, <3>1, <3>2
  <2>8. ASSUME NEW i \in Interior(draft), DeleteAfter(i)
        PROVE  IInv'
    <3> DEFINE new == [breakpoints |-> Append(SubSeq(draft.breakpoints, 1, i), Last(draft.breakpoints)),
                       keep |-> Append(SubSeq(draft.keep, 1, i - 1), FALSE)]
    <3>1. new \in Drafts /\ Validate(new)
      BY <2>1, DeleteAfterAccepted
    <3>2. Change(new)
      BY <2>8 DEF DeleteAfter
    <3> HIDE DEF new
    <3> QED BY <2>2, <3>1, <3>2
  <2> QED BY <2>3, <2>4, <2>5, <2>6, <2>7, <2>8 DEF Edit
<1> QED BY <1>1, <1>2

LEMMA InvariantInit == Init => IInv
<1> SUFFICES ASSUME Init PROVE IInv
  OBVIOUS
<1>1. NoDraft \in Drafts
  BY DEF NoDraft, Drafts
<1>2. \A d \in Upgrades : d \in Drafts /\ Validate(d)
  BY UpgradesAssumption
<1> QED BY <1>1, <1>2, BoundAssumption DEF Init, IInv, TypeOK

LEMMA InvariantStep == IInv /\ [Next]_vars => IInv'
<1> SUFFICES ASSUME IInv, [Next]_vars PROVE IInv'
  OBVIOUS
<1>1. source \in Transcriptions
  BY NewestTranscription DEF IInv, TypeOK
<1>2. ASSUME NEW d \in Drafts, Validate(d), NEW preserveEdited \in BOOLEAN,
             draft' = SpeakerDraft(d, source, preserveEdited), UNCHANGED <<source, edits>>
      PROVE  IInv'
  <2> DEFINE new == SpeakerDraft(d, source, preserveEdited)
  <2>1. new \in Drafts /\ Validate(new)
    BY <1>1, <1>2, DraftOfMarks
  <2> HIDE DEF new
  <2>2. draft' = new
    BY <1>2 DEF new
  <2> QED BY <1>2, <2>1, <2>2 DEF IInv, TypeOK, Validate, Interior, SectionsOf, At
<1>3. CASE SaveSourceTranscription
  BY <1>3 DEF SaveSourceTranscription, IInv, TypeOK, Validate, Interior, SectionsOf, At
<1>4. CASE Prepare
  <2>1. draft' = SpeakerDraft(Whole, source, FALSE) /\ UNCHANGED <<source, edits>>
    BY <1>4 DEF Prepare, Whole
  <2> QED BY <1>2, <2>1, WholeAccepted
<1>5. CASE Edit
  BY <1>5, EditsAccepted
<1>6. ASSUME NEW preserveEdited \in BOOLEAN, Regenerate(preserveEdited)
      PROVE  IInv'
  <2>1. draft \in Drafts /\ Validate(draft)
    BY <1>6 DEF Regenerate, IInv, TypeOK
  <2> QED BY <1>2, <1>6, <2>1 DEF Regenerate
<1>7. CASE UNCHANGED vars
  BY <1>7 DEF vars, IInv, TypeOK, Validate, Interior, SectionsOf, At
<1> QED BY <1>3, <1>4, <1>5, <1>6, <1>7 DEF Next

LEMMA Invariance == Spec => []IInv
BY InvariantInit, InvariantStep, PTL DEF Spec

\* A draft holds breakpoints within the recording and a decision per section,
\* whatever SpeakerDraft, MapTranscript's source and the editor did before.
THEOREM TimelineTypes == Spec => []TypeOK
<1>1. IInv => TypeOK
  BY DEF IInv
<1> QED BY <1>1, Invariance, PTL

\* Validate refuses no draft of the editor and none that SpeakerDraft derives, for
\* every recording, transcription and draft that passed it.
THEOREM AcceptedDrafts == Spec => []DraftsAreAccepted
<1>1. IInv => DraftsAreAccepted
  <2> SUFFICES ASSUME IInv, draft # NoDraft, NEW preserveEdited \in BOOLEAN
               PROVE  Validate(draft) /\ Validate(SpeakerDraft(draft, source, preserveEdited))
    BY DEF DraftsAreAccepted
  <2>1. draft \in Drafts /\ Validate(draft) /\ source \in Transcriptions
    BY NewestTranscription DEF IInv, TypeOK
  <2> QED BY <2>1, DraftOfMarks
<1> QED BY <1>1, Invariance, PTL

-----------------------------------------------------------------------------
(* Regenerating *)

\* Every moment is in a section.  Moments are doubled, like middles.
LEMMA SectionAt ==
  ASSUME NEW d \in Drafts, Validate(d), NEW m \in Nat, m < 2 * Duration
  PROVE  \E i \in SectionsOf(d) : 2 * At(d, i) <= m /\ m < 2 * At(d, i + 1)
<1> DEFINE n == Len(d.keep)
           T == {i \in 1..n : 2 * At(d, i) <= m}
<1>1. /\ n \in Nat \ {0} /\ SectionsOf(d) = 1..n
      /\ \A i \in 1..(n + 1) : At(d, i) \in Times
      /\ At(d, 1) = 0 /\ At(d, n + 1) = Duration
  BY DraftTypes
<1>2. \A i \in 1..(n + 1) : At(d, i) \in Nat
  BY <1>1 DEF Times
<1>3. T \subseteq Nat /\ T # {} /\ \A i \in T : i <= n
  <2>1. 1 \in T
    BY <1>1
  <2>2. \A i \in T : i \in Nat /\ i <= n
    BY <1>1
  <2> HIDE DEF T, n
  <2> QED BY <2>1, <2>2
<1>4. PICK i \in T : \A j \in T : j <= i
  <2> HIDE DEF T, n
  <2> QED BY <1>1, <1>3, GreatestNumber
<1>5. i \in 1..n /\ 2 * At(d, i) <= m
  BY <1>4
<1>6. m < 2 * At(d, i + 1)
  <2>1. CASE i = n
    BY <1>1, <2>1
  <2>2. CASE i # n
    <3>1. i + 1 \in 1..n /\ i + 1 \in 1..(n + 1) /\ ~(i + 1 <= i)
      BY <1>1, <1>5, <2>2
    <3>2. ~(2 * At(d, i + 1) <= m)
      BY <1>4, <3>1
    <3> QED BY <1>2, <3>1, <3>2
  <2> QED BY <2>1, <2>2
<1> QED BY <1>1, <1>5, <1>6

\* b is one of the breakpoints of d.
ListedIn(b, d) == \E i \in 1..(Len(d.keep) + 1) : b = d.breakpoints[i]

\* A mark is a breakpoint of the draft made of the marks.
LEMMA MarksAreListed ==
  ASSUME NEW d \in Drafts, Validate(d), NEW t \in Transcriptions, NEW preserveEdited,
         NEW b \in Marks(d, t, preserveEdited)
  PROVE  ListedIn(b, SpeakerDraft(d, t, preserveEdited))
<1> DEFINE M == Marks(d, t, preserveEdited)
           new == SpeakerDraft(d, t, preserveEdited)
<1>1. Good(M)
  BY MarksProperties
<1>2. new.breakpoints = InOrder(M, Precedes) /\ Len(new.keep) = Cardinality(M) - 1
  BY DraftOfMarks
<1> HIDE DEF M, new
<1>3. Cardinality(M) \in Nat /\ \A x \in M : \E i \in 1..Cardinality(M) : InOrder(M, Precedes)[i] = x
  BY <1>1, GoodInOrder
<1>4. PICK i \in 1..Cardinality(M) : InOrder(M, Precedes)[i] = b
  BY <1>3 DEF M
<1>5. (Cardinality(M) - 1) + 1 = Cardinality(M)
  BY <1>3
<1>6. i \in 1..(Len(new.keep) + 1) /\ b = new.breakpoints[i]
  BY <1>2, <1>4, <1>5
<1> QED BY <1>6 DEF new, ListedIn

LEMMA DecisionsAreInherited ==
  ASSUME NEW d \in Drafts, Validate(d), NEW t \in Transcriptions
  PROVE  LET new == SpeakerDraft(d, t, TRUE)
         IN  \A i \in SectionsOf(new) :
               new.keep[i] = Inherited(d, At(new, i), At(new, i + 1),
                                       new.breakpoints[i].kind = "silence_start")
<1> DEFINE M == Marks(d, t, TRUE)
           new == SpeakerDraft(d, t, TRUE)
           marks == InOrder(M, Precedes)
<1>1. /\ new.breakpoints = marks /\ DOMAIN new.keep = 1..(Cardinality(M) - 1)
      /\ \A i \in 1..(Cardinality(M) - 1) : new.keep[i] = Decision(d, t, TRUE, marks, i)
  BY DraftOfMarks
<1> HIDE DEF M, new, marks
<1>2. ASSUME NEW i \in SectionsOf(new)
      PROVE  new.keep[i] = Inherited(d, At(new, i), At(new, i + 1),
                                     new.breakpoints[i].kind = "silence_start")
  BY <1>1 DEF SectionsOf, At, Decision
<1> QED BY <1>2 DEF new

LEMMA EditedSurvive ==
  ASSUME NEW d \in Drafts, Validate(d), NEW t \in Transcriptions,
         NEW i \in Interior(d), d.breakpoints[i].edited
  PROVE  \E b \in Range(SpeakerDraft(d, t, TRUE).breakpoints) :
           b.edited /\ b.time = At(d, i) /\ b.kind = d.breakpoints[i].kind
<1> DEFINE b == Recalled(d.breakpoints[i], t)
           new == SpeakerDraft(d, t, TRUE)
<1>1. i \in 1..(Len(d.keep) + 1) /\ Interior(d) = 2..Len(d.keep)
  BY DraftTypes
<1>2. d.breakpoints[i] \in Breakpoints
  BY <1>1, DraftTypes
<1>3. b.time = At(d, i) /\ b.kind = d.breakpoints[i].kind /\ b.edited
  BY <1>2, RecalledTypes DEF At
<1>4. b \in Preserved(d, t)
  <2>1. b \in {Recalled(d.breakpoints[j], t) : j \in Interior(d)}
    OBVIOUS
  <2> HIDE DEF b
  <2> QED BY <1>3, <2>1 DEF Preserved
<1>5. b \in Marks(d, t, TRUE)
  <2>1. Kept0(d, t, TRUE) \subseteq Marks(d, t, TRUE)
    BY MarksProperties
  <2> HIDE DEF b
  <2> QED BY <1>4, <2>1 DEF Kept0
<1> HIDE DEF b
<1>6. PICK j \in 1..(Len(new.keep) + 1) : b = new.breakpoints[j]
  <2>1. ListedIn(b, new)
    BY <1>5, MarksAreListed
  <2> QED BY <2>1 DEF ListedIn
<1>7. DOMAIN new.breakpoints = 1..(Len(new.keep) + 1)
  <2>1. new \in Drafts /\ Validate(new)
    BY DraftOfMarks
  <2> HIDE DEF new
  <2> QED BY <2>1, DraftTypes
<1> HIDE DEF new
<1>8. b \in Range(new.breakpoints)
  BY <1>6, <1>7 DEF Range
<1> QED BY <1>3, <1>8 DEF new

LEMMA KeptAudioSurvives ==
  ASSUME NEW d \in Drafts, Validate(d), NEW t \in Transcriptions, NEW u \in UnitsKept(d),
         u \notin UnitsAfterSilence(SpeakerDraft(d, t, TRUE))
  PROVE  u \in UnitsKept(SpeakerDraft(d, t, TRUE))
<1> DEFINE new == SpeakerDraft(d, t, TRUE)
<1>1. PICK i \in SectionsOf(d) : d.keep[i] /\ u \in At(d, i)..(At(d, i + 1) - 1)
  BY DEF UnitsKept
<1>2. /\ i \in 1..Len(d.keep) /\ Len(d.keep) \in Nat /\ i \in 1..(Len(d.keep) + 1)
      /\ i + 1 \in 1..(Len(d.keep) + 1)
  BY <1>1, DraftTypes
<1>3. At(d, i) \in Times /\ At(d, i + 1) \in Times
  BY <1>2, DraftTypes
<1>4. u \in Nat /\ At(d, i) <= u /\ u < At(d, i + 1) /\ u < Duration
  BY <1>1, <1>3, TimesAssumption DEF Times
<1>5. new \in Drafts /\ Validate(new)
  BY DraftOfMarks
<1>6. \A j \in SectionsOf(new) :
        new.keep[j] = Inherited(d, At(new, j), At(new, j + 1), new.breakpoints[j].kind = "silence_start")
  BY DecisionsAreInherited
<1> HIDE DEF new
<1>7. PICK j \in SectionsOf(new) : 2 * At(new, j) <= 2 * u /\ 2 * u < 2 * At(new, j + 1)
  <2>1. 2 * u \in Nat /\ 2 * u < 2 * Duration
    BY <1>4, TimesAssumption
  <2> QED BY <1>5, <2>1, SectionAt
<1>8. /\ j \in 1..Len(new.keep) /\ Len(new.keep) \in Nat /\ j \in 1..(Len(new.keep) + 1)
      /\ j + 1 \in 1..(Len(new.keep) + 1)
  BY <1>5, <1>7, DraftTypes
<1>9. At(new, j) \in Times /\ At(new, j + 1) \in Times
  BY <1>5, <1>8, DraftTypes
<1>10. u \in At(new, j)..(At(new, j + 1) - 1)
  BY <1>4, <1>7, <1>9 DEF Times
<1>11. new.breakpoints[j].kind # "silence_start"
  BY <1>7, <1>10 DEF UnitsAfterSilence, new
<1>12. At(new, j + 1) > At(d, i) /\ At(new, j) < At(d, i + 1)
  BY <1>3, <1>4, <1>9, <1>10 DEF Times
<1>13. new.keep[j]
  BY <1>1, <1>6, <1>7, <1>11, <1>12 DEF Inherited
<1> QED BY <1>7, <1>10, <1>13 DEF UnitsKept, new

\* SpeakerDraft with edits preserved moves no edited breakpoint and deletes no kept
\* audio except silence, for every draft and every newer transcription.
THEOREM SurvivingDecisions == Spec => []DecisionsSurvive
<1>1. IInv => DecisionsSurvive
  <2> SUFFICES ASSUME IInv, draft # NoDraft PROVE DecisionsSurvive
    BY DEF DecisionsSurvive
  <2>1. draft \in Drafts /\ Validate(draft) /\ source \in Transcriptions
    BY NewestTranscription DEF IInv, TypeOK
  <2>2. \A i \in Interior(draft) :
          draft.breakpoints[i].edited =>
            \E b \in Range(SpeakerDraft(draft, source, TRUE).breakpoints) :
              b.edited /\ b.time = At(draft, i) /\ b.kind = draft.breakpoints[i].kind
    BY <2>1, EditedSurvive
  <2>3. UnitsKept(draft) \ UnitsAfterSilence(SpeakerDraft(draft, source, TRUE))
          \subseteq UnitsKept(SpeakerDraft(draft, source, TRUE))
    BY <2>1, KeptAudioSurvives
  <2> QED BY <2>2, <2>3 DEF DecisionsSurvive
<1> QED BY <1>1, Invariance, PTL

\* What a draft made of marks preserves in turn: what was preserved for it, as the
\* candidates that fitted are neither edited nor added by hand.
LEMMA PreservedAgain ==
  ASSUME NEW d \in Drafts, Validate(d), NEW t \in Transcriptions
  PROVE  Preserved(SpeakerDraft(d, t, TRUE), t) = Preserved(d, t)
<1> DEFINE new == SpeakerDraft(d, t, TRUE)
           M == Marks(d, t, TRUE)
           marks == InOrder(M, Precedes)
           n == Len(new.keep)
<1>1. new \in Drafts /\ Validate(new) /\ new.breakpoints = marks /\ n = Cardinality(M) - 1
  BY DraftOfMarks
<1>2. Good(M) /\ Kept0(d, t, TRUE) \subseteq M /\ M \subseteq Kept0(d, t, TRUE) \cup Candidates(t)
  BY MarksProperties
<1>3. /\ Cardinality(M) \in Nat /\ marks \in [1..Cardinality(M) -> M]
      /\ \A i \in 2..(Cardinality(M) - 1) : marks[i].kind \notin {"start", "end"}
      /\ marks[1] = Beginning /\ marks[Cardinality(M)] = Ending
  BY <1>2, GoodInOrder
<1>4. Kept0(d, t, TRUE) = {Beginning, Ending} \cup Preserved(d, t)
  BY DEF Kept0
<1>5. Beginning.kind = "start" /\ Ending.kind = "end"
  BY DEF Beginning, Ending, Mark
<1>6. ASSUME NEW b \in M
      PROVE  ListedIn(b, new)
  BY MarksAreListed
<1> HIDE DEF M, new, marks, n
<1>7. \A b \in M : b \in Breakpoints
  BY <1>2 DEF Good
<1>8. ASSUME NEW b \in Preserved(d, t)
      PROVE  b \in Preserved(new, t)
  <2>1. PICK i \in 2..Len(d.keep) : /\ b = Placed(d, t, i) /\ b = Recalled(d.breakpoints[i], t)
                                    /\ b.edited \/ b.kind = "manual"
    BY PreservedPlaces
  <2>2. i \in 1..(Len(d.keep) + 1) /\ 1 < i /\ i < Len(d.keep) + 1
    <3>1. Len(d.keep) \in Nat
      BY DraftTypes
    <3> QED BY <3>1
  <2>3. b.kind \notin {"start", "end"}
    BY <2>1, <2>2, PlacedTypes
  <2>4. Recalled(b, t) = b
    <3>1. d.breakpoints[i] \in Breakpoints
      BY <2>2, DraftTypes
    <3> QED BY <2>1, <3>1, RecalledTypes
  <2>5. PICK j \in 1..(n + 1) : b = new.breakpoints[j]
    <3>1. ListedIn(b, new)
      BY <1>2, <1>4, <1>6
    <3> QED BY <3>1 DEF ListedIn, n
  <2>6. j \in 2..n
    <3>1. j # 1 /\ j # n + 1
      BY <1>1, <1>3, <1>5, <2>3, <2>5
    <3>2. n \in Nat
      BY <1>1, DraftTypes DEF n
    <3> QED BY <3>1, <3>2
  <2>7. j \in Interior(new)
    BY <1>1, <2>6, DraftTypes DEF n
  <2>8. b \in {Recalled(new.breakpoints[k], t) : k \in Interior(new)}
    BY <2>4, <2>5, <2>7
  <2> QED BY <2>1, <2>8 DEF Preserved
<1>9. ASSUME NEW b \in Preserved(new, t)
      PROVE  b \in Preserved(d, t)
  <2>1. PICK j \in 2..n : /\ b = Recalled(new.breakpoints[j], t)
                          /\ b.edited \/ b.kind = "manual"
    BY <1>1, PreservedPlaces DEF n
  <2> DEFINE m == marks[j]
  <2>2. m \in M /\ m.kind \notin {"start", "end"} /\ b = Recalled(m, t)
    BY <1>1, <1>3, <2>1
  <2> HIDE DEF m
  <2>3. m \in Preserved(d, t) \/ m \in Candidates(t)
    BY <1>2, <1>4, <1>5, <2>2
  <2>4. CASE m \in Preserved(d, t)
    <3>1. PICK i \in 2..Len(d.keep) : m = Placed(d, t, i) /\ m = Recalled(d.breakpoints[i], t)
      BY <2>4, PreservedPlaces
    <3>2. i \in 1..(Len(d.keep) + 1)
      <4>1. Len(d.keep) \in Nat
        BY DraftTypes
      <4> QED BY <4>1
    <3>3. d.breakpoints[i] \in Breakpoints
      BY <3>2, DraftTypes
    <3>4. Recalled(m, t) = m
      BY <3>1, <3>3, RecalledTypes
    <3> QED BY <2>2, <2>4, <3>4
  <2>5. CASE m \in Candidates(t)
    <3>1. m.time \in Nat /\ m.kind \in {"speaker", "silence_start"} /\ m.edited = FALSE /\ m.source = m.time
      BY <2>5, CandidateTypes
    <3>2. Recalled(m, t) = m
      BY <3>1 DEF Recalled, Never
    <3> QED BY <2>1, <2>2, <3>1, <3>2
  <2> QED BY <2>3, <2>4, <2>5
<1>10. Preserved(new, t) \subseteq Preserved(d, t) /\ Preserved(d, t) \subseteq Preserved(new, t)
  BY <1>8, <1>9
<1> QED BY <1>10 DEF new

\* Marks depends on the draft only through what it preserves.
LEMMA SameMarks ==
  ASSUME NEW d, NEW e, NEW t, Preserved(d, t) = Preserved(e, t)
  PROVE  Marks(d, t, TRUE) = Marks(e, t, TRUE)
BY DEF Marks

\* A section of a draft inherits its own decision from that draft.
LEMMA OwnDecision ==
  ASSUME NEW d \in Drafts, Validate(d), NEW i \in SectionsOf(d), NEW silent
  PROVE  Inherited(d, At(d, i), At(d, i + 1), silent) = d.keep[i]
<1>1. /\ Len(d.keep) \in Nat /\ SectionsOf(d) = 1..Len(d.keep) /\ d.keep[i] \in BOOLEAN
      /\ \A j \in 1..(Len(d.keep) + 1) : At(d, j) \in Times
  BY DraftTypes
<1>2. ASSUME NEW j \in SectionsOf(d), d.keep[j],
             \/ At(d, j) = At(d, i) /\ At(d, j + 1) = At(d, i + 1)
             \/ ~silent /\ At(d, i + 1) > At(d, j) /\ At(d, i) < At(d, j + 1)
      PROVE  j = i
  <2>1. /\ i \in 1..(Len(d.keep) + 1) /\ j \in 1..(Len(d.keep) + 1)
        /\ i + 1 \in 1..(Len(d.keep) + 1) /\ j + 1 \in 1..(Len(d.keep) + 1)
    BY <1>1
  <2>2. At(d, i) \in Nat /\ At(d, j) \in Nat /\ At(d, i + 1) \in Nat /\ At(d, j + 1) \in Nat
    BY <1>1, <2>1 DEF Times
  <2>3. i < j => At(d, j) - At(d, i) >= MinGap
    BY <2>1, BreakpointsAscend
  <2>4. j < i => At(d, i) - At(d, j) >= MinGap
    BY <2>1, BreakpointsAscend
  <2>5. i + 1 < j => At(d, j) - At(d, i + 1) >= MinGap
    BY <2>1, BreakpointsAscend
  <2>6. j + 1 < i => At(d, i) - At(d, j + 1) >= MinGap
    BY <2>1, BreakpointsAscend
  <2>7. CASE i < j
    <3>1. i + 1 = j \/ i + 1 < j
      BY <1>1, <2>7
    <3> QED BY <1>2, <2>2, <2>3, <2>5, <2>7, <3>1, TimesAssumption
  <2>8. CASE j < i
    <3>1. j + 1 = i \/ j + 1 < i
      BY <1>1, <2>8
    <3> QED BY <1>2, <2>2, <2>4, <2>6, <2>8, <3>1, TimesAssumption
  <2> QED BY <1>1, <2>7, <2>8
<1>3. Inherited(d, At(d, i), At(d, i + 1), silent) => d.keep[i]
  BY <1>2 DEF Inherited
<1>4. d.keep[i] => Inherited(d, At(d, i), At(d, i + 1), silent)
  BY DEF Inherited
<1>5. Inherited(d, At(d, i), At(d, i + 1), silent) \in BOOLEAN
  BY DEF Inherited
<1> QED BY <1>1, <1>3, <1>4, <1>5

LEMMA Settles ==
  ASSUME NEW d \in Drafts, Validate(d), NEW t \in Transcriptions
  PROVE  SpeakerDraft(SpeakerDraft(d, t, TRUE), t, TRUE) = SpeakerDraft(d, t, TRUE)
<1> DEFINE new == SpeakerDraft(d, t, TRUE)
           again == SpeakerDraft(new, t, TRUE)
<1>1. /\ new \in Drafts /\ Validate(new)
      /\ new.breakpoints = InOrder(Marks(d, t, TRUE), Precedes)
      /\ Len(new.keep) = Cardinality(Marks(d, t, TRUE)) - 1
  BY DraftOfMarks
<1>2. Preserved(new, t) = Preserved(d, t)
  BY PreservedAgain
<1>3. Marks(new, t, TRUE) = Marks(d, t, TRUE)
  BY <1>2, SameMarks
<1> HIDE DEF new
<1>4. /\ again \in Drafts /\ Validate(again)
      /\ again.breakpoints = InOrder(Marks(new, t, TRUE), Precedes)
      /\ Len(again.keep) = Cardinality(Marks(new, t, TRUE)) - 1
  BY <1>1, DraftOfMarks
<1>5. \A i \in SectionsOf(again) :
        again.keep[i] = Inherited(new, At(again, i), At(again, i + 1),
                                  again.breakpoints[i].kind = "silence_start")
  BY <1>1, DecisionsAreInherited
<1> HIDE DEF again
<1>6. again.breakpoints = new.breakpoints /\ Len(again.keep) = Len(new.keep)
  BY <1>1, <1>3, <1>4
<1>7. SectionsOf(again) = SectionsOf(new) /\ SectionsOf(new) = 1..Len(new.keep)
  BY <1>1, <1>4, <1>6, DraftTypes
<1>8. \A i : At(again, i) = At(new, i)
  BY <1>6 DEF At
<1>9. ASSUME NEW i \in 1..Len(new.keep)
      PROVE  again.keep[i] = new.keep[i]
  <2>1. i \in SectionsOf(again) /\ i \in SectionsOf(new)
    BY <1>7
  <2> DEFINE silent == again.breakpoints[i].kind = "silence_start"
  <2>2. again.keep[i] = Inherited(new, At(again, i), At(again, i + 1), silent)
    BY <1>5, <2>1
  <2> HIDE DEF silent
  <2>3. again.keep[i] = Inherited(new, At(new, i), At(new, i + 1), silent)
    BY <1>8, <2>2
  <2> QED BY <1>1, <2>1, <2>3, OwnDecision
<1>10. again.keep = new.keep
  <2>1. new.keep \in [1..Len(new.keep) -> BOOLEAN] /\ again.keep \in [1..Len(again.keep) -> BOOLEAN]
    BY <1>1, <1>4, PartsOfAccepted
  <2> QED BY <1>6, <1>9, <2>1
<1>11. again = new
  <2>1. again = [breakpoints |-> again.breakpoints, keep |-> again.keep]
    BY <1>4, PartsOfAccepted
  <2>2. new = [breakpoints |-> new.breakpoints, keep |-> new.keep]
    BY <1>1, PartsOfAccepted
  <2> QED BY <1>6, <1>10, <2>1, <2>2
<1> QED BY <1>11 DEF again, new

\* A second click on regenerate (handleRegenerateEditing) changes nothing: with
\* edits preserved SpeakerDraft of its own result is that result.
THEOREM SettledRegeneration == Spec => []RegeneratingSettles
<1>1. IInv => RegeneratingSettles
  <2> SUFFICES ASSUME IInv, draft # NoDraft PROVE RegeneratingSettles
    BY DEF RegeneratingSettles
  <2>1. draft \in Drafts /\ Validate(draft) /\ source \in Transcriptions
    BY NewestTranscription DEF IInv, TypeOK
  <2>2. SpeakerDraft(SpeakerDraft(draft, source, TRUE), source, TRUE) = SpeakerDraft(draft, source, TRUE)
    BY <2>1, Settles
  <2> QED BY <2>2 DEF RegeneratingSettles
<1> QED BY <1>1, Invariance, PTL

-----------------------------------------------------------------------------
(* A generated draft keeps what was said *)

\* In a transcription without doubt every segment is one that SpeakerDraft takes
\* for speech, and the segments follow each other.
LEMMA UnambiguousSegments ==
  ASSUME NEW t \in Transcriptions, Unambiguous(t)
  PROVE  /\ \A i \in DOMAIN t.segments :
              LET s == t.segments[i]
              IN  /\ s.start \in Nat /\ s.end \in Nat /\ s.start < s.end /\ s.end <= Duration
                  /\ Duration - s.start >= MinGap
                  /\ i \in Speaking(t) /\ s.start \in Starts(t)
         /\ \A i, j \in DOMAIN t.segments : i < j => t.segments[i].end <= t.segments[j].start
         /\ \A i, j \in DOMAIN t.segments : i < j \/ i = j \/ j < i
<1>1. ASSUME NEW i \in DOMAIN t.segments
      PROVE  LET s == t.segments[i]
             IN  /\ s.start \in Nat /\ s.end \in Nat /\ s.start < s.end /\ s.end <= Duration
                 /\ Duration - s.start >= MinGap
                 /\ i \in Speaking(t) /\ s.start \in Starts(t)
  <2> DEFINE s == t.segments[i]
  <2>1. s \in Passages /\ s \in Range(t.segments)
    BY SegmentTypes DEF Range
  <2>2. s.speaker # 0 /\ s.start < s.end /\ s.end <= Duration /\ Duration - s.start >= MinGap
    BY <2>1 DEF Unambiguous
  <2>3. i \in Speaking(t)
    BY <2>2 DEF Speaking
  <2>4. s.start \in Starts(t)
    <3>1. s \in {x \in Range(t.segments) : x.speaker # 0}
      BY <2>1, <2>2
    <3> QED BY <3>1 DEF Starts
  <2>5. s.start \in Nat /\ s.end \in Nat
    BY <2>1 DEF Passages
  <2> HIDE DEF s
  <2>6. /\ s.start \in Nat /\ s.end \in Nat /\ s.start < s.end /\ s.end <= Duration
        /\ Duration - s.start >= MinGap
        /\ i \in Speaking(t) /\ s.start \in Starts(t)
    BY <2>2, <2>3, <2>4, <2>5
  <2> QED BY <2>6 DEF s
<1>2. \A i, j \in DOMAIN t.segments : i < j => t.segments[i].end <= t.segments[j].start
  BY DEF Unambiguous
<1>3. \A i, j \in DOMAIN t.segments : i < j \/ i = j \/ j < i
  BY SegmentTypes
<1> QED BY <1>1, <1>2, <1>3

\* After a marked pause there is a breakpoint before anything is said again: the
\* start of the speaker after the pause, or what that start was too close to.
LEMMA PauseEnds ==
  ASSUME NEW d \in Drafts, Validate(d), NEW t \in Transcriptions, Unambiguous(t),
         NEW pause \in Marks(d, t, FALSE), pause.kind = "silence_start",
         NEW m \in DOMAIN t.segments, t.segments[m].end > pause.time
  PROVE  \E x \in Marks(d, t, FALSE) : pause.time < x.time /\ x.time <= t.segments[m].start
<1> DEFINE M == Marks(d, t, FALSE)
           Start(i) == t.segments[i].start
           End(i) == t.segments[i].end
<1>1. /\ Good(M) /\ Kept0(d, t, FALSE) \subseteq M /\ M \subseteq Kept0(d, t, FALSE) \cup Candidates(t)
      /\ Kept0(d, t, FALSE) = {Beginning, Ending}
  BY MarksProperties DEF Kept0
<1>2. /\ \A c \in Candidates(t) :
           \E before : /\ before \subseteq M
                       /\ \A b \in before : b \in Kept0(d, t, FALSE) \/ Precedes(b, c)
                       /\ Fits(c, before) => c \in M
  BY MarksProperties
<1> HIDE DEF M
<1>3. /\ Beginning.kind = "start" /\ Ending.kind = "end" /\ Beginning.time = 0 /\ Ending.time = Duration
      /\ Beginning.source = Never /\ Ending.source = Never
  BY DEF Beginning, Ending, Mark
<1>4. pause \in Candidates(t)
  BY <1>1, <1>3 DEF M
<1>5. PICK k \in Speaking(t) : /\ pause.time = End(k)
                               /\ \E j \in Speaking(t) : IsNext(t, k, j) /\ PauseBetween(t, k, j)
  <2>1. ~\E time \in Starts(t) : pause = Mark(time, "speaker", FALSE, time)
    BY DEF Mark
  <2>2. PICK time \in Pauses(t) : pause = Mark(time, "silence_start", FALSE, time)
    BY <1>4, <2>1, CandidateCases
  <2>3. pause.time \in Pauses(t)
    BY <2>2 DEF Mark
  <2> QED BY <2>3 DEF Pauses
<1>6. PICK j \in Speaking(t) : IsNext(t, k, j) /\ PauseBetween(t, k, j)
  BY <1>5
<1>7. k \in DOMAIN t.segments /\ j \in DOMAIN t.segments
  BY DEF Speaking
<1>8. /\ \A i \in DOMAIN t.segments :
           /\ Start(i) \in Nat /\ End(i) \in Nat /\ Start(i) < End(i) /\ End(i) <= Duration
           /\ Duration - Start(i) >= MinGap
           /\ i \in Speaking(t) /\ Start(i) \in Starts(t)
      /\ \A i, n \in DOMAIN t.segments : i < n => End(i) <= Start(n)
      /\ \A i, n \in DOMAIN t.segments : i < n \/ i = n \/ n < i
  BY UnambiguousSegments
<1>9. Start(j) - End(k) > LongPause
  BY <1>6 DEF PauseBetween
\* What is said ends after the pause begins, so it is said after the pause.
<1>10. k < m
  <2>1. End(m) > End(k)
    BY <1>5
  <2>2. ~(m < k)
    <3> SUFFICES ASSUME m < k PROVE FALSE
      OBVIOUS
    <3>1. End(m) <= Start(k) /\ Start(k) < End(k)
      BY <1>7, <1>8
    <3> QED BY <1>7, <1>8, <2>1, <3>1
  <2>3. m # k
    BY <1>7, <1>8, <2>1
  <2> QED BY <1>7, <1>8, <2>2, <2>3
<1>11. Start(j) <= Start(m)
  <2>1. Sooner(t, k, m)
    <3>1. End(k) <= Start(m) /\ Start(k) < End(k)
      BY <1>7, <1>8, <1>10
    <3> QED BY <1>7, <1>8, <3>1 DEF Sooner
  <2>2. ~Sooner(t, m, j)
    BY <1>6, <1>8, <2>1 DEF IsNext
  <2> QED BY <1>7, <1>8, <2>2 DEF Sooner
<1>12. End(k) >= MinGap /\ End(k) \in Nat /\ Start(j) \in Nat /\ Duration - Start(j) >= MinGap
  <2>1. Distance(pause.time, 0) >= MinGap
    <3>1. Beginning \in M /\ pause \in M /\ pause # Beginning
      BY <1>1, <1>3 DEF M
    <3> QED BY <1>1, <1>3, <3>1 DEF Good, Apart
  <2> QED BY <1>5, <1>7, <1>8, <2>1, TimesAssumption DEF Distance
<1> DEFINE c == Mark(Start(j), "speaker", FALSE, Start(j))
<1>13. c \in Candidates(t) /\ c.time = Start(j) /\ c.kind = "speaker"
  <2>1. Start(j) \in Starts(t)
    BY <1>7, <1>8
  <2>2. c.time = Start(j) /\ c.kind = "speaker"
    BY DEF Mark
  <2>3. c \in Candidates(t)
    BY <2>1, CandidateCases
  <2> QED BY <2>2, <2>3
<1> HIDE DEF c
<1>14. \E x \in M : pause.time < x.time /\ x.time <= Start(j)
  <2>1. PICK before : /\ before \subseteq M
                      /\ \A b \in before : b \in Kept0(d, t, FALSE) \/ Precedes(b, c)
                      /\ Fits(c, before) => c \in M
    BY <1>2, <1>13
  <2>2. MinGap \in Nat /\ LongPause \in Nat /\ MinGap <= LongPause /\ Duration \in Nat
    BY TimesAssumption
  <2>3. CASE c \in M
    <3>1. pause.time < c.time /\ c.time <= Start(j)
      BY <1>5, <1>9, <1>12, <1>13, <2>2
    <3> QED BY <2>3, <3>1
  <2>4. CASE c \notin M
    <3>1. PICK b \in before : ~(Distance(c.time, b.time) >= MinGap /\ b.source # c.time)
      <4>1. ~Fits(c, before)
        BY <2>1, <2>4
      <4>2. c.time >= MinGap /\ Duration - c.time >= MinGap
        BY <1>9, <1>12, <1>13, <2>2
      <4> QED BY <4>1, <4>2 DEF Fits
    <3>2. b \in M /\ b.time \in Nat
      BY <1>1, <2>1 DEF Good, Breakpoints, Times
    <3>3. b # Beginning /\ b # Ending
      <4>1. Distance(c.time, 0) >= MinGap /\ Distance(c.time, Duration) >= MinGap
        BY <1>9, <1>12, <1>13, <2>2 DEF Distance
      <4>2. Never # c.time
        BY <1>12, <1>13 DEF Never
      <4> QED BY <1>3, <3>1, <4>1, <4>2
    <3>4. b \in Candidates(t) /\ b.source = b.time /\ b.time <= c.time
      <4>1. b \in Candidates(t) /\ Precedes(b, c)
        BY <1>1, <2>1, <3>2, <3>3
      <4>2. b.source = b.time
        BY <4>1, CandidateTypes
      <4> QED BY <1>12, <1>13, <3>2, <4>1, <4>2 DEF Precedes
    <3>5. pause.time < b.time
      <4>1. CASE b.source = c.time
        BY <1>5, <1>9, <1>12, <1>13, <2>2, <3>4, <4>1
      <4>2. CASE Distance(c.time, b.time) < MinGap
        BY <1>5, <1>9, <1>12, <1>13, <2>2, <3>2, <3>4, <4>2 DEF Distance
      <4>3. Distance(c.time, b.time) \in Int
        BY <1>12, <1>13, <3>2 DEF Distance
      <4> QED BY <2>2, <3>1, <4>1, <4>2, <4>3
    <3> QED BY <1>13, <3>2, <3>4, <3>5
  <2> QED BY <2>3, <2>4
<1>15. PICK x \in M : pause.time < x.time /\ x.time <= Start(j)
  BY <1>14
<1>16. x.time \in Nat /\ Start(m) \in Nat
  BY <1>1, <1>8 DEF Good, Breakpoints, Times
<1>17. x.time <= Start(m)
  BY <1>11, <1>12, <1>15, <1>16
<1> QED BY <1>15, <1>17 DEF M

\* What is said is in a section that is kept.
LEMMA SaidIsKept ==
  ASSUME NEW d \in Drafts, Validate(d), NEW t \in Transcriptions, Unambiguous(t),
         NEW w \in Range(t.words), w.said
  PROVE  LET new == SpeakerDraft(d, t, FALSE)
         IN  \E i \in SectionsOf(new) : new.keep[i] /\ MiddleIn(w, At(new, i), At(new, i + 1))
<1> DEFINE new == SpeakerDraft(d, t, FALSE)
           M == Marks(d, t, FALSE)
           marks == InOrder(M, Precedes)
           n == Cardinality(M)
<1>1. /\ new.breakpoints = marks
      /\ DOMAIN new.keep = 1..(n - 1) /\ Len(new.keep) = n - 1
      /\ \A i \in 1..(n - 1) : new.keep[i] = Decision(d, t, FALSE, marks, i)
      /\ new \in Drafts /\ Validate(new)
  BY DraftOfMarks
<1>2. Good(M)
  BY MarksProperties
<1>3. /\ n \in Nat /\ marks \in [1..n -> M]
      /\ \A x \in M : \E i \in 1..n : marks[i] = x
      /\ \A i, j \in 1..n : i < j => marks[j].time - marks[i].time >= MinGap
  BY <1>2, GoodInOrder
<1>4. PICK s \in Range(t.segments) : MiddleIn(w, s.start, s.end)
  BY DEF Unambiguous
<1>5. PICK m \in DOMAIN t.segments : s = t.segments[m]
  BY SegmentTypes
<1>6. s.start \in Nat /\ s.end \in Nat /\ s.end <= Duration
  BY <1>5, UnambiguousSegments
<1>7. Middle(w) \in Nat /\ 2 * s.start <= Middle(w) /\ Middle(w) < 2 * s.end
  <2>1. w \in Passages
    BY DEF Range, Transcriptions
  <2> QED BY <1>4, <2>1 DEF MiddleIn, Middle, Passages
<1> HIDE DEF new, M, marks, n
<1>8. PICK i \in SectionsOf(new) : 2 * At(new, i) <= Middle(w) /\ Middle(w) < 2 * At(new, i + 1)
  <2>1. Middle(w) < 2 * Duration
    BY <1>6, <1>7, TimesAssumption
  <2> QED BY <1>1, <1>7, <2>1, SectionAt
<1>9. /\ i \in 1..(n - 1) /\ i \in 1..n /\ i + 1 \in 1..n
      /\ At(new, i) = marks[i].time /\ At(new, i + 1) = marks[i + 1].time
  BY <1>1, <1>3, <1>8 DEF SectionsOf, At
<1>10. MiddleIn(w, marks[i].time, marks[i + 1].time)
  BY <1>8, <1>9 DEF MiddleIn
<1>11. \A k \in 1..n : marks[k] \in M /\ marks[k].time \in Nat
  BY <1>2, <1>3 DEF Good, Breakpoints, Times
<1>12. marks[i].kind # "silence_start"
  <2> SUFFICES ASSUME marks[i].kind = "silence_start" PROVE FALSE
    OBVIOUS
  <2>1. marks[i] \in M /\ marks[i].time < s.end
    BY <1>6, <1>7, <1>8, <1>9, <1>11
  <2>2. \E x \in M : marks[i].time < x.time /\ x.time <= s.start
    BY <1>5, <2>1, PauseEnds DEF M
  <2>3. PICK x \in M : marks[i].time < x.time /\ x.time <= s.start
    BY <2>2
  <2>4. PICK k \in 1..n : marks[k] = x
    BY <1>3
  <2>5. x.time < marks[i + 1].time
    <3>1. s.start < marks[i + 1].time
      BY <1>6, <1>7, <1>8, <1>9, <1>11
    <3> QED BY <1>6, <1>9, <1>11, <2>3, <2>4, <3>1
  <2>6. i < k
    <3>1. k < i => marks[i].time - marks[k].time >= MinGap
      BY <1>3, <1>9
    <3>2. k # i
      BY <1>9, <1>11, <2>3, <2>4
    <3> QED BY <1>9, <1>11, <2>3, <2>4, <3>1, <3>2, TimesAssumption
  <2>7. k < i + 1
    <3>1. i + 1 < k => marks[k].time - marks[i + 1].time >= MinGap
      BY <1>3, <1>9
    <3>2. k # i + 1
      BY <1>9, <1>11, <2>4, <2>5
    <3> QED BY <1>9, <1>11, <2>4, <2>5, <3>1, <3>2, TimesAssumption
  <2> QED BY <1>9, <2>6, <2>7
<1>13. HasTranscript(t, marks[i].time, marks[i + 1].time)
  <2>1. PICK k \in DOMAIN t.words : w = t.words[k]
    BY DEF Range
  <2>2. t.words # << >>
    BY <2>1
  <2> DEFINE heard == IF t.words # << >> THEN t.words ELSE t.segments
  <2>3. w \in Range(heard)
    BY <2>2
  <2> HIDE DEF heard
  <2>4. \E p \in Range(heard) : MiddleIn(p, marks[i].time, marks[i + 1].time) /\ p.said
    BY <1>10, <2>3
  <2> QED BY <2>4 DEF HasTranscript, heard
<1>14. new.keep[i]
  <2>1. Decision(d, t, FALSE, marks, i)
    BY <1>12, <1>13 DEF Decision
  <2> QED BY <1>1, <1>9, <2>1
<1>15. \E k \in SectionsOf(new) : new.keep[k] /\ MiddleIn(w, At(new, k), At(new, k + 1))
  BY <1>8, <1>9, <1>10, <1>14
<1> QED BY <1>15 DEF new

\* A generated draft (SpeakerDraft) keeps every word that is said, for every
\* transcription whose segments name a speaker and do not overlap.
THEOREM GeneratedSpeech == Spec => []GeneratedDraftKeepsSpeech
<1>1. IInv => GeneratedDraftKeepsSpeech
  <2> SUFFICES ASSUME IInv, draft # NoDraft, Unambiguous(source) PROVE GeneratedDraftKeepsSpeech
    BY DEF GeneratedDraftKeepsSpeech
  <2>1. draft \in Drafts /\ Validate(draft) /\ source \in Transcriptions
    BY NewestTranscription DEF IInv, TypeOK
  <2> DEFINE new == SpeakerDraft(draft, source, FALSE)
  <2>2. ASSUME NEW w \in Range(source.words), w.said
        PROVE  \E i \in SectionsOf(new) : new.keep[i] /\ MiddleIn(w, At(new, i), At(new, i + 1))
    BY <2>1, <2>2, SaidIsKept
  <2> QED BY <2>2 DEF GeneratedDraftKeepsSpeech
<1> QED BY <1>1, Invariance, PTL

-----------------------------------------------------------------------------
(* The transcript of what is kept *)

\* What keptRanges returns a list of.
Spans == [start : Nat, end : Nat]

-----------------------------------------------------------------------------
(* The ranges that are kept *)

\* The last range ends later, or there is one more.
Prolonged(new, r, to) ==
  /\ new \in Seq(Spans) /\ Len(new) = Len(r)
  /\ \A k \in 1..(Len(r) - 1) : new[k] = r[k]
  /\ new[Len(r)].start = r[Len(r)].start /\ new[Len(r)].end = to
Added(new, r, from, to) ==
  /\ new \in Seq(Spans) /\ Len(new) = Len(r) + 1
  /\ \A k \in 1..Len(r) : new[k] = r[k]
  /\ new[Len(r) + 1].start = from /\ new[Len(r) + 1].end = to

LEMMA ExtendedRanges ==
  ASSUME NEW r \in Seq(Spans), NEW from \in Nat, NEW to \in Nat
  PROVE  IF r # << >> /\ r[Len(r)].end = from
         THEN Prolonged(Extended(r, from, to), r, to)
         ELSE Added(Extended(r, from, to), r, from, to)
<1> DEFINE new == Extended(r, from, to)
           n == Len(r)
<1>1. n \in Nat /\ \A k \in 1..n : r[k] \in Spans
  BY LenProperties
<1>2. CASE r # << >> /\ r[n].end = from
  <2>1. n \in 1..n
    BY <1>1, <1>2, EmptySeq
  <2>2. new = [r EXCEPT ![n].end = to]
    BY <1>2 DEF Extended, Last
  <2> DEFINE e == [r[n] EXCEPT !.end = to]
  <2>3. r[n] \in Spans
    BY <1>1, <2>1
  <2>4. e \in Spans /\ e.start = r[n].start /\ e.end = to
    BY <2>3 DEF Spans
  <2>5. new = [r EXCEPT ![n] = e]
    BY <2>2
  <2> HIDE DEF e, new
  <2>6. /\ new \in Seq(Spans) /\ Len(new) = n
        /\ \A k \in 1..n : new[k] = IF k = n THEN e ELSE r[k]
    BY <2>1, <2>4, <2>5, ExceptSeq
  <2>7. new[n] = e
    BY <2>1, <2>6
  <2>8. ASSUME NEW k \in 1..(n - 1)
        PROVE  new[k] = r[k]
    <3>1. k \in 1..n /\ k # n
      BY <1>1
    <3> QED BY <2>6, <3>1
  <2> QED BY <1>2, <2>4, <2>6, <2>7, <2>8 DEF new, Prolonged
<1>3. CASE ~(r # << >> /\ r[n].end = from)
  <2> DEFINE e == [start |-> from, end |-> to]
  <2>1. new = Append(r, e)
    BY <1>3 DEF Extended, Last
  <2>2. e \in Spans /\ e.start = from /\ e.end = to
    BY DEF Spans
  <2> HIDE DEF e, new
  <2>3. /\ new \in Seq(Spans) /\ Len(new) = n + 1
        /\ \A k \in 1..n : new[k] = r[k]
        /\ new[n + 1] = e
    BY <2>1, <2>2, AppendProperties
  <2> QED BY <1>3, <2>2, <2>3 DEF new, Added
<1> QED BY <1>2, <1>3

\* From no range to those of a draft in steps, each of which adds a section.
Collected(d, n, ranges) ==
  \E G \in [0..n -> Seq(Spans)] :
    /\ G[0] = << >>
    /\ \A k \in 1..n : G[k] = IF d.keep[k] THEN Extended(G[k - 1], At(d, k), At(d, k + 1))
                                           ELSE G[k - 1]
    /\ ranges = G[n]

LEMMA KeptRangesSteps ==
  ASSUME NEW d \in Drafts, Validate(d)
  PROVE  Collected(d, Len(d.keep), KeptRanges(d))
<1> DEFINE n == Len(d.keep)
           V == Seq(Spans)
           base == << >>
           cs == [i \in SectionsOf(d) |-> i]
           Step(r, i) == IF d.keep[i] THEN Extended(r, At(d, i), At(d, i + 1)) ELSE r
           F == [p \in V \X (1..n) |-> Step(p[1], p[2])]
           it == CHOOSE g : g = [s \in SUBSET (1..n) |->
                   IF s = {} THEN base ELSE Step(g[s \ {Max(s)}], cs[Max(s)])]
<1>1. n \in Nat /\ SectionsOf(d) = 1..n /\ DOMAIN cs = 1..n /\ \A k \in 1..n : cs[k] = k
  BY DraftTypes
<1>2. ASSUME NEW r \in V, NEW k \in 1..n
      PROVE  Step(r, k) \in V
  <2>1. k \in 1..(n + 1) /\ k + 1 \in 1..(n + 1)
    BY <1>1
  <2>2. At(d, k) \in Nat /\ At(d, k + 1) \in Nat
    BY <2>1, DraftTypes DEF Times
  <2>3. Extended(r, At(d, k), At(d, k + 1)) \in V
    BY <2>2, ExtendedRanges DEF Prolonged, Added
  <2> QED BY <2>3
<1>3. KeptRanges(d) = it[1..n]
  BY <1>1 DEF KeptRanges, FoldLeft, MapThenFoldSet
<1>4. base \in V
  BY EmptySeq
<1> HIDE DEF V, Step, base, cs, n
<1>5. F \in [V \X (1..n) -> V]
  BY <1>2
<1>6. \A r \in V, k \in 1..n : F[<<r, k>>] = Step(r, k)
  OBVIOUS
<1>7. \A s \in SUBSET (1..n) : s # {} => Max(s) \in s /\ Max(s) \in 1..n
  BY <1>1, MaxOfPart
<1> HIDE DEF F
<1>8. PICK g : Recursion(g, n, V, base, F)
  BY <1>1, <1>4, <1>5, FoldHasSolution
<1>9. ASSUME NEW s \in SUBSET (1..n)
      PROVE  g[s] = IF s = {} THEN base ELSE Step(g[s \ {Max(s)}], cs[Max(s)])
  <2>1. s # {} => g[s \ {Max(s)}] \in V
    BY <1>8 DEF Recursion
  <2>2. g[s] = IF s = {} THEN base ELSE F[<<g[s \ {Max(s)}], Max(s)>>]
    BY <1>8 DEF Recursion
  <2>3. ASSUME s # {}
        PROVE  F[<<g[s \ {Max(s)}], Max(s)>>] = Step(g[s \ {Max(s)}], cs[Max(s)])
    <3> DEFINE value == g[s \ {Max(s)}]
               max == Max(s)
    <3>1. value \in V /\ max \in 1..n
      BY <1>7, <2>1, <2>3
    <3> HIDE DEF value, max
    <3>2. F[<<value, max>>] = Step(value, cs[max])
      BY <1>1, <1>6, <3>1
    <3> QED BY <3>2 DEF value, max
  <2> QED BY <2>2, <2>3
<1>10. g = [s \in SUBSET (1..n) |->
              IF s = {} THEN base ELSE Step(g[s \ {Max(s)}], cs[Max(s)])]
  BY <1>8, <1>9 DEF Recursion
<1>11. it = [s \in SUBSET (1..n) |->
               IF s = {} THEN base ELSE Step(it[s \ {Max(s)}], cs[Max(s)])]
  BY <1>10
<1> HIDE DEF it
<1>12. it[{}] = base
  BY <1>11
<1>13. ASSUME NEW k \in 1..n, it[1..(k - 1)] \in V
       PROVE  it[1..k] = F[<<it[1..(k - 1)], k>>]
  <2>1. 1..k \in SUBSET (1..n) /\ k \in 1..k /\ (1..k) \ {k} = 1..(k - 1)
    BY <1>1
  <2>2. Max(1..k) = k
    BY <1>1, <2>1, MaxOfPrefix
  <2>3. it[1..k] = Step(it[1..(k - 1)], cs[k])
    BY <1>11, <2>1, <2>2
  <2>4. it[1..k] = Step(it[1..(k - 1)], k)
    BY <1>1, <2>3
  <2> QED BY <1>6, <1>13, <2>4
<1>14. PICK G : Iteration(G, n, V, base, F) /\ Agrees(G, it, n)
  <2>1. Unfolds(it, n, V, base, F)
    BY <1>12, <1>13 DEF Unfolds
  <2> QED BY <1>1, <1>4, <1>5, <2>1, FoldSteps
<1>15. G \in [0..n -> V] /\ G[0] = base
  BY <1>14 DEF Iteration
<1>16. ASSUME NEW k \in 1..n
       PROVE  G[k] = Step(G[k - 1], k)
  <2>1. k - 1 \in 0..n
    BY <1>1
  <2>2. G[k - 1] \in V /\ G[k] = F[<<G[k - 1], k>>]
    BY <1>14, <1>15, <2>1 DEF Iteration
  <2> QED BY <1>6, <2>2
<1> QED BY <1>3, <1>14, <1>15, <1>16 DEF Agrees, V, Step, base, n, Collected

\* Ranges in order, with something deleted between each two.
Ascends(r) ==
  /\ \A a \in 1..Len(r) : r[a].start < r[a].end
  /\ \A a, b \in 1..Len(r) : a < b => r[a].end < r[b].start

\* A moment is a number of halves, as the middle of a passage is.
Between(m, from, to) == 2 * from <= m /\ m < 2 * to
Within(r, m)     == \E a \in 1..Len(r) : Between(m, r[a].start, r[a].end)
KeptIn(d, k, m)  == \E j \in 1..k : d.keep[j] /\ Between(m, At(d, j), At(d, j + 1))
EndsBy(r, limit) == \A a \in 1..Len(r) : r[a].end <= limit

LEMMA RangeTypes ==
  ASSUME NEW r \in Seq(Spans)
  PROVE  /\ Len(r) \in Nat /\ DOMAIN r = 1..Len(r)
         /\ \A a \in 1..Len(r) : r[a] \in Spans /\ r[a].start \in Nat /\ r[a].end \in Nat
<1>1. Len(r) \in Nat /\ DOMAIN r = 1..Len(r) /\ \A a \in 1..Len(r) : r[a] \in Spans
  BY LenProperties
<1> QED BY <1>1 DEF Spans

LEMMA ExtendedHolds ==
  ASSUME NEW r \in Seq(Spans), NEW from \in Nat, NEW to \in Nat, from < to,
         Ascends(r), EndsBy(r, from)
  PROVE  LET new == Extended(r, from, to)
         IN  /\ new \in Seq(Spans) /\ Ascends(new) /\ EndsBy(new, to)
             /\ \A m \in Nat : Within(new, m) <=> Within(r, m) \/ Between(m, from, to)
<1> DEFINE new == Extended(r, from, to)
           n == Len(r)
<1>1. n \in Nat /\ \A a \in 1..n : r[a].start \in Nat /\ r[a].end \in Nat
  BY RangeTypes
<1>2. /\ \A a \in 1..n : r[a].start < r[a].end /\ r[a].end <= from
      /\ \A a, b \in 1..n : a < b => r[a].end < r[b].start
  BY DEF Ascends, EndsBy
<1>3. CASE r # << >> /\ r[n].end = from
  <2>1. n \in 1..n
    BY <1>1, <1>3, EmptySeq
  <2>2. /\ new \in Seq(Spans) /\ Len(new) = n
        /\ \A k \in 1..(n - 1) : new[k] = r[k]
        /\ new[n].start = r[n].start /\ new[n].end = to
    BY <1>3, ExtendedRanges DEF Prolonged
  <2> HIDE DEF new
  <2>3. ASSUME NEW a \in 1..n
        PROVE  /\ new[a].start = r[a].start
               /\ a # n => new[a].end = r[a].end
               /\ a = n => new[a].end = to
    <3>1. a # n => a \in 1..(n - 1)
      BY <1>1
    <3> QED BY <2>2, <3>1
  <2>4. Ascends(new) /\ EndsBy(new, to)
    <3>1. ASSUME NEW a \in 1..n
          PROVE  new[a].start < new[a].end /\ new[a].end <= to
      <4>1. r[a].start \in Nat /\ r[a].end \in Nat /\ r[a].start < r[a].end /\ r[a].end <= from
        BY <1>1, <1>2
      <4>2. new[a].start = r[a].start /\ new[a].end \in {r[a].end, to}
        BY <2>3
      <4> QED BY <4>1, <4>2
    <3>2. ASSUME NEW a \in 1..n, NEW b \in 1..n, a < b
          PROVE  new[a].end < new[b].start
      <4>1. a # n
        BY <1>1, <3>2
      <4> QED BY <1>2, <2>3, <3>2, <4>1
    <3> QED BY <2>2, <3>1, <3>2 DEF Ascends, EndsBy
  <2>5. ASSUME NEW m \in Nat
        PROVE  Within(new, m) <=> Within(r, m) \/ Between(m, from, to)
    <3>1. ASSUME NEW a \in 1..n, Between(m, new[a].start, new[a].end)
          PROVE  Within(r, m) \/ Between(m, from, to)
      <4>1. Between(m, r[a].start, r[a].end) \/ Between(m, from, to)
        BY <1>1, <1>3, <2>1, <2>3, <3>1 DEF Between
      <4> QED BY <4>1 DEF Within
    <3>2. ASSUME NEW a \in 1..n, Between(m, r[a].start, r[a].end)
          PROVE  Within(new, m)
      <4>1. Between(m, new[a].start, new[a].end)
        BY <1>1, <1>2, <1>3, <2>3, <3>2 DEF Between
      <4> QED BY <2>2, <4>1 DEF Within
    <3>3. ASSUME Between(m, from, to)
          PROVE  Within(new, m)
      <4>1. Between(m, new[n].start, new[n].end)
        <5>1. new[n].start = r[n].start /\ new[n].end = to /\ r[n].start \in Nat
              /\ r[n].start < r[n].end /\ r[n].end = from
          BY <1>1, <1>2, <1>3, <2>1, <2>3
        <5> DEFINE s == r[n].start
        <5>2. s \in Nat /\ s < from
          BY <5>1
        <5> HIDE DEF s
        <5>3. 2 * s <= m /\ m < 2 * to
          BY <3>3, <5>2 DEF Between
        <5> QED BY <5>1, <5>3 DEF Between, s
      <4> QED BY <2>1, <2>2, <4>1 DEF Within
    <3> QED BY <2>2, <3>1, <3>2, <3>3 DEF Within
  <2> QED BY <2>2, <2>4, <2>5 DEF new
<1>4. CASE ~(r # << >> /\ r[n].end = from)
  <2>0. Added(new, r, from, to)
    BY <1>4, ExtendedRanges
  <2> HIDE DEF new
  <2>1. /\ new \in Seq(Spans) /\ Len(new) = n + 1
        /\ \A k \in 1..n : new[k] = r[k]
        /\ new[n + 1].start = from /\ new[n + 1].end = to
    BY <2>0 DEF Added
  <2>2. n + 1 \in 1..(n + 1) /\ \A a \in 1..(n + 1) : a \in 1..n \/ a = n + 1
    BY <1>1
  <2>3. ASSUME NEW a \in 1..n
        PROVE  r[a].end < from
    <3>1. r # << >> /\ n \in 1..n
      BY <1>1, EmptySeq
    <3>2. r[n].end # from /\ r[n].start < r[n].end /\ r[n].end <= from
      BY <1>2, <1>4, <3>1
    <3>3. a = n \/ r[a].end < r[n].start
      BY <1>1, <1>2, <3>1
    <3> QED BY <1>1, <3>1, <3>2, <3>3
  <2>4. Ascends(new) /\ EndsBy(new, to)
    <3>1. ASSUME NEW a \in 1..(n + 1)
          PROVE  new[a].start < new[a].end /\ new[a].end <= to
      <4>1. CASE a \in 1..n
        BY <1>1, <1>2, <2>1, <4>1
      <4>2. CASE a = n + 1
        BY <2>1, <4>2
      <4> QED BY <2>2, <4>1, <4>2
    <3>2. ASSUME NEW a \in 1..(n + 1), NEW b \in 1..(n + 1), a < b
          PROVE  new[a].end < new[b].start
      <4>1. a \in 1..n
        BY <1>1, <3>2
      <4>2. CASE b \in 1..n
        BY <1>2, <2>1, <3>2, <4>1, <4>2
      <4>3. CASE b = n + 1
        BY <2>1, <2>3, <4>1, <4>3
      <4> QED BY <2>2, <4>2, <4>3
    <3> QED BY <2>1, <3>1, <3>2 DEF Ascends, EndsBy
  <2>5. ASSUME NEW m \in Nat
        PROVE  Within(new, m) <=> Within(r, m) \/ Between(m, from, to)
    <3>1. ASSUME NEW a \in 1..(n + 1), Between(m, new[a].start, new[a].end)
          PROVE  Within(r, m) \/ Between(m, from, to)
      <4>1. CASE a \in 1..n
        BY <2>1, <3>1, <4>1 DEF Within
      <4>2. CASE a = n + 1
        BY <2>1, <3>1, <4>2
      <4> QED BY <2>2, <4>1, <4>2
    <3>2. ASSUME NEW a \in 1..n, Between(m, r[a].start, r[a].end)
          PROVE  Within(new, m)
      <4>1. a \in 1..(n + 1) /\ Between(m, new[a].start, new[a].end)
        BY <1>1, <2>1, <3>2
      <4> QED BY <2>1, <4>1 DEF Within
    <3>3. ASSUME Between(m, from, to)
          PROVE  Within(new, m)
      BY <2>1, <2>2, <3>3 DEF Within
    <3> QED BY <2>1, <3>1, <3>2, <3>3 DEF Within
  <2> QED BY <2>1, <2>4, <2>5 DEF new
<1> QED BY <1>3, <1>4

\* What the ranges hold is what the first k sections keep.
Holds(r, d, k) ==
  /\ r \in Seq(Spans) /\ Ascends(r) /\ EndsBy(r, At(d, k + 1))
  /\ \A m \in Nat : Within(r, m) <=> KeptIn(d, k, m)

LEMMA KeptRangesHold ==
  ASSUME NEW d \in Drafts, Validate(d)
  PROVE  Holds(KeptRanges(d), d, Len(d.keep))
<1> DEFINE n == Len(d.keep)
<1>1. n \in Nat /\ n \in 0..n
  BY DraftTypes
<1>2. PICK G \in [0..n -> Seq(Spans)] :
        /\ G[0] = << >>
        /\ \A k \in 1..n : G[k] = IF d.keep[k] THEN Extended(G[k - 1], At(d, k), At(d, k + 1))
                                               ELSE G[k - 1]
        /\ KeptRanges(d) = G[n]
  BY KeptRangesSteps DEF Collected
<1> DEFINE T == {k \in 0..n : Holds(G[k], d, k)}
<1>3. 0 \in T
  <2> DEFINE e == << >>
  <2>1. e \in Seq(Spans) /\ Len(e) = 0
    BY EmptySeq
  <2>2. 1..0 = {}
    OBVIOUS
  <2> HIDE DEF e
  <2>3. Ascends(e) /\ EndsBy(e, At(d, 0 + 1))
    BY <2>1, <2>2 DEF Ascends, EndsBy
  <2>4. \A m \in Nat : Within(e, m) <=> KeptIn(d, 0, m)
    BY <2>1, <2>2 DEF Within, KeptIn
  <2>5. Holds(e, d, 0)
    BY <2>1, <2>3, <2>4 DEF Holds
  <2>6. G[0] = e
    BY <1>2 DEF e
  <2> QED BY <1>1, <2>5, <2>6
<1>4. ASSUME NEW j \in 0..(n - 1), j \in T
      PROVE  j + 1 \in T
  <2> DEFINE k == j + 1
             r == G[j]
             from == At(d, k)
             to == At(d, k + 1)
  <2>1. k \in 1..n /\ k \in 0..n /\ k - 1 = j /\ k \in 1..(n + 1) /\ k + 1 \in 1..(n + 1)
    BY <1>1
  <2>2. from \in Nat /\ to \in Nat /\ from < to
    <3>1. from \in Nat /\ to \in Nat
      BY <2>1, DraftTypes DEF Times
    <3>2. to - from >= MinGap /\ MinGap \in Nat \ {0}
      BY <2>1, BreakpointsAscend, TimesAssumption
    <3> QED BY <3>1, <3>2
  <2>3. Holds(r, d, j)
    BY <1>4
  <2>4. r \in Seq(Spans) /\ Ascends(r) /\ EndsBy(r, from)
        /\ \A m \in Nat : Within(r, m) <=> KeptIn(d, j, m)
    BY <2>3 DEF Holds
  <2>5. G[k] = IF d.keep[k] THEN Extended(r, from, to) ELSE r
    BY <1>2, <2>1
  <2>6. ASSUME NEW m
        PROVE  KeptIn(d, k, m) <=> KeptIn(d, j, m) \/ (d.keep[k] /\ Between(m, from, to))
    <3>1. \A i : i \in 1..k <=> i \in 1..j \/ i = k
      BY <1>1
    <3> QED BY <3>1 DEF KeptIn
  <2> HIDE DEF k, from, to, r
  <2>7. CASE d.keep[k]
    <3> DEFINE new == Extended(r, from, to)
    <3>1. /\ new \in Seq(Spans) /\ Ascends(new) /\ EndsBy(new, to)
          /\ \A m \in Nat : Within(new, m) <=> Within(r, m) \/ Between(m, from, to)
      BY <2>2, <2>4, ExtendedHolds
    <3>2. G[k] = new
      BY <2>5, <2>7
    <3> HIDE DEF new
    <3>3. \A m \in Nat : Within(new, m) <=> KeptIn(d, k, m)
      BY <2>4, <2>6, <2>7, <3>1
    <3>4. Holds(new, d, k)
      BY <3>1, <3>3 DEF Holds, to
    <3> QED BY <2>1, <3>2, <3>4 DEF k
  <2>8. CASE ~d.keep[k]
    <3>1. G[k] = r
      BY <2>5, <2>8
    <3>2. \A m \in Nat : Within(r, m) <=> KeptIn(d, k, m)
      BY <2>4, <2>6, <2>8
    <3>3. EndsBy(r, to)
      <4>1. \A a \in 1..Len(r) : r[a].end \in Nat /\ r[a].end <= from
        BY <2>4, RangeTypes DEF EndsBy
      <4> QED BY <2>2, <4>1 DEF EndsBy
    <3>4. Holds(r, d, k)
      BY <2>4, <3>2, <3>3 DEF Holds, to
    <3> QED BY <2>1, <3>1, <3>4 DEF k
  <2> QED BY <2>7, <2>8
<1> HIDE DEF T
<1>5. 0..n \subseteq T
  BY <1>1, <1>3, <1>4, BoundedInduction
<1>6. n \in T
  BY <1>1, <1>5
<1> QED BY <1>2, <1>6 DEF T

-----------------------------------------------------------------------------
(* How long ranges play, and where each begins *)

Summed(r, n, total) ==
  \E G \in [0..n -> Int] :
    /\ G[0] = 0
    /\ \A k \in 1..n : G[k] = G[k - 1] + r[k].end - r[k].start
    /\ total = G[n]

LEMMA LengthSteps ==
  ASSUME NEW r \in Seq(Spans)
  PROVE  Summed(r, Len(r), Length(r))
<1> DEFINE n == Len(r)
           V == Int
           base == 0
           Step(sum, x) == sum + x.end - x.start
           F == [p \in V \X (1..n) |-> Step(p[1], r[p[2]])]
           it == CHOOSE g : g = [s \in SUBSET (1..n) |->
                   IF s = {} THEN base ELSE Step(g[s \ {Max(s)}], r[Max(s)])]
<1>1. /\ n \in Nat /\ DOMAIN r = 1..n
      /\ \A a \in 1..n : r[a].start \in Nat /\ r[a].end \in Nat
  BY RangeTypes
<1>2. \A sum \in V, k \in 1..n : Step(sum, r[k]) \in V
  BY <1>1
<1>3. Length(r) = it[1..n]
  BY <1>1 DEF Length, FoldLeft, MapThenFoldSet
<1>4. base \in V
  OBVIOUS
<1> HIDE DEF V, Step, base, n
<1>5. F \in [V \X (1..n) -> V]
  BY <1>2
<1>6. \A sum \in V, k \in 1..n : F[<<sum, k>>] = Step(sum, r[k])
  OBVIOUS
<1>7. \A s \in SUBSET (1..n) : s # {} => Max(s) \in s /\ Max(s) \in 1..n
  BY <1>1, MaxOfPart
<1> HIDE DEF F
<1>8. PICK g : Recursion(g, n, V, base, F)
  BY <1>1, <1>4, <1>5, FoldHasSolution
<1>9. ASSUME NEW s \in SUBSET (1..n)
      PROVE  g[s] = IF s = {} THEN base ELSE Step(g[s \ {Max(s)}], r[Max(s)])
  <2>1. s # {} => g[s \ {Max(s)}] \in V
    BY <1>8 DEF Recursion
  <2> QED BY <1>6, <1>7, <1>8, <2>1 DEF Recursion
<1>10. g = [s \in SUBSET (1..n) |->
              IF s = {} THEN base ELSE Step(g[s \ {Max(s)}], r[Max(s)])]
  BY <1>8, <1>9 DEF Recursion
<1>11. it = [s \in SUBSET (1..n) |->
               IF s = {} THEN base ELSE Step(it[s \ {Max(s)}], r[Max(s)])]
  BY <1>10
<1> HIDE DEF it
<1>12. it[{}] = base
  BY <1>11
<1>13. ASSUME NEW k \in 1..n, it[1..(k - 1)] \in V
       PROVE  it[1..k] = F[<<it[1..(k - 1)], k>>]
  <2>1. 1..k \in SUBSET (1..n) /\ k \in 1..k /\ (1..k) \ {k} = 1..(k - 1)
    BY <1>1
  <2>2. Max(1..k) = k
    BY <1>1, <2>1, MaxOfPrefix
  <2>3. it[1..k] = Step(it[1..(k - 1)], r[k])
    <3>1. it[1..k] = IF 1..k = {} THEN base ELSE Step(it[(1..k) \ {Max(1..k)}], r[Max(1..k)])
      BY <1>11, <2>1
    <3>2. 1..k # {}
      BY <2>1
    <3> QED BY <2>1, <2>2, <3>1, <3>2
  <2> QED BY <1>6, <1>13, <2>3
<1>14. PICK G : Iteration(G, n, V, base, F) /\ Agrees(G, it, n)
  <2>1. Unfolds(it, n, V, base, F)
    BY <1>12, <1>13 DEF Unfolds
  <2> QED BY <1>1, <1>4, <1>5, <2>1, FoldSteps
<1>15. G \in [0..n -> V] /\ G[0] = base
  BY <1>14 DEF Iteration
<1>16. ASSUME NEW k \in 1..n
       PROVE  G[k] = Step(G[k - 1], r[k])
  <2>1. k - 1 \in 0..n
    BY <1>1
  <2>2. G[k - 1] \in V /\ G[k] = F[<<G[k - 1], k>>]
    BY <1>14, <1>15, <2>1 DEF Iteration
  <2> QED BY <1>6, <2>2
<1> QED BY <1>3, <1>14, <1>15, <1>16 DEF Agrees, V, Step, base, n, Summed

LEMMA SumsAgree ==
  ASSUME NEW n \in Nat, NEW r, NEW s, NEW x, NEW y, Summed(r, n, x), Summed(s, n, y),
         \A k \in 1..n : r[k] = s[k]
  PROVE  x = y
<1>1. PICK G \in [0..n -> Int] :
        /\ G[0] = 0
        /\ \A k \in 1..n : G[k] = G[k - 1] + r[k].end - r[k].start
        /\ x = G[n]
  BY DEF Summed
<1>2. PICK H \in [0..n -> Int] :
        /\ H[0] = 0
        /\ \A k \in 1..n : H[k] = H[k - 1] + s[k].end - s[k].start
        /\ y = H[n]
  BY DEF Summed
<1> DEFINE T == {k \in 0..n : G[k] = H[k]}
<1>3. 0 \in T
  BY <1>1, <1>2
<1>4. ASSUME NEW k \in 0..(n - 1), k \in T
      PROVE  k + 1 \in T
  <2>1. k + 1 \in 1..n /\ (k + 1) - 1 = k
    OBVIOUS
  <2>2. G[k + 1] = G[k] + r[k + 1].end - r[k + 1].start
    BY <1>1, <2>1
  <2>3. H[k + 1] = H[k] + s[k + 1].end - s[k + 1].start
    BY <1>2, <2>1
  <2>4. G[k] = H[k] /\ r[k + 1] = s[k + 1]
    BY <1>4, <2>1
  <2> QED BY <2>1, <2>2, <2>3, <2>4
<1> HIDE DEF T
<1>5. 0..n \subseteq T
  BY <1>3, <1>4, BoundedInduction
<1> QED BY <1>1, <1>2, <1>5 DEF T

LEMMA SumOfPrefix ==
  ASSUME NEW n \in Nat, NEW r, NEW total, Summed(r, n + 1, total)
  PROVE  \E x \in Int : Summed(r, n, x) /\ total = x + r[n + 1].end - r[n + 1].start
<1>1. PICK G \in [0..(n + 1) -> Int] :
        /\ G[0] = 0
        /\ \A k \in 1..(n + 1) : G[k] = G[k - 1] + r[k].end - r[k].start
        /\ total = G[n + 1]
  BY DEF Summed
<1> DEFINE H == [k \in 0..n |-> G[k]]
<1>2. H \in [0..n -> Int] /\ H[0] = 0 /\ H[n] = G[n]
  BY <1>1
<1>3. ASSUME NEW k \in 1..n
      PROVE  H[k] = H[k - 1] + r[k].end - r[k].start
  <2>1. k \in 0..n /\ k - 1 \in 0..n /\ k \in 1..(n + 1)
    OBVIOUS
  <2> QED BY <1>1, <2>1
<1> HIDE DEF H
<1>4. Summed(r, n, H[n])
  BY <1>2, <1>3 DEF Summed
<1>5. n + 1 \in 1..(n + 1) /\ (n + 1) - 1 = n /\ n \in 0..n
  OBVIOUS
<1>6. total = H[n] + r[n + 1].end - r[n + 1].start
  BY <1>1, <1>2, <1>5
<1> QED BY <1>2, <1>4, <1>5, <1>6

\* Each range begins where those before it end.
Plays(r) ==
  /\ Offset(r, 1) = 0
  /\ \A k \in 1..(Len(r) + 1) : Offset(r, k) \in Int
  /\ \A k \in 1..Len(r) : Offset(r, k + 1) = Offset(r, k) + r[k].end - r[k].start
  /\ Offset(r, Len(r) + 1) = Length(r)

LEMMA OffsetSteps ==
  ASSUME NEW r \in Seq(Spans)
  PROVE  Plays(r)
<1> DEFINE n == Len(r)
           Part(k) == SubSeq(r, 1, k - 1)
<1>1. n \in Nat /\ \A a \in 1..n : r[a] \in Spans
  BY RangeTypes
<1>2. ASSUME NEW k \in 1..(n + 1)
      PROVE  /\ Part(k) \in Seq(Spans) /\ Len(Part(k)) = k - 1
             /\ \A a \in 1..(k - 1) : Part(k)[a] = r[a]
  <2>1. k - 1 \in Int /\ k - 1 >= 0 /\ k - 1 <= n
    BY <1>1
  <2>2. \A a \in 1..(k - 1) : r[a] \in Spans
    BY <1>1, <2>1
  <2>3. /\ Part(k) \in Seq(Spans)
        /\ Len(Part(k)) = IF 1 <= k - 1 THEN (k - 1) - 1 + 1 ELSE 0
        /\ \A a \in 1..((k - 1) - 1 + 1) : Part(k)[a] = r[1 + a - 1]
    BY <2>1, <2>2, SubSeqProperties
  <2> HIDE DEF Part
  <2>4. Len(Part(k)) = k - 1
    BY <2>1, <2>3
  <2>5. ASSUME NEW a \in 1..(k - 1)
        PROVE  Part(k)[a] = r[a]
    <3>1. a \in 1..((k - 1) - 1 + 1) /\ 1 + a - 1 = a
      BY <2>1
    <3> QED BY <2>3, <3>1
  <2> QED BY <2>3, <2>4, <2>5
<1>3. \A k \in 1..(n + 1) : Offset(r, k) = Length(Part(k))
  BY DEF Offset
<1> HIDE DEF Part, n
<1>4. \A k \in 1..(n + 1) : Summed(Part(k), k - 1, Offset(r, k))
  BY <1>2, <1>3, LengthSteps
<1>5. ASSUME NEW k \in 1..n
      PROVE  /\ Offset(r, k) \in Int
             /\ Offset(r, k + 1) = Offset(r, k) + r[k].end - r[k].start
  <2>1. k \in 1..(n + 1) /\ k + 1 \in 1..(n + 1) /\ (k + 1) - 1 = k /\ k - 1 \in Nat
        /\ (k - 1) + 1 = k /\ k \in 1..k
    BY <1>1
  <2>2. Summed(Part(k + 1), (k - 1) + 1, Offset(r, k + 1))
    BY <1>4, <2>1
  <2>3. PICK x \in Int : /\ Summed(Part(k + 1), k - 1, x)
                         /\ Offset(r, k + 1) = x + Part(k + 1)[(k - 1) + 1].end
                                                 - Part(k + 1)[(k - 1) + 1].start
    BY <2>1, <2>2, SumOfPrefix
  <2>4. \A a \in 1..(k - 1) : Part(k + 1)[a] = Part(k)[a]
    <3> TAKE a \in 1..(k - 1)
    <3>1. a \in 1..((k + 1) - 1)
      BY <2>1
    <3> QED BY <1>2, <2>1, <3>1
  <2>5. x = Offset(r, k)
    BY <1>4, <2>1, <2>3, <2>4, SumsAgree
  <2>6. Part(k + 1)[(k - 1) + 1] = r[k]
    BY <1>2, <2>1
  <2> QED BY <2>3, <2>5, <2>6
<1>6. Offset(r, 1) = 0
  <2>1. 1 \in 1..(n + 1)
    BY <1>1
  <2>2. Summed(Part(1), 0, Offset(r, 1))
    BY <1>4, <2>1
  <2> QED BY <2>2 DEF Summed
<1>7. Offset(r, n + 1) = Length(r)
  <2>1. Summed(Part(n + 1), n, Offset(r, n + 1))
    <3>1. n + 1 \in 1..(n + 1) /\ (n + 1) - 1 = n
      BY <1>1
    <3> QED BY <1>4, <3>1
  <2>2. \A a \in 1..n : Part(n + 1)[a] = r[a]
    <3>1. n + 1 \in 1..(n + 1) /\ (n + 1) - 1 = n
      BY <1>1
    <3> QED BY <1>2, <3>1
  <2>3. Summed(r, n, Length(r))
    BY LengthSteps DEF n
  <2> QED BY <1>1, <2>1, <2>2, <2>3, SumsAgree
<1>8. ASSUME NEW k \in 1..(n + 1)
      PROVE  Offset(r, k) \in Int
  <2>1. PICK G \in [0..(k - 1) -> Int] : Offset(r, k) = G[k - 1]
    BY <1>4 DEF Summed
  <2>2. k - 1 \in 0..(k - 1)
    BY <1>1
  <2> QED BY <2>1, <2>2
<1> QED BY <1>5, <1>6, <1>7, <1>8 DEF Plays, n

\* The ranges begin one after the other.
LEMMA OffsetsGrow ==
  ASSUME NEW r \in Seq(Spans), Ascends(r)
  PROVE  \A j, k \in 1..(Len(r) + 1) : j <= k => 0 <= Offset(r, j) /\ Offset(r, j) <= Offset(r, k)
<1> DEFINE n == Len(r)
<1>1. Plays(r)
  BY OffsetSteps
<1>2. n \in Nat /\ \A a \in 1..n : r[a].start \in Nat /\ r[a].end \in Nat
  BY RangeTypes
<1>3. ASSUME NEW a \in 1..n
      PROVE  /\ Offset(r, a) \in Int /\ Offset(r, a + 1) \in Int
             /\ Offset(r, a) <= Offset(r, a + 1)
  <2>1. a \in 1..(n + 1) /\ a + 1 \in 1..(n + 1)
    BY <1>2
  <2>2. Offset(r, a) \in Int /\ Offset(r, a + 1) \in Int
    BY <1>1, <2>1 DEF Plays
  <2>3. Offset(r, a + 1) = Offset(r, a) + r[a].end - r[a].start
    BY <1>1 DEF Plays
  <2>4. r[a].start < r[a].end
    BY DEF Ascends
  <2> QED BY <1>2, <2>2, <2>3, <2>4
<1> HIDE DEF n
<1>4. ASSUME NEW j \in 1..(n + 1)
      PROVE  \A k \in 1..(n + 1) : j <= k => Offset(r, j) <= Offset(r, k)
  <2> DEFINE T == {i \in 0..(n + 1 - j) : Offset(r, j) <= Offset(r, j + i)}
  <2>1. Offset(r, j) \in Int
    BY <1>1 DEF Plays, n
  <2>2. 0 \in T
    BY <1>2, <2>1
  <2>3. ASSUME NEW i \in 0..((n + 1 - j) - 1), i \in T
        PROVE  i + 1 \in T
    <3>1. j + i \in 1..n /\ (j + i) + 1 = j + (i + 1) /\ i + 1 \in 0..(n + 1 - j)
      BY <1>2
    <3>2. Offset(r, j + i) <= Offset(r, j + (i + 1)) /\ Offset(r, j + i) \in Int
          /\ Offset(r, j + (i + 1)) \in Int
      BY <1>3, <3>1
    <3>3. Offset(r, j) <= Offset(r, j + i)
      BY <2>3
    <3>4. Offset(r, j) <= Offset(r, j + (i + 1))
      BY <2>1, <3>2, <3>3
    <3> QED BY <3>1, <3>4
  <2> HIDE DEF T
  <2>4. n + 1 - j \in Nat
    BY <1>2
  <2>5. 0..(n + 1 - j) \subseteq T
    BY <2>2, <2>3, <2>4, BoundedInduction
  <2>6. ASSUME NEW k \in 1..(n + 1), j <= k
        PROVE  Offset(r, j) <= Offset(r, k)
    <3>1. k - j \in 0..(n + 1 - j) /\ j + (k - j) = k
      BY <1>2, <2>6
    <3>2. k - j \in T
      BY <2>5, <3>1
    <3>3. Offset(r, j) <= Offset(r, j + (k - j))
      BY <3>2 DEF T
    <3> QED BY <3>1, <3>3
  <2> QED BY <2>6
<1>5. 1 \in 1..(n + 1) /\ \A j \in 1..(n + 1) : 1 <= j
  BY <1>2
<1>6. \A j \in 1..(n + 1) : 0 <= Offset(r, j)
  BY <1>1, <1>4, <1>5 DEF Plays
<1> QED BY <1>4, <1>6 DEF n

-----------------------------------------------------------------------------
(* What the ranges play *)

Played(x) == [u \in 1..(x.end - x.start) |-> x.start + u - 1]

LEMMA PlayedUnits ==
  ASSUME NEW x \in Spans, x.start < x.end
  PROVE  /\ Played(x) \in Seq(Nat) /\ Len(Played(x)) = x.end - x.start
         /\ \A u \in 1..(x.end - x.start) : Played(x)[u] = x.start + u - 1
<1> DEFINE n == x.end - x.start
<1>1. x.start \in Nat /\ x.end \in Nat
  BY DEF Spans
<1>2. n \in Nat
  BY <1>1
<1>3. \A u \in 1..n : x.start + u - 1 \in Nat
  BY <1>1
<1>4. Played(x) = [u \in 1..n |-> x.start + u - 1]
  BY DEF Played
<1> HIDE DEF n
<1>5. Played(x) \in [1..n -> Nat]
  BY <1>3, <1>4
<1>6. Played(x) \in Seq(Nat) /\ Len(Played(x)) = n
  BY <1>2, <1>5
<1>7. \A u \in 1..n : Played(x)[u] = x.start + u - 1
  BY <1>4
<1> QED BY <1>6, <1>7 DEF n

Composed(r, n, audio) ==
  \E G \in [0..n -> Seq(Nat)] :
    /\ G[0] = << >>
    /\ \A k \in 1..n : G[k] = G[k - 1] \o Played(r[k])
    /\ audio = G[n]

LEMMA RenderedSteps ==
  ASSUME NEW r \in Seq(Spans), Ascends(r)
  PROVE  Composed(r, Len(r), Rendered(r))
<1> DEFINE n == Len(r)
           V == Seq(Nat)
           base == << >>
           Step(audio, x) == audio \o [u \in 1..(x.end - x.start) |-> x.start + u - 1]
           F == [p \in V \X (1..n) |-> Step(p[1], r[p[2]])]
           it == CHOOSE g : g = [s \in SUBSET (1..n) |->
                   IF s = {} THEN base ELSE Step(g[s \ {Max(s)}], r[Max(s)])]
<1>1. n \in Nat /\ DOMAIN r = 1..n /\ \A a \in 1..n : r[a] \in Spans
  BY RangeTypes
<1>2. ASSUME NEW audio \in V, NEW k \in 1..n
      PROVE  Step(audio, r[k]) \in V /\ Step(audio, r[k]) = audio \o Played(r[k])
  <2>1. Played(r[k]) \in Seq(Nat)
    BY <1>1, PlayedUnits DEF Ascends
  <2>2. Step(audio, r[k]) = audio \o Played(r[k])
    BY DEF Played
  <2>3. audio \o Played(r[k]) \in Seq(Nat)
    BY <2>1, ConcatProperties
  <2> QED BY <2>2, <2>3
<1>3. Rendered(r) = it[1..n]
  BY <1>1 DEF Rendered, FoldLeft, MapThenFoldSet
<1>4. base \in V
  BY EmptySeq
<1> HIDE DEF V, Step, base, n
<1>5. F \in [V \X (1..n) -> V]
  BY <1>2
<1>6. \A audio \in V, k \in 1..n : F[<<audio, k>>] = Step(audio, r[k])
  OBVIOUS
<1>7. \A s \in SUBSET (1..n) : s # {} => Max(s) \in s /\ Max(s) \in 1..n
  BY <1>1, MaxOfPart
<1> HIDE DEF F
<1>8. PICK g : Recursion(g, n, V, base, F)
  BY <1>1, <1>4, <1>5, FoldHasSolution
<1>9. ASSUME NEW s \in SUBSET (1..n)
      PROVE  g[s] = IF s = {} THEN base ELSE Step(g[s \ {Max(s)}], r[Max(s)])
  <2>1. s # {} => g[s \ {Max(s)}] \in V
    BY <1>8 DEF Recursion
  <2> QED BY <1>6, <1>7, <1>8, <2>1 DEF Recursion
<1>10. g = [s \in SUBSET (1..n) |->
              IF s = {} THEN base ELSE Step(g[s \ {Max(s)}], r[Max(s)])]
  BY <1>8, <1>9 DEF Recursion
<1>11. it = [s \in SUBSET (1..n) |->
               IF s = {} THEN base ELSE Step(it[s \ {Max(s)}], r[Max(s)])]
  BY <1>10
<1> HIDE DEF it
<1>12. it[{}] = base
  BY <1>11
<1>13. ASSUME NEW k \in 1..n, it[1..(k - 1)] \in V
       PROVE  it[1..k] = F[<<it[1..(k - 1)], k>>]
  <2>1. 1..k \in SUBSET (1..n) /\ k \in 1..k /\ (1..k) \ {k} = 1..(k - 1)
    BY <1>1
  <2>2. Max(1..k) = k
    BY <1>1, <2>1, MaxOfPrefix
  <2>3. it[1..k] = Step(it[1..(k - 1)], r[k])
    <3>1. it[1..k] = IF 1..k = {} THEN base ELSE Step(it[(1..k) \ {Max(1..k)}], r[Max(1..k)])
      BY <1>11, <2>1
    <3>2. 1..k # {}
      BY <2>1
    <3> QED BY <2>1, <2>2, <3>1, <3>2
  <2> QED BY <1>6, <1>13, <2>3
<1>14. PICK G : Iteration(G, n, V, base, F) /\ Agrees(G, it, n)
  <2>1. Unfolds(it, n, V, base, F)
    BY <1>12, <1>13 DEF Unfolds
  <2> QED BY <1>1, <1>4, <1>5, <2>1, FoldSteps
<1>15. G \in [0..n -> V] /\ G[0] = base
  BY <1>14 DEF Iteration
<1>16. ASSUME NEW k \in 1..n
       PROVE  G[k] = G[k - 1] \o Played(r[k])
  <2>1. k - 1 \in 0..n
    BY <1>1
  <2>2. G[k - 1] \in V /\ G[k] = F[<<G[k - 1], k>>]
    BY <1>14, <1>15, <2>1 DEF Iteration
  <2> QED BY <1>2, <1>6, <2>2
<1> QED BY <1>3, <1>14, <1>15, <1>16 DEF Agrees, V, base, n, Composed

\* The first n ranges, one after the other from where each begins.
Sounds(audio, r, n) ==
  /\ audio \in Seq(Nat) /\ Len(audio) = Offset(r, n + 1)
  /\ \A k \in 1..n : \A u \in (Offset(r, k) + 1)..Offset(r, k + 1) :
       audio[u] = r[k].start + (u - Offset(r, k)) - 1

LEMMA RenderedSounds ==
  ASSUME NEW r \in Seq(Spans), Ascends(r)
  PROVE  Sounds(Rendered(r), r, Len(r))
<1> DEFINE n == Len(r)
<1>1. n \in Nat /\ n \in 0..n /\ 0 \in 0..n /\ \A a \in 1..n : r[a] \in Spans
  BY RangeTypes
<1>2. PICK G \in [0..n -> Seq(Nat)] :
        /\ G[0] = << >>
        /\ \A k \in 1..n : G[k] = G[k - 1] \o Played(r[k])
        /\ Rendered(r) = G[n]
  BY RenderedSteps DEF Composed
<1>3. Plays(r)
  BY OffsetSteps
<1> DEFINE T == {k \in 0..n : Sounds(G[k], r, k)}
<1>4. 0 \in T
  <2> DEFINE e == << >>
  <2>1. e \in Seq(Nat) /\ Len(e) = 0
    BY EmptySeq
  <2>2. Offset(r, 0 + 1) = 0
    BY <1>3 DEF Plays
  <2> HIDE DEF e
  <2>3. \A k : k \notin 1..0
    OBVIOUS
  <2>4. Sounds(e, r, 0)
    BY <2>1, <2>2, <2>3 DEF Sounds
  <2>5. G[0] = e
    BY <1>2 DEF e
  <2> QED BY <1>1, <2>4, <2>5
<1>5. ASSUME NEW j \in 0..(n - 1), j \in T
      PROVE  j + 1 \in T
  <2> DEFINE k == j + 1
             old == G[j]
             new == G[k]
             piece == Played(r[k])
             o == Offset(r, k)
             p == Offset(r, k + 1)
  <2>1. k \in 1..n /\ k \in 0..n /\ k - 1 = j /\ k \in 1..(n + 1) /\ k + 1 \in 1..(n + 1)
        /\ j \in Nat
    BY <1>1
  <2>2. Sounds(old, r, j)
    BY <1>5
  <2>3. new = old \o piece
    BY <1>2, <2>1
  <2>4. r[k] \in Spans /\ r[k].start < r[k].end
    BY <1>1, <2>1 DEF Ascends
  <2>5. r[k].start \in Nat /\ r[k].end \in Nat
    BY <2>4 DEF Spans
  <2>6. /\ piece \in Seq(Nat) /\ Len(piece) = r[k].end - r[k].start
        /\ \A u \in 1..(r[k].end - r[k].start) : piece[u] = r[k].start + u - 1
    BY <2>4, PlayedUnits
  <2>7. old \in Seq(Nat) /\ Len(old) = o
    BY <2>2 DEF Sounds
  <2>8. o \in Nat /\ p \in Int /\ p = o + r[k].end - r[k].start
    <3>1. o \in Int /\ p \in Int /\ p = o + r[k].end - r[k].start
      BY <1>3, <2>1 DEF Plays
    <3>2. 0 <= o
      BY <2>1, OffsetsGrow
    <3> QED BY <3>1, <3>2
  <2>9. \A i \in 1..j : \A u \in (Offset(r, i) + 1)..Offset(r, i + 1) :
          old[u] = r[i].start + (u - Offset(r, i)) - 1
    BY <2>2 DEF Sounds
  <2> HIDE DEF k, old, new, piece, o, p
  <2>10. /\ new \in Seq(Nat) /\ Len(new) = Len(old) + Len(piece)
         /\ \A u \in 1..(Len(old) + Len(piece)) :
              new[u] = IF u <= Len(old) THEN old[u] ELSE piece[u - Len(old)]
    BY <2>3, <2>6, <2>7, ConcatProperties
  <2>11. Len(new) = p
    BY <2>5, <2>6, <2>7, <2>8, <2>10
  <2>12. ASSUME NEW u \in (o + 1)..p
         PROVE  new[u] = r[k].start + (u - o) - 1
    <3>1. u \in 1..(Len(old) + Len(piece)) /\ ~(u <= Len(old))
      BY <2>5, <2>6, <2>7, <2>8
    <3>2. new[u] = piece[u - o]
      BY <2>7, <2>10, <3>1
    <3>3. u - o \in 1..(r[k].end - r[k].start)
      BY <2>5, <2>8
    <3> QED BY <2>6, <3>2, <3>3
  <2>13. ASSUME NEW i \in 1..j, NEW u \in (Offset(r, i) + 1)..Offset(r, i + 1)
         PROVE  new[u] = r[i].start + (u - Offset(r, i)) - 1
    <3>1. i \in 1..(n + 1) /\ i + 1 \in 1..(n + 1) /\ i + 1 <= k
      BY <1>1, <2>1 DEF k
    <3>2. 0 <= Offset(r, i) /\ Offset(r, i + 1) <= o
      BY <2>1, <3>1, OffsetsGrow DEF o
    <3>3. Offset(r, i) \in Int /\ Offset(r, i + 1) \in Int
      BY <1>3, <3>1 DEF Plays
    <3>4. u \in 1..o
      BY <2>8, <3>2, <3>3
    <3>5. u \in 1..(Len(old) + Len(piece)) /\ u <= Len(old)
      <4> DEFINE a == Len(old)
                 b == Len(piece)
      <4>1. a = o /\ a \in Nat /\ b \in Nat
        BY <2>5, <2>6, <2>7, <2>8
      <4> HIDE DEF a, b
      <4>2. u \in 1..(a + b) /\ u <= a
        BY <3>4, <4>1
      <4> QED BY <4>2 DEF a, b
    <3>6. new[u] = old[u]
      BY <2>10, <3>5
    <3> QED BY <2>9, <3>6
  <2>14. \A i \in 1..k : \A u \in (Offset(r, i) + 1)..Offset(r, i + 1) :
           new[u] = r[i].start + (u - Offset(r, i)) - 1
    <3> TAKE i \in 1..k
    <3>1. i \in 1..j \/ i = k
      BY <2>1
    <3> QED BY <2>12, <2>13, <3>1 DEF o, p
  <2>15. Sounds(new, r, k)
    BY <2>10, <2>11, <2>14 DEF Sounds, p
  <2> QED BY <2>1, <2>15 DEF k, new
<1> HIDE DEF T
<1>6. 0..n \subseteq T
  BY <1>1, <1>4, <1>5, BoundedInduction
<1>7. n \in T
  BY <1>1, <1>6
<1> QED BY <1>2, <1>7 DEF T

\* Each unit that plays belongs to a range.
LEMMA RangeAt ==
  ASSUME NEW r \in Seq(Spans), Ascends(r), NEW u \in 1..Length(r)
  PROVE  \E k \in 1..Len(r) : u \in (Offset(r, k) + 1)..Offset(r, k + 1)
<1> DEFINE n == Len(r)
           T == {k \in 1..(n + 1) : Offset(r, k) < u}
<1>1. n \in Nat
  BY RangeTypes
<1>2. Plays(r)
  BY OffsetSteps
<1>3. Offset(r, 1) = 0 /\ Offset(r, n + 1) = Length(r) /\ Length(r) \in Int
  <2>1. n + 1 \in 1..(n + 1)
    BY <1>1
  <2> QED BY <1>2, <2>1 DEF Plays
<1>4. u \in Int /\ 0 < u /\ u <= Length(r)
  BY <1>3
<1>5. 1 \in T
  BY <1>1, <1>3, <1>4
<1>6. PICK k \in T : \A i \in T : i <= k
  <2>1. T \subseteq Nat /\ T # {} /\ \A i \in T : i <= n + 1
    BY <1>1, <1>5
  <2>2. n + 1 \in Nat
    BY <1>1
  <2> HIDE DEF T, n
  <2> QED BY <2>1, <2>2, GreatestNumber
<1>7. k \in 1..n
  <2>1. k # n + 1
    BY <1>3, <1>4
  <2> QED BY <1>1, <2>1
<1>8. k \in 1..(n + 1) /\ k + 1 \in 1..(n + 1)
  BY <1>1, <1>7
<1>9. Offset(r, k) \in Int /\ Offset(r, k + 1) \in Int
  BY <1>2, <1>8 DEF Plays
<1>10. Offset(r, k) < u
  BY <1>6
<1>11. ~(Offset(r, k + 1) < u)
  BY <1>6, <1>8
<1> QED BY <1>4, <1>7, <1>9, <1>10, <1>11

LEMMA Shifted ==
  ASSUME NEW s \in Nat, NEW e \in Nat, NEW o \in Int
  PROVE  /\ \A u \in (o + 1)..(o + e - s) : s <= s + (u - o) - 1 /\ s + (u - o) - 1 < e
         /\ \A x \in Nat : s + ((o + 1 + (x - s)) - o) - 1 = x
OBVIOUS

\* Where in its range a unit is.
LEMMA UnitInRange ==
  ASSUME NEW r \in Seq(Spans), Ascends(r),
         NEW k \in 1..Len(r), NEW u \in (Offset(r, k) + 1)..Offset(r, k + 1)
  PROVE  /\ u \in 1..Length(r) /\ Offset(r, k) \in Int
         /\ Rendered(r)[u] = r[k].start + (u - Offset(r, k)) - 1
         /\ r[k].start <= Rendered(r)[u] /\ Rendered(r)[u] < r[k].end
<1> DEFINE n == Len(r)
<1>1. n \in Nat /\ r[k].start \in Nat /\ r[k].end \in Nat
  BY RangeTypes
<1>2. k \in 1..(n + 1) /\ k + 1 \in 1..(n + 1) /\ n + 1 \in 1..(n + 1) /\ k + 1 <= n + 1
  BY <1>1
<1>3. /\ Offset(r, k) \in Int /\ Offset(r, k + 1) \in Int /\ Length(r) \in Int
      /\ Offset(r, k + 1) = Offset(r, k) + r[k].end - r[k].start
      /\ Offset(r, n + 1) = Length(r)
  BY <1>2, OffsetSteps DEF Plays
<1>4. 0 <= Offset(r, k) /\ Offset(r, k + 1) <= Offset(r, n + 1)
  BY <1>2, OffsetsGrow
<1>5. Rendered(r)[u] = r[k].start + (u - Offset(r, k)) - 1
  BY RenderedSounds DEF Sounds
<1>6. u \in Int /\ Offset(r, k) + 1 <= u /\ u <= Offset(r, k + 1)
  BY <1>3
<1>7. u \in 1..Length(r)
  BY <1>3, <1>4, <1>6
<1>8. r[k].start <= Rendered(r)[u] /\ Rendered(r)[u] < r[k].end
  <2>1. u \in (Offset(r, k) + 1)..(Offset(r, k) + r[k].end - r[k].start)
    BY <1>3
  <2>2. /\ r[k].start <= r[k].start + (u - Offset(r, k)) - 1
        /\ r[k].start + (u - Offset(r, k)) - 1 < r[k].end
    BY <1>1, <1>3, <2>1, Shifted
  <2> QED BY <1>5, <2>2
<1> QED BY <1>3, <1>5, <1>7, <1>8

LEMMA RenderedTypes ==
  ASSUME NEW r \in Seq(Spans), Ascends(r)
  PROVE  /\ Rendered(r) \in Seq(Nat) /\ Len(Rendered(r)) = Length(r) /\ Length(r) \in Nat
         /\ DOMAIN Rendered(r) = 1..Length(r)
         /\ Rendered(r) \in [1..Length(r) -> Nat]
<1>1. Rendered(r) \in Seq(Nat) /\ Len(Rendered(r)) = Offset(r, Len(r) + 1)
  BY RenderedSounds DEF Sounds
<1>2. Offset(r, Len(r) + 1) = Length(r)
  BY OffsetSteps DEF Plays
<1> QED BY <1>1, <1>2, LenProperties

\* Nothing is played twice, and nothing before what precedes it.
LEMMA RenderedAscends ==
  ASSUME NEW r \in Seq(Spans), Ascends(r),
         NEW u \in 1..Length(r), NEW v \in 1..Length(r), u < v
  PROVE  Rendered(r)[u] < Rendered(r)[v]
<1>1. PICK j \in 1..Len(r) : u \in (Offset(r, j) + 1)..Offset(r, j + 1)
  BY RangeAt
<1>2. PICK k \in 1..Len(r) : v \in (Offset(r, k) + 1)..Offset(r, k + 1)
  BY RangeAt
<1>3. /\ Offset(r, j) \in Int
      /\ Rendered(r)[u] = r[j].start + (u - Offset(r, j)) - 1
      /\ r[j].start <= Rendered(r)[u] /\ Rendered(r)[u] < r[j].end
  BY <1>1, UnitInRange
<1>4. /\ Offset(r, k) \in Int
      /\ Rendered(r)[v] = r[k].start + (v - Offset(r, k)) - 1
      /\ r[k].start <= Rendered(r)[v] /\ Rendered(r)[v] < r[k].end
  BY <1>2, UnitInRange
<1>5. /\ Len(r) \in Nat /\ Length(r) \in Nat
      /\ r[j].start \in Nat /\ r[j].end \in Nat /\ r[k].start \in Nat /\ r[k].end \in Nat
  BY RangeTypes, RenderedTypes
<1>6. Rendered(r)[u] \in Nat /\ Rendered(r)[v] \in Nat
  BY RenderedTypes
<1>7. CASE j = k
  BY <1>3, <1>4, <1>5, <1>7
<1>8. CASE j < k
  <2>1. r[j].end < r[k].start
    BY <1>8 DEF Ascends
  <2>2. Rendered(r)[u] < r[j].end
    BY <1>3
  <2>3. r[k].start <= Rendered(r)[v]
    BY <1>4
  <2> QED BY <1>5, <1>6, <2>1, <2>2, <2>3
<1>9. CASE k < j
  <2>1. k + 1 \in 1..(Len(r) + 1) /\ j \in 1..(Len(r) + 1) /\ k + 1 <= j
    BY <1>5, <1>9
  <2>2. Offset(r, k + 1) <= Offset(r, j) /\ Offset(r, k + 1) \in Int
    BY <2>1, OffsetsGrow, OffsetSteps DEF Plays
  <2>3. v <= Offset(r, k + 1) /\ Offset(r, j) + 1 <= u
    BY <1>1, <1>2, <1>3, <1>4, <2>2
  <2>4. FALSE
    BY <1>3, <1>5, <2>2, <2>3
  <2> QED BY <2>4
<1>10. j = k \/ j < k \/ k < j
  BY <1>5
<1> QED BY <1>7, <1>8, <1>9, <1>10

\* The units played are those in the ranges, each of them once.
LEMMA RenderedOnce ==
  ASSUME NEW r \in Seq(Spans), Ascends(r)
  PROVE  /\ \A x : x \in Range(Rendered(r)) <=>
                     x \in Nat /\ \E k \in 1..Len(r) : r[k].start <= x /\ x < r[k].end
         /\ IsFiniteSet(Range(Rendered(r))) /\ Cardinality(Range(Rendered(r))) = Length(r)
<1> DEFINE R == Rendered(r)
           S == Range(R)
<1>1. R \in [1..Length(r) -> Nat] /\ Length(r) \in Nat /\ DOMAIN R = 1..Length(r)
  BY RenderedTypes
<1>2. \A x : x \in S <=> \E u \in 1..Length(r) : x = R[u]
  BY <1>1 DEF Range
<1>3. ASSUME NEW x \in S
      PROVE  x \in Nat /\ \E k \in 1..Len(r) : r[k].start <= x /\ x < r[k].end
  <2>1. PICK u \in 1..Length(r) : x = R[u]
    BY <1>2
  <2>2. PICK k \in 1..Len(r) : u \in (Offset(r, k) + 1)..Offset(r, k + 1)
    BY RangeAt
  <2>3. r[k].start <= R[u] /\ R[u] < r[k].end
    BY <2>2, UnitInRange
  <2> QED BY <1>1, <2>1, <2>3
<1>4. ASSUME NEW x \in Nat, NEW k \in 1..Len(r), r[k].start <= x, x < r[k].end
      PROVE  x \in S
  <2> DEFINE u == Offset(r, k) + 1 + (x - r[k].start)
  <2>1. r[k].start \in Nat /\ r[k].end \in Nat /\ Len(r) \in Nat
    BY RangeTypes
  <2>2. k \in 1..(Len(r) + 1)
    BY <2>1
  <2>3. Offset(r, k) \in Int /\ Offset(r, k + 1) = Offset(r, k) + r[k].end - r[k].start
    BY <2>2, OffsetSteps DEF Plays
  <2>4. u \in (Offset(r, k) + 1)..Offset(r, k + 1)
    <3> DEFINE s == r[k].start
               e == r[k].end
               o == Offset(r, k)
               next == Offset(r, k + 1)
    <3>1. s \in Nat /\ e \in Nat /\ o \in Int /\ next = o + e - s /\ s <= x /\ x < e
      BY <1>4, <2>1, <2>3
    <3> HIDE DEF s, e, o, next
    <3>2. o + 1 + (x - s) \in (o + 1)..next
      BY <3>1
    <3> QED BY <3>2 DEF s, o, next
  <2>5. u \in 1..Length(r) /\ R[u] = r[k].start + (u - Offset(r, k)) - 1
    BY <2>4, UnitInRange
  <2> DEFINE s == r[k].start
             o == Offset(r, k)
  <2>6. s + ((o + 1 + (x - s)) - o) - 1 = x
    <3>1. s \in Nat /\ o \in Int
      BY <2>1, <2>3
    <3> HIDE DEF s, o
    <3> QED BY <3>1
  <2>7. R[u] = x
    BY <2>5, <2>6
  <2> QED BY <1>2, <2>5, <2>7
<1>5. S \subseteq Nat
  BY <1>3
<1> HIDE DEF R, S
<1>6. R \in [1..Length(r) -> S]
  <2>1. \A u \in 1..Length(r) : R[u] \in S
    BY <1>2
  <2> QED BY <1>1, <2>1
<1>7. R \in Bijection(1..Length(r), S)
  <2>1. ASSUME NEW u \in 1..Length(r), NEW v \in 1..Length(r), R[u] = R[v]
        PROVE  u = v
    <3>1. R[u] \in Nat /\ R[v] \in Nat
      BY <1>1
    <3>2. ~(u < v) /\ ~(v < u)
      BY <2>1, <3>1, RenderedAscends DEF R
    <3> QED BY <1>1, <3>2
  <2>2. R \in Injection(1..Length(r), S)
    BY <1>6, <2>1 DEF Injection, IsInjective
  <2>3. R \in Surjection(1..Length(r), S)
    BY <1>2, <1>6 DEF Surjection
  <2> QED BY <2>2, <2>3 DEF Bijection
<1>8. ExistsBijection(1..Length(r), S)
  BY <1>7 DEF ExistsBijection
<1>9. IsFiniteSet(1..Length(r)) /\ Cardinality(1..Length(r)) = Length(r)
  BY <1>1, FS_Interval
<1>10. IsFiniteSet(S) /\ Cardinality(S) = Length(r)
  BY <1>8, <1>9, FS_Bijection
<1> QED BY <1>3, <1>4, <1>10 DEF R, S

\* The audio of a draft is what its kept sections hold.
LEMMA AudioOfDraft ==
  ASSUME NEW d \in Drafts, Validate(d)
  PROVE  /\ Range(Rendered(KeptRanges(d))) = UnitsKept(d)
         /\ Length(KeptRanges(d)) = Cardinality(UnitsKept(d))
<1> DEFINE r == KeptRanges(d)
           n == Len(d.keep)
<1>1. r \in Seq(Spans) /\ Ascends(r) /\ \A m \in Nat : Within(r, m) <=> KeptIn(d, n, m)
  BY KeptRangesHold DEF Holds
<1>2. /\ n \in Nat /\ SectionsOf(d) = 1..n
      /\ \A i \in 1..n : At(d, i) \in Nat /\ At(d, i + 1) \in Nat
  <2>1. n \in Nat /\ SectionsOf(d) = 1..n /\ \A i \in 1..(n + 1) : At(d, i) \in Times
    BY DraftTypes
  <2>2. \A i \in 1..n : i \in 1..(n + 1) /\ i + 1 \in 1..(n + 1)
    BY <2>1
  <2> QED BY <2>1, <2>2 DEF Times
<1> HIDE DEF r, n
<1>3. ASSUME NEW x
      PROVE  x \in UnitsKept(d) <=>
               x \in Nat /\ \E j \in 1..n : d.keep[j] /\ At(d, j) <= x /\ x < At(d, j + 1)
  <2>1. x \in UnitsKept(d) <=> \E j \in 1..n : d.keep[j] /\ x \in At(d, j)..(At(d, j + 1) - 1)
    BY <1>2 DEF UnitsKept
  <2>2. \A j \in 1..n : x \in At(d, j)..(At(d, j + 1) - 1) <=>
                          x \in Nat /\ At(d, j) <= x /\ x < At(d, j + 1)
    BY <1>2
  <2> QED BY <2>1, <2>2
<1>4. ASSUME NEW x \in Nat
      PROVE  (\E j \in 1..n : d.keep[j] /\ At(d, j) <= x /\ x < At(d, j + 1)) <=> KeptIn(d, n, 2 * x)
  <2>1. \A j \in 1..n : Between(2 * x, At(d, j), At(d, j + 1)) <=> At(d, j) <= x /\ x < At(d, j + 1)
    BY <1>2 DEF Between
  <2> QED BY <2>1 DEF KeptIn
<1>5. ASSUME NEW x \in Nat
      PROVE  (\E k \in 1..Len(r) : r[k].start <= x /\ x < r[k].end) <=> Within(r, 2 * x)
  <2>1. \A k \in 1..Len(r) : r[k].start \in Nat /\ r[k].end \in Nat
    BY <1>1, RangeTypes
  <2>2. \A k \in 1..Len(r) : Between(2 * x, r[k].start, r[k].end) <=> r[k].start <= x /\ x < r[k].end
    BY <2>1 DEF Between
  <2> QED BY <2>2 DEF Within
<1>6. \A x \in Nat : 2 * x \in Nat
  OBVIOUS
<1>7. \A x : x \in Range(Rendered(r)) <=>
               x \in Nat /\ \E k \in 1..Len(r) : r[k].start <= x /\ x < r[k].end
  BY <1>1, RenderedOnce
<1>8. \A x : x \in Range(Rendered(r)) <=> x \in UnitsKept(d)
  <2> TAKE x
  <2>1. CASE x \in Nat
    BY <1>1, <1>3, <1>4, <1>5, <1>6, <1>7, <2>1
  <2>2. CASE x \notin Nat
    BY <1>3, <1>7, <2>2
  <2> QED BY <2>1, <2>2
<1>9. Range(Rendered(r)) = UnitsKept(d)
  BY <1>8
<1>10. Length(r) = Cardinality(UnitsKept(d))
  BY <1>1, <1>9, RenderedOnce
<1> QED BY <1>9, <1>10 DEF r

-----------------------------------------------------------------------------
(* The passages that are heard *)

LEMMA InRangeOrder ==
  ASSUME NEW M, IsFiniteSet(M), \A m \in M : m[1] \in Int /\ m[2] \in Int,
         \A a, b \in M : a # b => ByRange(a, b) \/ ByRange(b, a)
  PROVE  LET s == InOrder(M, ByRange)
         IN  /\ Cardinality(M) \in Nat
             /\ s \in [1..Cardinality(M) -> M]
             /\ \A x \in M : \E n \in 1..Cardinality(M) : s[n] = x
             /\ \A m, n \in 1..Cardinality(M) : m < n <=> ByRange(s[m], s[n])
<1> DEFINE s == InOrder(M, ByRange)
           R == {p \in M \X M : ByRange(p[1], p[2])}
<1>1. \A a, b \in M : <<a, b>> \in R <=> ByRange(a, b)
  OBVIOUS
<1>2. Total(M, R)
  <2>1. \A x \in M : ~ByRange(x, x)
    BY DEF ByRange
  <2>2. \A x, y, z \in M : ByRange(x, y) /\ ByRange(y, z) => ByRange(x, z)
    BY DEF ByRange
  <2> HIDE DEF R
  <2> QED BY <1>1, <2>1, <2>2 DEF Total
<1>3. \A x \in M : Preceding(M, ByRange, x) = Below(M, R, x)
  BY <1>1 DEF Preceding, Below
<1>4. s = [n \in 1..Cardinality(M) |->
             CHOOSE x \in M : Cardinality(Preceding(M, ByRange, x)) = n - 1]
  BY DEF InOrder
<1>5. s = [n \in 1..Cardinality(M) |-> s[n]]
  BY <1>4
<1>6. ASSUME NEW n \in 1..Cardinality(M), NEW y \in M, Cardinality(Below(M, R, y)) = n - 1
      PROVE  s[n] \in M /\ Cardinality(Below(M, R, s[n])) = n - 1
  <2>1. Cardinality(Preceding(M, ByRange, y)) = n - 1
    BY <1>3, <1>6
  <2>2. s[n] = CHOOSE x \in M : Cardinality(Preceding(M, ByRange, x)) = n - 1
    BY <1>4
  <2>3. s[n] \in M /\ Cardinality(Preceding(M, ByRange, s[n])) = n - 1
    BY <2>1, <2>2
  <2> QED BY <1>3, <2>3
<1> HIDE DEF s, R
<1>7. Ranks(M, R, s)
  BY <1>5, <1>6 DEF Ranks
<1>8. Lists(M, R, s)
  BY <1>2, <1>7, RanksList
<1>9. /\ Cardinality(M) \in Nat
      /\ s \in [1..Cardinality(M) -> M]
      /\ \A x \in M : \E n \in 1..Cardinality(M) : s[n] = x
      /\ \A m, n \in 1..Cardinality(M) : m < n <=> <<s[m], s[n]>> \in R
  BY <1>8 DEF Lists
<1>10. \A n \in 1..Cardinality(M) : s[n] \in M
  BY <1>9
<1> QED BY <1>1, <1>9, <1>10 DEF s

\* The nth of what is mapped is the passage of, heard in the range.
IsHeard(w, n, passages, r) ==
  /\ w[n].of \in 1..Len(passages) /\ w[n].range \in 1..Len(r)
  /\ MiddleIn(passages[w[n].of], r[w[n].range].start, r[w[n].range].end)
  /\ w[n].heard = Into(passages[w[n].of], r[w[n].range], Offset(r, w[n].range))

\* The passages whose middle is kept, and no others, in the order they are heard in.
MapsAll(w, count, passages, r) ==
  /\ count \in Nat /\ DOMAIN w = 1..count
  /\ \A n \in 1..count : IsHeard(w, n, passages, r)
  /\ \A k \in 1..Len(r), i \in 1..Len(passages) :
       MiddleIn(passages[i], r[k].start, r[k].end) =>
         \E n \in 1..count : w[n].of = i /\ w[n].range = k
  /\ \A m, n \in 1..count :
       m < n => \/ w[m].range < w[n].range
                \/ w[m].range = w[n].range /\ w[m].of < w[n].of

LEMMA MappedPassages ==
  ASSUME NEW passages \in Seq(Passages), NEW r \in Seq(Spans)
  PROVE  /\ MapsAll(Mapped(passages, r), Cardinality(Hearings(passages, r)), passages, r)
         /\ Len(Mapped(passages, r)) = Cardinality(Hearings(passages, r))
<1> DEFINE M == Hearings(passages, r)
           s == InOrder(M, ByRange)
           count == Cardinality(M)
           w == Mapped(passages, r)
           Heard1(n) == [of |-> s[n][2], range |-> s[n][1],
                         heard |-> Into(passages[s[n][2]], r[s[n][1]], Offset(r, s[n][1]))]
<1>1. /\ Len(passages) \in Nat /\ DOMAIN passages = 1..Len(passages)
      /\ Len(r) \in Nat /\ DOMAIN r = 1..Len(r)
  BY LenProperties
<1>2. M \subseteq (1..Len(r)) \X (1..Len(passages))
  BY <1>1 DEF Hearings
<1>3. \A k \in 1..Len(r), i \in 1..Len(passages) :
        <<k, i>> \in M <=> MiddleIn(passages[i], r[k].start, r[k].end)
  BY <1>1 DEF Hearings
<1>4. w = [n \in DOMAIN s |-> Heard1(n)]
  BY DEF Mapped
<1> HIDE DEF M, w
<1>5. \A h \in M : /\ h[1] \in 1..Len(r) /\ h[2] \in 1..Len(passages) /\ h = <<h[1], h[2]>>
                   /\ h[1] \in Int /\ h[2] \in Int
  BY <1>2
<1>6. IsFiniteSet(M)
  <2>1. IsFiniteSet(1..Len(r)) /\ IsFiniteSet(1..Len(passages))
    BY <1>1, FS_Interval
  <2>2. IsFiniteSet((1..Len(r)) \X (1..Len(passages)))
    BY <2>1, FS_Product
  <2> QED BY <1>2, <2>2, FS_Subset
<1>7. \A a, b \in M : a # b => ByRange(a, b) \/ ByRange(b, a)
  <2> TAKE a, b \in M
  <2>1. a # b => a[1] # b[1] \/ a[2] # b[2]
    BY <1>5
  <2>2. a[1] \in Int /\ a[2] \in Int /\ b[1] \in Int /\ b[2] \in Int
    BY <1>5
  <2> QED BY <2>1, <2>2 DEF ByRange
<1>8. /\ count \in Nat /\ s \in [1..count -> M]
      /\ \A x \in M : \E n \in 1..count : s[n] = x
      /\ \A m, n \in 1..count : m < n <=> ByRange(s[m], s[n])
  BY <1>5, <1>6, <1>7, InRangeOrder
<1> HIDE DEF s, count
<1>9. DOMAIN s = 1..count /\ \A n \in 1..count : s[n] \in M
  BY <1>8
<1>10. w = [n \in 1..count |-> Heard1(n)]
  BY <1>4, <1>9
<1>11. ASSUME NEW n \in 1..count
       PROVE  /\ w[n].of = s[n][2] /\ w[n].range = s[n][1]
              /\ w[n].heard = Into(passages[s[n][2]], r[s[n][1]], Offset(r, s[n][1]))
  <2>1. w[n] = Heard1(n)
    BY <1>10
  <2> QED BY <2>1
<1> HIDE DEF Heard1
<1>12. ASSUME NEW n \in 1..count
       PROVE  IsHeard(w, n, passages, r)
  <2>1. s[n][1] \in 1..Len(r) /\ s[n][2] \in 1..Len(passages) /\ <<s[n][1], s[n][2]>> \in M
    BY <1>5, <1>9
  <2>2. MiddleIn(passages[s[n][2]], r[s[n][1]].start, r[s[n][1]].end)
    BY <1>3, <2>1
  <2> QED BY <1>11, <2>1, <2>2 DEF IsHeard
<1>13. ASSUME NEW k \in 1..Len(r), NEW i \in 1..Len(passages),
              MiddleIn(passages[i], r[k].start, r[k].end)
       PROVE  \E n \in 1..count : w[n].of = i /\ w[n].range = k
  <2>1. <<k, i>> \in M
    BY <1>3, <1>13
  <2>2. PICK n \in 1..count : s[n] = <<k, i>>
    BY <1>8, <2>1
  <2>3. w[n].of = i /\ w[n].range = k
    BY <1>11, <2>2
  <2> QED BY <2>3
<1>14. ASSUME NEW m \in 1..count, NEW n \in 1..count, m < n
       PROVE  \/ w[m].range < w[n].range
              \/ w[m].range = w[n].range /\ w[m].of < w[n].of
  <2>1. ByRange(s[m], s[n])
    BY <1>8, <1>14
  <2> QED BY <1>11, <2>1 DEF ByRange
<1>15. DOMAIN w = 1..count
  BY <1>10
<1>16. Len(w) = count
  BY <1>8, <1>10
<1> QED BY <1>8, <1>12, <1>13, <1>14, <1>15, <1>16 DEF MapsAll, M, count, w

\* A range of the audio plays the units of the source between the same offsets.
LEMMA PlayedPart ==
  ASSUME NEW r \in Seq(Spans), Ascends(r), NEW k \in 1..Len(r),
         NEW from \in Int, NEW to \in Int,
         Offset(r, k) <= from, to <= Offset(r, k + 1)
  PROVE  {Rendered(r)[u] : u \in (from + 1)..to}
           = (r[k].start + (from - Offset(r, k)))..(r[k].start + (to - Offset(r, k)) - 1)
<1> DEFINE o == Offset(r, k)
           p == Offset(r, k + 1)
           s == r[k].start
           L == {Rendered(r)[u] : u \in (from + 1)..to}
           Q == (s + (from - o))..(s + (to - o) - 1)
<1>1. s \in Nat /\ r[k].end \in Nat /\ Len(r) \in Nat
  BY RangeTypes
<1>2. o \in Int /\ p \in Int
  <2>1. k \in 1..(Len(r) + 1) /\ k + 1 \in 1..(Len(r) + 1)
    BY <1>1
  <2> QED BY <2>1, OffsetSteps DEF Plays
<1>3. \A u \in (o + 1)..p : Rendered(r)[u] = s + (u - o) - 1
  BY UnitInRange
<1> HIDE DEF o, p, s
<1>4. \A u \in (from + 1)..to : u \in Int /\ Rendered(r)[u] = s + (u - o) - 1
  <2> TAKE u \in (from + 1)..to
  <2>1. u \in (o + 1)..p
    BY <1>2 DEF o, p
  <2> QED BY <1>3, <2>1
<1>5. \A x \in L : x \in Q
  <2> TAKE x \in L
  <2>1. PICK u \in (from + 1)..to : x = Rendered(r)[u]
    OBVIOUS
  <2>2. x = s + (u - o) - 1
    BY <1>4, <2>1
  <2> QED BY <1>1, <1>2, <2>2
<1>6. \A x \in Q : x \in L
  <2> TAKE x \in Q
  <2> DEFINE u == x - s + o + 1
  <2>0. s \in Int /\ o \in Int
    BY <1>1, <1>2
  <2>3. x \in Int /\ s + (from - o) <= x /\ x <= s + (to - o) - 1
    BY <2>0
  <2>4. u \in Int /\ from + 1 <= u /\ u <= to
    BY <2>0, <2>3
  <2>5. s + (u - o) - 1 = x
    BY <2>0, <2>3
  <2>1. u \in (from + 1)..to /\ s + (u - o) - 1 = x
    BY <2>4, <2>5
  <2>2. Rendered(r)[u] = x
    BY <1>4, <2>1
  <2> QED BY <2>1, <2>2
<1>7. L = Q
  BY <1>5, <1>6
<1> QED BY <1>7 DEF o, s

\* Where in the audio a passage is heard, as its range allows.
LEMMA HeardPart ==
  ASSUME NEW r \in Seq(Spans), Ascends(r), NEW k \in 1..Len(r), NEW p \in Passages
  PROVE  LET h == Into(p, r[k], Offset(r, k))
         IN  /\ h.start = Offset(r, k) + Later(p.start, r[k].start) - r[k].start
             /\ h.end = Offset(r, k) + Earlier(p.end, r[k].end) - r[k].start
             /\ h.start \in Int /\ h.end \in Int
             /\ Offset(r, k) <= h.start /\ h.end <= Offset(r, k + 1)
             /\ Offset(r, k) \in Int /\ 0 <= Offset(r, k) /\ Offset(r, k + 1) <= Length(r)
             /\ Offset(r, k + 1) \in Int
<1> DEFINE h == Into(p, r[k], Offset(r, k))
<1>1. /\ r[k].start \in Nat /\ r[k].end \in Nat /\ Len(r) \in Nat
      /\ p.start \in Nat /\ p.end \in Nat
  BY RangeTypes DEF Passages
<1>2. /\ h.start = Offset(r, k) + Later(p.start, r[k].start) - r[k].start
      /\ h.end = Offset(r, k) + Earlier(p.end, r[k].end) - r[k].start
  BY DEF Into, Passages
<1>3. k \in 1..(Len(r) + 1) /\ k + 1 \in 1..(Len(r) + 1) /\ Len(r) + 1 \in 1..(Len(r) + 1)
      /\ k + 1 <= Len(r) + 1
  BY <1>1
<1>4. /\ Offset(r, k) \in Int /\ Offset(r, k + 1) \in Int
      /\ Offset(r, k + 1) = Offset(r, k) + r[k].end - r[k].start
      /\ Offset(r, Len(r) + 1) = Length(r)
  BY <1>3, OffsetSteps DEF Plays
<1>5. 0 <= Offset(r, k) /\ Offset(r, k + 1) <= Offset(r, Len(r) + 1)
  BY <1>3, OffsetsGrow
<1>6. /\ Later(p.start, r[k].start) \in Nat /\ Earlier(p.end, r[k].end) \in Nat
      /\ r[k].start <= Later(p.start, r[k].start) /\ Earlier(p.end, r[k].end) <= r[k].end
  BY <1>1 DEF Later, Earlier
<1> HIDE DEF h
<1> DEFINE a == Later(p.start, r[k].start)
           b == Earlier(p.end, r[k].end)
           o == Offset(r, k)
           s == r[k].start
           e == r[k].end
<1>7. /\ a \in Nat /\ b \in Nat /\ o \in Int /\ s \in Nat /\ e \in Nat /\ s <= a /\ b <= e
      /\ h.start = o + a - s /\ h.end = o + b - s /\ Offset(r, k + 1) = o + e - s
  BY <1>1, <1>2, <1>4, <1>6
<1> HIDE DEF a, b, o, s, e
<1>8. /\ o + a - s \in Int /\ o + b - s \in Int
      /\ o <= o + a - s /\ o + b - s <= o + e - s
  BY <1>7
<1>9. /\ h.start \in Int /\ h.end \in Int
      /\ o <= h.start /\ h.end <= Offset(r, k + 1)
  BY <1>7, <1>8
<1> QED BY <1>2, <1>4, <1>5, <1>9 DEF h, o

LEMMA HeardUnits ==
  ASSUME NEW r \in Seq(Spans), Ascends(r), NEW k \in 1..Len(r), NEW p \in Passages,
         p.start <= p.end, MiddleIn(p, r[k].start, r[k].end)
  PROVE  LET h == Into(p, r[k], Offset(r, k))
         IN  /\ 0 <= h.start /\ h.start <= h.end /\ h.end <= Length(r)
             /\ Heard(r, h) = Units(p) \cap Units(r[k])
<1> DEFINE h == Into(p, r[k], Offset(r, k))
           a == Later(p.start, r[k].start)
           b == Earlier(p.end, r[k].end)
           o == Offset(r, k)
           s == r[k].start
           e == r[k].end
<1>1. s \in Nat /\ e \in Nat /\ p.start \in Nat /\ p.end \in Nat
  BY RangeTypes DEF Passages
<1>2. /\ h.start = o + a - s /\ h.end = o + b - s
      /\ h.start \in Int /\ h.end \in Int
      /\ o <= h.start /\ h.end <= Offset(r, k + 1)
      /\ o \in Int /\ 0 <= o /\ Offset(r, k + 1) <= Length(r)
      /\ Offset(r, k + 1) \in Int
  BY HeardPart
<1>3. Length(r) \in Nat
  BY RenderedTypes
<1>4. 2 * s <= p.start + p.end /\ p.start + p.end < 2 * e /\ p.start <= p.end
  BY DEF MiddleIn, Middle
<1>5. a \in Nat /\ b \in Nat /\ a <= b
  <2> DEFINE x == p.start
             y == p.end
  <2>1. x \in Nat /\ y \in Nat /\ s \in Nat /\ e \in Nat /\ x < e /\ s <= y /\ s < e /\ x <= y
    BY <1>1, <1>4
  <2> HIDE DEF x, y, s, e
  <2>2. Later(x, s) \in Nat /\ Earlier(y, e) \in Nat /\ Later(x, s) <= Earlier(y, e)
    BY <2>1 DEF Later, Earlier
  <2> QED BY <2>2 DEF x, y, s, e
<1>6. Units(p) \cap Units(r[k]) = a..(b - 1)
  <2>1. Units(p) = p.start..(p.end - 1) /\ Units(r[k]) = s..(e - 1)
    BY DEF Units
  <2> DEFINE x == p.start
             y == p.end
  <2>2. x \in Nat /\ y \in Nat /\ s \in Nat /\ e \in Nat
    BY <1>1
  <2> HIDE DEF x, y, s, e
  <2>3. (x..(y - 1)) \cap (s..(e - 1)) = Later(x, s)..(Earlier(y, e) - 1)
    BY <2>2 DEF Later, Earlier
  <2> QED BY <2>1, <2>3 DEF x, y, s, e
<1> HIDE DEF a, b, o, s, e, h
<1>7. Heard(r, h) = {Rendered(r)[u] : u \in (h.start + 1)..h.end}
  BY DEF Heard
<1>8. Heard(r, h) = (s + (h.start - o))..(s + (h.end - o) - 1)
  <2> DEFINE from == h.start
             to == h.end
  <2>1. /\ from \in Int /\ to \in Int
        /\ Offset(r, k) <= from /\ to <= Offset(r, k + 1)
    BY <1>2 DEF o
  <2> HIDE DEF from, to
  <2>2. {Rendered(r)[u] : u \in (from + 1)..to}
          = (r[k].start + (from - Offset(r, k)))..(r[k].start + (to - Offset(r, k)) - 1)
    BY <2>1, PlayedPart
  <2> QED BY <1>7, <2>2 DEF o, s, from, to
<1>9. s + (h.start - o) = a /\ s + (h.end - o) - 1 = b - 1
  BY <1>1, <1>2, <1>5
<1>10. Heard(r, h) = Units(p) \cap Units(r[k])
  BY <1>6, <1>8, <1>9
<1>11. h.start <= h.end
  BY <1>1, <1>2, <1>5
<1>12. 0 <= h.start /\ h.end <= Length(r)
  BY <1>2, <1>3
<1> QED BY <1>10, <1>11, <1>12 DEF h

\* What TranscriptFollowsTheAudio says of what is mapped.
Follows(d, texts, mapped) ==
  /\ \A i \in DOMAIN texts : MiddleKept(d, texts[i]) <=> \E n \in DOMAIN mapped : mapped[n].of = i
  /\ \A m, n \in DOMAIN mapped :
       m < n => \/ mapped[m].of < mapped[n].of
                \/ Middle(texts[mapped[m].of]) < Middle(texts[mapped[n].of])
  /\ \A n \in DOMAIN mapped :
       LET heard == mapped[n].heard
           text  == texts[mapped[n].of]
       IN  text.start <= text.end =>
             /\ 0 <= heard.start /\ heard.start <= heard.end
             /\ heard.end <= Length(KeptRanges(d))
             /\ Heard(KeptRanges(d), heard) = Units(text) \cap Units(KeptRanges(d)[mapped[n].range])

LEMMA MappedFollows ==
  ASSUME NEW d \in Drafts, Validate(d), NEW texts \in Seq(Passages)
  PROVE  Follows(d, texts, Mapped(texts, KeptRanges(d)))
<1> DEFINE r == KeptRanges(d)
           w == Mapped(texts, r)
           count == Cardinality(Hearings(texts, r))
           n0 == Len(d.keep)
<1>1. r \in Seq(Spans) /\ Ascends(r) /\ \A m \in Nat : Within(r, m) <=> KeptIn(d, n0, m)
  BY KeptRangesHold DEF Holds
<1> HIDE DEF r
<1>2. MapsAll(w, count, texts, r)
  BY <1>1, MappedPassages
<1> HIDE DEF w, count
<1>3. Len(texts) \in Nat /\ DOMAIN texts = 1..Len(texts) /\ \A i \in 1..Len(texts) : texts[i] \in Passages
  BY LenProperties
<1>4. DOMAIN w = 1..count /\ count \in Nat /\ \A n \in 1..count : IsHeard(w, n, texts, r)
  BY <1>2 DEF MapsAll
<1>5. \A i \in 1..Len(texts) : Middle(texts[i]) \in Nat
  BY <1>3 DEF Middle, Passages
<1>6. ASSUME NEW i \in 1..Len(texts)
      PROVE  MiddleKept(d, texts[i]) <=> \E n \in 1..count : w[n].of = i
  <2>1. SectionsOf(d) = 1..n0
    BY DraftTypes
  <2>2. MiddleKept(d, texts[i]) <=> KeptIn(d, n0, Middle(texts[i]))
    BY <2>1 DEF MiddleKept, KeptIn, MiddleIn, Between
  <2>3. MiddleKept(d, texts[i]) <=> Within(r, Middle(texts[i]))
    BY <1>1, <1>5, <2>2
  <2>4. Within(r, Middle(texts[i])) <=>
          \E k \in 1..Len(r) : MiddleIn(texts[i], r[k].start, r[k].end)
    BY DEF Within, MiddleIn, Between
  <2>5. ASSUME NEW k \in 1..Len(r), MiddleIn(texts[i], r[k].start, r[k].end)
        PROVE  \E n \in 1..count : w[n].of = i
    BY <1>2, <2>5 DEF MapsAll
  <2>6. ASSUME NEW n \in 1..count, w[n].of = i
        PROVE  \E k \in 1..Len(r) : MiddleIn(texts[i], r[k].start, r[k].end)
    BY <1>4, <2>6 DEF IsHeard
  <2> QED BY <2>3, <2>4, <2>5, <2>6
<1>7. ASSUME NEW m \in 1..count, NEW n \in 1..count, m < n
      PROVE  \/ w[m].of < w[n].of
             \/ Middle(texts[w[m].of]) < Middle(texts[w[n].of])
  <2>1. CASE w[m].range = w[n].range /\ w[m].of < w[n].of
    BY <2>1
  <2>2. CASE w[m].range < w[n].range
    <3> DEFINE j == w[m].range
               k == w[n].range
               x == Middle(texts[w[m].of])
               y == Middle(texts[w[n].of])
    <3>1. /\ j \in 1..Len(r) /\ k \in 1..Len(r) /\ w[m].of \in 1..Len(texts) /\ w[n].of \in 1..Len(texts)
          /\ MiddleIn(texts[w[m].of], r[j].start, r[j].end)
          /\ MiddleIn(texts[w[n].of], r[k].start, r[k].end)
      BY <1>4 DEF IsHeard
    <3>2. x < 2 * r[j].end /\ 2 * r[k].start <= y
      BY <3>1 DEF MiddleIn
    <3>3. r[j].end < r[k].start
      BY <1>1, <2>2, <3>1 DEF Ascends
    <3>4. x \in Nat /\ y \in Nat /\ r[j].end \in Nat /\ r[k].start \in Nat
      BY <1>1, <1>5, <3>1, RangeTypes
    <3> HIDE DEF x, y, j, k
    <3>5. x < y
      <4> DEFINE e == r[j].end
                 s == r[k].start
      <4>1. x < 2 * e /\ 2 * s <= y /\ e < s /\ x \in Nat /\ y \in Nat /\ e \in Nat /\ s \in Nat
        BY <3>2, <3>3, <3>4
      <4> HIDE DEF e, s
      <4> QED BY <4>1
    <3> QED BY <3>5 DEF x, y
  <2> QED BY <1>2, <1>7, <2>1, <2>2 DEF MapsAll
<1>8. ASSUME NEW n \in 1..count, texts[w[n].of].start <= texts[w[n].of].end
      PROVE  /\ 0 <= w[n].heard.start /\ w[n].heard.start <= w[n].heard.end
             /\ w[n].heard.end <= Length(r)
             /\ Heard(r, w[n].heard) = Units(texts[w[n].of]) \cap Units(r[w[n].range])
  <2>1. /\ w[n].range \in 1..Len(r) /\ w[n].of \in 1..Len(texts)
        /\ MiddleIn(texts[w[n].of], r[w[n].range].start, r[w[n].range].end)
        /\ w[n].heard = Into(texts[w[n].of], r[w[n].range], Offset(r, w[n].range))
    BY <1>4 DEF IsHeard
  <2>2. texts[w[n].of] \in Passages
    BY <1>3, <2>1
  <2> DEFINE p == texts[w[n].of]
             k == w[n].range
             h == w[n].heard
  <2>3. /\ p \in Passages /\ k \in 1..Len(r) /\ MiddleIn(p, r[k].start, r[k].end)
        /\ p.start <= p.end /\ h = Into(p, r[k], Offset(r, k))
    BY <1>8, <2>1, <2>2
  <2> HIDE DEF p, k, h
  <2>4. /\ 0 <= h.start /\ h.start <= h.end /\ h.end <= Length(r)
        /\ Heard(r, h) = Units(p) \cap Units(r[k])
    BY <1>1, <2>3, HeardUnits
  <2> QED BY <2>4 DEF p, k, h
<1>9. DOMAIN texts = 1..Len(texts) /\ DOMAIN w = 1..count
  BY <1>3, <1>4
<1> QED BY <1>6, <1>7, <1>8, <1>9 DEF Follows, r, w

\* What is shown of a draft (TranscriptFollowsTheAudio): with the invariant, in
\* every state.
LEMMA ShownFollows ==
  ASSUME IInv, draft # NoDraft
  PROVE  TranscriptFollowsTheAudio
<1> DEFINE r == KeptRanges(draft)
           shown == MapTranscript(source, r)
           texts == IF source.words # << >> THEN source.words ELSE source.segments
           mapped == IF source.words # << >> THEN shown.words ELSE shown.segments
<1>1. draft \in Drafts /\ Validate(draft) /\ source \in Transcriptions
  BY NewestTranscription DEF IInv, TypeOK
<1>2. /\ shown.words = Mapped(source.words, r)
      /\ shown.segments = IF source.words = << >> THEN Mapped(source.segments, r) ELSE << >>
      /\ shown.duration = Length(r)
  BY DEF MapTranscript
<1> HIDE DEF shown
<1>3. texts \in Seq(Passages)
  BY <1>1 DEF Transcriptions
<1>4. mapped = Mapped(texts, r)
  BY <1>2
<1> HIDE DEF texts, mapped
<1>5. Follows(draft, texts, mapped)
  BY <1>1, <1>3, <1>4, MappedFollows DEF r
<1>6. Range(Rendered(r)) = UnitsKept(draft) /\ shown.duration = Cardinality(UnitsKept(draft))
  BY <1>1, <1>2, AudioOfDraft DEF r
<1> HIDE DEF r
<1>7. \A i \in DOMAIN texts : MiddleKept(draft, texts[i]) <=> \E n \in DOMAIN mapped : mapped[n].of = i
  BY <1>5 DEF Follows
<1>8. \A m, n \in DOMAIN mapped :
        m < n => \/ mapped[m].of < mapped[n].of
                 \/ Middle(texts[mapped[m].of]) < Middle(texts[mapped[n].of])
  BY <1>5 DEF Follows
<1>9. \A n \in DOMAIN mapped :
        LET heard == mapped[n].heard
            text  == texts[mapped[n].of]
        IN  text.start <= text.end =>
              /\ 0 <= heard.start /\ heard.start <= heard.end /\ heard.end <= shown.duration
              /\ Heard(r, heard) = Units(text) \cap Units(r[mapped[n].range])
  BY <1>2, <1>5 DEF Follows, r
<1> QED BY <1>6, <1>7, <1>8, <1>9 DEF TranscriptFollowsTheAudio, r, shown, texts, mapped

\* MapTranscript shows of every draft and transcription what the render of
\* keptRanges plays: as long, each passage once, in order, when it is heard.
THEOREM FollowedAudio == Spec => []TranscriptFollowsTheAudio
<1>1. IInv => TranscriptFollowsTheAudio
  <2>1. CASE draft = NoDraft
    BY <2>1 DEF TranscriptFollowsTheAudio
  <2>2. CASE draft # NoDraft
    BY <2>2, ShownFollows
  <2> QED BY <2>1, <2>2
<1> QED BY <1>1, Invariance, PTL

-----------------------------------------------------------------------------
(* Phrases *)

\* The first word of each phrase, and the last word from a first one on.
FirstWords(t, words) == {n \in DOMAIN words : n = 1 \/ Breaks(t, words, n)}
LastOf(first, words, n) == Min({m \in DOMAIN words : m >= n /\ m + 1 \in first} \cup {Len(words)})

LEMMA LastProperties ==
  ASSUME NEW count \in Nat, NEW words, DOMAIN words = 1..count, Len(words) = count,
         NEW first \in SUBSET (1..count), NEW n \in 1..count
  PROVE  /\ LastOf(first, words, n) \in n..count
         /\ \A m \in n..count : m + 1 \in first => LastOf(first, words, n) <= m
         /\ LastOf(first, words, n) = count \/ LastOf(first, words, n) + 1 \in first
<1> DEFINE S == {m \in DOMAIN words : m >= n /\ m + 1 \in first} \cup {Len(words)}
<1>1. S \subseteq Nat /\ S # {}
  OBVIOUS
<1>2. \A m \in S : m \in n..count /\ (m = count \/ m + 1 \in first)
  OBVIOUS
<1>3. \A m \in n..count : m + 1 \in first => m \in S
  OBVIOUS
<1>4. LastOf(first, words, n) = Min(S)
  BY DEF LastOf
<1> HIDE DEF S
<1>5. Min(S) \in S /\ \A m \in S : Min(S) <= m
  BY <1>1, MinOfNumbers
<1> QED BY <1>2, <1>3, <1>4, <1>5

\* Each word is in the phrase of the last first word before it, and in no other.
LEMMA EachInOnePhrase ==
  ASSUME NEW count \in Nat, NEW words, DOMAIN words = 1..count, Len(words) = count,
         NEW first \in SUBSET (1..count), count > 0 => 1 \in first, NEW n \in 1..count
  PROVE  \E f \in first : /\ f <= n /\ n <= LastOf(first, words, f)
                          /\ \A g \in first : g <= n /\ n <= LastOf(first, words, g) => g = f
<1> DEFINE S == {f \in first : f <= n}
<1>1. S \subseteq Nat /\ n \in Nat /\ \A f \in S : f <= n
  <2>1. \A f \in first : f \in Nat
    OBVIOUS
  <2>2. n \in Nat
    OBVIOUS
  <2> QED BY <2>1, <2>2
<1>6. S # {}
  <2>1. 1 \in first /\ 1 <= n
    OBVIOUS
  <2> QED BY <2>1
<1> HIDE DEF S
<1>2. PICK f \in S : \A g \in S : g <= f
  BY <1>1, <1>6, GreatestNumber
<1>3. f \in first /\ f <= n /\ f \in 1..count /\ \A g \in first : g <= n => g <= f
  BY <1>2 DEF S
<1>4. n <= LastOf(first, words, f)
  <2> DEFINE l == LastOf(first, words, f)
  <2>1. l \in f..count /\ (l = count \/ l + 1 \in first)
    BY <1>3, LastProperties
  <2> HIDE DEF l
  <2>2. l + 1 \in first => ~(l + 1 <= n)
    BY <1>3, <2>1
  <2>3. n <= l
    BY <2>1, <2>2
  <2> QED BY <2>3 DEF l
<1>5. ASSUME NEW g \in first, g <= n, n <= LastOf(first, words, g)
      PROVE  g = f
  <2> DEFINE l == LastOf(first, words, g)
  <2>1. g <= f /\ g \in 1..count
    BY <1>3, <1>5
  <2>2. CASE g < f
    <3>1. f - 1 \in g..count /\ (f - 1) + 1 \in first
      BY <1>3, <2>1, <2>2
    <3>2. l <= f - 1 /\ l \in g..count
      BY <2>1, <3>1, LastProperties
    <3>3. n <= l
      BY <1>5
    <3> HIDE DEF l
    <3>4. FALSE
      BY <1>3, <3>2, <3>3
    <3> QED BY <3>4
  <2>3. CASE g = f
    BY <2>3
  <2> QED BY <1>3, <2>1, <2>2, <2>3
<1> QED BY <1>3, <1>4, <1>5

\* All words of a phrase are heard in one range.
LEMMA PhraseInOneRange ==
  ASSUME NEW t, NEW count \in Nat, NEW words, DOMAIN words = 1..count, Len(words) = count,
         NEW f \in FirstWords(t, words)
  PROVE  LET last == LastOf(FirstWords(t, words), words, f)
         IN  last \in f..count /\ words[last].range = words[f].range
<1> DEFINE first == FirstWords(t, words)
           last == LastOf(first, words, f)
<1>1. first \in SUBSET (1..count) /\ f \in 1..count
  BY DEF FirstWords
<1>2. /\ last \in f..count
      /\ \A m \in f..count : m + 1 \in first => last <= m
  BY <1>1, LastProperties
<1> HIDE DEF last
<1> DEFINE T == {i \in 0..(last - f) : words[f + i].range = words[f].range}
<1>3. 0 \in T
  BY <1>1, <1>2
<1>4. ASSUME NEW i \in 0..((last - f) - 1), i \in T
      PROVE  i + 1 \in T
  <2> DEFINE m == f + i
  <2>1. /\ m \in f..count /\ ~(last <= m) /\ m + 1 \in 1..count /\ m + 1 # 1
        /\ (m + 1) - 1 = m /\ f + (i + 1) = m + 1 /\ i + 1 \in 0..(last - f)
    BY <1>1, <1>2
  <2>2. words[m].range = words[f].range
    BY <1>4
  <2> HIDE DEF m
  <2>3. m + 1 \notin first
    BY <1>2, <2>1
  <2>4. ~Breaks(t, words, m + 1)
    BY <2>1, <2>3 DEF FirstWords
  <2>5. words[m + 1].range = words[(m + 1) - 1].range
    BY <2>4 DEF Breaks
  <2>6. words[f + (i + 1)].range = words[f].range
    BY <2>1, <2>2, <2>5
  <2> QED BY <2>1, <2>6
<1>5. last - f \in Nat
  BY <1>1, <1>2
<1> HIDE DEF T
<1>6. 0..(last - f) \subseteq T
  BY <1>3, <1>4, <1>5, BoundedInduction
<1>7. last - f \in T
  BY <1>5, <1>6
<1>8. words[f + (last - f)].range = words[f].range
  BY <1>7 DEF T
<1>9. f + (last - f) = last
  BY <1>1, <1>2
<1> QED BY <1>2, <1>8, <1>9 DEF last

\* What is heard from one word to another of the same range is one piece of the source.
LEMMA OnePiece ==
  ASSUME NEW r \in Seq(Spans), Ascends(r), NEW k \in 1..Len(r),
         NEW p \in Passages, NEW q \in Passages
  PROVE  \E x, y \in Int :
           Heard(r, [start |-> Into(p, r[k], Offset(r, k)).start,
                     end   |-> Into(q, r[k], Offset(r, k)).end]) = x..y
<1> DEFINE from == Into(p, r[k], Offset(r, k)).start
           to == Into(q, r[k], Offset(r, k)).end
<1>1. from \in Int /\ Offset(r, k) <= from /\ Offset(r, k) \in Int
  BY HeardPart
<1>2. to \in Int /\ to <= Offset(r, k + 1)
  BY HeardPart
<1>3. r[k].start \in Nat
  BY RangeTypes
<1>4. Heard(r, [start |-> from, end |-> to]) = {Rendered(r)[u] : u \in (from + 1)..to}
  BY DEF Heard
<1> HIDE DEF from, to
<1>5. {Rendered(r)[u] : u \in (from + 1)..to}
        = (r[k].start + (from - Offset(r, k)))..(r[k].start + (to - Offset(r, k)) - 1)
  BY <1>1, <1>2, PlayedPart
<1>6. /\ r[k].start + (from - Offset(r, k)) \in Int
      /\ r[k].start + (to - Offset(r, k)) - 1 \in Int
  BY <1>1, <1>2, <1>3
<1>7. Heard(r, [start |-> from, end |-> to])
        = (r[k].start + (from - Offset(r, k)))..(r[k].start + (to - Offset(r, k)) - 1)
  BY <1>4, <1>5
<1> QED BY <1>6, <1>7 DEF from, to

LEMMA ShownPhrases ==
  ASSUME IInv, draft # NoDraft
  PROVE  PhrasesDoNotCrossCuts
<1> DEFINE r == KeptRanges(draft)
           shown == MapTranscript(source, r)
           w == shown.words
           count == Len(w)
           first == FirstWords(source, w)
           L(n) == LastOf(first, w, n)
           Span(p) == Heard(r, [start |-> w[p[1]].heard.start, end |-> w[p[2]].heard.end])
<1>1. draft \in Drafts /\ Validate(draft) /\ source \in Transcriptions
  BY NewestTranscription DEF IInv, TypeOK
<1>2. source.words \in Seq(Passages)
  BY <1>1 DEF Transcriptions
<1>3. r \in Seq(Spans) /\ Ascends(r)
  BY <1>1, KeptRangesHold DEF Holds
<1>4. w = Mapped(source.words, r)
  BY DEF MapTranscript
<1>5. shown.phrases = {<<n, L(n)>> : n \in first}
  BY DEF MapTranscript, FirstWords, LastOf
<1> HIDE DEF shown, r
<1>6. /\ count \in Nat /\ DOMAIN w = 1..count
      /\ \A n \in 1..count : IsHeard(w, n, source.words, r)
  BY <1>2, <1>3, <1>4, MappedPassages DEF MapsAll
<1>7. first \in SUBSET (1..count) /\ (count > 0 => 1 \in first)
  BY <1>6 DEF FirstWords
<1> HIDE DEF w, count, first, L
<1>8. ASSUME NEW n \in 1..count
      PROVE  \E p \in shown.phrases : /\ p[1] <= n /\ n <= p[2]
                                      /\ \A q \in shown.phrases \ {p} : n \notin q[1]..q[2]
  <2>1. PICK f \in first : /\ f <= n /\ n <= L(f)
                           /\ \A g \in first : g <= n /\ n <= L(g) => g = f
    BY <1>6, <1>7, EachInOnePhrase DEF count, L
  <2>2. <<f, L(f)>> \in shown.phrases
    BY <1>5
  <2>3. ASSUME NEW q \in shown.phrases \ {<<f, L(f)>>}, n \in q[1]..q[2]
        PROVE  FALSE
    <3>1. PICK g \in first : q = <<g, L(g)>>
      BY <1>5
    <3>2. g \in 1..count
      BY <1>7
    <3>3. L(g) \in g..count
      BY <1>6, <1>7, <3>2, LastProperties DEF count, L
    <3>4. n \in g..L(g)
      BY <2>3, <3>1
    <3>5. g <= n /\ n <= L(g)
      BY <1>6, <3>2, <3>3, <3>4
    <3>6. g = f
      BY <2>1, <3>5
    <3> QED BY <2>3, <3>1, <3>6
  <2> DEFINE p == <<f, L(f)>>
  <2>4. p[1] <= n /\ n <= p[2]
    BY <2>1
  <2>5. \A q \in shown.phrases \ {p} : n \notin q[1]..q[2]
    BY <2>3
  <2> HIDE DEF p
  <2>6. p \in shown.phrases
    BY <2>2 DEF p
  <2> QED BY <2>4, <2>5, <2>6
<1>9. ASSUME NEW p \in shown.phrases
      PROVE  \A a, b \in Span(p) : a..b \subseteq Span(p)
  <2>1. PICK f \in first : p = <<f, L(f)>>
    BY <1>5
  <2>2. f \in 1..count /\ L(f) \in f..count /\ w[L(f)].range = w[f].range
    BY <1>6, <1>7, <2>1, PhraseInOneRange DEF count, L, first
  <2>3. L(f) \in 1..count
    BY <1>6, <2>2
  <2> DEFINE k == w[f].range
             x == source.words[w[f].of]
             y == source.words[w[L(f)].of]
  <2>4. k \in 1..Len(r) /\ x \in Passages /\ w[f].heard = Into(x, r[k], Offset(r, k))
    BY <1>2, <1>6, <2>2, LenProperties DEF IsHeard
  <2>5. y \in Passages /\ w[L(f)].heard = Into(y, r[k], Offset(r, k))
    BY <1>2, <1>6, <2>2, <2>3, LenProperties DEF IsHeard
  <2> HIDE DEF k, x, y
  <2>6. PICK m, n \in Int :
          Heard(r, [start |-> Into(x, r[k], Offset(r, k)).start,
                    end   |-> Into(y, r[k], Offset(r, k)).end]) = m..n
    BY <1>3, <2>4, <2>5, OnePiece
  <2>7. Span(p) = m..n
    BY <2>1, <2>4, <2>5, <2>6
  <2> HIDE DEF Span
  <2>8. \A a, b \in m..n : a..b \subseteq m..n
    OBVIOUS
  <2> QED BY <2>7, <2>8
<1> QED BY <1>6, <1>8, <1>9 DEF PhrasesDoNotCrossCuts, r, shown, w

\* No phrase joins words from both sides of a cut, and each word is in one
\* (PhrasesDoNotCrossCuts), for every transcription and every draft.
THEOREM UncutPhrases == Spec => []PhrasesDoNotCrossCuts
<1>1. IInv => PhrasesDoNotCrossCuts
  <2>1. CASE draft = NoDraft
    BY <2>1 DEF PhrasesDoNotCrossCuts
  <2>2. CASE draft # NoDraft
    BY <2>2, ShownPhrases
  <2> QED BY <2>1, <2>2
<1> QED BY <1>1, Invariance, PTL

=============================================================================
