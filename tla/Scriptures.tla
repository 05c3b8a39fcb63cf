----------------------------- MODULE Scriptures -----------------------------
(***************************************************************************)
(* normalizeScriptures (processing/scriptures.go): a list of scripture     *)
(* references, merged to the most specific ones in the order of their      *)
(* first mention.                                                          *)
(*                                                                         *)
(* A reference is what parseScripture makes of its text: a passage, which  *)
(* is a chapter of a book, with ranges of verses, none for the chapter by  *)
(* itself; or, unparsed, a text that is kept as it is.  Two spellings of a *)
(* text are one reference.                                                 *)
(***************************************************************************)
EXTENDS Ordered, SequencesExt, FiniteSetsExt

CONSTANT Passages   \* chapters, and the texts that cannot be parsed

\* parseScripture refuses verses below 1 and ranges that end before they start.
VerseRanges == {v \in [start : Nat \ {0}, end : Nat] : v.start <= v.end}
References  == {r \in [passage : Passages, parsed : BOOLEAN, ranges : Seq(VerseRanges)] :
                  ~r.parsed => r.ranges = << >>}

Reference(passage, parsed, ranges) == [passage |-> passage, parsed |-> parsed, ranges |-> ranges]
VerseRange(start, end) == [start |-> start, end |-> end]

-----------------------------------------------------------------------------
(* normalizeScriptures *)

\* A mention stands at a place: the number of its reference and of the range in
\* it, 0 for a reference without ranges.
Before(p, q) == p[1] < q[1] \/ (p[1] = q[1] /\ p[2] < q[2])
PlacesIn(references, i) ==
  {i} \X (IF references[i].ranges = << >> THEN {0} ELSE DOMAIN references[i].ranges)

\* A reference counts once, and each mention in it takes the next number ("order").
Firsts(references) ==
  {i \in DOMAIN references : ~\E j \in DOMAIN references : j < i /\ references[j] = references[i]}
MentionPlaces(references) ==
  InOrder(UNION {PlacesIn(references, i) : i \in Firsts(references)}, Before)

MentionAt(reference, j) ==
  [passage |-> reference.passage, parsed |-> reference.parsed, whole |-> j = 0,
   start   |-> IF j = 0 THEN 0 ELSE reference.ranges[j].start,
   end     |-> IF j = 0 THEN 0 ELSE reference.ranges[j].end]
Mentions(references) ==
  LET places == MentionPlaces(references)
  IN  [k \in DOMAIN places |-> MentionAt(references[places[k][1]], places[k][2])]

MentionsOf(mentions, passage) ==
  {k \in DOMAIN mentions : mentions[k].parsed /\ mentions[k].passage = passage}

\* A run of verses, with the order of its first mention.
Run(start, end, order) == [start |-> start, end |-> end, order |-> order]

Larger(a, b)  == IF a < b THEN b ELSE a
Smaller(a, b) == IF a < b THEN a ELSE b

TouchesOverlapping(run, last) == run.start <= last.end              \* mutant
Touches(run, last) == run.start - 1 <= last.end

Joined(runs, run) ==
  LET last == runs[Len(runs)]
  IN  IF runs # << >> /\ Touches(run, last)
      THEN [runs EXCEPT ![Len(runs)] = Run(last.start, Larger(last.end, run.end),
                                           Smaller(last.order, run.order))]
      ELSE Append(runs, run)

ByVerse(a, b) == a.start < b.start \/ (a.start = b.start /\ a.order < b.order)
SortedByVerse(mentions, passage) ==
  InOrder({Run(mentions[k].start, mentions[k].end, k) :
             k \in {m \in MentionsOf(mentions, passage) : ~mentions[m].whole}}, ByVerse)

\* The runs of a passage: none when only the chapter was mentioned.
Merged(mentions, passage) == FoldLeft(Joined, << >>, SortedByVerse(mentions, passage))

\* "A chapter-only mention transfers its position to the first specific passage"
Placed(mentions, passage) ==
  LET runs  == Merged(mentions, passage)
      group == Min(MentionsOf(mentions, passage))
      first == CHOOSE i \in DOMAIN runs : \A j \in DOMAIN runs : runs[i].order <= runs[j].order
  IN  IF runs = << >> THEN <<Run(0, 0, group)>> ELSE [runs EXCEPT ![first].order = group]

\* The references of the result, each with the order it is sorted by.
Output(order, reference) == [order |-> order, reference |-> reference]
UnparsedOutputs(mentions) ==
  {Output(k, Reference(mentions[k].passage, FALSE, << >>)) :
     k \in {m \in DOMAIN mentions : ~mentions[m].parsed}}
OutputOf(passage, run) ==
  Output(run.order, Reference(passage, TRUE, IF run.start = 0 THEN << >>
                                             ELSE <<VerseRange(run.start, run.end)>>))
OutputsOf(mentions, passage) ==
  {OutputOf(passage, run) : run \in ToSet(Placed(mentions, passage))}
Outputs(mentions) ==
  UnparsedOutputs(mentions)
    \cup UNION {OutputsOf(mentions, mentions[k].passage) :
                  k \in {m \in DOMAIN mentions : mentions[m].parsed}}

ByOrder(a, b) == a.order < b.order
normalizeScriptures(references) ==
  LET outputs == InOrder(Outputs(Mentions(references)), ByOrder)
  IN  [n \in DOMAIN outputs |-> outputs[n].reference]

\* A chapter without verses is refused.
validateScriptureVerseReferences(references) ==
  \A i \in DOMAIN references : references[i].parsed => references[i].ranges # << >>

-----------------------------------------------------------------------------
(* What the result should be *)

Earliest(places) == CHOOSE p \in places : \A q \in places : p = q \/ Before(p, q)

SamePassage(a, b) == a.parsed = b.parsed /\ a.passage = b.passage

\* Where the list mentions the passage of r, repeated references included.
Places(references, r) ==
  UNION {PlacesIn(references, i) : i \in {n \in DOMAIN references : SamePassage(references[n], r)}}

\* Where it mentions verses of r.
OwnPlaces(references, r) ==
  {p \in Places(references, r) :
     r.ranges # << >> => p[2] # 0 /\ references[p[1]].ranges[p[2]].start
                                        \in r.ranges[1].start..r.ranges[1].end}

Verses(references, passage) ==
  UNION {UNION {v.start..v.end : v \in ToSet(r.ranges)} :
           r \in {x \in ToSet(references) : x.parsed /\ x.passage = passage}}

MaximalRuns(verses) ==
  {VerseRange(p[1], p[2]) :
     p \in {q \in verses \X verses : q[1]..q[2] \subseteq verses /\ q[1] <= q[2]
                                    /\ q[1] - 1 \notin verses /\ q[2] + 1 \notin verses}}

\* The result names for each passage the longest runs of the verses mentioned, or
\* the chapter if none were; it keeps what it cannot parse.
IsMostSpecific(references) ==
  LET result == ToSet(normalizeScriptures(references))
      Wanted(passage) == LET verses == Verses(references, passage)
                         IN  IF verses = {} THEN {<< >>} ELSE {<<run>> : run \in MaximalRuns(verses)}
  IN  /\ {r \in result : ~r.parsed} = {r \in ToSet(references) : ~r.parsed}
      /\ \A passage \in {r.passage : r \in {x \in result \cup ToSet(references) : x.parsed}} :
           {r.ranges : r \in {x \in result : x.parsed /\ x.passage = passage}} = Wanted(passage)

\* The result is in the order in which its verses were first mentioned; the run
\* mentioned first of a passage takes the place of a mention of the chapter.
IsInOrder(references) ==
  LET result   == normalizeScriptures(references)
      Own(r)   == Earliest(OwnPlaces(references, r))
      Leads(r) == \A x \in ToSet(result) : SamePassage(x, r) => x = r \/ Before(Own(r), Own(x))
      Rank(r)  == IF Leads(r) THEN Earliest(Places(references, r)) ELSE Own(r)
  IN  \A i, j \in DOMAIN result : i < j => Before(Rank(result[i]), Rank(result[j]))

=============================================================================
