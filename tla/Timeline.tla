------------------------------ MODULE Timeline ------------------------------
(***************************************************************************)
(* The timeline of a recording: the draft of breakpoints and sections that *)
(* SpeakerDraft derives from a transcription and the editor changes, the   *)
(* cuts a render takes from it, and the transcript of what was kept.       *)
(*                                                                         *)
(* Times are whole numbers instead of seconds: the code compares and       *)
(* subtracts them, and takes the middle of two.  Revisions, requests and   *)
(* answers are left to EditDraft, jobs to Pipeline, and the identifiers of *)
(* breakpoints and sections are left out.  Words and segments stand at     *)
(* their place in the source instead of with their text.                   *)
(***************************************************************************)
EXTENDS Ordered, SequencesExt, FiniteSetsExt

CONSTANTS
  Duration,       \* of the recording
  MinGap,         \* between breakpoints, 0.05 s
  LongPause,      \* a longer silence is marked, 3 s
  PhraseGap,      \* a longer pause ends a phrase, 2 s
  Transcripts,    \* what transcriptions of the recording may yield
  Upgrades,       \* drafts earlier versions may have left
  MaxEdits        \* bound on changes by hand

VARIABLES
  source,   \* source_transcriptions: the newest transcription of the recording
  draft,    \* the draft of the editor
  edits     \* what of the bound has been used

vars == <<source, draft, edits>>

-----------------------------------------------------------------------------
(* Transcripts and drafts *)

Times == 0..Duration
Never == -1

\* A speaker is 0 when diarization named none; said tells that the text is not
\* blank.
Passages    == [start : Nat, end : Nat, speaker : Nat, said : BOOLEAN]
Transcriptions == [words : Seq(Passages), segments : Seq(Passages)]

\* The middle is compared doubled, to stay a whole number.
Middle(passage) == passage.start + passage.end
MiddleIn(passage, from, to) == 2 * from <= Middle(passage) /\ Middle(passage) < 2 * to

Kinds == {"start", "end", "speaker", "silence_start", "manual", "silence_end"}

\* source is the generated time a breakpoint began with, Never if it has none; what
\* a transcription hears beyond the end may be recalled as one.
Breakpoints == [time : Times, kind : Kinds, edited : BOOLEAN, source : Nat \cup {Never}]
Drafts  == [breakpoints : Seq(Breakpoints), keep : Seq(BOOLEAN)]
NoDraft == [breakpoints |-> << >>, keep |-> << >>]

Mark(time, kind, edited, origin) ==
  [time |-> time, kind |-> kind, edited |-> edited, source |-> origin]
Beginning == Mark(0, "start", FALSE, Never)
Ending    == Mark(Duration, "end", FALSE, Never)

Interior(d)   == 2..(Len(d.breakpoints) - 1)
At(d, i)      == d.breakpoints[i].time
SectionsOf(d) == DOMAIN d.keep

ASSUME TimesAssumption ==
  /\ MinGap \in Nat \ {0} /\ LongPause \in Nat /\ PhraseGap \in Nat
  /\ MinGap <= LongPause
  /\ Duration \in Nat /\ MinGap <= Duration
ASSUME BoundAssumption == MaxEdits \in Nat
\* Transcriptions list words in the order they are spoken.
ASSUME TranscriptsAssumption ==
  \A t \in Transcripts :
    /\ t \in Transcriptions
    /\ \A i, j \in DOMAIN t.words : i < j => Middle(t.words[i]) <= Middle(t.words[j])

\* Editing.Validate, which every save passes through.
Validate(d) ==
  /\ Len(d.breakpoints) >= 2 /\ Len(d.keep) = Len(d.breakpoints) - 1
  /\ d.breakpoints[1].kind = "start" /\ At(d, 1) = 0
  /\ Last(d.breakpoints).kind = "end" /\ Last(d.breakpoints).time = Duration
  /\ \A i \in Interior(d) : d.breakpoints[i].kind \notin {"start", "end"}
  /\ \A i \in SectionsOf(d) : At(d, i + 1) - At(d, i) >= MinGap

\* Every version validated the drafts it stored.
ASSUME UpgradesAssumption == Upgrades \subseteq Drafts /\ \A d \in Upgrades : Validate(d)

-----------------------------------------------------------------------------
(* SpeakerDraft *)

Distance(a, b) == IF a < b THEN b - a ELSE a - b

Starts(t) == {s.start : s \in {x \in Range(t.segments) : x.speaker # 0}}

\* The segments whose times make sense, and the one that is spoken next: of two
\* that start together the one listed later.
Speaking(t) ==
  {i \in DOMAIN t.segments : LET s == t.segments[i]
                              IN  s.speaker # 0 /\ s.start < s.end /\ s.end <= Duration}
Sooner(t, i, j) ==
  \/ t.segments[i].start < t.segments[j].start
  \/ t.segments[i].start = t.segments[j].start /\ i < j
IsNext(t, i, j) ==
  Sooner(t, i, j) /\ ~\E k \in Speaking(t) : Sooner(t, i, k) /\ Sooner(t, k, j)

PauseBetweenStarts(t, i, j) == t.segments[j].start - t.segments[i].start > LongPause \* mutant
PauseBetween(t, i, j) == t.segments[j].start - t.segments[i].end > LongPause

Pauses(t) ==
  {t.segments[i].end : i \in {k \in Speaking(t) :
     \E j \in Speaking(t) : IsNext(t, k, j) /\ PauseBetween(t, k, j)}}

\* The order in which breakpoints are tried, and listed.
Precedes(a, b) ==
  a.time < b.time \/ (a.time = b.time /\ a.kind = "speaker" /\ b.kind # "speaker")

\* The breakpoints the transcription suggests.
Candidates(t) == {Mark(time, "speaker", FALSE, time) : time \in Starts(t)}
                   \cup {Mark(time, "silence_start", FALSE, time) : time \in Pauses(t)}

\* Drafts of the first version recorded neither edits nor generated times: a
\* speaker boundary counts as moved from the closest start.
Recalled(b, t) ==
  IF b.kind = "speaker" /\ b.source = Never /\ Starts(t) # {}
  THEN LET nearest == CHOOSE s \in Starts(t) : \A other \in Starts(t) :
                        \/ Distance(s, b.time) < Distance(other, b.time)
                        \/ Distance(s, b.time) = Distance(other, b.time) /\ s <= other
       IN  [b EXCEPT !.source = nearest, !.edited = @ \/ nearest # b.time]
  ELSE b

Preserved(d, t) ==
  {b \in {Recalled(d.breakpoints[i], t) : i \in Interior(d)} : b.edited \/ b.kind = "manual"}

FitsUnbounded(c, marks) ==                                         \* mutant
  \A b \in marks : Distance(c.time, b.time) >= MinGap /\ b.source # c.time
FitsAnywhere(c, marks) == 0 < c.time /\ c.time < Duration          \* mutant
Fits(c, marks) ==
  /\ c.time >= MinGap /\ Duration - c.time >= MinGap
  /\ \A b \in marks : Distance(c.time, b.time) >= MinGap /\ b.source # c.time

Marks(d, t, preserveEdited) ==
  FoldLeft(LAMBDA marks, c : IF Fits(c, marks) THEN marks \cup {c} ELSE marks,
           {Beginning, Ending} \cup (IF preserveEdited THEN Preserved(d, t) ELSE {}),
           InOrder(Candidates(t), Precedes))

HasTranscript(t, from, to) ==
  \E p \in Range(IF t.words # << >> THEN t.words ELSE t.segments) :
    MiddleIn(p, from, to) /\ p.said

\* Only sections with exactly the old ends inherit a decision.
InheritedByEnds(d, from, to, silent) ==                            \* mutant
  \E j \in SectionsOf(d) : d.keep[j] /\ At(d, j) = from /\ At(d, j + 1) = to

InheritedFromNeighbours(d, from, to, silent) ==                    \* mutant
  \E j \in SectionsOf(d) :
    /\ d.keep[j]
    /\ \/ At(d, j) = from /\ At(d, j + 1) = to
       \/ ~silent /\ to >= At(d, j) /\ from <= At(d, j + 1)

\* What was decided for the old sections that the new one meets.  Silence is
\* deleted unless the very same section was kept.
Inherited(d, from, to, silent) ==
  \E j \in SectionsOf(d) :
    /\ d.keep[j]
    /\ \/ At(d, j) = from /\ At(d, j + 1) = to
       \/ ~silent /\ to > At(d, j) /\ from < At(d, j + 1)

SpeakerDraft(d, t, preserveEdited) ==
  LET marks == InOrder(Marks(d, t, preserveEdited), Precedes)
      Kept(i) == LET from   == marks[i].time
                     to     == marks[i + 1].time
                     silent == marks[i].kind = "silence_start"
                 IN  IF preserveEdited THEN Inherited(d, from, to, silent)
                                       ELSE ~silent /\ HasTranscript(t, from, to)
  IN  [breakpoints |-> marks, keep |-> [i \in 1..(Len(marks) - 1) |-> Kept(i)]]

-----------------------------------------------------------------------------
(* keptRanges and MapTranscript *)

\* Kept sections next to each other are one range.
Extended(ranges, start, end) ==
  IF ranges # << >> /\ Last(ranges).end = start
  THEN [ranges EXCEPT ![Len(ranges)].end = end]
  ELSE Append(ranges, [start |-> start, end |-> end])

KeptRanges(d) ==
  FoldLeft(LAMBDA ranges, i : IF d.keep[i] THEN Extended(ranges, At(d, i), At(d, i + 1)) ELSE ranges,
           << >>, [i \in SectionsOf(d) |-> i])

Later(a, b)   == IF a < b THEN b ELSE a
Earlier(a, b) == IF a < b THEN a ELSE b

UnclippedInto(p, r, offset) ==                                     \* mutant
  [p EXCEPT !.start = offset + @ - r.start, !.end = offset + @ - r.start]
\* A passage of the source as it is heard in a range that plays from offset on.
Into(p, r, offset) ==
  [p EXCEPT !.start = offset + Later(@, r.start) - r.start,
            !.end   = offset + Earlier(@, r.end) - r.start]

Length(ranges) == FoldLeft(LAMBDA sum, r : sum + r.end - r.start, 0, ranges)

\* Where a range begins in the audio that plays.
Offset(ranges, k) == Length(SubSeq(ranges, 1, k - 1))

\* The passages whose middle is kept, with the range it is in: <<range, passage>>.
Hearings(passages, ranges) ==
  {h \in (DOMAIN ranges) \X (DOMAIN passages) :
     MiddleIn(passages[h[2]], ranges[h[1]].start, ranges[h[1]].end)}
ByRange(g, h) == g[1] < h[1] \/ (g[1] = h[1] /\ g[2] < h[2])

\* They are mapped range by range: which passage, in which range, and when.
Mapped(passages, ranges) ==
  LET hearings == InOrder(Hearings(passages, ranges), ByRange)
      Heard(k, i) == Into(passages[i], ranges[k], Offset(ranges, k))
  IN  [n \in DOMAIN hearings |->
         [of |-> hearings[n][2], range |-> hearings[n][1],
          heard |-> Heard(hearings[n][1], hearings[n][2])]]

\* The segment a word is spoken in: the first that has not ended, or the last.
SegmentOf(word, t) ==
  LET open == {j \in DOMAIN t.segments : Middle(word) < 2 * t.segments[j].end}
  IN  IF open # {} THEN Min(open) ELSE Len(t.segments)

BreaksBySpeech(t, words, n) ==                                     \* mutant
  LET w == words[n] before == words[n - 1]
  IN  \/ SegmentOf(t.words[w.of], t) # SegmentOf(t.words[before.of], t)
      \/ w.heard.speaker # before.heard.speaker
      \/ w.heard.start - before.heard.end > PhraseGap
\* Where a new phrase begins among the mapped words: never is one joined across
\* a deleted range.
Breaks(t, words, n) ==
  \/ words[n].range # words[n - 1].range
  \/ LET w == words[n] before == words[n - 1]
     IN  \/ SegmentOf(t.words[w.of], t) # SegmentOf(t.words[before.of], t)
         \/ w.heard.speaker # before.heard.speaker
         \/ w.heard.start - before.heard.end > PhraseGap

\* The derived transcript.  A phrase is the pair of its first and last word.
MapTranscript(t, ranges) ==
  LET words == Mapped(t.words, ranges)
      first == {n \in DOMAIN words : n = 1 \/ Breaks(t, words, n)}
      LastFrom(n) == Min({m \in DOMAIN words : m >= n /\ m + 1 \in first} \cup {Len(words)})
  IN  [words    |-> words,
       segments |-> IF t.words = << >> THEN Mapped(t.segments, ranges) ELSE << >>,
       phrases  |-> {<<n, LastFrom(n)>> : n \in first},
       duration |-> Length(ranges)]

-----------------------------------------------------------------------------
(* The handlers and the editor *)

Init ==
  /\ source \in Transcripts
  /\ draft \in {NoDraft} \cup Upgrades
  /\ edits = 0

\* SaveSourceTranscription: transcribing again leaves the draft as it is.
SaveSourceTranscription ==
  /\ source' \in Transcripts
  /\ UNCHANGED <<draft, edits>>

\* The prepare_edit job, once for a sermon.
Prepare ==
  /\ draft = NoDraft
  /\ draft' = SpeakerDraft([breakpoints |-> <<Beginning, Ending>>, keep |-> <<TRUE>>], source, FALSE)
  /\ UNCHANGED <<source, edits>>

Regenerate(preserveEdited) ==
  /\ draft # NoDraft
  /\ draft' = SpeakerDraft(draft, source, preserveEdited)
  /\ UNCHANGED <<source, edits>>

\* A change of the editor, saved.
Change(d) ==
  /\ draft # NoDraft /\ edits < MaxEdits
  /\ draft' = d
  /\ edits' = edits + 1
  /\ UNCHANGED source

Keep(i) == Change([draft EXCEPT !.keep[i] = ~@])

\* Nudge moves a breakpoint between its neighbours.
Nudge(i, time) ==
  /\ At(draft, i - 1) + MinGap <= time /\ time <= At(draft, i + 1) - MinGap
  /\ Change([draft EXCEPT !.breakpoints[i].time = time,
                          !.breakpoints[i].edited = @ \/ time # At(draft, i)])

AddBoundary(i, time) ==
  /\ time - At(draft, i) >= MinGap /\ At(draft, i + 1) - time >= MinGap
  /\ Change([breakpoints |-> InsertAt(draft.breakpoints, i + 1, Mark(time, "manual", TRUE, Never)),
             keep |-> InsertAt(draft.keep, i + 1, draft.keep[i])])

RemoveBoundary(i) ==
  Change([breakpoints |-> RemoveAt(draft.breakpoints, i),
          keep |-> RemoveAt([draft.keep EXCEPT ![i - 1] = @ \/ draft.keep[i]], i)])

DeleteBefore(i) ==
  Change([breakpoints |-> <<Head(draft.breakpoints)>>
                            \o SubSeq(draft.breakpoints, i, Len(draft.breakpoints)),
          keep |-> <<FALSE>> \o SubSeq(draft.keep, i, Len(draft.keep))])

DeleteAfter(i) ==
  Change([breakpoints |-> Append(SubSeq(draft.breakpoints, 1, i), Last(draft.breakpoints)),
          keep |-> Append(SubSeq(draft.keep, 1, i - 1), FALSE)])

Edit == \/ \E i \in SectionsOf(draft) : Keep(i) \/ \E time \in Times : AddBoundary(i, time)
        \/ \E i \in Interior(draft) : \/ \E time \in Times : Nudge(i, time)
                                      \/ RemoveBoundary(i)
                                      \/ DeleteBefore(i) \/ DeleteAfter(i)

Next == \/ SaveSourceTranscription \/ Prepare \/ Edit
        \/ \E preserveEdited \in BOOLEAN : Regenerate(preserveEdited)

Spec == Init /\ [][Next]_vars

-----------------------------------------------------------------------------
(* Properties *)

\* Types of all variables (store.Editing, store.TranscriptionMetadata).
TypeOK ==
  /\ source \in Transcripts
  /\ draft \in Drafts
  /\ edits \in 0..MaxEdits

\* Validate (store/editing.go:55) refuses nothing that the program makes itself:
\* every draft the editor saves passes, and so does what SpeakerDraft derives
\* from it and any transcription, in either mode.
DraftsAreAccepted ==
  draft # NoDraft =>
    /\ Validate(draft)
    /\ \A preserveEdited \in BOOLEAN : Validate(SpeakerDraft(draft, source, preserveEdited))

UnitsKept(d) == UNION {At(d, i)..(At(d, i + 1) - 1) : i \in {j \in SectionsOf(d) : d.keep[j]}}
UnitsAfterSilence(d) ==
  UNION {At(d, i)..(At(d, i + 1) - 1) :
           i \in {j \in SectionsOf(d) : d.breakpoints[j].kind = "silence_start"}}

\* "Only unedited breakpoints" (Editing.elm:820, the comments in SpeakerDraft):
\* whatever the newer transcription says, a regeneration that preserves edits
\* leaves each edited breakpoint where it is and cuts no audio that was kept,
\* other than silence.
DecisionsSurvive ==
  draft # NoDraft =>
    LET new == SpeakerDraft(draft, source, TRUE)
    IN  /\ \A i \in Interior(draft) :
             draft.breakpoints[i].edited =>
               \E b \in Range(new.breakpoints) :
                 b.edited /\ b.time = At(draft, i) /\ b.kind = draft.breakpoints[i].kind
        /\ UnitsKept(draft) \ UnitsAfterSilence(new) \subseteq UnitsKept(new)

\* Regenerating with edits preserved is done when it was done once: repeating it
\* against the same transcription, as a second click or window does, changes
\* neither a breakpoint nor a decision.
RegeneratingSettles ==
  draft # NoDraft =>
    LET new == SpeakerDraft(draft, source, TRUE)
    IN  SpeakerDraft(new, source, TRUE) = new

\* A transcription that leaves no doubt about who speaks when.
Unambiguous(t) ==
  /\ \A s \in Range(t.segments) :
       s.speaker # 0 /\ s.start < s.end /\ s.end <= Duration /\ Duration - s.start >= MinGap
  /\ \A i, j \in DOMAIN t.segments : i < j => t.segments[i].end <= t.segments[j].start
  /\ \A w \in Range(t.words) : \E s \in Range(t.segments) : MiddleIn(w, s.start, s.end)

\* The comment on SpeakerDraft ("marks long pauses"): what a generated draft
\* deletes is silence and what was not transcribed, never speech.  Segments that
\* overlap or name no speaker can be taken for a pause, hence the condition.
GeneratedDraftKeepsSpeech ==
  draft # NoDraft /\ Unambiguous(source) =>
    LET new == SpeakerDraft(draft, source, FALSE)
    IN  \A w \in Range(source.words) :
          w.said => \E i \in SectionsOf(new) :
                      new.keep[i] /\ MiddleIn(w, At(new, i), At(new, i + 1))

\* The rendered audio as the units of the source it plays.
Rendered(ranges) ==
  FoldLeft(LAMBDA audio, r : audio \o [u \in 1..(r.end - r.start) |-> r.start + u - 1], << >>, ranges)
Heard(ranges, passage) == {Rendered(ranges)[u] : u \in (passage.start + 1)..passage.end}
Units(passage) == passage.start..(passage.end - 1)

MiddleKept(d, passage) ==
  \E j \in SectionsOf(d) : d.keep[j] /\ MiddleIn(passage, At(d, j), At(d, j + 1))

\* The transcript shown of an edit (scanSermon, MapTranscript) is that of the
\* audio the render plays: it lasts as long, has what is spoken mainly in the kept
\* audio, once each and never in another order than it is listed and spoken in,
\* at the time at which it is heard.
TranscriptFollowsTheAudio ==
  draft # NoDraft =>
    LET ranges == KeptRanges(draft)
        shown  == MapTranscript(source, ranges)
        texts  == IF source.words # << >> THEN source.words ELSE source.segments
        mapped == IF source.words # << >> THEN shown.words ELSE shown.segments
    IN  /\ Range(Rendered(ranges)) = UnitsKept(draft)
        /\ shown.duration = Cardinality(UnitsKept(draft))
        /\ \A i \in DOMAIN texts : MiddleKept(draft, texts[i]) <=>
                                    \E n \in DOMAIN mapped : mapped[n].of = i
        /\ \A m, n \in DOMAIN mapped :
             m < n => \/ mapped[m].of < mapped[n].of
                      \/ Middle(texts[mapped[m].of]) < Middle(texts[mapped[n].of])
        /\ \A n \in DOMAIN mapped :
             LET heard == mapped[n].heard
                 text  == texts[mapped[n].of]
             IN  text.start <= text.end =>
                   /\ 0 <= heard.start /\ heard.start <= heard.end /\ heard.end <= shown.duration
                   /\ Heard(ranges, heard) = Units(text) \cap Units(ranges[mapped[n].range])

\* The comment in MapTranscript (store/editing.go:239): no phrase of the shown
\* transcript joins words from both sides of a cut, and each word is in one.
PhrasesDoNotCrossCuts ==
  draft # NoDraft =>
    LET ranges  == KeptRanges(draft)
        shown   == MapTranscript(source, ranges)
        Span(p) == Heard(ranges, [start |-> shown.words[p[1]].heard.start,
                                  end   |-> shown.words[p[2]].heard.end])
    IN  /\ \A n \in DOMAIN shown.words :
             \E p \in shown.phrases : p[1] <= n /\ n <= p[2]
                                     /\ \A q \in shown.phrases \ {p} : n \notin q[1]..q[2]
        /\ \A p \in shown.phrases :
             \A a, b \in Span(p) : a..b \subseteq Span(p)

=============================================================================
