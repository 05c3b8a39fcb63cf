--------------------------- MODULE EditDraftProofs ---------------------------
(***************************************************************************)
(* Safety of edit drafts for any windows, contents and bounds: no revision *)
(* is overwritten unseen, windows are never mistaken about the server, and *)
(* what is rendered is what was shown.                                     *)
(*                                                                         *)
(* The argument is about knowledge.  Every draft that a window or a request*)
(* takes from the server is known: it is a revision of the history, and    *)
(* histories only grow (Knows).  A request carries the revision of the     *)
(* draft on which it was based, so when the server finds that revision to  *)
(* be its last one, its author had seen the last draft (CallOK).           *)
(***************************************************************************)
EXTENDS EditDraft, TLAPS

Version  == [content : Contents, base : Contents \cup {"none"}]
Versions == Seq(Version)

\* d is no draft at all, or what revision d.revision of the history vs says.
Knows(d, vs) ==
  d \in Drafts => d.revision \in DOMAIN vs /\ d.content = vs[d.revision].content

\* What is true of the model m of a window.
ModelOK(m, vs) ==
  /\ m \in Models
  /\ Knows(m.saved, vs)
  /\ m.draft = NoDraft <=> m.saved = NoDraft
  /\ m.draft # NoDraft => m.draft.revision = m.saved.revision
  /\ m.undo # << >> => m.draft # NoDraft

\* What is true of request c, when ed are the models of the windows.
CallOK(c, ed, vs) ==
  /\ c \in Calls
  /\ Knows(c.base, vs) /\ Knows(c.read, vs) /\ Knows(c.answer, vs)
  /\ c.kind # "load" =>
       /\ c.draft # NoDraft /\ c.base # NoDraft
       /\ c.draft.revision = c.base.revision
  /\ c.kind # "apply" => c.answer # Accepted
  /\ c.kind = "apply" => c.draft = c.base /\ c.draft.content \notin TooLong
  /\ c.read # NoDraft => c.read.revision >= c.draft.revision
  /\ c.generation <= ed[c.window].generation
  /\ c.kind # "load" /\ c.generation = ed[c.window].generation
       => ed[c.window].draft # NoDraft

\* The row is the last revision.
RowOK ==
  /\ row.revision = Len(versions)
  /\ Knows(row, versions)

IInv ==
  /\ TypeOK
  /\ RowOK
  /\ EveryRevisionBuildsOnTheLast
  /\ AppliedAsShown
  /\ \A w \in Windows : ModelOK(editor[w], versions)
  /\ \A c \in calls : CallOK(c, editor, versions)

-----------------------------------------------------------------------------
(* Drafts and knowledge *)

\* A value is a draft or NoDraft by its revision, and an error is neither.
LEMMA DraftFacts ==
  /\ \A d \in MaybeDraft : d # NoDraft <=> d \in Drafts
  /\ NoDraft \notin Drafts /\ Refused \notin Drafts
  /\ Accepted \notin Drafts /\ Unanswered \notin Drafts
  /\ Refused # Unanswered /\ Accepted # Unanswered /\ Accepted # Refused
BY DEF MaybeDraft, Drafts, NoDraft, Refused, Accepted, Unanswered

\* Knowledge is not lost when the history grows.
LEMMA KnowsLonger ==
  ASSUME NEW vs \in Versions, NEW v \in Version, NEW d, Knows(d, vs)
  PROVE  Knows(d, Append(vs, v))
BY DEF Knows, Versions

\* A revision that is written is the next one, known to everybody who reads it;
\* if its author had the last one before him, the history stays in order.
LEMMA WriteKeeps ==
  ASSUME TypeOK, RowOK, EveryRevisionBuildsOnTheLast,
         NEW content \in Contents, NEW base, base = row.content,
         Write(content, base)
  PROVE  /\ row' \in Drafts /\ Knows(row', versions')
         /\ versions' \in Versions
         /\ RowOK' /\ EveryRevisionBuildsOnTheLast'
         /\ \A d : Knows(d, versions) => Knows(d, versions')
         /\ row'.revision > row.revision
<1> DEFINE v == [content |-> content, base |-> base]
<1>1. base \in Contents \cup {"none"}
  BY DEF TypeOK, MaybeDraft, Drafts, NoDraft
<1>2. versions \in Versions /\ v \in Version
  BY <1>1 DEF TypeOK, Versions, Version
<1>3. versions' = Append(versions, v)
  BY DEF Write
<1> HIDE DEF v
<1>4. /\ versions' \in Versions
      /\ Len(versions') = Len(versions) + 1
      /\ \A r \in 1..Len(versions) : versions'[r] = versions[r]
      /\ versions'[Len(versions) + 1] = v
  BY <1>2, <1>3 DEF Versions
<1>5. row' = [revision |-> Len(versions) + 1, content |-> content]
  BY DEF Write, RowOK
<1>6. row' \in Drafts /\ Knows(row', versions')
  BY <1>2, <1>4, <1>5 DEF Drafts, Knows, Versions, v
<1>7. \A d : Knows(d, versions) => Knows(d, versions')
  BY <1>2, <1>3, KnowsLonger
<1>8. EveryRevisionBuildsOnTheLast'
  <2> SUFFICES ASSUME NEW r \in DOMAIN versions', r > 1
               PROVE  versions'[r].base = versions'[r - 1].content
    BY DEF EveryRevisionBuildsOnTheLast
  <2>0. r \in 1..(Len(versions) + 1) /\ Len(versions) \in Nat
    BY <1>2, <1>4 DEF Versions
  <2>1. CASE r <= Len(versions)
    BY <2>0, <2>1, <1>2, <1>4 DEF EveryRevisionBuildsOnTheLast, Versions
  <2>2. CASE r = Len(versions) + 1
    <3>1. row \in Drafts
      BY <2>0, <2>2, DraftFacts DEF TypeOK, RowOK, NoDraft
    <3>2. base = versions[Len(versions)].content
      BY <3>1 DEF RowOK, Knows
    <3> QED BY <3>2, <2>0, <2>2, <1>4 DEF v
  <2> QED BY <2>0, <2>1, <2>2
<1> QED BY <1>2, <1>4, <1>5, <1>6, <1>7, <1>8 DEF RowOK, Versions

-----------------------------------------------------------------------------
(* A window moves on: its model is replaced and at most one request sent *)

\* A window that moves on to a model in order, and sends at most one request of
\* it, keeps the invariant.
LEMMA ShowKeeps ==
  ASSUME IInv, NEW w \in Windows, NEW m, NEW kind \in Kinds, NEW rest \in SUBSET calls,
         ModelOK(m, versions),
         m.generation >= editor[w].generation,
         m.generation = editor[w].generation /\ editor[w].draft # NoDraft
           => m.draft # NoDraft,
         kind # "load" => m.draft # NoDraft,
         kind = "apply" => m.draft = m.saved /\ m.draft.content \notin TooLong,
         \/ Show(w, m, rest)
         \/ Send(w, m, kind, rest),
         UNCHANGED server,
         acts' \in 0..MaxActs, losses' = losses
  PROVE  IInv'
<1>1. /\ editor' = [editor EXCEPT ![w] = m]
      /\ calls' \subseteq calls \cup {Call(w, m, kind)}
  BY DEF Show, Send
<1>2. m \in Models /\ Knows(m.saved, versions)
  BY DEF ModelOK
<1>3. editor \in [Windows -> Models] /\ calls \subseteq Calls
  BY DEF IInv, TypeOK
<1>4. CallOK(Call(w, m, kind), editor', versions)
  <2> DEFINE c == Call(w, m, kind)
  <2> SUFFICES CallOK(c, editor', versions)
    OBVIOUS
  <2>1. /\ c.window = w /\ c.generation = m.generation /\ c.kind = kind
        /\ c.draft = m.draft /\ c.base = m.saved
        /\ c.read = NoDraft /\ c.answer = Unanswered
    BY DEF Call
  <2>2. c \in Calls
    BY <1>2 DEF Call, Calls, Models, MaybeDraft
  <2>3. /\ m.draft = NoDraft <=> m.saved = NoDraft
        /\ m.draft # NoDraft => m.draft.revision = m.saved.revision
    BY DEF ModelOK
  <2>4. Knows(NoDraft, versions) /\ Knows(Unanswered, versions)
    BY DraftFacts DEF Knows
  <2>5. editor'[w] = m
    BY <1>1, <1>3
  <2>6. m.generation \in Nat
    BY <1>2 DEF Models
  <2>7. Accepted # Unanswered
    BY DraftFacts
  <2> HIDE DEF c
  <2> QED BY <1>2, <2>1, <2>2, <2>3, <2>4, <2>5, <2>6, <2>7 DEF CallOK
<1>5. ASSUME NEW c \in calls
      PROVE  CallOK(c, editor', versions)
  <2>1. CallOK(c, editor, versions) /\ c \in Calls
    BY <1>3 DEF IInv
  <2>2. c.window \in Windows /\ c.generation \in Nat
    BY <2>1 DEF Calls
  <2>3. CASE c.window = w
    <3>1. editor'[c.window] = m
      BY <1>1, <1>3, <2>3
    <3>2. m.generation \in Nat /\ editor[w].generation \in Nat
      BY <1>2, <1>3 DEF Models
    <3> QED BY <2>1, <2>2, <2>3, <3>1, <3>2 DEF CallOK
  <2>4. CASE c.window # w
    <3>1. editor'[c.window] = editor[c.window]
      BY <1>1, <1>3, <2>2, <2>4
    <3> QED BY <2>1, <3>1 DEF CallOK
  <2> QED BY <2>3, <2>4
<1>6. \A c \in calls' : CallOK(c, editor', versions')
  BY <1>1, <1>4, <1>5 DEF server
<1>7. \A x \in Windows : ModelOK(editor'[x], versions')
  BY <1>1, <1>3 DEF IInv, server
<1>8. TypeOK'
  <2>1. editor' \in [Windows -> Models]
    BY <1>1, <1>2, <1>3
  <2>2. calls' \subseteq Calls
    BY <1>6 DEF CallOK
  <2> QED BY <2>1, <2>2 DEF IInv, TypeOK, server
<1> QED BY <1>6, <1>7, <1>8
  DEF IInv, RowOK, EveryRevisionBuildsOnTheLast, AppliedAsShown, server


-----------------------------------------------------------------------------
(* The server: windows stay as they are, and requests are answered *)

\* The server's part of the invariant.
ServerOK ==
  /\ row \in MaybeDraft /\ phase \in {"preparing", "rest", "busy"}
  /\ job \in Snapshots /\ applied \in Snapshots
  /\ versions \in Versions
  /\ acts \in 0..MaxActs /\ losses \in 0..MaxLosses /\ others \in 0..MaxJobs
  /\ RowOK /\ EveryRevisionBuildsOnTheLast /\ AppliedAsShown

\* What is true of a request stays true when the history grows.
LEMMA CallOKLonger ==
  ASSUME NEW c, NEW ed, NEW vs, NEW longer, CallOK(c, ed, vs),
         \A d : Knows(d, vs) => Knows(d, longer)
  PROVE  CallOK(c, ed, longer)
BY DEF CallOK

\* A request may be answered with an error or with what is known.
LEMMA AnswerOK ==
  ASSUME NEW c, NEW ed, NEW vs, CallOK(c, ed, vs),
         NEW a \in Drafts \cup {Unanswered, Refused, Accepted}, Knows(a, vs),
         a = Accepted => c.kind = "apply"
  PROVE  CallOK([c EXCEPT !.answer = a], ed, vs)
<1> DEFINE b == [c EXCEPT !.answer = a]
<1> SUFFICES CallOK(b, ed, vs)
  OBVIOUS
<1>1. c \in Calls
  BY DEF CallOK
<1>2. /\ b.window = c.window /\ b.generation = c.generation /\ b.kind = c.kind
      /\ b.draft = c.draft /\ b.base = c.base /\ b.read = c.read /\ b.answer = a
  BY <1>1 DEF Calls
<1>3. b \in Calls
  BY <1>1 DEF Calls
<1> HIDE DEF b
<1> QED BY <1>2, <1>3 DEF CallOK

\* A step of the server that loses no knowledge, and leaves requests in order,
\* keeps the invariant.
LEMMA ServerKeeps ==
  ASSUME IInv, ServerOK', editor' = editor,
         \A d : Knows(d, versions) => Knows(d, versions'),
         \A c \in calls' : c \in calls \/ CallOK(c, editor, versions')
  PROVE  IInv'
<1>1. \A c \in calls' : CallOK(c, editor, versions')
  BY CallOKLonger DEF IInv
<1>2. \A w \in Windows : ModelOK(editor[w], versions')
  BY DEF IInv, ModelOK
<1>3. calls' \subseteq Calls
  BY <1>1 DEF CallOK
<1>4. TypeOK'
  BY <1>3 DEF IInv, TypeOK, ServerOK, Versions, Version
<1> QED BY <1>1, <1>2, <1>4 DEF IInv, ServerOK

\* The server's part follows from the whole.
LEMMA ServerOKHolds == IInv => ServerOK
BY DEF IInv, TypeOK, ServerOK, Versions, Version

\* What the sermon goes through by itself.
LEMMA ServerStepKeeps == IInv /\ ServerStep => IInv'
<1> SUFFICES ASSUME IInv, ServerStep
             PROVE  IInv'
  OBVIOUS
<1>0. ServerOK
  BY ServerOKHolds
<1>1. CASE PrepareEditing
  <2>1. PICK content \in Contents : Write(content, row.content)
    BY <1>1 DEF PrepareEditing
  <2>2. /\ row' \in Drafts /\ versions' \in Versions
        /\ RowOK' /\ EveryRevisionBuildsOnTheLast'
        /\ \A d : Knows(d, versions) => Knows(d, versions')
    BY <2>1, WriteKeeps DEF IInv
  <2>3. ServerOK'
    BY <1>0, <1>1, <2>2, ActsAssumption
    DEF PrepareEditing, ServerOK, AppliedAsShown, MaybeDraft
  <2> QED BY <1>1, <2>2, <2>3, ServerKeeps DEF PrepareEditing
<1>2. CASE Prepared
  <2>1. ServerOK'
    BY <1>0, <1>2 DEF Prepared, ServerOK, AppliedAsShown, RowOK,
       EveryRevisionBuildsOnTheLast
  <2> QED BY <1>2, <2>1, ServerKeeps DEF Prepared
<1>3. CASE OtherProcessing
  <2>1. ServerOK'
    BY <1>0, <1>3, ActsAssumption
    DEF OtherProcessing, ServerOK, AppliedAsShown, RowOK, EveryRevisionBuildsOnTheLast
  <2> QED BY <1>3, <2>1, ServerKeeps DEF OtherProcessing
<1>4. CASE ProcessingEnds
  <2>1. NoSnapshot \in Snapshots /\ NoSnapshot.content = NoSnapshot.shown
        /\ NoSnapshot.content \notin TooLong
    BY ContentsAssumption DEF Snapshots, NoSnapshot
  <2>2. job' = NoSnapshot /\ applied' \in {applied, job}
    BY <1>4 DEF ProcessingEnds
  <2>3. AppliedAsShown'
    BY <1>0, <2>1, <2>2 DEF AppliedAsShown, ServerOK
  <2>4. ServerOK'
    BY <1>0, <1>4, <2>1, <2>2, <2>3
    DEF ProcessingEnds, ServerOK, RowOK, EveryRevisionBuildsOnTheLast
  <2> QED BY <1>4, <2>4, ServerKeeps DEF ProcessingEnds
<1> QED BY <1>1, <1>2, <1>3, <1>4 DEF ServerStep

\* The server finds the revision of a request to be its last one: then the draft
\* that the request is based on is the row.
LEMMA CurrentIsSeen ==
  ASSUME TypeOK, RowOK, NEW c, CallOK(c, editor, versions), c.kind # "load",
         Mutable(c.draft.revision)
  PROVE  /\ row \in Drafts /\ c.draft \in Drafts
         /\ c.base.content = row.content
         /\ c.read # NoDraft => c.read.content = row.content
<1>1. /\ c \in Calls /\ c.draft # NoDraft /\ c.base # NoDraft
      /\ Knows(c.base, versions) /\ Knows(c.read, versions)
      /\ c.draft.revision = c.base.revision
      /\ c.read # NoDraft => c.read.revision >= c.draft.revision
  BY DEF CallOK
<1>2. c.draft \in Drafts /\ c.base \in Drafts /\ (c.read # NoDraft => c.read \in Drafts)
  BY <1>1, DraftFacts DEF Calls
<1>3. row.revision = c.base.revision
  BY <1>1 DEF Mutable
<1>4. row \in Drafts
  BY <1>2, <1>3, DraftFacts DEF TypeOK, Drafts, NoDraft
<1>5. c.base.content = versions[row.revision].content
  BY <1>1, <1>2, <1>3 DEF Knows
<1>6. row.content = versions[row.revision].content
  BY <1>4 DEF RowOK, Knows
<1>7. ASSUME c.read # NoDraft
      PROVE  c.read.content = row.content
  <2>1. c.read.revision \in 1..Len(versions) /\ Len(versions) \in Nat
    BY <1>1, <1>2, <1>7 DEF Knows, TypeOK
  <2>2. c.read.revision = row.revision
    BY <1>1, <1>3, <1>7, <2>1 DEF RowOK
  <2> QED BY <1>1, <1>2, <1>6, <1>7, <2>2 DEF Knows
<1> QED BY <1>2, <1>4, <1>5, <1>6, <1>7

\* Answering a request with an error or with what is known keeps the invariant.
LEMMA AnswerKeeps ==
  ASSUME IInv, NEW call \in calls, NEW a \in Drafts \cup {Unanswered, Refused, Accepted},
         Answer(call, a), Knows(a, versions'), a = Accepted => call.kind = "apply",
         ServerOK', \A d : Knows(d, versions) => Knows(d, versions')
  PROVE  IInv'
<1>1. CallOK(call, editor, versions')
  BY CallOKLonger DEF IInv
<1>2. CallOK([call EXCEPT !.answer = a], editor, versions')
  BY <1>1, AnswerOK
<1> QED BY <1>2, ServerKeeps DEF Answer

\* What the handlers do with a request.
LEMMA HandleKeeps == ASSUME IInv, NEW call \in calls, Handle(call) PROVE IInv'
<1>0. /\ ServerOK /\ TypeOK /\ RowOK /\ EveryRevisionBuildsOnTheLast
      /\ CallOK(call, editor, versions)
  BY ServerOKHolds DEF IInv
<1>e. Knows(Refused, versions) /\ Knows(Accepted, versions)
  BY DraftFacts DEF Knows
<1>s. ASSUME UNCHANGED <<server, acts, losses>>
      PROVE  ServerOK' /\ \A d : Knows(d, versions) => Knows(d, versions')
  BY <1>0, <1>s DEF ServerOK, server, AppliedAsShown, RowOK, EveryRevisionBuildsOnTheLast
<1>w. ASSUME NEW content \in Contents, NEW base, base = row.content,
             Write(content, base), Answer(call, row'), call.kind # "load",
             UNCHANGED <<phase, job, applied, others>>
      PROVE  IInv'
  <2>1. /\ row' \in Drafts /\ Knows(row', versions') /\ versions' \in Versions
        /\ RowOK' /\ EveryRevisionBuildsOnTheLast'
        /\ \A d : Knows(d, versions) => Knows(d, versions')
    BY <1>0, <1>w, WriteKeeps
  <2>2. ServerOK'
    BY <1>0, <1>w, <2>1 DEF ServerOK, Answer, AppliedAsShown, MaybeDraft
  <2>3. row' # Accepted
    BY <2>1, DraftFacts
  <2> QED BY <1>w, <2>1, <2>2, <2>3, AnswerKeeps
<1>1. CASE HandleLoad(call)
  <2> DEFINE a == IF row = NoDraft THEN Refused ELSE row
  <2>1. a \in Drafts \cup {Refused} /\ Knows(a, versions) /\ a # Accepted
    BY <1>0, <1>e, DraftFacts DEF TypeOK, RowOK
  <2>2. Answer(call, a) /\ UNCHANGED <<server, acts, losses>>
    BY <1>1 DEF HandleLoad, Answer
  <2> HIDE DEF a
  <2> QED BY <1>s, <2>1, <2>2, AnswerKeeps DEF server
<1>2. CASE HandleSave(call)
  <2>1. call.draft.content \in Contents /\ call.base.content = row.content
    BY <1>0, <1>2, CurrentIsSeen DEF HandleSave, Drafts
  <2> QED BY <1>2, <1>w, <2>1 DEF HandleSave
<1>3. CASE HandleRegenerateRead(call)
  <2> DEFINE b == [call EXCEPT !.read = row]
  <2>1. call \in Calls /\ call.kind = "regenerate"
    BY <1>0, <1>3 DEF CallOK, HandleRegenerateRead
  <2>2. /\ b.window = call.window /\ b.generation = call.generation
        /\ b.kind = call.kind /\ b.draft = call.draft /\ b.base = call.base
        /\ b.read = row /\ b.answer = call.answer /\ b \in Calls
    BY <1>0, <2>1 DEF Calls, TypeOK
  <2>3. call.draft.revision <= row.revision
    <3>1. call.base \in Drafts /\ call.draft.revision = call.base.revision
      BY <1>0, <2>1, DraftFacts DEF CallOK, Calls
    <3>2. call.base.revision \in 1..Len(versions)
      BY <1>0, <3>1 DEF CallOK, Knows, TypeOK
    <3> QED BY <1>0, <3>1, <3>2 DEF RowOK
  <2>4. row.revision \in Nat /\ call.draft.revision \in Nat
    BY <1>0, <2>1 DEF TypeOK, MaybeDraft, Drafts, NoDraft, Calls
  <2> HIDE DEF b
  <2>5. CallOK(b, editor, versions)
    BY <1>0, <2>2, <2>3, <2>4 DEF CallOK, RowOK
  <2>6. calls' = (calls \ {call}) \cup {b} /\ UNCHANGED <<server, acts, losses, editor>>
    BY <1>3 DEF HandleRegenerateRead, b
  <2> QED BY <1>s, <2>5, <2>6, ServerKeeps DEF server
<1>4. CASE HandleRegenerate(call)
  <2>1. PICK content \in Contents : Write(content, call.read.content)
    BY <1>4 DEF HandleRegenerate
  <2>2. call.read.content = row.content
    BY <1>0, <1>4, CurrentIsSeen DEF HandleRegenerate
  <2> QED BY <1>4, <1>w, <2>1, <2>2 DEF HandleRegenerate
<1>5. CASE HandleApply(call)
  <2>1. /\ row \in Drafts /\ call.draft \in Drafts /\ call.draft = call.base
        /\ call.base.content = row.content /\ call.draft.content \notin TooLong
    BY <1>0, <1>5, CurrentIsSeen DEF HandleApply, CallOK
  <2>2. job' = [content |-> row.content, shown |-> call.draft.content]
    BY <1>5 DEF HandleApply
  <2>3. job' \in Snapshots /\ job'.content = job'.shown /\ job'.content \notin TooLong
    BY <2>1, <2>2 DEF Snapshots, Drafts
  <2>4. ServerOK' /\ \A d : Knows(d, versions) => Knows(d, versions')
    BY <1>0, <1>5, <2>3
    DEF HandleApply, Answer, ServerOK, AppliedAsShown, RowOK, EveryRevisionBuildsOnTheLast
  <2> QED BY <1>5, <1>e, <2>4, AnswerKeeps DEF HandleApply
<1>6. CASE HandleConflict(call)
  <2>1. Answer(call, Refused) /\ UNCHANGED <<server, acts, losses>>
    BY <1>6 DEF HandleConflict, Answer
  <2> QED BY <1>s, <1>e, <2>1, DraftFacts, AnswerKeeps DEF server
<1> QED BY <1>1, <1>2, <1>3, <1>4, <1>5, <1>6 DEF Handle

\* A lost request or answer tells the window nothing false.
LEMMA LoseKeeps == ASSUME IInv, NEW call \in calls, Lose(call) PROVE IInv'
<1>0. ServerOK /\ CallOK(call, editor, versions)
  BY ServerOKHolds DEF IInv
<1>1. CallOK([call EXCEPT !.answer = Refused], editor, versions)
  BY <1>0, DraftFacts, AnswerOK DEF Knows
<1>2. ServerOK'
  BY <1>0, ActsAssumption
  DEF Lose, ServerOK, server, AppliedAsShown, RowOK, EveryRevisionBuildsOnTheLast
<1> QED BY <1>1, <1>2, ServerKeeps DEF Lose, server

-----------------------------------------------------------------------------
(* The windows: users, timers and answers *)

\* m may come after the present model of w.
Follows(w, m) ==
  /\ ModelOK(m, versions)
  /\ m.generation >= editor[w].generation
  /\ m.generation = editor[w].generation /\ editor[w].draft # NoDraft
       => m.draft # NoDraft

\* A window acts: it changes nothing of the server.
WindowActs == UNCHANGED server /\ acts' \in 0..MaxActs /\ losses' = losses

\* Flags, timers and counters do not matter.
LEMMA SameDraft ==
  ASSUME NEW w \in Windows, NEW m, Follows(w, m), NEW n \in Models,
         n.draft = m.draft, n.saved = m.saved, n.undo = m.undo,
         n.generation = m.generation
  PROVE  Follows(w, n)
BY DEF Follows, ModelOK

\* The model that a window has may follow itself.
LEMMA FollowsItself ==
  ASSUME IInv, NEW w \in Windows
  PROVE  Follows(w, editor[w]) /\ editor[w] \in Models
<1>1. ModelOK(editor[w], versions)
  BY DEF IInv
<1>2. editor[w].generation \in Nat
  BY <1>1 DEF ModelOK, Models
<1> QED BY <1>1, <1>2 DEF Follows, ModelOK

\* A window may always start anew with the next generation.
LEMMA FreshFollows ==
  ASSUME IInv, NEW w \in Windows
  PROVE  Follows(w, Fresh(editor[w].generation + 1, editor[w].timers))
<1> DEFINE m == Fresh(editor[w].generation + 1, editor[w].timers)
<1> SUFFICES Follows(w, m)
  OBVIOUS
<1>1. editor[w] \in Models
  BY FollowsItself
<1>2. /\ m.draft = NoDraft /\ m.saved = NoDraft /\ m.undo = << >>
      /\ m.generation = editor[w].generation + 1
  BY DEF Fresh
<1>3. m \in Models
  BY <1>1 DEF Fresh, Models, MaybeDraft
<1>4. editor[w].generation \in Nat
  BY <1>1 DEF Models
<1> HIDE DEF m
<1> QED BY <1>2, <1>3, <1>4, DraftFacts DEF Follows, ModelOK, Knows

\* Showing a model that may follow keeps the invariant.
LEMMA ShowFollower ==
  ASSUME IInv, NEW w \in Windows, NEW m, Follows(w, m), WindowActs,
         NEW rest \in SUBSET calls, Show(w, m, rest)
  PROVE  IInv'
<1>1. "load" \in Kinds
  BY DEF Kinds
<1> QED BY <1>1, ShowKeeps DEF Follows, WindowActs

\* So does sending a request of it: an application only of what is saved.
LEMMA SendFollower ==
  ASSUME IInv, NEW w \in Windows, NEW m, Follows(w, m), WindowActs,
         NEW rest \in SUBSET calls, NEW kind \in Kinds, Send(w, m, kind, rest),
         kind # "load" => m.draft # NoDraft,
         kind = "apply" => m.draft = m.saved /\ m.draft.content \notin TooLong
  PROVE  IInv'
BY ShowKeeps DEF Follows, WindowActs

\* save of Editing.elm keeps the invariant, whether it sends or not.
LEMMA SaveKeeps ==
  ASSUME IInv, NEW w \in Windows, NEW m, Follows(w, m), WindowActs,
         NEW rest \in SUBSET calls, Save(w, m, rest)
  PROVE  IInv'
<1>1. CASE Show(w, m, rest)
  BY <1>1, ShowFollower
<1>2. CASE m.draft # NoDraft /\ Send(w, [m EXCEPT !.saving = TRUE], "save", rest)
  <2> DEFINE n == [m EXCEPT !.saving = TRUE]
  <2>1. m \in Models
    BY DEF Follows, ModelOK
  <2>2. /\ n \in Models /\ n.draft = m.draft /\ n.saved = m.saved
        /\ n.undo = m.undo /\ n.generation = m.generation
    BY <2>1 DEF Models
  <2>3. Send(w, n, "save", rest)
    BY <1>2
  <2> HIDE DEF n
  <2>4. Follows(w, n)
    BY <2>2, SameDraft
  <2> QED BY <1>2, <2>2, <2>3, <2>4, SendFollower DEF Kinds
<1> QED BY <1>1, <1>2 DEF Save

\* apply of Editing.elm keeps it when the draft is what is saved.
LEMMA ApplyKeeps ==
  ASSUME IInv, NEW w \in Windows, NEW m, Follows(w, m), WindowActs,
         NEW rest \in SUBSET calls, Apply(w, m, rest), m.draft = m.saved
  PROVE  IInv'
<1>1. m \in Models
  BY DEF Follows, ModelOK
<1>2. CASE Show(w, m, rest)
  BY <1>2, ShowFollower
<1>3. CASE Show(w, [m EXCEPT !.pendingApply = FALSE], rest)
  <2> DEFINE n == [m EXCEPT !.pendingApply = FALSE]
  <2>1. /\ n \in Models /\ n.draft = m.draft /\ n.saved = m.saved
        /\ n.undo = m.undo /\ n.generation = m.generation
    BY <1>1 DEF Models
  <2>2. Show(w, n, rest)
    BY <1>3
  <2> HIDE DEF n
  <2> QED BY <2>1, <2>2, SameDraft, ShowFollower
<1>4. ASSUME m.draft # NoDraft, m.draft.content \notin TooLong,
             Send(w, [m EXCEPT !.applying = TRUE, !.pendingApply = FALSE,
                               !.error = FALSE], "apply", rest)
      PROVE  IInv'
  <2> DEFINE n == [m EXCEPT !.applying = TRUE, !.pendingApply = FALSE, !.error = FALSE]
  <2>1. /\ n \in Models /\ n.draft = m.draft /\ n.saved = m.saved
        /\ n.undo = m.undo /\ n.generation = m.generation
    BY <1>1 DEF Models
  <2>2. Send(w, n, "apply", rest)
    BY <1>4
  <2> HIDE DEF n
  <2>3. Follows(w, n)
    BY <2>1, SameDraft
  <2> QED BY <1>4, <2>1, <2>2, <2>3, SendFollower DEF Kinds
<1> QED BY <1>2, <1>3, <1>4 DEF Apply

\* A changed draft keeps the revision on which it is based.
LEMMA ChangedFollows ==
  ASSUME IInv, NEW w \in Windows, editor[w].draft # NoDraft,
         NEW d \in Drafts, d.revision = editor[w].draft.revision,
         NEW undo \in Seq(Drafts)
  PROVE  Follows(w, Changed(editor[w], d, undo))
<1> DEFINE n == Changed(editor[w], d, undo)
<1> SUFFICES Follows(w, n)
  OBVIOUS
<1>1. editor[w] \in Models /\ Follows(w, editor[w])
  BY FollowsItself
<1>2. /\ n.draft = d /\ n.saved = editor[w].saved
      /\ n.undo = undo /\ n.generation = editor[w].generation
  BY <1>1 DEF Changed, Models
<1>3. n \in Models
  <2> DEFINE m == editor[w]
  <2>1. m.sequence + 1 \in Nat /\ m.timers \cup {m.sequence + 1} \in SUBSET Nat
    BY <1>1 DEF Models
  <2>2. d \in MaybeDraft
    BY DEF MaybeDraft
  <2>3. n = [m EXCEPT !.draft = d, !.undo = undo, !.sequence = m.sequence + 1,
                      !.timers = m.timers \cup {m.sequence + 1}, !.error = FALSE]
    BY <1>1 DEF Changed, Models
  <2> HIDE DEF n
  <2> QED BY <1>1, <2>1, <2>2, <2>3 DEF Models
<1> HIDE DEF n
<1> QED BY <1>1, <1>2, <1>3, DraftFacts DEF Follows, ModelOK

\* A step of a user changes nothing of the server.
LEMMA ActIsWindowActs == IInv /\ Act => WindowActs
BY ActsAssumption DEF IInv, TypeOK, Act, WindowActs

\* Nor does a timer or an answer.
LEMMA NoActIsWindowActs == IInv /\ UNCHANGED <<server, acts, losses>> => WindowActs
BY DEF IInv, TypeOK, WindowActs

\* What users do in a window.
LEMMA UserStepKeeps == ASSUME IInv, NEW w \in Windows, UserStep(w) PROVE IInv'
<1> DEFINE m == editor[w]
<1>0. /\ m \in Models /\ Follows(w, m) /\ ModelOK(m, versions)
      /\ (m.draft # NoDraft => m.draft \in Drafts)
  <2>1. m \in Models /\ Follows(w, m)
    BY FollowsItself
  <2> QED BY <2>1, DraftFacts DEF Follows, Models
<1>a. calls \in SUBSET calls /\ (Act => WindowActs)
  BY ActIsWindowActs
<1>1. ASSUME Open(w) \/ Reload(w)
      PROVE  IInv'
  BY <1>1, <1>a, FreshFollows, SendFollower DEF Open, Reload, Kinds
<1>2. CASE OpenAnother(w)
  BY <1>2, <1>a, FreshFollows, ShowFollower DEF OpenAnother
<1>3. ASSUME NEW content \in Contents, Change(w, content)
      PROVE  IInv'
  <2> DEFINE d == [m.draft EXCEPT !.content = content]
             undo == <<m.draft>> \o m.undo
  <2>1. m.draft # NoDraft /\ m.draft \in Drafts /\ m.undo \in Seq(Drafts)
    BY <1>0, <1>3 DEF Change, Models
  <2>2. d \in Drafts /\ d.revision = m.draft.revision
    BY <2>1 DEF Drafts
  <2>3. undo \in Seq(Drafts)
    BY <2>1
  <2>4. Act /\ Show(w, Changed(m, d, undo), calls)
    BY <1>3 DEF Change
  <2> HIDE DEF d, undo
  <2> QED BY <1>a, <2>1, <2>2, <2>3, <2>4, ChangedFollows, ShowFollower
<1>4. CASE Undo(w)
  <2> DEFINE d == [Head(m.undo) EXCEPT !.revision = m.draft.revision]
             undo == Tail(m.undo)
  <2>1. m.draft # NoDraft /\ m.draft \in Drafts /\ m.undo \in Seq(Drafts) /\ m.undo # << >>
    BY <1>0, <1>4 DEF Undo, Models, ModelOK
  <2>2. Head(m.undo) \in Drafts /\ undo \in Seq(Drafts)
    BY <2>1
  <2>3. d \in Drafts /\ d.revision = m.draft.revision
    BY <2>1, <2>2 DEF Drafts
  <2>4. Act /\ Show(w, Changed(m, d, undo), calls)
    BY <1>4 DEF Undo, Undone
  <2> HIDE DEF d, undo
  <2> QED BY <1>a, <2>1, <2>2, <2>3, <2>4, ChangedFollows, ShowFollower
<1>5. CASE RetrySave(w)
  <2> DEFINE n == [m EXCEPT !.error = FALSE]
  <2>1. /\ n \in Models /\ n.draft = m.draft /\ n.saved = m.saved
        /\ n.undo = m.undo /\ n.generation = m.generation
    BY <1>0 DEF Models
  <2>2. Act /\ Save(w, n, calls)
    BY <1>5 DEF RetrySave
  <2> HIDE DEF n
  <2> QED BY <1>0, <1>a, <2>1, <2>2, SameDraft, SaveKeeps
<1>6. CASE ApplyRecording(w)
  <2> DEFINE n == [m EXCEPT !.pendingApply = TRUE]
  <2>1. /\ n \in Models /\ n.draft = m.draft /\ n.saved = m.saved
        /\ n.undo = m.undo /\ n.generation = m.generation
    BY <1>0 DEF Models
  <2>2. /\ Act
        /\ Save(w, n, calls) \/ (m.draft = m.saved /\ Apply(w, m, calls))
    BY <1>6 DEF ApplyRecording, MustSaveFirst, Dirty
  <2> HIDE DEF n
  <2> QED BY <1>0, <1>a, <2>1, <2>2, SameDraft, SaveKeeps, ApplyKeeps
<1>7. CASE ConfirmRegenerate(w)
  <2> DEFINE n == [m EXCEPT !.regenerating = TRUE, !.error = FALSE]
  <2>1. /\ n \in Models /\ n.draft = m.draft /\ n.saved = m.saved
        /\ n.undo = m.undo /\ n.generation = m.generation
    BY <1>0 DEF Models
  <2>2. Act /\ m.draft # NoDraft /\ Send(w, n, "regenerate", calls)
    BY <1>7 DEF ConfirmRegenerate
  <2> HIDE DEF n
  <2>3. Follows(w, n)
    BY <1>0, <2>1, SameDraft
  <2> QED BY <1>a, <2>1, <2>2, <2>3, SendFollower DEF Kinds
<1> QED BY <1>1, <1>2, <1>3, <1>4, <1>5, <1>6, <1>7 DEF UserStep

\* What the timer of a change does.
LEMMA SaveLaterKeeps == ASSUME IInv, NEW w \in Windows, SaveLater(w) PROVE IInv'
<1>1. PICK sequence \in editor[w].timers :
        LET m == [editor[w] EXCEPT !.timers = @ \ {sequence}]
        IN  /\ IF sequence = m.sequence THEN Save(w, m, calls) ELSE Show(w, m, calls)
            /\ UNCHANGED <<server, acts, losses>>
  BY DEF SaveLater
<1> DEFINE n == [editor[w] EXCEPT !.timers = @ \ {sequence}]
<1>2. editor[w] \in Models /\ Follows(w, editor[w])
  BY FollowsItself
<1>3. /\ n \in Models /\ n.draft = editor[w].draft /\ n.saved = editor[w].saved
      /\ n.undo = editor[w].undo /\ n.generation = editor[w].generation
  BY <1>2 DEF Models
<1>4. (Save(w, n, calls) \/ Show(w, n, calls)) /\ UNCHANGED <<server, acts, losses>>
  BY <1>1
<1> HIDE DEF n
<1> QED BY <1>2, <1>3, <1>4, SameDraft, NoActIsWindowActs, SaveKeeps, ShowFollower

\* A window that takes a draft d from the server knows it.
LEMMA TakenFollows ==
  ASSUME IInv, NEW w \in Windows, NEW n \in Models,
         n.generation = editor[w].generation,
         n.saved \in Drafts, Knows(n.saved, versions),
         n.draft \in Drafts, n.draft.revision = n.saved.revision
  PROVE  Follows(w, n)
<1>1. editor[w].generation \in Nat
  BY FollowsItself DEF Models
<1> QED BY <1>1, DraftFacts DEF Follows, ModelOK

\* What a window does with the answer of a request.
LEMMA AnswersKeep == ASSUME IInv, NEW w \in Windows, Answers(w) PROVE IInv'
<1>0. PICK call \in calls :
        Loaded(w, call) \/ Saved(w, call) \/ Regenerated(w, call) \/ Applied(w, call)
          \/ Outdated(w, call)
  BY DEF Answers
<1> DEFINE m == editor[w]
           rest == calls \ {call}
           a == call.answer
<1>1. m \in Models /\ Follows(w, m) /\ rest \in SUBSET calls
  BY FollowsItself
<1>2. WindowActs /\ call.window = w /\ a # Unanswered
  BY <1>0, NoActIsWindowActs
  DEF Loaded, Saved, Regenerated, Applied, Outdated, Receive
<1>3. /\ call \in Calls /\ Knows(a, versions)
      /\ call.kind # "apply" => a # Accepted
      /\ call.kind # "load" /\ call.generation = m.generation => m.draft # NoDraft
  BY <1>2 DEF IInv, CallOK
<1>4. call.kind # "apply" /\ a # Refused => a \in Drafts
  BY <1>2, <1>3 DEF Calls
<1>5. CASE Loaded(w, call)
  <2> DEFINE n == [m EXCEPT !.draft = a, !.saved = a, !.error = FALSE]
             e == [m EXCEPT !.error = TRUE, !.pendingApply = FALSE]
  <2>1. CASE a = Refused
    <3>1. /\ e \in Models /\ e.draft = m.draft /\ e.saved = m.saved
          /\ e.undo = m.undo /\ e.generation = m.generation
      BY <1>1 DEF Models
    <3>2. Show(w, e, rest)
      BY <1>5, <2>1 DEF Loaded
    <3> HIDE DEF e
    <3> QED BY <1>1, <1>2, <3>1, <3>2, SameDraft, ShowFollower
  <2>2. CASE a # Refused
    <3>1. a \in Drafts
      BY <1>4, <1>5, <2>2 DEF Loaded
    <3>2. /\ n \in Models /\ n.draft = a /\ n.saved = a
          /\ n.generation = m.generation
      BY <1>1, <3>1 DEF Models, MaybeDraft
    <3>3. Apply(w, n, rest) \/ Show(w, n, rest)
      BY <1>5, <2>2 DEF Loaded
    <3> HIDE DEF n
    <3>4. Follows(w, n)
      BY <1>3, <3>1, <3>2, TakenFollows
    <3> QED BY <1>1, <1>2, <3>2, <3>3, <3>4, ShowFollower, ApplyKeeps
  <2> QED BY <2>1, <2>2
<1>6. CASE Saved(w, call)
  <2> DEFINE n == [m EXCEPT !.saving = FALSE, !.saved = a, !.error = FALSE,
                            !.draft.revision = a.revision]
             e == [m EXCEPT !.saving = FALSE, !.pendingApply = FALSE, !.error = TRUE]
  <2>1. CASE a = Refused
    <3>1. /\ e \in Models /\ e.draft = m.draft /\ e.saved = m.saved
          /\ e.undo = m.undo /\ e.generation = m.generation
      BY <1>1 DEF Models
    <3>2. Show(w, e, rest)
      BY <1>6, <2>1 DEF Saved
    <3> HIDE DEF e
    <3> QED BY <1>1, <1>2, <3>1, <3>2, SameDraft, ShowFollower
  <2>2. CASE a # Refused
    <3>1. a \in Drafts /\ m.draft \in Drafts
      BY <1>1, <1>3, <1>4, <1>6, <2>2, DraftFacts DEF Saved, Current, Models
    <3>2. [m.draft EXCEPT !.revision = a.revision] \in Drafts
      BY <3>1 DEF Drafts
    <3>3. n = [m EXCEPT !.saving = FALSE, !.saved = a, !.error = FALSE,
                        !.draft = [m.draft EXCEPT !.revision = a.revision]]
      BY <1>1 DEF Models
    <3>4. /\ n \in Models /\ n.saved = a /\ n.generation = m.generation
          /\ n.draft = [m.draft EXCEPT !.revision = a.revision]
      BY <1>1, <3>1, <3>2, <3>3 DEF Models, MaybeDraft
    <3>5. n.draft \in Drafts /\ n.draft.revision = a.revision
      BY <3>1, <3>2, <3>4 DEF Drafts
    <3>6. \/ Save(w, n, rest)
          \/ n.draft = n.saved /\ Apply(w, n, rest)
          \/ Show(w, n, rest)
      BY <1>6, <2>2 DEF Saved, Dirty
    <3> HIDE DEF n
    <3>7. Follows(w, n)
      BY <1>3, <3>1, <3>4, <3>5, TakenFollows
    <3> QED BY <1>1, <1>2, <3>6, <3>7, SaveKeeps, ApplyKeeps, ShowFollower
  <2> QED BY <2>1, <2>2
<1>7. CASE Regenerated(w, call)
  <2> DEFINE n == [m EXCEPT !.regenerating = FALSE, !.draft = a, !.saved = a,
                            !.undo = << >>, !.sequence = m.sequence + 1]
             e == [m EXCEPT !.regenerating = FALSE, !.error = TRUE]
  <2>1. CASE a = Refused
    <3>1. /\ e \in Models /\ e.draft = m.draft /\ e.saved = m.saved
          /\ e.undo = m.undo /\ e.generation = m.generation
      BY <1>1 DEF Models
    <3>2. Show(w, e, rest)
      BY <1>7, <2>1 DEF Regenerated
    <3> HIDE DEF e
    <3> QED BY <1>1, <1>2, <3>1, <3>2, SameDraft, ShowFollower
  <2>2. CASE a # Refused
    <3>1. a \in Drafts
      BY <1>4, <1>7, <2>2 DEF Regenerated
    <3>2. << >> \in Seq(Drafts) /\ m.sequence + 1 \in Nat /\ a \in MaybeDraft
      BY <1>1, <3>1 DEF Models, MaybeDraft
    <3>3. /\ n \in Models /\ n.draft = a /\ n.saved = a
          /\ n.generation = m.generation
      BY <1>1, <3>2 DEF Models
    <3>4. Show(w, n, rest)
      BY <1>7, <2>2 DEF Regenerated
    <3> HIDE DEF n
    <3> QED BY <1>1, <1>2, <1>3, <3>1, <3>3, <3>4, TakenFollows, ShowFollower
  <2> QED BY <2>1, <2>2
<1>8. CASE Applied(w, call)
  <2>1. /\ NotApplied(m) \in Models /\ NotApplied(m).draft = m.draft
        /\ NotApplied(m).saved = m.saved /\ NotApplied(m).undo = m.undo
        /\ NotApplied(m).generation = m.generation
    BY <1>1 DEF NotApplied, Models
  <2>2. \/ Show(w, NotApplied(m), rest)
        \/ Show(w, Fresh(m.generation + 1, m.timers), rest)
    BY <1>8 DEF Applied
  <2> QED BY <1>1, <1>2, <2>1, <2>2, SameDraft, FreshFollows, ShowFollower
<1>9. CASE Outdated(w, call)
  BY <1>1, <1>2, <1>9, ShowFollower DEF Outdated
<1> QED BY <1>0, <1>5, <1>6, <1>7, <1>8, <1>9

-----------------------------------------------------------------------------
(* The theorems *)

\* The invariant holds at first: nobody knows anything, and nobody is mistaken.
LEMMA InitIInv == Init => IInv
<1> SUFFICES ASSUME Init
             PROVE  IInv
  OBVIOUS
<1>1. versions = << >> /\ row = NoDraft /\ calls = {}
  BY DEF Init
<1>2. /\ Fresh(0, {}) \in Models /\ Fresh(0, {}).draft = NoDraft
      /\ Fresh(0, {}).saved = NoDraft /\ Fresh(0, {}).undo = << >>
  BY DEF Fresh, Models, MaybeDraft
<1>3. ModelOK(Fresh(0, {}), versions)
  BY <1>2, DraftFacts DEF ModelOK, Knows
<1>4. TypeOK
  BY <1>1, <1>2, ActsAssumption DEF Init, TypeOK, MaybeDraft, Snapshots
<1>5. RowOK /\ EveryRevisionBuildsOnTheLast
  BY <1>1, DraftFacts DEF RowOK, Knows, NoDraft, EveryRevisionBuildsOnTheLast
<1>6. AppliedAsShown
  BY ContentsAssumption DEF Init, NoSnapshot, AppliedAsShown
<1>7. \A w \in Windows : ModelOK(editor[w], versions)
  BY <1>3 DEF Init
<1> QED BY <1>1, <1>4, <1>5, <1>6, <1>7 DEF IInv

\* Every step of the server, the network, the timers and the users keeps the
\* types, the order of revisions and what windows and requests know.
THEOREM StepKeepsIInv == IInv /\ [Next]_vars => IInv'
<1> SUFFICES ASSUME IInv, [Next]_vars
             PROVE  IInv'
  OBVIOUS
<1>1. CASE ServerStep
  BY <1>1, ServerStepKeeps
<1>2. ASSUME NEW call \in calls, Handle(call) \/ Lose(call)
      PROVE  IInv'
  BY <1>2, HandleKeeps, LoseKeeps
<1>3. ASSUME NEW w \in Windows, UserStep(w) \/ SaveLater(w) \/ Answers(w)
      PROVE  IInv'
  BY <1>3, UserStepKeeps, SaveLaterKeeps, AnswersKeep
<1>4. CASE UNCHANGED vars
  <2>1. ServerOK'
    BY <1>4, ServerOKHolds
    DEF vars, ServerOK, AppliedAsShown, RowOK, EveryRevisionBuildsOnTheLast
  <2> QED BY <1>4, <2>1, ServerKeeps DEF vars
<1> QED BY <1>1, <1>2, <1>3, <1>4 DEF Next

\* The invariant holds of every behaviour, whatever windows, contents and bounds.
THEOREM InductiveInvariant == Spec => []IInv
BY InitIInv, StepKeepsIInv, PTL DEF Spec

\* The variables always hold what the row, the messages and the models can hold.
THEOREM TypeCorrect == Spec => []TypeOK
<1>1. IInv => TypeOK
  BY DEF IInv
<1> QED BY <1>1, InductiveInvariant, PTL

\* No edit is ever overwritten by somebody who had not seen it: the check of
\* MutateEditing and the revisions that the windows carry suffice for that,
\* however many windows there are and however late their requests come.
THEOREM NothingOverwrittenUnseen == Spec => []EveryRevisionBuildsOnTheLast
<1>1. IInv => EveryRevisionBuildsOnTheLast
  BY DEF IInv
<1> QED BY <1>1, InductiveInvariant, PTL

\* No window is ever mistaken about what the server stored under the revision
\* that it takes for saved.
THEOREM WindowsAreNotMistaken == Spec => []WindowKnowsARevision
<1>1. IInv => WindowKnowsARevision
  <2> SUFFICES ASSUME IInv, NEW w \in Windows, editor[w].draft # NoDraft
               PROVE  /\ editor[w].draft.revision = editor[w].saved.revision
                      /\ editor[w].saved.revision \in DOMAIN versions
                      /\ editor[w].saved.content
                           = versions[editor[w].saved.revision].content
    BY DEF WindowKnowsARevision
  <2>1. ModelOK(editor[w], versions)
    BY DEF IInv
  <2>2. editor[w].saved \in Drafts
    BY <2>1, DraftFacts DEF ModelOK, Models
  <2> QED BY <2>1, <2>2 DEF ModelOK, Knows
<1> QED BY <1>1, InductiveInvariant, PTL

\* What is rendered was always shown by the window whose user applied it, and is
\* never longer than the editor lets pass.
THEOREM RenderedWasShown == Spec => []AppliedAsShown
<1>1. IInv => AppliedAsShown
  BY DEF IInv
<1> QED BY <1>1, InductiveInvariant, PTL

-----------------------------------------------------------------------------
(* What a window waits for.  A save of the current generation is under way     *)
(* only while the window says so, and only one; a load only while it has no    *)
(* draft.  So no answer can unlock, or fill, a window that does not expect it. *)

\* What the model of a window says while it waits for an answer.
Awaits(m, kind) ==
  /\ kind = "save" => m.saving
  /\ kind = "load" => m.draft = NoDraft /\ m.saved = NoDraft /\ ~m.saving /\ ~Locked(m)

Awaited ==
  \A c \in calls : c.generation = editor[c.window].generation => Awaits(editor[c.window], c.kind)

SameCalls(c, d) == c.window = d.window /\ c.generation = d.generation /\ c.kind = d.kind

OneOfAKind == \A c, d \in calls : c.kind \in {"save", "load"} /\ SameCalls(c, d) => c = d

\* NothingToLoseWhileTheServerWorks of one window.
NothingToLose(m) == m.regenerating \/ m.applying => m.draft = m.saved /\ ~m.saving

WInv == Awaited /\ OneOfAKind /\ \A w \in Windows : NothingToLose(editor[w])

\* A window that moves on to a model that expects what is under way, and sends
\* at most one request that it expects.
LEMMA MovesOn ==
  ASSUME IInv, WInv, NEW w \in Windows, NEW m \in Models, NEW kind \in Kinds,
         NEW rest \in SUBSET calls,
         m.generation >= editor[w].generation, NothingToLose(m),
         m.generation = editor[w].generation =>
           \A c \in rest : c.window = w /\ c.generation = m.generation => Awaits(m, c.kind),
         \/ Show(w, m, rest)
         \/ /\ Send(w, m, kind, rest) /\ Awaits(m, kind)
            /\ kind \in {"save", "load"} =>
                 \A c \in rest : ~SameCalls(c, Call(w, m, kind))
  PROVE  WInv'
<1> DEFINE new == Call(w, m, kind)
<1>1. /\ editor' = [editor EXCEPT ![w] = m] /\ editor \in [Windows -> Models]
      /\ rest \subseteq calls' /\ calls' \subseteq rest \cup {new}
      /\ new \in calls' => \/ new \in rest
                           \/ /\ Awaits(m, kind)
                              /\ kind \in {"save", "load"} => \A c \in rest : ~SameCalls(c, new)
  BY DEF IInv, TypeOK, Show, Send
<1>2. new.window = w /\ new.generation = m.generation /\ new.kind = kind
  BY DEF Call
<1>3. \A c \in calls : /\ c.window \in Windows /\ c.generation \in Nat
                       /\ c.generation <= editor[c.window].generation
  BY DEF IInv, TypeOK, CallOK, Calls
<1>4. m.generation \in Nat /\ editor[w].generation \in Nat
  BY <1>1 DEF Models
<1> HIDE DEF new
<1>5. \A v \in Windows : editor'[v] = IF v = w THEN m ELSE editor[v]
  BY <1>1
<1>6. \A c \in rest : c.generation = editor'[c.window].generation
                         => Awaits(editor'[c.window], c.kind)
  <2> SUFFICES ASSUME NEW c \in rest, c.generation = editor'[c.window].generation
               PROVE  Awaits(editor'[c.window], c.kind)
    OBVIOUS
  <2>1. CASE c.window = w
    BY <1>3, <1>4, <1>5, <2>1
  <2>2. CASE c.window # w
    BY <1>3, <1>5, <2>2 DEF WInv, Awaited
  <2> QED
    BY <2>1, <2>2
<1>7. Awaited'
  BY <1>1, <1>2, <1>5, <1>6 DEF Awaited
<1>8. OneOfAKind'
  BY <1>1, <1>2 DEF WInv, OneOfAKind, SameCalls
<1>9. \A v \in Windows : NothingToLose(editor'[v])
  BY <1>5 DEF WInv
<1> QED
  BY <1>7, <1>8, <1>9 DEF WInv, NothingToLose

\* Answering a request leaves it what it is.
LEMMA AnsweringKeeps ==
  ASSUME IInv, WInv, NEW c \in calls, NEW d, SameCalls(c, d),
         calls' = (calls \ {c}) \cup {d}, editor' = editor
  PROVE  WInv'
<1>1. Awaited'
  BY DEF WInv, Awaited, SameCalls
<1>2. OneOfAKind'
  BY DEF WInv, OneOfAKind, SameCalls
<1> QED
  BY <1>1, <1>2 DEF WInv, NothingToLose

\* The server and the network only answer.
LEMMA ServerAwaits ==
  ASSUME IInv, WInv,
         \/ ServerStep
         \/ \E c \in calls : Handle(c) \/ Lose(c)
  PROVE  WInv'
<1>1. CASE ServerStep
  <2>1. UNCHANGED <<editor, calls>>
    BY <1>1 DEF ServerStep, PrepareEditing, Prepared, OtherProcessing, ProcessingEnds
  <2> QED
    BY <2>1 DEF WInv, Awaited, OneOfAKind, NothingToLose
<1>2. ASSUME NEW c \in calls, Handle(c) \/ Lose(c) PROVE WInv'
  <2>1. c \in Calls
    BY DEF IInv, TypeOK
  <2>2. ASSUME NEW a, calls' = (calls \ {c}) \cup {[c EXCEPT !.answer = a]}, editor' = editor
        PROVE  WInv'
    <3>1. SameCalls(c, [c EXCEPT !.answer = a])
      BY <2>1 DEF Calls, SameCalls
    <3> QED
      BY <2>2, <3>1, AnsweringKeeps
  <2>3. CASE HandleRegenerateRead(c)
    <3>1. SameCalls(c, [c EXCEPT !.read = row])
      BY <2>1 DEF Calls, SameCalls
    <3> QED
      BY <2>3, <3>1, AnsweringKeeps DEF HandleRegenerateRead
  <2>4. CASE \/ HandleLoad(c) \/ HandleSave(c) \/ HandleRegenerate(c) \/ HandleApply(c)
             \/ HandleConflict(c) \/ Lose(c)
    <3>1. \E a : calls' = (calls \ {c}) \cup {[c EXCEPT !.answer = a]} /\ editor' = editor
      BY <2>4 DEF HandleLoad, HandleSave, HandleRegenerate, HandleApply, HandleConflict, Lose,
                  Answer
    <3> QED
      BY <2>2, <3>1
  <2> QED
    BY <1>2, <2>3, <2>4 DEF Handle
<1> QED
  BY <1>1, <1>2

\* Saving what may be saved.
LEMMA SaveAwaits ==
  ASSUME IInv, WInv, NEW w \in Windows, NEW m \in Models, NEW rest \in SUBSET calls,
         m.generation = editor[w].generation, NothingToLose(m),
         \A c \in rest : c.window = w /\ c.generation = m.generation => Awaits(m, c.kind),
         Save(w, m, rest)
  PROVE  WInv'
<1>1. CASE m.draft = NoDraft \/ m.saving \/ m.regenerating \/ m.applying \/ ~Dirty(m)
  <2>1. Show(w, m, rest)
    BY <1>1 DEF Save
  <2>2. m.generation >= editor[w].generation
    BY DEF Models
  <2> QED
    BY <2>1, <2>2, MovesOn DEF Kinds
<1>2. CASE ~(m.draft = NoDraft \/ m.saving \/ m.regenerating \/ m.applying \/ ~Dirty(m))
  <2> DEFINE n == [m EXCEPT !.saving = TRUE]
  <2>1. Send(w, n, "save", rest)
    BY <1>2 DEF Save
  <2>2. /\ n \in Models /\ n.generation = m.generation /\ n.saving
        /\ n.regenerating = m.regenerating /\ n.applying = m.applying
    BY DEF Models
  <2>3. n.generation >= editor[w].generation
    BY <2>2 DEF Models
  <2> HIDE DEF n
  <2>4. NothingToLose(n) /\ Awaits(n, "save")
    BY <1>2, <2>2 DEF NothingToLose, Awaits
  <2>5. \A c \in rest : c.window = w /\ c.generation = n.generation
          => c.kind # "save" /\ Awaits(n, c.kind)
    BY <1>2, <2>2 DEF Awaits
  <2>6. \A c \in rest : ~SameCalls(c, Call(w, n, "save"))
    BY <2>5 DEF SameCalls, Call
  <2> QED
    BY <2>1, <2>2, <2>3, <2>4, <2>5, <2>6, MovesOn DEF Kinds
<1> QED
  BY <1>1, <1>2

\* Applying what is saved.
LEMMA ApplyAwaits ==
  ASSUME IInv, WInv, NEW w \in Windows, NEW m \in Models, NEW rest \in SUBSET calls,
         m.generation = editor[w].generation, m.draft = m.saved, ~m.saving,
         m.draft # NoDraft,
         \A c \in rest : c.window = w /\ c.generation = m.generation => c.kind \notin {"save", "load"},
         Apply(w, m, rest)
  PROVE  WInv'
<1> DEFINE n == [m EXCEPT !.pendingApply = FALSE]
           p == [m EXCEPT !.applying = TRUE, !.pendingApply = FALSE, !.error = FALSE]
<1>1. Show(w, n, rest) \/ Send(w, p, "apply", rest)
  BY DEF Apply
<1>2. /\ n \in Models /\ n.generation = m.generation
      /\ n.draft = m.draft /\ n.saved = m.saved /\ n.saving = m.saving
      /\ p \in Models /\ p.generation = m.generation
      /\ p.draft = m.draft /\ p.saved = m.saved /\ p.saving = m.saving
  BY DEF Models
<1>3. m.generation >= editor[w].generation
  BY DEF Models
<1> HIDE DEF n, p
<1>4. NothingToLose(n) /\ NothingToLose(p)
  BY <1>2 DEF NothingToLose
<1>5. \A c \in rest : c.window = w /\ c.generation = m.generation
        => Awaits(n, c.kind) /\ Awaits(p, c.kind)
  BY DEF Awaits
<1>6. Awaits(p, "apply")
  BY DEF Awaits
<1> QED
  BY <1>1, <1>2, <1>3, <1>4, <1>5, <1>6, MovesOn DEF Kinds

\* What is known of the model of a window.
LEMMA Expected ==
  ASSUME IInv, WInv, NEW w \in Windows
  PROVE  /\ editor[w] \in Models /\ NothingToLose(editor[w])
         /\ editor[w].generation >= editor[w].generation
         /\ \A c \in calls : c.window = w /\ c.generation = editor[w].generation
              => Awaits(editor[w], c.kind)
         /\ \A c \in calls : c.window = w => c.generation <= editor[w].generation
                                             /\ c.generation \in Nat
BY DEF IInv, TypeOK, CallOK, Calls, Models, WInv, Awaited

\* A window that opens an editor anew expects nothing of the old one.
LEMMA FreshAwaits ==
  ASSUME IInv, WInv, NEW w \in Windows, NEW rest \in SUBSET calls,
         LET m == Fresh(editor[w].generation + 1, editor[w].timers)
         IN  Show(w, m, rest) \/ Send(w, m, "load", rest)
  PROVE  WInv'
<1> DEFINE m == Fresh(editor[w].generation + 1, editor[w].timers)
<1>1. /\ m \in Models /\ m.generation = editor[w].generation + 1 /\ m.draft = NoDraft
      /\ m.saved = NoDraft /\ ~m.saving /\ ~m.regenerating /\ ~m.applying /\ ~m.pendingApply
  <2>1. editor[w] \in Models
    BY Expected
  <2>2. << >> \in Seq(Drafts) /\ NoDraft \in MaybeDraft
    BY DEF MaybeDraft
  <2> QED
    BY <2>1, <2>2 DEF Fresh, Models
<1> HIDE DEF m
<1>2. editor[w].generation \in Nat
  BY Expected DEF Models
<1>3. NothingToLose(m) /\ Awaits(m, "load")
  BY <1>1 DEF NothingToLose, Awaits, Locked
<1>4. \A c \in rest : ~SameCalls(c, Call(w, m, "load"))
  BY <1>1, <1>2, Expected DEF SameCalls, Call
<1>5. m.generation >= editor[w].generation /\ m.generation # editor[w].generation
  BY <1>1, <1>2
<1> QED
  BY <1>1, <1>3, <1>4, <1>5, MovesOn DEF m, Kinds

\* What users do: they change nothing while the draft is locked.
LEMMA UserAwaits ==
  ASSUME IInv, WInv, NEW w \in Windows, UserStep(w) \/ SaveLater(w)
  PROVE  WInv'
<1> DEFINE m == editor[w]
<1>1. /\ m \in Models /\ NothingToLose(m) /\ m.generation >= m.generation
      /\ \A c \in calls : c.window = w /\ c.generation = m.generation => Awaits(m, c.kind)
  BY Expected
<1>2. CASE Open(w) \/ Reload(w) \/ OpenAnother(w)
  BY <1>2, FreshAwaits DEF Open, Reload, OpenAnother
<1>3. ASSUME NEW draft, NEW undo, m.draft # NoDraft, ~Locked(m), draft \in MaybeDraft,
             undo \in Seq(Drafts), Show(w, Changed(m, draft, undo), calls)
      PROVE  WInv'
  <2> DEFINE n == Changed(m, draft, undo)
  <2>1. /\ n \in Models /\ n.generation = m.generation /\ n.saving = m.saving
        /\ n.regenerating = m.regenerating /\ n.applying = m.applying
    <3>1. m.sequence + 1 \in Nat
      BY <1>1 DEF Models
    <3>2. m.timers \cup {m.sequence + 1} \in SUBSET Nat
      BY <1>1, <3>1 DEF Models
    <3>3. n = [m EXCEPT !.draft = draft, !.undo = undo, !.sequence = m.sequence + 1,
                        !.timers = m.timers \cup {m.sequence + 1}, !.error = FALSE]
      BY <1>1 DEF Changed, Models
    <3> HIDE DEF n
    <3> QED
      BY <1>1, <1>3, <3>1, <3>2, <3>3 DEF Models
  <2> HIDE DEF n
  <2>2. NothingToLose(n)
    BY <1>3, <2>1 DEF NothingToLose, Locked
  <2>3. \A c \in calls : c.window = w /\ c.generation = n.generation => Awaits(n, c.kind)
    BY <1>1, <1>3, <2>1 DEF Awaits
  <2>4. n.generation >= m.generation
    BY <1>1, <2>1
  <2> QED
    BY <1>3, <2>1, <2>2, <2>3, <2>4, MovesOn DEF Kinds, n
<1>4. m.draft # NoDraft => m.draft \in Drafts /\ m.undo \in Seq(Drafts)
  BY <1>1, DraftFacts DEF Models
<1>5. ASSUME NEW content \in Contents, Change(w, content) PROVE WInv'
  <2>1. m.draft \in Drafts /\ m.undo \in Seq(Drafts)
    BY <1>4, <1>5 DEF Change
  <2>2. [m.draft EXCEPT !.content = content] \in MaybeDraft
    BY <2>1 DEF Drafts, MaybeDraft
  <2>3. <<m.draft>> \o m.undo \in Seq(Drafts)
    BY <2>1
  <2> QED
    BY <1>3, <1>5, <2>2, <2>3 DEF Change
<1>6. CASE Undo(w)
  <2>1. m.undo \in Seq(Drafts) /\ m.undo # << >>
    BY <1>1, <1>6 DEF Undo, Models
  <2>2. m.draft # NoDraft
    BY <2>1 DEF IInv, ModelOK
  <2>3. Head(m.undo) \in Drafts /\ Tail(m.undo) \in Seq(Drafts) /\ m.draft \in Drafts
    BY <1>4, <2>1, <2>2
  <2>4. [Head(m.undo) EXCEPT !.revision = m.draft.revision] \in MaybeDraft
    BY <2>3 DEF Drafts, MaybeDraft
  <2> QED
    BY <1>3, <1>6, <2>2, <2>3, <2>4 DEF Undo, Undone
<1>7. ASSUME NEW n \in Models, n.generation = m.generation, n.draft = m.draft, n.saved = m.saved,
             n.saving = m.saving, n.regenerating = m.regenerating, n.applying = m.applying,
             m.pendingApply = n.pendingApply \/ m.draft # NoDraft,
             Show(w, n, calls) \/ Save(w, n, calls)
      PROVE  WInv'
  <2>1. NothingToLose(n)
    BY <1>1, <1>7 DEF NothingToLose
  <2>2. \A c \in calls : c.window = w /\ c.generation = n.generation => Awaits(n, c.kind)
    BY <1>1, <1>7 DEF Awaits, Locked
  <2>3. n.generation >= m.generation
    BY <1>1, <1>7
  <2> HIDE DEF m
  <2> QED
    BY <1>7, <2>1, <2>2, <2>3, MovesOn, SaveAwaits DEF Kinds, m
<1>8. CASE SaveLater(w)
  <2>1. PICK sequence \in m.timers :
          LET n == [m EXCEPT !.timers = @ \ {sequence}]
          IN  IF sequence = n.sequence THEN Save(w, n, calls) ELSE Show(w, n, calls)
    BY <1>8 DEF SaveLater
  <2> DEFINE n == [m EXCEPT !.timers = @ \ {sequence}]
  <2>2. /\ n \in Models /\ n.generation = m.generation /\ n.draft = m.draft
        /\ n.saved = m.saved /\ n.saving = m.saving /\ n.regenerating = m.regenerating
        /\ n.applying = m.applying /\ n.pendingApply = m.pendingApply
    BY <1>1 DEF Models
  <2>3. Save(w, n, calls) \/ Show(w, n, calls)
    BY <2>1
  <2> HIDE DEF n
  <2> QED
    BY <1>7, <2>2, <2>3
<1>9. CASE RetrySave(w)
  <2> DEFINE n == [m EXCEPT !.error = FALSE]
  <2>1. /\ n \in Models /\ n.generation = m.generation /\ n.draft = m.draft
        /\ n.saved = m.saved /\ n.saving = m.saving /\ n.regenerating = m.regenerating
        /\ n.applying = m.applying /\ n.pendingApply = m.pendingApply
    BY <1>1 DEF Models
  <2>2. Save(w, n, calls)
    BY <1>9 DEF RetrySave
  <2> HIDE DEF n
  <2> QED
    BY <1>7, <2>1, <2>2
<1>10. CASE ApplyRecording(w)
  <2>1. m.draft # NoDraft /\ ~Locked(m)
    BY <1>10 DEF ApplyRecording
  <2>2. CASE MustSaveFirst(m)
    <3> DEFINE n == [m EXCEPT !.pendingApply = TRUE]
    <3>1. /\ n \in Models /\ n.generation = m.generation /\ n.draft = m.draft
          /\ n.saved = m.saved /\ n.saving = m.saving /\ n.regenerating = m.regenerating
          /\ n.applying = m.applying
      BY <1>1 DEF Models
    <3>2. Save(w, n, calls)
      BY <1>10, <2>2 DEF ApplyRecording
    <3> HIDE DEF n
    <3> QED
      BY <1>7, <2>1, <3>1, <3>2
  <2>3. CASE ~MustSaveFirst(m)
    <3>1. Apply(w, m, calls) /\ m.draft = m.saved /\ ~m.saving
      BY <1>10, <2>3 DEF ApplyRecording, MustSaveFirst, Dirty
    <3>2. \A c \in calls : c.window = w /\ c.generation = m.generation
            => c.kind \notin {"save", "load"}
      BY <1>1, <2>1, <3>1 DEF Awaits
    <3> QED
      BY <1>1, <2>1, <3>1, <3>2, ApplyAwaits
  <2> QED
    BY <2>2, <2>3
<1>11. CASE ConfirmRegenerate(w)
  <2> DEFINE n == [m EXCEPT !.regenerating = TRUE, !.error = FALSE]
  <2>1. /\ n \in Models /\ n.generation = m.generation /\ n.draft = m.draft
        /\ n.saved = m.saved /\ n.saving = m.saving /\ n.applying = m.applying
    BY <1>1 DEF Models
  <2>2. Send(w, n, "regenerate", calls) /\ m.draft # NoDraft /\ ~m.saving /\ m.draft = m.saved
    BY <1>11 DEF ConfirmRegenerate, Dirty
  <2> HIDE DEF n
  <2>3. NothingToLose(n) /\ Awaits(n, "regenerate")
    BY <2>1, <2>2 DEF NothingToLose, Awaits
  <2>4. \A c \in calls : c.window = w /\ c.generation = n.generation => Awaits(n, c.kind)
    BY <1>1, <2>1, <2>2 DEF Awaits
  <2>5. n.generation >= m.generation
    BY <1>1, <2>1
  <2> QED
    BY <2>1, <2>2, <2>3, <2>4, <2>5, MovesOn DEF Kinds
<1> QED
  BY <1>2, <1>5, <1>6, <1>8, <1>9, <1>10, <1>11 DEF UserStep

\* What a window does with the answer of a request.
LEMMA AnswersAwait == ASSUME IInv, WInv, NEW w \in Windows, Answers(w) PROVE WInv'
<1>0. PICK call \in calls :
        Loaded(w, call) \/ Saved(w, call) \/ Regenerated(w, call) \/ Applied(w, call)
          \/ Outdated(w, call)
  BY DEF Answers
<1> DEFINE m == editor[w]
           rest == calls \ {call}
           a == call.answer
<1>1. /\ m \in Models /\ NothingToLose(m) /\ m.generation >= m.generation
      /\ rest \in SUBSET calls
      /\ \A c \in calls : c.window = w /\ c.generation = m.generation => Awaits(m, c.kind)
  BY Expected
<1>2. /\ call.window = w /\ a # Unanswered /\ call \in Calls
      /\ call.kind # "apply" => a # Accepted
      /\ \A c \in rest : SameCalls(c, call) => c.kind \notin {"save", "load"}
  BY <1>0 DEF Loaded, Saved, Regenerated, Applied, Outdated, Receive, IInv, TypeOK, CallOK,
              WInv, OneOfAKind
<1>3. call.kind # "apply" /\ a # Refused => a \in Drafts
  BY <1>2 DEF Calls
<1>4. ASSUME NEW n \in Models, n.generation = m.generation, NothingToLose(n), Show(w, n, rest),
             \A c \in rest : c.window = w /\ c.generation = m.generation => Awaits(n, c.kind)
      PROVE  WInv'
  <2>1. n.generation >= m.generation
    BY <1>1, <1>4
  <2> QED
    BY <1>1, <1>4, <2>1, MovesOn DEF Kinds
<1>5. CASE Loaded(w, call)
  <2>1. /\ call.kind = "load" /\ m.draft = NoDraft /\ ~m.saving /\ ~Locked(m)
    BY <1>1, <1>2, <1>5 DEF Loaded, Current, Awaits
  <2>2. \A c \in rest : c.window = w /\ c.generation = m.generation
          => c.kind \notin {"save", "load"}
    BY <1>1, <1>2, <1>5, <2>1 DEF Loaded, Current, SameCalls, Awaits
  <2>3. CASE a = Refused
    <3> DEFINE e == [m EXCEPT !.error = TRUE, !.pendingApply = FALSE]
    <3>1. /\ e \in Models /\ e.generation = m.generation /\ e.draft = m.draft
          /\ e.saved = m.saved /\ e.saving = m.saving /\ e.regenerating = m.regenerating
          /\ e.applying = m.applying
      BY <1>1 DEF Models
    <3>2. Show(w, e, rest)
      BY <1>5, <2>3 DEF Loaded
    <3> HIDE DEF e, rest, m
    <3> QED
      BY <1>1, <1>4, <2>2, <3>1, <3>2 DEF NothingToLose, Awaits
  <2>4. CASE a # Refused
    <3> DEFINE n == [m EXCEPT !.draft = a, !.saved = a, !.error = FALSE]
    <3>1. n \in Models /\ n.generation = m.generation /\ n.regenerating = m.regenerating
          /\ n.applying = m.applying
      BY <1>1, <1>3, <2>1, <2>4 DEF Models, MaybeDraft
    <3>2. Show(w, n, rest)
      BY <1>5, <2>1, <2>4 DEF Loaded, Locked
    <3> HIDE DEF n, rest, m
    <3> QED
      BY <1>4, <2>1, <2>2, <3>1, <3>2 DEF NothingToLose, Awaits, Locked
  <2> QED
    BY <2>3, <2>4
<1>6. CASE Saved(w, call)
  <2>1. /\ call.kind = "save" /\ m.saving /\ ~m.regenerating /\ ~m.applying
    BY <1>1, <1>2, <1>6 DEF Saved, Current, Awaits, NothingToLose
  <2>2. \A c \in rest : c.window = w /\ c.generation = m.generation
          => c.kind \notin {"save", "load"}
    BY <1>1, <1>2, <1>6, <2>1 DEF Saved, Current, SameCalls, Awaits
  <2>3. CASE a = Refused
    <3> DEFINE e == [m EXCEPT !.saving = FALSE, !.pendingApply = FALSE, !.error = TRUE]
    <3>1. /\ e \in Models /\ e.generation = m.generation
          /\ e.regenerating = m.regenerating /\ e.applying = m.applying
      BY <1>1 DEF Models
    <3>2. Show(w, e, rest)
      BY <1>6, <2>3 DEF Saved
    <3> HIDE DEF e, rest, m
    <3> QED
      BY <1>4, <2>1, <2>2, <3>1, <3>2 DEF NothingToLose, Awaits
  <2>4. CASE a # Refused
    <3> DEFINE n == [m EXCEPT !.saving = FALSE, !.saved = a, !.error = FALSE,
                              !.draft.revision = a.revision]
    <3>1. m.draft # NoDraft /\ m.draft \in Drafts /\ a \in Drafts
      BY <1>1, <1>2, <1>3, <1>6, <2>1, <2>4, DraftFacts DEF Saved, Current, IInv, CallOK, Models
    <3>2. [m.draft EXCEPT !.revision = a.revision] \in Drafts
      BY <3>1 DEF Drafts
    <3>3. n = [m EXCEPT !.saving = FALSE, !.saved = a, !.error = FALSE,
                        !.draft = [m.draft EXCEPT !.revision = a.revision]]
      BY <1>1 DEF Models
    <3>4. /\ n \in Models /\ n.generation = m.generation /\ ~n.saving
          /\ n.draft = [m.draft EXCEPT !.revision = a.revision]
          /\ n.regenerating = m.regenerating /\ n.applying = m.applying
      BY <1>1, <3>1, <3>2, <3>3 DEF Models, MaybeDraft
    <3>5. n.draft # NoDraft
      BY <3>2, <3>4, DraftFacts
    <3>6. \/ Save(w, n, rest)
          \/ n.draft = n.saved /\ Apply(w, n, rest)
          \/ Show(w, n, rest)
      BY <1>6, <2>4 DEF Saved, Dirty
    <3> HIDE DEF n
    <3>7. NothingToLose(n)
      BY <2>1, <3>4 DEF NothingToLose
    <3>8. \A c \in rest : c.window = w /\ c.generation = n.generation => Awaits(n, c.kind)
      BY <2>2, <3>4 DEF Awaits
    <3>9. CASE Save(w, n, rest)
      BY <1>1, <3>4, <3>7, <3>8, <3>9, SaveAwaits
    <3>10. CASE n.draft = n.saved /\ Apply(w, n, rest)
      BY <1>1, <2>2, <3>4, <3>5, <3>10, ApplyAwaits
    <3>11. CASE Show(w, n, rest)
      BY <1>4, <3>4, <3>7, <3>8, <3>11
    <3> QED
      BY <3>6, <3>9, <3>10, <3>11
  <2> QED
    BY <2>3, <2>4
<1>7. CASE Regenerated(w, call)
  <2>1. call.kind = "regenerate" /\ m.draft # NoDraft
    BY <1>2, <1>7 DEF Regenerated, Current, IInv, CallOK
  <2>2. CASE a = Refused
    <3> DEFINE e == [m EXCEPT !.regenerating = FALSE, !.error = TRUE]
    <3>1. /\ e \in Models /\ e.generation = m.generation /\ e.draft = m.draft
          /\ e.saved = m.saved /\ e.saving = m.saving /\ e.applying = m.applying
          /\ ~e.regenerating
      BY <1>1 DEF Models
    <3>2. Show(w, e, rest)
      BY <1>7, <2>2 DEF Regenerated
    <3> HIDE DEF e, m
    <3>3. NothingToLose(e)
      BY <1>1, <3>1 DEF NothingToLose
    <3>4. \A c \in rest : c.window = w /\ c.generation = m.generation => Awaits(e, c.kind)
      BY <1>1, <2>1, <3>1 DEF Awaits
    <3> QED
      BY <1>4, <3>1, <3>2, <3>3, <3>4
  <2>3. CASE a # Refused
    <3> DEFINE n == [m EXCEPT !.regenerating = FALSE, !.draft = a, !.saved = a,
                              !.undo = << >>, !.sequence = m.sequence + 1]
    <3>1. << >> \in Seq(Drafts) /\ m.sequence + 1 \in Nat /\ a \in MaybeDraft
      BY <1>1, <1>3, <2>1, <2>3 DEF Models, MaybeDraft
    <3>2. /\ n \in Models /\ n.generation = m.generation /\ n.draft = a /\ n.saved = a
          /\ n.saving = m.saving /\ n.applying = m.applying /\ ~n.regenerating
      BY <1>1, <3>1 DEF Models
    <3>3. Show(w, n, rest)
      BY <1>7, <2>3 DEF Regenerated
    <3> HIDE DEF n, m
    <3>4. NothingToLose(n)
      BY <1>1, <3>2 DEF NothingToLose
    <3>5. \A c \in rest : c.window = w /\ c.generation = m.generation => Awaits(n, c.kind)
      BY <1>1, <2>1, <3>2 DEF Awaits
    <3> QED
      BY <1>4, <3>2, <3>3, <3>4, <3>5
  <2> QED
    BY <2>2, <2>3
<1>8. CASE Applied(w, call)
  <2>1. CASE a # Refused
    BY <1>1, <1>8, <2>1, FreshAwaits DEF Applied
  <2>2. CASE a = Refused
    <3> DEFINE n == NotApplied(m)
    <3>1. Show(w, n, rest) /\ call.kind = "apply" /\ m.draft # NoDraft
      BY <1>2, <1>8, <2>2 DEF Applied, Current, IInv, CallOK
    <3>2. /\ n \in Models /\ n.generation = m.generation /\ n.draft = m.draft
          /\ n.saved = m.saved /\ n.saving = m.saving /\ n.regenerating = m.regenerating
          /\ ~n.applying
      BY <1>1 DEF Models, NotApplied
    <3> HIDE DEF n, m
    <3>3. NothingToLose(n)
      BY <1>1, <3>2 DEF NothingToLose
    <3>4. \A c \in rest : c.window = w /\ c.generation = m.generation => Awaits(n, c.kind)
      BY <1>1, <3>1, <3>2 DEF Awaits
    <3> QED
      BY <1>4, <3>1, <3>2, <3>3, <3>4
  <2> QED
    BY <2>1, <2>2
<1>9. CASE Outdated(w, call)
  BY <1>1, <1>4, <1>9 DEF Outdated
<1> QED
  BY <1>0, <1>5, <1>6, <1>7, <1>8, <1>9

\* While the server regenerates or applies a draft, the window holds nothing that
\* the answer would throw away: its buttons and timers are locked, and it is not
\* unlocked by any other answer (Editing.elm: update), however late answers come.
THEOREM NothingIsLost == Spec => []NothingToLoseWhileTheServerWorks
<1>1. Init => WInv
  BY DEF Init, Fresh, WInv, Awaited, OneOfAKind, NothingToLose
<1>2. IInv /\ WInv /\ [Next]_vars => WInv'
  <2> SUFFICES ASSUME IInv, WInv, [Next]_vars PROVE WInv'
    OBVIOUS
  <2>1. CASE ServerStep \/ \E call \in calls : Handle(call) \/ Lose(call)
    BY <2>1, ServerAwaits
  <2>2. ASSUME NEW w \in Windows, UserStep(w) \/ SaveLater(w) PROVE WInv'
    BY <2>2, UserAwaits
  <2>3. ASSUME NEW w \in Windows, Answers(w) PROVE WInv'
    BY <2>3, AnswersAwait
  <2>4. CASE UNCHANGED vars
    BY <2>4 DEF vars, WInv, Awaited, OneOfAKind, NothingToLose
  <2> QED
    BY <2>1, <2>2, <2>3, <2>4 DEF Next
<1>3. WInv => NothingToLoseWhileTheServerWorks
  BY DEF WInv, NothingToLose, NothingToLoseWhileTheServerWorks, Dirty
<1> QED
  BY <1>1, <1>2, <1>3, InductiveInvariant, PTL DEF Spec

=============================================================================
