------------------------------ MODULE EditDraft ------------------------------
(***************************************************************************)
(* The edit draft of one sermon: the editing row of the store with its     *)
(* revision, the HTTP operations on it, and the windows in which users     *)
(* edit it -- the autosave machine of web/src/Editing.elm.                 *)
(*                                                                         *)
(* A window edits its own copy, saves it some time after the last change,  *)
(* and may be answered late, by an error, or after it was opened anew.     *)
(* The server accepts a save, a regeneration or an application only of the *)
(* revision it holds and only while the sermon is at rest.                 *)
(*                                                                         *)
(* What the breakpoints and sections of a draft say is abstracted to a set *)
(* of valid contents, some of them too long to be published.  A draft that *)
(* keeps nothing is refused by the button and again by the server: it is   *)
(* not among them.  Whether the editor is visible, what is selected and    *)
(* what is played back is left out: the machine does not depend on it.     *)
(***************************************************************************)
EXTENDS Naturals, Sequences, FiniteSets

CONSTANTS
  Windows,    \* browser windows with the editor of this sermon
  Contents,   \* what a draft may say
  TooLong,    \* contents that keep 90 minutes or more
  MaxActs,    \* bound: what users do
  MaxLosses,  \* bound: requests and answers the network loses
  MaxJobs     \* bound: other processing of the sermon, repeated preparations

\* "none" stands for the content of a draft that does not exist.
ASSUME ContentsAssumption == TooLong \subseteq Contents /\ "none" \notin Contents
ASSUME ActsAssumption == MaxActs \in Nat /\ MaxLosses \in Nat /\ MaxJobs \in Nat

VARIABLES
  row,        \* the editing row: its draft, NoDraft until it is prepared
  phase,      \* whether the sermon is being prepared, at rest or busy
  job,        \* the snapshot in the active render_edit job
  applied,    \* the snapshot of the last committed render
  versions,   \* history: what each revision says and what its author had seen
  editor,     \* the model of each window
  calls,      \* requests on their way, handled ones with their answers
  acts, losses, others     \* what of the bounds has been used

vars == <<row, phase, job, applied, versions, editor, calls, acts, losses, others>>
server == <<row, phase, job, applied, versions, others>>

NoDraft    == [revision |-> 0, content |-> "none"]
Drafts     == [revision : Nat \ {0}, content : Contents]
MaybeDraft == Drafts \cup {NoDraft}

\* What render_edit works on, and what the window that asked for it showed.
NoSnapshot == [content |-> "none", shown |-> "none"]
Snapshots  == [content : Contents, shown : Contents] \cup {NoSnapshot}

\* Editing.elm Model.  timers are the sequence numbers of pending SaveLaters.
Models == [generation : Nat, sequence : Nat, timers : SUBSET Nat,
           draft : MaybeDraft, saved : MaybeDraft, undo : Seq(Drafts),
           saving : BOOLEAN, regenerating : BOOLEAN, applying : BOOLEAN,
           pendingApply : BOOLEAN, error : BOOLEAN]

Fresh(generation, timers) ==
  [generation |-> generation, sequence |-> 0, timers |-> timers,
   draft |-> NoDraft, saved |-> NoDraft, undo |-> << >>,
   saving |-> FALSE, regenerating |-> FALSE, applying |-> FALSE,
   pendingApply |-> FALSE, error |-> FALSE]

\* An answer is a draft, or one of these with NoDraft's shape.
Unanswered == [revision |-> 0, content |-> "unanswered"]
Refused    == [revision |-> 0, content |-> "refused"]    \* any error
Accepted   == [revision |-> 0, content |-> "accepted"]   \* an apply
Kinds      == {"load", "save", "regenerate", "apply"}

\* draft is what the window shows and sends (apply and regenerate send its
\* revision only), base what it last had from the server, read what the handler
\* of a regeneration has read.
Calls == [window : Windows, generation : Nat, kind : Kinds, draft : MaybeDraft,
          base : MaybeDraft, read : MaybeDraft,
          answer : Drafts \cup {Unanswered, Refused, Accepted}]

Call(w, m, kind) ==
  [window |-> w, generation |-> m.generation, kind |-> kind, draft |-> m.draft,
   base |-> m.saved, read |-> NoDraft, answer |-> Unanswered]

Init ==
  /\ row = NoDraft /\ phase = "preparing"
  /\ job = NoSnapshot /\ applied = NoSnapshot
  /\ versions = << >>
  /\ editor = [w \in Windows |-> Fresh(0, {})]
  /\ calls = {}
  /\ acts = 0 /\ losses = 0 /\ others = 0

-----------------------------------------------------------------------------
(* The server: store/editing.go, server/editing.go *)

\* The next revision of the row, written by someone who had seen base.
Write(content, base) ==
  /\ row' = [revision |-> row.revision + 1, content |-> content]
  /\ versions' = Append(versions, [content |-> content, base |-> base])

\* prepare_edit replaces the row; after a crash or an error it may run again.
PrepareEditing ==
  /\ phase = "preparing"
  /\ others < MaxJobs
  /\ others' = others + 1
  /\ \E content \in Contents : Write(content, row.content)
  /\ UNCHANGED <<phase, job, applied, editor, calls, acts, losses>>

Prepared ==
  /\ phase = "preparing" /\ row # NoDraft
  /\ phase' = "rest"
  /\ UNCHANGED <<row, job, applied, versions, editor, calls, acts, losses, others>>

\* A rerun or an export makes the sermon busy without touching the draft.
OtherProcessing ==
  /\ phase = "rest"
  /\ others < MaxJobs
  /\ others' = others + 1
  /\ phase' = "busy"
  /\ UNCHANGED <<row, job, applied, versions, editor, calls, acts, losses>>

\* The sermon comes to rest.  A render has committed its snapshot, or has failed
\* and was overtaken by a new transcription.
ProcessingEnds ==
  /\ phase = "busy"
  /\ phase' = "rest"
  /\ job' = NoSnapshot
  /\ applied' \in IF job = NoSnapshot THEN {applied} ELSE {applied, job}
  /\ UNCHANGED <<row, versions, editor, calls, acts, losses, others>>

AnyRevision(revision) == phase = "rest"                          \* mutant
Mutable(revision) == phase = "rest" /\ revision = row.revision

Answer(call, answer) ==
  /\ calls' = (calls \ {call}) \cup {[call EXCEPT !.answer = answer]}
  /\ UNCHANGED <<editor, acts, losses>>

LoadsNothing(call) ==                                            \* mutant
  /\ call.kind = "load"
  /\ Answer(call, row)
  /\ UNCHANGED server
HandleLoad(call) ==
  /\ call.kind = "load"
  /\ Answer(call, IF row = NoDraft THEN Refused ELSE row)
  /\ UNCHANGED server

HandleSave(call) ==
  /\ call.kind = "save"
  /\ Mutable(call.draft.revision)
  /\ Write(call.draft.content, call.base.content)
  /\ Answer(call, row')
  /\ UNCHANGED <<phase, job, applied, others>>

\* handleRegenerateEditing reads the draft in one query ...
HandleRegenerateRead(call) ==
  /\ call.kind = "regenerate" /\ call.read = NoDraft
  /\ calls' = (calls \ {call}) \cup {[call EXCEPT !.read = row]}
  /\ UNCHANGED <<server, editor, acts, losses>>

\* ... and stores what SpeakerDraft made of it in a later transaction.
HandleRegenerate(call) ==
  /\ call.kind = "regenerate" /\ call.read # NoDraft
  /\ Mutable(call.draft.revision)
  /\ \E content \in Contents : Write(content, call.read.content)
  /\ Answer(call, row')
  /\ UNCHANGED <<phase, job, applied, others>>

HandleApply(call) ==
  /\ call.kind = "apply"
  /\ Mutable(call.draft.revision)
  /\ phase' = "busy"
  /\ job' = [content |-> row.content, shown |-> call.draft.content]
  /\ Answer(call, Accepted)
  /\ UNCHANGED <<row, applied, versions, others>>

HandleConflict(call) ==
  /\ \/ call.kind \in {"save", "apply"}
     \/ call.kind = "regenerate" /\ call.read # NoDraft
  /\ ~Mutable(call.draft.revision)
  /\ Answer(call, Refused)
  /\ UNCHANGED server

Handle(call) ==
  /\ call.answer = Unanswered
  /\ \/ HandleLoad(call)
     \/ HandleSave(call)
     \/ HandleRegenerateRead(call)
     \/ HandleRegenerate(call)
     \/ HandleApply(call)
     \/ HandleConflict(call)

\* The connection breaks before the request arrives or after it was handled.
Lose(call) ==
  /\ losses < MaxLosses
  /\ losses' = losses + 1
  /\ calls' = (calls \ {call}) \cup {[call EXCEPT !.answer = Refused]}
  /\ call.answer # Refused
  /\ UNCHANGED <<server, editor, acts>>

-----------------------------------------------------------------------------
(* The window: Editing.elm.  Each operator leaves window w with model m, and   *)
(* the calls rest, to which it may add one.                                    *)

Show(w, m, rest) ==
  /\ editor' = [editor EXCEPT ![w] = m]
  /\ calls' = rest

Send(w, m, kind, rest) == Show(w, m, rest \cup {Call(w, m, kind)})

Dirty(m) == m.draft # m.saved

Save(w, m, rest) ==
  IF m.draft = NoDraft \/ m.saving \/ m.regenerating \/ m.applying \/ ~Dirty(m)
  THEN Show(w, m, rest)
  ELSE Send(w, [m EXCEPT !.saving = TRUE], "save", rest)

Apply(w, m, rest) ==
  IF m.draft = NoDraft THEN Show(w, m, rest)
  ELSE IF m.draft.content \in TooLong
  THEN Show(w, [m EXCEPT !.pendingApply = FALSE], rest)
  ELSE Send(w, [m EXCEPT !.applying = TRUE, !.pendingApply = FALSE,
                         !.error = FALSE], "apply", rest)

Act ==
  /\ acts < MaxActs
  /\ acts' = acts + 1
  /\ UNCHANGED <<server, losses>>

\* A draft that was loaded is only shown again.
Open(w) ==
  LET m == Fresh(editor[w].generation + 1, editor[w].timers)
  IN  /\ Act
      /\ editor[w].draft = NoDraft
      /\ Send(w, m, "load", calls)

\* Offered beside an error message only.
Reload(w) ==
  LET m == Fresh(editor[w].generation + 1, editor[w].timers)
  IN  /\ Act
      /\ editor[w].error
      /\ ~editor[w].saving /\ ~editor[w].regenerating /\ ~editor[w].applying
      /\ Send(w, m, "load", calls)

\* The editor of another sermon is opened in the same window.
OpenAnother(w) ==
  /\ Act
  /\ editor[w].draft # NoDraft
  /\ Show(w, Fresh(editor[w].generation + 1, editor[w].timers), calls)

WhileApplying(m) == m.regenerating \/ m.pendingApply              \* mutant
Locked(m) == m.regenerating \/ m.applying \/ m.pendingApply

TimerBeforeTheChange(m, draft, undo) ==                          \* mutant
  [m EXCEPT !.draft = draft, !.undo = undo, !.sequence = @ + 1,
            !.timers = @ \cup {m.sequence}, !.error = FALSE]
\* A new draft and the timer of its autosave; the code keeps 50 undo steps.
Changed(m, draft, undo) ==
  [m EXCEPT !.draft = draft, !.undo = undo, !.sequence = @ + 1,
            !.timers = @ \cup {m.sequence + 1}, !.error = FALSE]

Change(w, content) ==
  LET m == editor[w]
  IN  /\ Act
      /\ m.draft # NoDraft /\ ~Locked(m)
      /\ content # m.draft.content
      /\ Show(w, Changed(m, [m.draft EXCEPT !.content = content],
                         <<m.draft>> \o m.undo), calls)

RestoresTheRevision(m) ==                                        \* mutant
  Changed(m, Head(m.undo), Tail(m.undo))
Undone(m) ==
  Changed(m, [Head(m.undo) EXCEPT !.revision = m.draft.revision], Tail(m.undo))

\* The button is disabled while the draft is locked.
Undo(w) ==
  LET m == editor[w]
  IN  /\ Act
      /\ m.undo # << >> /\ ~Locked(m)
      /\ Show(w, Undone(m), calls)

SaveLater(w) == \E sequence \in editor[w].timers :
  LET m == [editor[w] EXCEPT !.timers = @ \ {sequence}]
  IN  /\ IF sequence = m.sequence THEN Save(w, m, calls) ELSE Show(w, m, calls)
      /\ UNCHANGED <<server, acts, losses>>

RetrySave(w) ==
  /\ Act
  /\ editor[w].error /\ editor[w].draft # NoDraft /\ ~editor[w].saving
  /\ Save(w, [editor[w] EXCEPT !.error = FALSE], calls)

AppliesTheLastSave(m) == m.saving                                \* mutant
MustSaveFirst(m) == Dirty(m) \/ m.saving

\* The button applies without skipping and is disabled while it makes no sense;
\* for a long recording it opens a dialog and does nothing else.
ApplyRecording(w) ==
  LET m == editor[w]
  IN  /\ Act
      /\ m.draft # NoDraft /\ ~Locked(m)
      /\ m.draft.content \notin TooLong
      /\ IF MustSaveFirst(m)
         THEN Save(w, [m EXCEPT !.pendingApply = TRUE], calls)
         ELSE Apply(w, m, calls)

ConfirmRegenerate(w) ==
  LET m == editor[w]
  IN  /\ Act
      /\ m.draft # NoDraft
      /\ ~(m.saving \/ Locked(m) \/ Dirty(m))
      /\ Send(w, [m EXCEPT !.regenerating = TRUE, !.error = FALSE], "regenerate", calls)

-----------------------------------------------------------------------------
(* Answers *)

Receive(w, call) ==
  /\ call.window = w
  /\ call.answer # Unanswered
  /\ UNCHANGED <<server, acts, losses>>

Current(w, call) == call.generation = editor[w].generation

Loaded(w, call) ==
  LET m == editor[w]
      next == [m EXCEPT !.draft = call.answer, !.saved = call.answer, !.error = FALSE]
      rest == calls \ {call}
  IN  /\ Receive(w, call)
      /\ call.kind = "load" /\ Current(w, call)
      /\ IF call.answer = Refused
         THEN Show(w, [m EXCEPT !.error = TRUE, !.pendingApply = FALSE], rest)
         ELSE IF m.pendingApply THEN Apply(w, next, rest) ELSE Show(w, next, rest)

\* What was edited meanwhile is saved at once; then an application that waits
\* is sent.
Saved(w, call) ==
  LET m == editor[w]
      next == [m EXCEPT !.saving = FALSE, !.saved = call.answer, !.error = FALSE,
                        !.draft.revision = call.answer.revision]
      rest == calls \ {call}
  IN  /\ Receive(w, call)
      /\ call.kind = "save" /\ Current(w, call)
      /\ IF call.answer = Refused
         THEN Show(w, [m EXCEPT !.saving = FALSE, !.pendingApply = FALSE,
                                !.error = TRUE], rest)
         ELSE IF Dirty(next) THEN Save(w, next, rest)
         ELSE IF next.pendingApply THEN Apply(w, next, rest)
         ELSE Show(w, next, rest)

Regenerated(w, call) ==
  LET m == editor[w]
  IN  /\ Receive(w, call)
      /\ call.kind = "regenerate" /\ Current(w, call)
      /\ Show(w, IF call.answer = Refused
                 THEN [m EXCEPT !.regenerating = FALSE, !.error = TRUE]
                 ELSE [m EXCEPT !.regenerating = FALSE, !.draft = call.answer,
                                !.saved = call.answer, !.undo = << >>,
                                !.sequence = @ + 1],
              calls \ {call})

StaysApplying(m) == [m EXCEPT !.pendingApply = FALSE, !.error = TRUE]  \* mutant
NotApplied(m) ==
  [m EXCEPT !.applying = FALSE, !.pendingApply = FALSE, !.error = TRUE]

Applied(w, call) ==
  LET m == editor[w]
  IN  /\ Receive(w, call)
      /\ call.kind = "apply" /\ Current(w, call)
      /\ Show(w, IF call.answer = Refused THEN NotApplied(m)
                 ELSE Fresh(m.generation + 1, m.timers),
              calls \ {call})

\* The answer to a call of an earlier generation is dropped.
Outdated(w, call) ==
  /\ Receive(w, call)
  /\ ~Current(w, call)
  /\ Show(w, editor[w], calls \ {call})

-----------------------------------------------------------------------------

ServerStep == PrepareEditing \/ Prepared \/ OtherProcessing \/ ProcessingEnds

Answers(w) == \E call \in calls :
  Loaded(w, call) \/ Saved(w, call) \/ Regenerated(w, call) \/ Applied(w, call)
    \/ Outdated(w, call)

UserStep(w) ==
  \/ Open(w)
  \/ Reload(w)
  \/ OpenAnother(w)
  \/ \E content \in Contents : Change(w, content)
  \/ Undo(w)
  \/ RetrySave(w)
  \/ ApplyRecording(w)
  \/ ConfirmRegenerate(w)

Next ==
  \/ ServerStep
  \/ \E call \in calls : Handle(call) \/ Lose(call)
  \/ \E w \in Windows : UserStep(w) \/ SaveLater(w) \/ Answers(w)

Spec == Init /\ [][Next]_vars

\* Timers fire, the server answers and answers arrive; users and the network
\* owe nothing.
Fairness ==
  /\ WF_vars(\E call \in calls : Handle(call))
  /\ \A w \in Windows : WF_vars(SaveLater(w)) /\ WF_vars(Answers(w))

LiveSpec == Spec /\ Fairness

-----------------------------------------------------------------------------
(* Properties *)

\* The variables hold what the row, the messages and the Elm model can hold.
TypeOK ==
  /\ row \in MaybeDraft
  /\ phase \in {"preparing", "rest", "busy"}
  /\ job \in Snapshots /\ applied \in Snapshots
  /\ versions \in Seq([content : Contents, base : Contents \cup {"none"}])
  /\ editor \in [Windows -> Models]
  /\ calls \subseteq Calls
  /\ acts \in 0..MaxActs /\ losses \in 0..MaxLosses /\ others \in 0..MaxJobs

\* No edit is overwritten unseen: whoever stored a revision had the previous one
\* before him -- also after lost answers, late answers of an earlier opening, a
\* regeneration that reads and writes in two steps, and with several windows
\* (editing.go:147 checks the revision; Editing.elm carries it from answer to
\* request).
EveryRevisionBuildsOnTheLast ==
  \A r \in DOMAIN versions : r > 1 => versions[r].base = versions[r - 1].content

\* A window is never mistaken about the server: what it takes for saved is what
\* the server holds, or once held, under that revision, and its own draft claims
\* no other revision (Editing.elm Saved, Undo and Regenerated).
WindowKnowsARevision ==
  \A w \in Windows : LET m == editor[w] IN
    m.draft # NoDraft =>
      /\ m.draft.revision = m.saved.revision
      /\ m.saved.revision \in DOMAIN versions
      /\ m.saved.content = versions[m.saved.revision].content

\* What is rendered is what the window showed when its user applied it: no older
\* save, nothing another window stored, and never a recording that the editor
\* refuses as too long -- which the server does not check (Editing.elm Apply,
\* editing.go:162).
AppliedAsShown ==
  \A snapshot \in {job, applied} :
    snapshot.content = snapshot.shown /\ snapshot.content \notin TooLong

\* While the server regenerates or applies a draft, the window neither holds
\* changes that the answer would throw away nor has a save under way
\* (Regenerated and Applied replace the whole draft).
NothingToLoseWhileTheServerWorks ==
  \A w \in Windows : LET m == editor[w] IN
    m.regenerating \/ m.applying => ~Dirty(m) /\ ~m.saving

\* An edit is saved, or the user is told that it is not, or he leaves the draft:
\* no order of timers, answers and clicks leaves it waiting for nothing.
Unsaved(w) == Dirty(editor[w]) /\ ~editor[w].error
EditIsSavedOrReported == \A w \in Windows : Unsaved(w) ~> ~Unsaved(w)

\* Every click on Apply comes to an end: the draft is applied or an error shown
\* and the editor unlocked.
ApplyEnds == \A w \in Windows :
  editor[w].applying \/ editor[w].pendingApply
    ~> ~(editor[w].applying \/ editor[w].pendingApply)

=============================================================================
