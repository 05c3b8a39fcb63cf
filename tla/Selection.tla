------------------------------ MODULE Selection ------------------------------
(***************************************************************************)
(* The scripture references of a sermon: extracted by MetadataHandler,     *)
(* selected from in a window of the web client, saved by                   *)
(* handleSaveScriptures.                                                   *)
(*                                                                         *)
(* The handler reads the row, then the request, and writes readings and    *)
(* options back as it read them; an extraction may commit in between.  It  *)
(* never looks at its connection: when that breaks the window gives the    *)
(* save up, and the handler goes on and may write after the next one.  The *)
(* window keeps a draft of the selection while a save is under way.  That  *)
(* events reach the window is EventStream's concern: here it may take over *)
(* the row at any time.                                                    *)
(***************************************************************************)
EXTENDS Scriptures

CONSTANTS
  Answers,              \* what the language model may answer
  maxScriptureOptions,  \* 6
  MaxToggles, MaxExtractions, MaxFailures  \* bounds

VARIABLES
  row,         \* readings, options and selection of the sermon
  request,     \* the PUT that the window awaits
  lost,        \* handlers of the PUTs whose connection broke
  window,      \* the window's copy of the sermon and its state
  wanted,      \* history: what the user had chosen, since the offer changed last
  undone,      \* history: a lost handler stored its selection last
  toggles, extractions, failures

vars == <<row, request, lost, window, wanted, undone, toggles, extractions, failures>>

\* A selection of two readings has room among the options.
ASSUME AnswersAssumption ==
  Answers \subseteq [old : Seq(References), new : Seq(References), scriptures : Seq(References)]
ASSUME LimitsAssumption ==
  /\ maxScriptureOptions \in Nat /\ maxScriptureOptions >= 2
  /\ MaxToggles \in Nat /\ MaxExtractions \in Nat /\ MaxFailures \in Nat

-----------------------------------------------------------------------------
(* MetadataHandler.Run: readings, selection and options *)

UpTo(n, s) == SubSeq(s, 1, Smaller(n, Len(s)))
Without(s, others) == Picked(s, {i \in DOMAIN s : s[i] \notin ToSet(others)})

\* A reading is a sequence of one reference, or empty.  Only the first passage
\* of a reading counts.
Reading(reading) == UpTo(1, normalizeScriptures(reading))

OptionsOfCandidates(selected, candidates) ==                        \* mutant
  UpTo(maxScriptureOptions, candidates \o Without(selected, candidates))
OptionsOf(selected, candidates) ==
  UpTo(maxScriptureOptions, selected \o Without(candidates, selected))

Extracted(a) ==
  LET old      == Reading(a.old)
      new      == Reading(a.new)
      selected == normalizeScriptures(old \o new)
  IN  [old |-> old, new |-> new, selected |-> selected,
       options |-> OptionsOf(selected, normalizeScriptures(a.scriptures))]

Accepts(a) == validateScriptureVerseReferences(a.old \o a.new \o a.scriptures)

Extractions == {Extracted(a) : a \in {x \in Answers : Accepts(x)}}

NoRow == [old |-> << >>, new |-> << >>, selected |-> << >>, options |-> << >>]

Request(state, selection, read) == [state |-> state, selection |-> selection, sermon |-> read]
NoRequest == Request("none", << >>, NoRow)
NoDraft   == << >>

\* An earlier version stored a selection without options.
Init ==
  /\ row \in {NoRow} \cup Extractions
                     \cup {[NoRow EXCEPT !.selected = normalizeScriptures(a.scriptures)] :
                              a \in Answers}
  /\ request = NoRequest
  /\ window = [sermon |-> row, draft |-> NoDraft, saving |-> FALSE, error |-> FALSE]
  /\ lost = [b \in 1..MaxFailures |-> NoRequest]
  /\ wanted = NoDraft /\ undone = FALSE
  /\ toggles = 0 /\ extractions = 0 /\ failures = 0

Extract ==
  /\ extractions < MaxExtractions
  /\ extractions' = extractions + 1
  /\ row' \in Extractions
  /\ wanted' = NoDraft /\ undone' = FALSE
  /\ UNCHANGED <<request, lost, window, toggles, failures>>

-----------------------------------------------------------------------------
(* handleSaveScriptures *)

Available(sermon) == IF sermon.options # << >> THEN sermon.options ELSE sermon.selected

\* Api.scriptureOptions
Offered(sermon) ==
  LET readings == sermon.old \o sermon.new
  IN  UpTo(maxScriptureOptions, readings \o Without(Available(sermon), readings))

Unique(s) == \A i, j \in DOMAIN s : i # j => s[i] # s[j]

SelectionOnly(read, selection) == [row EXCEPT !.selected = selection]  \* mutant
Saved(read, selection) ==
  [read EXCEPT !.selected = selection, !.options = Available(read)]

Allowed(read, selection) ==
  ToSet(selection) \subseteq ToSet(Available(read)) /\ Unique(selection)

\* GetSermon, before the body is decoded.
ReadSermon ==
  /\ request.state = "sent"
  /\ request' = Request("read", request.selection, row)
  /\ UNCHANGED <<row, lost, window, wanted, undone, toggles, extractions, failures>>

SaveScriptureSelection ==
  /\ request.state = "read"
  /\ IF Allowed(request.sermon, request.selection)
     THEN /\ row' = Saved(request.sermon, request.selection)
          /\ request' = Request("saved", request.selection, NoRow)
          /\ undone' = FALSE
     ELSE /\ request' = Request("failed", << >>, NoRow)
          /\ UNCHANGED <<row, undone>>
  /\ UNCHANGED <<lost, window, wanted, toggles, extractions, failures>>

\* The second GetSermon, for the answer.
Reload ==
  /\ request.state = "saved"
  /\ request' = Request("answered", request.selection, row)
  /\ UNCHANGED <<row, lost, window, wanted, undone, toggles, extractions, failures>>

StoreFails ==
  /\ failures < MaxFailures
  /\ failures' = failures + 1
  /\ request.state \in {"sent", "read", "saved"}
  /\ request' = Request("failed", << >>, NoRow)
  /\ UNCHANGED <<row, lost, window, wanted, undone, toggles, extractions>>

\* The window sees an error at once; the handler, if it gets the request, goes on.
ConnectionBreaks ==
  /\ failures < MaxFailures
  /\ failures' = failures + 1
  /\ request.state \in {"sent", "read", "saved", "answered"}
  /\ request' = Request("failed", << >>, NoRow)
  /\ lost' = IF request.state \in {"sent", "read"}
             THEN [lost EXCEPT ![failures + 1] = request] ELSE lost
  /\ UNCHANGED <<row, window, wanted, undone, toggles, extractions>>

LostReads(b) ==
  /\ lost[b].state = "sent"
  /\ lost' = [lost EXCEPT ![b] = Request("read", lost[b].selection, row)]
  /\ UNCHANGED <<row, request, window, wanted, undone, toggles, extractions, failures>>

\* It may bring readings and options of before the last extraction back.
LostSaves(b) ==
  /\ lost[b].state = "read"
  /\ lost' = [lost EXCEPT ![b] = NoRequest]
  /\ IF Allowed(lost[b].sermon, lost[b].selection)
     THEN /\ row' = Saved(lost[b].sermon, lost[b].selection)
          /\ undone' = TRUE
          /\ wanted' = IF Offered(row') = Offered(row) THEN wanted ELSE NoDraft
     ELSE UNCHANGED <<row, undone, wanted>>
  /\ UNCHANGED <<request, window, toggles, extractions, failures>>

-----------------------------------------------------------------------------
(* The window: Main.elm, Api.elm *)

Chosen(draft, sermon) ==
  LET offered == Offered(sermon)
  IN  Picked(offered, {i \in DOMAIN offered : offered[i] \in draft})

Send(selection) == request' = Request("sent", selection, NoRow)

Refresh ==
  /\ window.sermon # row
  /\ window' = [window EXCEPT !.sermon = row]
  /\ UNCHANGED <<row, request, lost, wanted, undone, toggles, extractions, failures>>

ToggleScripture(reference) ==
  LET current == IF window.draft = NoDraft THEN ToSet(window.sermon.selected)
                                           ELSE window.draft[1]
      updated == IF reference \in current THEN current \ {reference} ELSE current \cup {reference}
  IN  /\ toggles < MaxToggles
      /\ toggles' = toggles + 1
      /\ wanted' = IF Offered(window.sermon) = Offered(row) /\ (window.saving => wanted # NoDraft)
                   THEN <<updated>> ELSE NoDraft
      /\ window' = [window EXCEPT !.draft = <<updated>>, !.error = FALSE, !.saving = TRUE]
      /\ IF window.saving THEN UNCHANGED request ELSE Send(Chosen(updated, window.sermon))
      /\ UNCHANGED <<row, lost, undone, extractions, failures>>

DropsLaterToggles(submitted, sermon) == submitted                    \* mutant
\* What is to be saved next, once the submitted selection is.
Latest(submitted, sermon) ==
  IF window.draft = NoDraft THEN submitted ELSE Chosen(window.draft[1], sermon)

ScriptureSaveFinished ==
  /\ request.state = "answered"
  /\ LET latest == Latest(request.selection, request.sermon)
     IN  IF latest = request.selection
         THEN /\ window' = [sermon |-> request.sermon, draft |-> NoDraft,
                            saving |-> FALSE, error |-> FALSE]
              /\ request' = NoRequest
         ELSE /\ window' = [window EXCEPT !.sermon = request.sermon, !.error = FALSE]
              /\ Send(latest)
  /\ UNCHANGED <<row, lost, wanted, undone, toggles, extractions, failures>>

KeepsSaving == [window EXCEPT !.error = TRUE]                         \* mutant
SaveFailed == [window EXCEPT !.saving = FALSE, !.error = TRUE]

ScriptureSaveFailed ==
  /\ request.state = "failed"
  /\ window' = SaveFailed
  /\ request' = NoRequest
  /\ UNCHANGED <<row, lost, wanted, undone, toggles, extractions, failures>>

RetryScriptureSave ==
  /\ window.error
  /\ window' = [window EXCEPT !.saving = TRUE, !.error = FALSE]
  /\ Send(IF window.draft = NoDraft THEN window.sermon.selected
          ELSE Chosen(window.draft[1], window.sermon))
  /\ UNCHANGED <<row, lost, wanted, undone, toggles, extractions, failures>>

Handles == ReadSermon \/ SaveScriptureSelection \/ Reload
Fails == StoreFails \/ ConnectionBreaks
GoesOn == \E b \in 1..MaxFailures : LostReads(b) \/ LostSaves(b)
Answered == ScriptureSaveFinished \/ ScriptureSaveFailed
Clicks == RetryScriptureSave \/ \E reference \in ToSet(Offered(window.sermon)) : ToggleScripture(reference)

Next == Extract \/ Handles \/ Fails \/ GoesOn \/ Refresh \/ Answered \/ Clicks

Spec == Init /\ [][Next]_vars

\* The server answers what it got and the client handles what it is answered; a
\* request whose connection broke may never have reached the server.
Fairness == WF_vars(Handles) /\ WF_vars(Answered)
LiveSpec == Spec /\ Fairness

-----------------------------------------------------------------------------
(* Properties *)

\* A selection is always one of what the sermon offers, each reference once, so
\* that it can be saved again: also when an extraction commits between the two
\* steps of a save (server.go:339-374 writes readings and options back for this),
\* and when a handler whose connection broke writes after a later save.
SelectionIsAvailable ==
  /\ ToSet(row.selected) \subseteq ToSet(Available(row))
  /\ Unique(row.selected)

\* Whatever the window offers of a sermon the server takes: the client puts the
\* readings first and cuts the list at six (Api.elm:312), the handler compares
\* with the stored options (server.go:355-371).  Readings of one chapter would be
\* merged into an option of their own, hence the condition.
OfferedIsAccepted ==
  (row.old # << >> /\ row.new # << >> => row.old[1].passage # row.new[1].passage)
    => ToSet(Offered(row)) \subseteq ToSet(Available(row))

\* When the window shows no error and no save under way, the stored selection is
\* what the user chose, toggles made during a save included; what a late answer
\* no longer offers is left out (Main.elm:302-364).  The exception is a save whose
\* connection broke: its handler goes on and may store an older selection over that
\* of the next save, which the window learns from the event alone (server.go:374).
ToggleIsNotLost ==
  wanted # NoDraft /\ ~window.saving /\ ~window.error /\ ~undone
    => ToSet(row.selected) = wanted[1] \cap ToSet(Offered(row))

\* A save comes to an end, in the stored selection or in an error that can be
\* retried: while it is under way every other toggle waits for it.
SavingEnds == window.saving ~> ~window.saving

=============================================================================
