---------------------------- MODULE MCSelection ----------------------------
(***************************************************************************)
(* Selection for TLC: what becomes of the references that an answer of the *)
(* language model mentions, and beside it every short list of references   *)
(* that normalizeScriptures may be given.  The two share no state, so that *)
(* one stays at its first state while the other moves.                     *)
(***************************************************************************)
EXTENDS Selection

CONSTANT MaxMentions

VARIABLE mentioned   \* a list of references that is being read

-----------------------------------------------------------------------------
(* References to two chapters and a book as a whole *)

AllPassages == {"Genesis 1", "Mark 2", "Jude"}

Book == Reference("Jude", FALSE, << >>)
Genesis(start, end) == Reference("Genesis 1", TRUE, <<VerseRange(start, end)>>)
Mark2(start, end)   == Reference("Mark 2", TRUE, <<VerseRange(start, end)>>)
TwoPassages == Reference("Genesis 1", TRUE, <<VerseRange(3, 4), VerseRange(1, 1)>>)

Mentionable ==
  {Book, Reference("Genesis 1", TRUE, << >>), TwoPassages}
    \cup {Genesis(v[1], v[2]) : v \in {w \in (1..4) \X (1..4) : w[1] <= w[2]}}
    \cup {Reference("Mark 2", TRUE, << >>), Mark2(1, 1), Mark2(3, 3)}

\* Two readings with more candidates than options; one reading of two passages,
\* the second of which is a candidate; a chapter that is refused; nothing.
AllAnswers ==
  { [old |-> <<Genesis(1, 2)>>, new |-> <<Mark2(1, 1)>>,
     scriptures |-> <<Genesis(4, 4), Book, Genesis(1, 2), Mark2(3, 3)>>],
    [old |-> <<TwoPassages>>, new |-> << >>, scriptures |-> <<Genesis(1, 1), Book>>],
    [old |-> << >>, new |-> <<Reference("Mark 2", TRUE, << >>)>>, scriptures |-> <<Book>>],
    [old |-> << >>, new |-> << >>, scriptures |-> << >>] }

-----------------------------------------------------------------------------
(* One of the two moves *)

SelectionWaits == row = NoRow /\ request = NoRequest /\ toggles = 0 /\ extractions = 0

MentionNext ==
  /\ SelectionWaits
  /\ Len(mentioned) < MaxMentions
  /\ \E r \in Mentionable : mentioned' = Append(mentioned, r)
  /\ UNCHANGED vars

MCNext ==
  \/ Next /\ mentioned = << >> /\ UNCHANGED mentioned
  \/ MentionNext

MCInit == Init /\ mentioned = << >>

MCSpec == MCInit /\ [][MCNext]_<<vars, mentioned>> /\ Fairness

-----------------------------------------------------------------------------

\* normalizeScriptures (scriptures.go:33-35) "keeps the most specific references,
\* merges overlapping or contiguous verses, and retains first-mention order",
\* although it walks the chapters in the random order of a Go map.
NormalizedIsExact == IsMostSpecific(mentioned) /\ IsInOrder(mentioned)

=============================================================================
