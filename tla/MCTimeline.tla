----------------------------- MODULE MCTimeline -----------------------------
(***************************************************************************)
(* Timeline for TLC: transcriptions of a recording of ten units, and a     *)
(* draft of the first version.                                             *)
(***************************************************************************)
EXTENDS Timeline

Said(start, end, speaker) ==
  [start |-> start, end |-> end, speaker |-> speaker, said |-> TRUE]

\* A long pause between two speakers.
Paused == [segments |-> <<Said(1, 3, 1), Said(7, 9, 2)>>,
           words    |-> <<Said(1, 2, 1), Said(2, 3, 1), Said(7, 8, 2),
                          [Said(8, 9, 2) EXCEPT !.said = FALSE]>>]

\* Turns closer than breakpoints may be, and words over their ends.
Close == [segments |-> <<Said(0, 3, 1), Said(4, 6, 2), Said(6, 10, 1)>>,
          words    |-> <<Said(0, 3, 1), Said(4, 6, 2), Said(5, 7, 2), Said(8, 10, 1)>>]

\* One segment without turns.
Monologue == [segments |-> <<Said(0, 10, 1)>>,
              words    |-> <<Said(0, 3, 1), Said(3, 5, 1), Said(5, 7, 1), Said(7, 10, 1)>>]

\* Two speak at once, one has no name, and the last is heard beyond the end.
Crowd == [segments |-> <<Said(0, 5, 1), Said(1, 2, 2), Said(6, 7, 0), Said(8, 10, 1),
                         Said(12, 13, 1)>>,
          words    |-> <<Said(1, 2, 2), Said(3, 5, 1), Said(6, 7, 0), Said(8, 10, 1)>>]

\* Segments alone, as some models return them.
WithoutWords == [segments |-> <<Said(2, 4, 1), Said(8, 10, 1)>>, words |-> << >>]

AllTranscripts == {Paused, Close, Monologue, Crowd, WithoutWords}

\* Neither edits nor generated times, and a kind that is no longer generated.
FirstVersion ==
  [breakpoints |-> <<Mark(0, "start", FALSE, Never), Mark(3, "speaker", FALSE, Never),
                     Mark(7, "silence_end", FALSE, Never), Mark(10, "end", FALSE, Never)>>,
   keep |-> <<FALSE, TRUE, TRUE>>]
FirstVersions == {FirstVersion}

=============================================================================
