---------------------------- MODULE MCArtifacts ----------------------------
(***************************************************************************)
(* Artifacts for TLC: what earlier versions may have left in a directory.  *)
(***************************************************************************)
EXTENDS Artifacts

MinusOne == -1

NewInstall == [row |-> NoRow, jobs |-> << >>, home |-> NoDir]

Row(stage, status) == [NoRow EXCEPT !.stage = stage, !.status = status]
DoneJob(type)   == [NewJob(type) EXCEPT !.state = "done"]
Normalized(j)   == [by |-> j, cut |-> 0]
UploadedDir     == [EmptyDir EXCEPT !.original = "whole"]

\* A normalization waits for its review, its original still there, at the limit
\* of an adjustment.
AwaitingReview ==
  [row  |-> [Row("normalization", "done") EXCEPT !.settings.gate = maxAdjustment],
   jobs |-> <<[DoneJob("normalize") EXCEPT !.settings.gate = maxAdjustment]>>,
   home |-> [UploadedDir EXCEPT !.outputs[0] =
              [NoOutputs EXCEPT !.flac = Normalized(1), !.mp3 = Normalized(1), !.marker = 1]]]

\* A published sermon of the time before normalization.
Published ==
  [row |-> Row("metadata", "done"), jobs |-> <<DoneJob("transcribe")>>, home |-> UploadedDir]

\* An approval was interrupted while its sources were staged.
Approving ==
  [row  |-> Row("edit", "done"), jobs |-> <<DoneJob("normalize")>>,
   home |-> [EmptyDir EXCEPT !.outputs[0].marker = 1,
              !.approval = [original |-> TRUE, flac |-> Normalized(1), mp3 |-> Normalized(1)]]]

\* The current version at rest: a draft was prepared, and one edit applied.
Edited ==
  [row  |-> [Row("metadata", "done") EXCEPT !.draft = 1, !.playback = 2, !.active = TRUE,
                                            !.applied = 1],
   jobs |-> <<DoneJob("normalize"), [DoneJob("render_edit") EXCEPT !.draft = 1]>>,
   home |-> [EmptyDir EXCEPT
              !.outputs[0] = [NoOutputs EXCEPT !.flac = Normalized(1), !.mp3 = Normalized(1),
                                               !.marker = 1],
              !.outputs[2] = [NoOutputs EXCEPT !.flac = [by |-> 1, cut |-> 1],
                                               !.mp3 = [by |-> 1, cut |-> 1], !.marker = 2]]]

Upgraded    == {NewInstall, AwaitingReview, Published, Approving, Edited}
NewInstalls == {NewInstall}

=============================================================================
