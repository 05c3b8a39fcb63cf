----------------------------- MODULE MCEditDraft -----------------------------
(***************************************************************************)
(* EditDraft for TLC: the symmetry of windows and of ordinary contents.    *)
(***************************************************************************)
EXTENDS EditDraft, TLC

Symmetry == Permutations(Windows) \cup Permutations(Contents \ TooLong)

=============================================================================
