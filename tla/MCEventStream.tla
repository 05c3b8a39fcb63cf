---------------------------- MODULE MCEventStream ----------------------------
(***************************************************************************)
(* EventStream for TLC: the symmetry of windows, and rows whose fourth     *)
(* version says what the second said: failed, retried, failed alike.       *)
(***************************************************************************)
EXTENDS EventStream, TLC

Recurring == [s \in Sermons |-> [v \in 1..MaxVersion |-> IF v = 4 THEN 2 ELSE v]]
Symmetry == Permutations(Windows)

=============================================================================
