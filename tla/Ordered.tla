------------------------------ MODULE Ordered ------------------------------
(***************************************************************************)
(* Finite sets put in order.  The program sorts slices with a comparison   *)
(* of two elements; where that comparison leaves no ties, which the users  *)
(* of this module see to, the result is the set listed in ascending order. *)
(***************************************************************************)
EXTENDS Integers, Sequences, FiniteSets

\* The elements of S that come before x.
Preceding(S, Before(_, _), x) == {y \in S : Before(y, x)}

\* The sequence of the elements of S: the nth has n - 1 elements before it.
InOrder(S, Before(_, _)) ==
  [n \in 1..Cardinality(S) |->
     CHOOSE x \in S : Cardinality(Preceding(S, Before, x)) = n - 1]

\* The elements of s at the places given, in their order.
Picked(s, places) ==
  LET kept[n \in 0..Len(s)] ==
        IF n = 0 THEN << >>
        ELSE IF n \in places THEN Append(kept[n - 1], s[n]) ELSE kept[n - 1]
  IN  kept[Len(s)]

=============================================================================
