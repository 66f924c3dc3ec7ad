-------------------------------- MODULE Ordering --------------------------------
(***************************************************************************)
(* The elements of a finite set in an order: what sorted() makes of them.  *)
(* The order is given as the set of its pairs, so that what is true of the *)
(* sequence can be stated of any order.                                    *)
(***************************************************************************)
EXTENDS Integers, Sequences, FiniteSets

\* How many elements of S come before x.
Place(S, before, x) == Cardinality({y \in S : <<y, x>> \in before})

InOrder(S, before) ==
  [i \in 1..Cardinality(S) |-> CHOOSE x \in S : Place(S, before, x) = i - 1]

\* Before is a strict order of S in which any two elements have one that is first.
Total(S, before) ==
  /\ \A x \in S : <<x, x>> \notin before
  /\ \A x, y \in S : x = y \/ <<x, y>> \in before \/ <<y, x>> \in before
  /\ \A x, y, z \in S : <<x, y>> \in before /\ <<y, z>> \in before => <<x, z>> \in before
=============================================================================
