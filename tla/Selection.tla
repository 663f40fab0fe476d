------------------------------ MODULE Selection ------------------------------
(***************************************************************************)
(* What a loop that skips some of the elements of a list makes of it,      *)
(* defined without recursion.                                              *)
(***************************************************************************)
EXTENDS Naturals, FiniteSets

\* The elements of a sequence at some of its places, in their order: the n-th
\* is the one at the place with n of these places up to it.
AtPlaces(seq, places) ==
  LET rank(i) == Cardinality({j \in places : j <= i})
  IN  [n \in 1..Cardinality(places) |-> seq[CHOOSE i \in places : rank(i) = n]]
=============================================================================
