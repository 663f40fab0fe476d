------------------------------- MODULE MCClt --------------------------------
(***************************************************************************)
(* All sources of four lines, with two conditions: enough to close two     *)
(* blocks before an else, and to run both branches of a condition.         *)
(***************************************************************************)
EXTENDS Clt, TLC

Symmetry == Permutations(Conditions)
=============================================================================
