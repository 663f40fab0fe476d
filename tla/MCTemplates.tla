---------------------------- MODULE MCTemplates ----------------------------
(***************************************************************************)
(* Three sources, two of which stand for one name.  Sources that compile   *)
(* are only told apart.                                                    *)
(***************************************************************************)
EXTENDS Templates, TLC

CONSTANTS first, second, broken

MCNameOf == [p \in Paths |-> IF p = "audit" THEN "audit" ELSE "hello"]

Symmetry == Permutations(Valid)
=============================================================================
