----------------------------- MODULE MCSession -----------------------------
(***************************************************************************)
(* Two jobs, two recon runs of up to two results, by a user who is root or *)
(* is not.                                                                 *)
(***************************************************************************)
EXTENDS Session

Symmetry == Permutations(Ids)
=============================================================================
