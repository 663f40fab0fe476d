----------------------------- MODULE MCJobStore -----------------------------
(***************************************************************************)
(* The repository with jobs an older version left behind: results without  *)
(* steps or summary, and a status that is none any more.                   *)
(***************************************************************************)
EXTENDS JobStore

Symmetry == Permutations(Shells) \union Permutations(Ids)

Old(status, outcomes) ==
  [status  |-> status,
   steps   |-> <<>>,
   results |-> [i \in DOMAIN outcomes |-> [n |-> MaxEntries, outcome |-> outcomes[i]]],
   summary |-> NoSummary]

MCOldFiles == {Old("running", <<"done", "negative", "skipped", "warning">>)}
=============================================================================
