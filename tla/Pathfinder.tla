----------------------------- MODULE Pathfinder -----------------------------
(***************************************************************************)
(* How the executable of an external tool is found (pathfinder/).          *)
(*                                                                         *)
(* A directory holds, under the name of the executable, nothing, the       *)
(* program that is meant ("right"), or another one of the same name or a   *)
(* broken one ("wrong").  The identity check of a tool runs the program    *)
(* it found, and may run into its timeout.                                 *)
(***************************************************************************)
EXTENDS Naturals, Sequences

CONSTANTS
  Tools,
  Checked,     \* the tools of which check_args are configured
  ManagedBin,  \* ~/.local/bin, where Blackline puts what it builds
  Nowhere      \* no directory

ASSUME CheckedAreTools == Checked \subseteq Tools

First(S) == CHOOSE i \in S : \A j \in S : i <= j

\* Where discover_candidates looks, in order: which finds the first on PATH.
Directories(path) == Append(path, ManagedBin)

Candidates(holds, path) ==
  {i \in DOMAIN Directories(path) : holds[Directories(path)[i]] # "none"}

\* validate_candidate, where the programs in the directories "answering"
\* answer in time.
IsValid(tool, holds, dir, answering) ==
  tool \in Checked => holds[dir] = "right" /\ dir \in answering

\* Mutant: the first candidate is the only one.
Require_FirstHitWins(tool, holds, path, answering) ==
  LET candidates == Candidates(holds, path)
      dir(S)     == Directories(path)[First(S)]
  IN  IF candidates = {} THEN [path |-> Nowhere, valid |-> FALSE]
      ELSE [path |-> dir(candidates), valid |-> IsValid(tool, holds, dir(candidates), answering)]

\* Pathfinder.require: the first candidate that is valid, or else the first.
Require(tool, holds, path, answering) ==
  LET candidates == Candidates(holds, path)
      dir(S)     == Directories(path)[First(S)]
      valid      == {i \in candidates : IsValid(tool, holds, Directories(path)[i], answering)}
  IN  IF valid # {} THEN [path |-> dir(valid), valid |-> TRUE]
      ELSE [path |-> IF candidates = {} THEN Nowhere ELSE dir(candidates), valid |-> FALSE]
=============================================================================
