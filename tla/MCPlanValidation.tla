--------------------------- MODULE MCPlanValidation ---------------------------
(***************************************************************************)
(* Every plan of Length steps with names from 11 on (no name is an index), *)
(* in which a step may depend on any of Length names and on 10, which no   *)
(* step has: duplicate names, unknown dependencies, self-dependencies and  *)
(* cycles included.                                                        *)
(***************************************************************************)
EXTENDS PlanValidation

CONSTANT Length

StepRecord(i, D) ==
  [id |-> i, deps |-> {[on |-> d, optional |-> FALSE, needs |-> {}] : d \in D}]

StepRecords == {StepRecord(i, D) : i \in 11 .. 10 + Length, D \in SUBSET (10 .. 10 + Length)}

MCPlans == [1 .. Length -> StepRecords]
=============================================================================
