----------------------------- MODULE JobRecord -----------------------------
(***************************************************************************)
(* Job records and what is aggregated over them (core/jobs.py and the      *)
(* result taxonomy of core/recon/outcomes.py).                             *)
(*                                                                         *)
(* An entry [n, outcome] is one execution result: n tells it from other    *)
(* entries.  A record has the status and summary aggregated over its       *)
(* steps, the steps and the results they were made from.  A file written   *)
(* by an older version may lack steps and summary.                         *)
(***************************************************************************)
EXTENDS Naturals, Sequences, FiniteSets, SequencesExt

ResultOutcomes == {"done", "negative", "skipped", "warning", "failed"}

CompletionStates == {"initialized", "completed", "completed_with_warnings", "partial", "failed"}

NoSummary == [step_count |-> 0]

StepStatus(outcome) ==
  CASE outcome = "failed"  -> "failed"
    [] outcome = "warning" -> "completed_with_warnings"
    [] OTHER               -> "completed"

\* Mutant: a run in which everything failed counts as partial.
DeriveCompletionState_AlwaysPartial(S) ==
  CASE S = {}                   -> "initialized"
    [] S = {"completed"}        -> "completed"
    [] "failed" \in S           -> "partial"
    [] OTHER                    -> "completed_with_warnings"

\* derive_completion_state of the set of step statuses: how often a status
\* occurs, and in which order, plays no part in it.
DeriveCompletionState(S) ==
  CASE S = {}                               -> "initialized"
    [] S = {"completed"}                    -> "completed"
    [] "failed" \in S                       ->
         IF S \intersect {"completed", "completed_with_warnings", "partial"} # {}
         THEN "partial" ELSE "failed"
    [] "failed" \notin S /\ "partial" \in S -> "partial"
    [] S \intersect {"failed", "partial"} = {} /\ "completed_with_warnings" \in S ->
         "completed_with_warnings"
    [] OTHER                                -> "initialized"

JobStatus(steps) == DeriveCompletionState({StepStatus(e.outcome) : e \in ToSet(steps)})

Count(steps, outcomes) == Cardinality({i \in DOMAIN steps : steps[i].outcome \in outcomes})

Summary(steps) ==
  [step_count      |-> Len(steps),
   completed_steps |-> Count(steps, {"done"}),
   negative_steps  |-> Count(steps, {"negative"}),
   skipped_steps   |-> Count(steps, {"skipped"}),
   warning_steps   |-> Count(steps, {"warning"}),
   failed_steps    |-> Count(steps, {"failed"})]

\* The records there may be of some entries.
JobsOf(S) ==
  [status : CompletionStates, steps : Seq(S), results : Seq(S),
   summary : [step_count : Nat, completed_steps : Nat, negative_steps : Nat,
              skipped_steps : Nat, warning_steps : Nat, failed_steps : Nat]]

\* The record that tells of these results and of nothing else.
JobOf(results) == [status  |-> JobStatus(results), steps   |-> results,
                   results |-> results,            summary |-> Summary(results)]

NewJob == [status |-> "initialized", steps |-> <<>>, results |-> <<>>, summary |-> Summary(<<>>)]

\* A record as it is loaded, old ones upgraded.
JobFromDict(file) ==
  LET steps  == IF file.steps = <<>> THEN file.results ELSE file.steps
      status == IF file.status \in CompletionStates THEN file.status ELSE "initialized"
  IN  [status  |-> IF status = "initialized" /\ steps # <<>> THEN JobStatus(steps) ELSE status,
       steps   |-> steps,
       results |-> file.results,
       summary |-> IF file.summary = NoSummary THEN Summary(steps) ELSE file.summary]

AppendResult(job, entry) ==
  LET steps == Append(job.steps, entry)
  IN  [status  |-> JobStatus(steps),
       steps   |-> steps,
       results |-> Append(job.results, entry),
       summary |-> Summary(steps)]
=============================================================================
