------------------------------- MODULE PlanRun -------------------------------
(***************************************************************************)
(* What executing a plan promises, without threads, waves, futures, stores *)
(* or event logs: steps run at most MaxConcurrency at a time, each only    *)
(* after everything it depends on has a verdict; a step is passed over     *)
(* only for cause; and the run is closed only when nothing runs and        *)
(* nothing was left out, unless it was cancelled.  A run the user breaks   *)
(* off may be abandoned at any time.                                       *)
(***************************************************************************)
EXTENDS PlanGraph

CONSTANTS Plans, Kinds, MaxConcurrency

VARIABLES
  plan,
  phase,      \* of each step: "waiting", "running" or "over"
  verdict,    \* its outcome and artifact kinds; outcome "none" before the end
  cancelled,
  run         \* "open", "closed" or "abandoned"

vars == <<plan, phase, verdict, cancelled, run>>

None     == [outcome |-> "none", kinds |-> {}]
Skipped  == [outcome |-> "skipped", kinds |-> {}]
Verdicts == [outcome : Outcomes, kinds : SUBSET Kinds]

Running   == {s \in DOMAIN plan : phase[s] = "running"}
Over(s)   == phase[s] = "over"
Bad(s)    == Over(s) /\ verdict[s].outcome \in {"failed", "skipped"}
Available == UNION {verdict[s].kinds : s \in {t \in DOMAIN plan : Over(t)}}

Init ==
  /\ plan \in Plans
  /\ phase = [s \in DOMAIN plan |-> "waiting"]
  /\ verdict = [s \in DOMAIN plan |-> None]
  /\ cancelled \in BOOLEAN
  /\ run = "open"

Satisfied(s) ==
  /\ \A t \in DependsOn(plan, s) : Over(t)
  /\ \A d \in RequiredDeps(plan, s) : ~Bad(d.on)
  /\ RequiredKinds(plan, s) \subseteq Available

Launch(s) ==
  /\ phase[s] = "waiting"
  /\ Satisfied(s)
  /\ Cardinality(Running) < MaxConcurrency
  /\ phase' = [phase EXCEPT ![s] = "running"]
  /\ UNCHANGED <<plan, verdict, cancelled, run>>

\* A running step gets its verdict, or none if it was interrupted.
Conclude(s) ==
  /\ phase[s] = "running"
  /\ phase' = [phase EXCEPT ![s] = "over"]
  /\ \E v \in Verdicts \union {None} : verdict' = [verdict EXCEPT ![s] = v]
  /\ UNCHANGED <<plan, cancelled, run>>

PassOver(S) ==
  /\ S # {}
  /\ \A s \in S : /\ phase[s] = "waiting"
                  /\ \/ cancelled
                     \/ \E d \in RequiredDeps(plan, s) : Bad(d.on)
                     \/ ~ (RequiredKinds(plan, s) \subseteq Available)
  /\ phase' = [s \in DOMAIN plan |-> IF s \in S THEN "over" ELSE phase[s]]
  /\ verdict' = [s \in DOMAIN plan |-> IF s \in S THEN Skipped ELSE verdict[s]]
  /\ UNCHANGED <<plan, cancelled, run>>

Cancel ==
  /\ ~cancelled
  /\ cancelled' = TRUE
  /\ UNCHANGED <<plan, phase, verdict, run>>

Close ==
  /\ run = "open"
  /\ Running = {}
  /\ cancelled \/ \A s \in DOMAIN plan : Over(s)
  /\ run' = "closed"
  /\ UNCHANGED <<plan, phase, verdict, cancelled>>

Abandon ==
  /\ run = "open"
  /\ run' = "abandoned"
  /\ UNCHANGED <<plan, phase, verdict, cancelled>>

Next ==
  \/ \E s \in DOMAIN plan : run # "closed" /\ (Launch(s) \/ Conclude(s))
  \/ \E S \in SUBSET DOMAIN plan : run # "closed" /\ PassOver(S)
  \/ Cancel \/ Close \/ Abandon

Spec == Init /\ [][Next]_vars
=============================================================================
