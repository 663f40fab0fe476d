------------------------------ MODULE PlanGraph ------------------------------
(***************************************************************************)
(* The shape of an execution plan (engine/models.py) and the grouping of   *)
(* its steps (engine/graph.py, engine/scheduler.py).                       *)
(*                                                                         *)
(* A plan is a sequence of step records, so that DOMAIN plan is the set of *)
(* plan indexes.  A step has                                               *)
(*   id     the identity the plan is validated on,                         *)
(*   deps   its StepDependency records [on, optional, needs]: the identity *)
(*          depended on, and the artifact kinds required from it,          *)
(*   tool, ip, group   what _effective_execution_group looks at: the       *)
(*          provider, whether the target is an address, execution_group,   *)
(*   max, backoff, retryable   its RetryPolicy; only whether there is a    *)
(*          backoff matters, not how long it is.                           *)
(***************************************************************************)
EXTENDS Naturals, Sequences, FiniteSets

\* The result taxonomy of core/recon/outcomes.py.
Outcomes == {"done", "negative", "skipped", "warning", "failed"}

Identities(plan, S) == {plan[s].id : s \in S}

DependsOn(plan, s) == {d.on : d \in plan[s].deps}

RequiredDeps(plan, s) == {d \in plan[s].deps : ~d.optional}

\* The artifact kinds a step requires, of whichever provider.
RequiredKinds(plan, s) == UNION {d.needs : d \in RequiredDeps(plan, s)}

-----------------------------------------------------------------------------
\* Mutant: one dependency in place is enough.
Ready_AnyOf(plan, remaining, completed) ==
  {s \in remaining : DependsOn(plan, s) = {} \/ DependsOn(plan, s) \intersect completed # {}}

\* dependency_waves: the indexes of `remaining` whose dependencies, required
\* and optional alike, are all among the identities already placed.
Ready(plan, remaining, completed) ==
  {s \in remaining : DependsOn(plan, s) \subseteq completed}

\* A legacy step without an execution group of its own gets one from its tool.
EffectiveGroup(step) ==
  IF step.group # 0 THEN step.group
  ELSE CASE step.tool = "ipintel"                             -> IF step.ip THEN 0 ELSE 1
         [] step.tool \in {"fingerprint", "whatweb", "katana"} -> 1
         [] step.tool = "rdap"                                -> 2
         [] step.tool = "nmap"                                -> IF step.ip THEN 1 ELSE 2
         [] OTHER                                             -> 0

HasDependencies(plan) == \E s \in DOMAIN plan : plan[s].deps # {}

\* The group that follows when the steps in `placed` have been grouped: the
\* next dependency wave, or the lowest execution group if no step of the plan
\* depends on another.  _plan_step_groups builds the list of all groups before
\* the loop over it starts; the plan is immutable, so that building the list
\* one group at a time is the same.
NextGroup(plan, placed) ==
  LET remaining == DOMAIN plan \ placed
  IN  IF HasDependencies(plan)
      THEN Ready(plan, remaining, Identities(plan, placed))
      ELSE {s \in remaining : \A t \in remaining :
              EffectiveGroup(plan[s]) <= EffectiveGroup(plan[t])}
=============================================================================
