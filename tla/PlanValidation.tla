---------------------------- MODULE PlanValidation ----------------------------
(***************************************************************************)
(* validate_plan_graph and dependency_waves (engine/graph.py): a plan is   *)
(* rejected for duplicate identities, then for unknown dependencies, then  *)
(* for a cycle; otherwise its steps are laid out in topological waves.     *)
(* One PeelWave step is one iteration of the loop of dependency_waves.     *)
(* The names are apart from those of Scheduler, which executes the plan    *)
(* once it is valid (execute_plan).                                        *)
(***************************************************************************)
EXTENDS PlanGraph

CONSTANT Submitted      \* the plans that may be submitted for execution

ASSUME SubmittedAreSequences ==
  \A p \in Submitted : Len(p) \in Nat /\ DOMAIN p = 1 .. Len(p)

VARIABLES
  graph,      \* the plan under validation
  stage,      \* what the validator is at, or how it ended
  remaining,  \* indexes not yet placed in a wave
  completed,  \* identities of the placed ones
  waves       \* the waves so far

validationVars == <<graph, stage, remaining, completed, waves>>

Verdicts == {"valid", "duplicate", "unknown", "cycle"}

ValidationInit ==
  /\ graph \in Submitted
  /\ stage = "identities"
  /\ remaining = DOMAIN graph
  /\ completed = {}
  /\ waves = <<>>

HasDuplicates(p) ==
  \E s, t \in DOMAIN p : s # t /\ p[s].id = p[t].id

\* Mutant: a step passes if one of its dependencies is known.
HasUnknown_AllOf(p) ==
  \E s \in DOMAIN p : /\ DependsOn(p, s) # {}
                     /\ DependsOn(p, s) \intersect Identities(p, DOMAIN p) = {}

HasUnknown(p) ==
  \E s \in DOMAIN p : ~ (DependsOn(p, s) \subseteq Identities(p, DOMAIN p))

CheckIdentities ==
  /\ stage = "identities"
  /\ stage' = IF HasDuplicates(graph) THEN "duplicate" ELSE "references"
  /\ UNCHANGED <<graph, remaining, completed, waves>>

CheckReferences ==
  /\ stage = "references"
  /\ stage' = IF HasUnknown(graph) THEN "unknown" ELSE "waves"
  /\ UNCHANGED <<graph, remaining, completed, waves>>

PeelWave ==
  LET ready == Ready(graph, remaining, completed)
  IN  /\ stage = "waves"
      /\ ready # {}
      /\ waves' = Append(waves, ready)
      /\ remaining' = remaining \ ready
      /\ completed' = completed \union Identities(graph, ready)
      /\ UNCHANGED <<graph, stage>>

\* Mutant: a wave without steps is not noticed and the loop spins.
RejectCycle_Never == FALSE /\ UNCHANGED validationVars

RejectCycle ==
  /\ stage = "waves"
  /\ remaining # {}
  /\ Ready(graph, remaining, completed) = {}
  /\ stage' = "cycle"
  /\ UNCHANGED <<graph, remaining, completed, waves>>

Accept ==
  /\ stage = "waves"
  /\ remaining = {}
  /\ stage' = "valid"
  /\ UNCHANGED <<graph, remaining, completed, waves>>

ValidationNext == CheckIdentities \/ CheckReferences \/ PeelWave \/ RejectCycle \/ Accept

Validation == ValidationInit /\ [][ValidationNext]_validationVars /\ WF_validationVars(ValidationNext)

-----------------------------------------------------------------------------
ValidationTypeOK ==
  /\ graph \in Submitted
  /\ stage \in {"identities", "references", "waves"} \union Verdicts
  /\ remaining \subseteq DOMAIN graph
  /\ completed \subseteq Identities(graph, DOMAIN graph)
  /\ waves \in Seq(SUBSET (DOMAIN graph))

\* The index of the wave a placed step is in.
WaveOf(s) == CHOOSE k \in DOMAIN waves : s \in waves[k]

(* A set of steps each of which waits for another of the set: no order of
   execution satisfies it.  This is what a cycle means, stated without the
   algorithm that looks for one. *)
Deadlocked(p, S) ==
  S # {} /\ \A s \in S : \E t \in S : p[t].id \in DependsOn(p, s)

(* dependency_waves returns every step in exactly one wave, strictly after
   the waves of all the steps it depends on, and not a wave later than its
   dependencies force (graph.py:32-50: "stable topological waves"). *)
ValidPlansAreLayered ==
  stage = "valid" =>
    /\ UNION {waves[k] : k \in DOMAIN waves} = DOMAIN graph
    /\ \A j, k \in DOMAIN waves : j # k => waves[j] \intersect waves[k] = {}
    /\ \A s \in DOMAIN graph, t \in DOMAIN graph :
         graph[t].id \in DependsOn(graph, s) => WaveOf(t) < WaveOf(s)
    /\ \A s \in DOMAIN graph : WaveOf(s) > 1 =>
         \E t \in waves[WaveOf(s) - 1] : graph[t].id \in DependsOn(graph, s)

(* A plan is accepted only if its identities are unique, its dependencies
   known and no set of its steps waits on itself; it is rejected as cyclic
   only if such a set exists (graph.py:11-29). *)
VerdictIsRight ==
  /\ stage = "valid" => /\ ~HasDuplicates(graph)
                        /\ ~HasUnknown(graph)
                        /\ ~ \E S \in SUBSET DOMAIN graph : Deadlocked(graph, S)
  /\ stage = "cycle" => Deadlocked(graph, remaining)

\* Validation always comes to a verdict: each iteration places a step or ends.
Decides == <>(stage \in Verdicts)
=============================================================================
