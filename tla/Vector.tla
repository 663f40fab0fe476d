------------------------------- MODULE Vector -------------------------------
(***************************************************************************)
(* Vector, the planner of adaptive recon (vector/): the facts it is given, *)
(* the index it finds them by, and the actions it considers and selects.   *)
(*                                                                         *)
(* A service is known by its endpoint; a later observation replaces an     *)
(* earlier one.  Capabilities and endpoints are numbers in the order of    *)
(* their identities.  Left out, because no decision depends on them: the   *)
(* provenance and confidence of facts, the delta and the reasons in a      *)
(* decision, the index by port (recon's catalogue requires no port) and    *)
(* rules (recon registers none).                                           *)
(***************************************************************************)
EXTENDS Integers, FiniteSets

CONSTANTS
  Endpoints,
  Protocols,
  FactKeys,     \* <<entity, value>> of the facts that are no services
  Unknown,      \* no such service, no such fact
  Catalog,      \* capabilities: [verb, subject, requires, score]
  Allowed,      \* policy.allowed_actions; {} allows all
  MaxActions    \* policy.max_actions_per_round

Goal == 0       \* the target of an action on no endpoint in particular

Capabilities == DOMAIN Catalog

ASSUME EndpointsAreNotTheGoal == Endpoints \subseteq Int \ {Goal}
ASSUME CatalogIsRanked ==
  /\ Capabilities \subseteq Int
  /\ \A c \in Capabilities : Catalog[c].score \in Int
ASSUME MaxActionsIsNumber == MaxActions \in Nat

Actions == [capability : Capabilities, target : Endpoints \union {Goal}]

ASSUME ActionsAreFinite == IsFiniteSet(Actions)

ServiceRequirements(c) == {r \in Catalog[c].requires : r.entity = "service"}

VARIABLES
  services,    \* Unknown, or [protocol, state] of an endpoint
  byProtocol,  \* endpoints by protocol
  facts,       \* Unknown, or the state of a fact
  completed    \* actions not to be proposed again

stateVars == <<services, byProtocol, facts>>

InitVector ==
  /\ services = [e \in Endpoints |-> Unknown]
  /\ byProtocol = [p \in Protocols |-> {}]
  /\ facts = [k \in FactKeys |-> Unknown]
  /\ completed = {}

-----------------------------------------------------------------------------
\* Mutant: an endpoint stays in the index of its former protocol.
Index_KeepFormer(found) ==
  [p \in Protocols |->
     byProtocol[p] \union {e \in Endpoints : found[e] # Unknown /\ found[e].protocol = p}]

\* _ingest_service: the endpoint leaves the index of the protocol it had.
Index(found) ==
  [p \in Protocols |->
     {e \in Endpoints :
        \/ found[e] # Unknown /\ found[e].protocol = p
        \/ /\ e \in byProtocol[p]
           /\ (found[e] # Unknown => services[e].protocol # p)}]

\* ingest of one tool's observations: what was found at an endpoint, if
\* anything, and the states of facts.
Ingest(found, told) ==
  /\ services' = [e \in Endpoints |-> IF found[e] = Unknown THEN services[e] ELSE found[e]]
  /\ byProtocol' = Index(found)
  /\ facts' = [k \in FactKeys |-> IF told[k] = Unknown THEN facts[k] ELSE told[k]]

Matches(r) == {e \in byProtocol[r.value] : services[e].state = r.state}

Holds(r) ==
  IF r.entity = "service" THEN Matches(r) # {}
                          ELSE facts[<<r.entity, r.value>>] = r.state

Applicable == {c \in Capabilities : \A r \in Catalog[c].requires : Holds(r)}

Targets(c) ==
  IF ServiceRequirements(c) = {} THEN {Goal}
  ELSE {e \in Endpoints : \A r \in ServiceRequirements(c) : e \in Matches(r)}

\* Mutant: completed work is proposed again.
Candidates_Again ==
  {a \in Actions : /\ a.capability \in Applicable
                   /\ Catalog[a.capability].requires # {}
                   /\ a.target \in Targets(a.capability)}

Candidates ==
  {a \in Actions : /\ a.capability \in Applicable
                   /\ Catalog[a.capability].requires # {}
                   /\ a.target \in Targets(a.capability)
                   /\ a \notin completed}

MayDo(a) == Allowed = {} \/ a.capability \in Allowed

Considered == {a \in Candidates : MayDo(a)}

\* rank: by score, then by identity.
Before(a, b) ==
  LET left == Catalog[a.capability].score  right == Catalog[b.capability].score
  IN  \/ left > right
      \/ left = right /\ a.capability < b.capability
      \/ left = right /\ a.capability = b.capability /\ a.target < b.target

Best(S) == {a \in S : Cardinality({b \in S : Before(b, a)}) < MaxActions}

MarkCompleted(S) == completed' = completed \union S
=============================================================================
