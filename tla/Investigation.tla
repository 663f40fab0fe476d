--------------------------- MODULE Investigation ---------------------------
(***************************************************************************)
(* Adaptive recon (engine/runner.py, _run_recon_iteratively, with recon's  *)
(* bridge to Vector, core/recon/vector_adapter.py): an essential plan, then*)
(* rounds of observing what the last plan brought, deciding, and running   *)
(* what was selected, until nothing is selected or the budget is spent.    *)
(*                                                                         *)
(* What the scheduler does with a plan is one step here, as Scheduler      *)
(* shows: if the run is not cancelled, it returns one result per step, in  *)
(* the order of the plan (ResultsAreComplete).  What the tools find is any *)
(* of what they can find.                                                  *)
(***************************************************************************)
EXTENDS Vector, Sequences

CONSTANTS
  States,     \* states nmap reports of a port
  MaxRounds   \* recon_round_limit

NmapFact == <<"discovery", "nmap">>

ASSUME MaxRoundsIsNumber == MaxRounds \in Nat
ASSUME ToolsSpeakOfThese ==
  {"unknown", "http", "https"} \subseteq Protocols /\ "open" \in States /\ NmapFact \in FactKeys

\* Every capability is of a kind build_followup_plan has a tool for.
ASSUME CatalogHasTools ==
  \A c \in Capabilities :
    LET verb == Catalog[c].verb  subject == Catalog[c].subject IN
    \/ verb = "collect"
    \/ /\ ServiceRequirements(c) # {}
       /\ \/ verb = "discover" /\ subject = "http_services"
          \/ verb \in {"probe", "fingerprint"} /\ subject \in {"http", "https"}
          \/ verb = "inspect" /\ subject \in {"tls", "smb"}

\* What a capability requires is something the tools can report.
ASSUME CatalogAsksOfThese ==
  \A c \in Capabilities : \A r \in Catalog[c].requires :
    IF r.entity = "service" THEN r.value \in Protocols /\ r.state \in States
                            ELSE <<r.entity, r.value>> \in FactKeys

ASSUME UnknownIsNoService == Unknown \notin [protocol : Protocols, state : States]

VARIABLES
  phase,      \* where the loop is
  evidence,   \* what the tools of the last plan found, still to be observed
  round,      \* round_number
  rounds,     \* the InvestigationRounds so far: [considered, selected]
  ran,        \* the actions of all_steps
  cancelled

vars == <<stateVars, completed, phase, evidence, round, rounds, ran, cancelled>>

Service(p, s) == [protocol |-> p, state |-> s]

NothingFound == [e \in Endpoints |-> Unknown]

NothingTold == [k \in FactKeys |-> Unknown]

Init ==
  /\ InitVector
  /\ phase = "essential"
  /\ evidence = <<>> /\ round = 1 /\ rounds = <<>> /\ ran = {} /\ cancelled = FALSE

-----------------------------------------------------------------------------
\* naabu reports ports open, and no protocol.
NaabuFinds ==
  {[found |-> [e \in Endpoints |-> IF e \in S THEN Service("unknown", "open") ELSE Unknown],
    told  |-> NothingTold] : S \in SUBSET Endpoints}

\* Open services only count.
DiscoveryState(ok, found) ==
  IF ~ok THEN "failed"
  ELSE IF \E e \in Endpoints : found[e] # Unknown /\ found[e].state = "open" THEN "available"
  ELSE "no_services"

\* nmap reports ports with state and protocol; it may fail having found some.
NmapFinds ==
  {[found |-> found, told |-> [NothingTold EXCEPT ![NmapFact] = DiscoveryState(ok, found)]] :
     ok \in BOOLEAN, found \in [Endpoints -> [protocol : Protocols, state : States] \union {Unknown}]}

\* The tool build_followup_plan gives an action; none drops it.
ToolOf(a) ==
  LET verb == Catalog[a.capability].verb  subject == Catalog[a.capability].subject
  IN  IF verb = "collect" THEN "ipintel"
      ELSE IF a.target = Goal THEN "none"
      ELSE CASE verb = "discover" /\ subject = "http_services"           -> "httpx"
             [] verb = "probe" /\ subject \in {"http", "https"}          -> "httpx"
             [] verb = "fingerprint" /\ subject \in {"http", "https"}    -> "fingerprint"
             [] verb = "inspect" /\ subject = "tls"                      -> "tls"
             [] verb = "inspect" /\ subject = "smb"                      -> "smbclient"
             [] OTHER                                                    -> "none"

FollowupPlan(selected) == {a \in selected : ToolOf(a) # "none"}

\* Of the tools of follow-ups only httpx brings what Vector looks at: that
\* an endpoint answered, with the scheme it answered to.
FollowupFinds(plan) ==
  {[found |-> found, told |-> NothingTold] :
     found \in {f \in [Endpoints -> {Service("http", "open"), Service("https", "open"), Unknown}] :
                  \A e \in Endpoints : f[e] # Unknown =>
                    \E a \in plan : a.target = e /\ ToolOf(a) = "httpx"}}

-----------------------------------------------------------------------------
\* The loop's condition; when cancelled the loop is left at once.
RoundsLeft == round <= MaxRounds

\* Mutant: results come in the order in which tools finish.
RunEssentialPlan_AsTheyFinish ==
  /\ phase = "essential"
  /\ \/ /\ \E naabu \in {<<n>> : n \in NaabuFinds} \union {<<>>},
              nmap \in {<<n>> : n \in NmapFinds} \union {<<>>} : evidence' \in {naabu \o nmap, nmap \o naabu}
        /\ phase' = "observe"
        /\ UNCHANGED cancelled
     \/ /\ cancelled' = TRUE
        /\ phase' = "done"
        /\ UNCHANGED evidence
  /\ UNCHANGED <<stateVars, completed, round, rounds, ran>>

\* build_essential_recon_plan and its run: naabu, then nmap, of those that
\* are enabled; or Ctrl-C in a wave, and whatever results are left are not
\* looked at.
RunEssentialPlan ==
  /\ phase = "essential"
  /\ \/ /\ \E naabu \in {<<n>> : n \in NaabuFinds} \union {<<>>},
              nmap \in {<<n>> : n \in NmapFinds} \union {<<>>} : evidence' = naabu \o nmap
        /\ phase' = "observe"
        /\ UNCHANGED cancelled
     \/ /\ cancelled' = TRUE
        /\ phase' = "done"
        /\ UNCHANGED evidence
  /\ UNCHANGED <<stateVars, completed, round, rounds, ran>>

\* No round is left; what the last plan brought is not looked at.
OutOfRounds ==
  /\ phase = "observe" /\ ~RoundsLeft
  /\ phase' = "done"
  /\ UNCHANGED <<stateVars, completed, evidence, round, rounds, ran, cancelled>>

\* vector.observe takes in what one tool found.
Observe ==
  /\ phase = "observe" /\ RoundsLeft /\ evidence # <<>>
  /\ Ingest(Head(evidence).found, Head(evidence).told)
  /\ evidence' = Tail(evidence)
  /\ UNCHANGED <<completed, phase, round, rounds, ran, cancelled>>

\* Mutant: all that was considered is marked completed, not what was selected.
Decide_MarkConsidered ==
  LET selected == Best(Considered)
  IN  /\ phase = "observe" /\ RoundsLeft /\ evidence = <<>>
      /\ rounds' = Append(rounds, [considered |-> Considered, selected |-> selected])
      /\ MarkCompleted(Considered)
      /\ phase' = IF FollowupPlan(selected) = {} THEN "done" ELSE "execute"
      /\ UNCHANGED <<stateVars, evidence, round, ran, cancelled>>

\* The decision of the round, and what it has selected marked completed; the
\* loop ends when that makes no step.
Decide ==
  LET selected == Best(Considered)
  IN  /\ phase = "observe" /\ RoundsLeft /\ evidence = <<>>
      /\ rounds' = Append(rounds, [considered |-> Considered, selected |-> selected])
      /\ MarkCompleted(selected)
      /\ phase' = IF FollowupPlan(selected) = {} THEN "done" ELSE "execute"
      /\ UNCHANGED <<stateVars, evidence, round, ran, cancelled>>

\* The follow-up plan is run, or cancelled in a wave.
RunFollowupPlan ==
  LET plan == FollowupPlan(rounds[Len(rounds)].selected)
  IN  /\ phase = "execute"
      /\ \/ /\ \E finds \in FollowupFinds(plan) : evidence' = <<finds>>
            /\ phase' = "observe"
            /\ UNCHANGED cancelled
         \/ /\ cancelled' = TRUE
            /\ phase' = "done"
            /\ UNCHANGED evidence
      /\ ran' = ran \union plan
      /\ round' = round + 1
      /\ UNCHANGED <<stateVars, completed, rounds>>

\* Ctrl-C outside a wave, or an error: the run is gone with its results.
Escape ==
  /\ phase \notin {"done", "escaped"}
  /\ phase' = "escaped"
  /\ UNCHANGED <<stateVars, completed, evidence, round, rounds, ran, cancelled>>

Next ==
  \/ RunEssentialPlan \/ OutOfRounds \/ Observe \/ Decide \/ RunFollowupPlan
  \/ Escape

Spec == Init /\ [][Next]_vars

-----------------------------------------------------------------------------
Findings == [Endpoints -> [protocol : Protocols, state : States] \union {Unknown}]

Told == [FactKeys -> {"failed", "no_services", "available", Unknown}]

Batches == [found : Findings, told : Told]

Rounds == [considered : SUBSET Actions, selected : SUBSET Actions]

TypeOK ==
  /\ services \in Findings /\ facts \in Told
  /\ byProtocol \in [Protocols -> SUBSET Endpoints]
  /\ completed \subseteq Actions /\ ran \subseteq Actions
  /\ phase \in {"essential", "observe", "execute", "done", "escaped"}
  /\ evidence \in Seq(Batches)
  /\ round \in 1 .. MaxRounds + 1
  /\ rounds \in Seq(Rounds)
  /\ cancelled \in BOOLEAN

(* Whatever the tools say in whatever order, an endpoint is in the index of
   the protocol it is now known by, and in no other: a stale entry would
   send a tool to a service that is not there (state.py:145-150). *)
IndexAgrees ==
  \A e \in Endpoints, p \in Protocols :
    e \in byProtocol[p] <=> services[e] # Unknown /\ services[e].protocol = p

\* What the facts, and not the index, say can be done.
Enabled(a) ==
  LET requires == Catalog[a.capability].requires IN
  /\ requires # {}
  /\ a.target = Goal <=> ServiceRequirements(a.capability) = {}
  /\ \A r \in requires :
       IF r.entity = "service" THEN services[a.target] = Service(r.value, r.state)
                               ELSE facts[<<r.entity, r.value>>] = r.state

(* An investigation that ends within its budget has left nothing undone: all
   that the evidence enables and the policy permits was run by a tool.  No
   branch is hidden by evidence that came after it (vector.py:65-68). *)
NothingOverlooked ==
  phase = "done" /\ ~cancelled /\ round <= MaxRounds =>
    \A a \in Actions : Enabled(a) /\ MayDo(a) => MaxActions = 0 \/ a \in ran

(* No action is taken in two rounds, even if it is enabled again by evidence
   that overturned other evidence (Vector.mark_completed). *)
NoActionTwice ==
  \A i, j \in DOMAIN rounds : i # j => rounds[i].selected \intersect rounds[j].selected = {}

(* Evidence never takes back what is known of a service: once its protocol
   was identified, it is not "unknown" again.  Naabu knows no protocols, so
   this rests on results being observed in the order of the plan, not in
   that in which tools finish (state.py:28, scheduler.py:113). *)
ProtocolsOnlyImprove ==
  [][\A e \in Endpoints :
       services[e] # Unknown /\ services[e].protocol # "unknown" =>
         services'[e].protocol # "unknown"]_vars
=============================================================================
