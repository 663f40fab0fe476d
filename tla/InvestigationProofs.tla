------------------------ MODULE InvestigationProofs ------------------------
(***************************************************************************)
(* What holds of adaptive recon for every set of endpoints, catalogue and  *)
(* budget, and whatever the tools find.                                    *)
(***************************************************************************)
EXTENDS Investigation, FiniteSetTheorems, TLAPS

Facts == [protocol : Protocols, state : States]

\* What the tools find has its type.
LEMMA FindingsType ==
  /\ NaabuFinds \subseteq Batches
  /\ NmapFinds \subseteq Batches
  /\ \A plan : FollowupFinds(plan) \subseteq Batches
<1>1. NothingTold \in Told
  BY DEF NothingTold, Told
<1>2. \A p \in Protocols, s \in States : Service(p, s) \in Facts
  BY DEF Service, Facts
<1>3. \A p \in {"unknown", "http", "https"} : Service(p, "open") \in Facts
  BY <1>2, ToolsSpeakOfThese
<1>4. NaabuFinds \subseteq Batches
  <2>1. \A S \in SUBSET Endpoints :
          [e \in Endpoints |-> IF e \in S THEN Service("unknown", "open") ELSE Unknown] \in Findings
    BY <1>3 DEF Findings, Facts
  <2> QED BY <1>1, <2>1 DEF NaabuFinds, Batches
<1>5. NmapFinds \subseteq Batches
  <2>1. \A ok, found : DiscoveryState(ok, found) \in {"failed", "no_services", "available"}
    BY DEF DiscoveryState
  <2>2. \A ok, found : [NothingTold EXCEPT ![NmapFact] = DiscoveryState(ok, found)] \in Told
    BY <1>1, <2>1 DEF Told
  <2> QED BY <2>2 DEF NmapFinds, Batches, Findings, Facts
<1>6. \A plan : FollowupFinds(plan) \subseteq Batches
  <2>1. {Service("http", "open"), Service("https", "open"), Unknown} \subseteq Facts \union {Unknown}
    BY <1>3
  <2>2. \A f \in [Endpoints -> {Service("http", "open"), Service("https", "open"), Unknown}] : f \in Findings
    BY <2>1 DEF Findings, Facts
  <2> QED BY <1>1, <2>2 DEF FollowupFinds, Batches
<1> QED
  BY <1>4, <1>5, <1>6

LEMMA ConsideredAreActions == Considered \subseteq Actions /\ Best(Considered) \subseteq Considered
BY DEF Considered, Candidates, Best

-----------------------------------------------------------------------------
\* Decisions are counted by round, and a plan is run only in a round that is
\* within the budget.
Counting ==
  /\ phase = "essential" => round = 1
  /\ phase \in {"essential", "observe"} => Len(rounds) = round - 1
  /\ phase = "execute" => Len(rounds) = round /\ round <= MaxRounds

LEMMA InitType == Init => TypeOK /\ Counting
<1> SUFFICES ASSUME Init PROVE TypeOK /\ Counting
  OBVIOUS
<1> USE DEF Init, InitVector
<1>1. services \in Findings /\ facts \in Told
  BY DEF Findings, Told
<1>2. evidence \in Seq(Batches) /\ rounds \in Seq(Rounds) /\ Len(rounds) = 0
  OBVIOUS
<1>3. round \in 1 .. MaxRounds + 1
  BY MaxRoundsIsNumber
<1>4. byProtocol \in [Protocols -> SUBSET Endpoints]
  OBVIOUS
<1>5. TypeOK
  BY <1>1, <1>2, <1>3, <1>4 DEF TypeOK
<1>6. Counting
  BY <1>2 DEF Counting
<1> QED
  BY <1>5, <1>6

LEMMA EssentialType ==
  TypeOK /\ Counting /\ RunEssentialPlan => TypeOK' /\ Counting'
<1> SUFFICES ASSUME TypeOK, Counting, RunEssentialPlan PROVE TypeOK' /\ Counting'
  OBVIOUS
<1>1. evidence' \in Seq(Batches)
  <2>1. CASE UNCHANGED evidence
    BY <2>1 DEF TypeOK
  <2>2. CASE \E naabu \in {<<n>> : n \in NaabuFinds} \union {<<>>},
                nmap \in {<<n>> : n \in NmapFinds} \union {<<>>} : evidence' = naabu \o nmap
    <3>1. PICK naabu \in {<<n>> : n \in NaabuFinds} \union {<<>>},
               nmap \in {<<n>> : n \in NmapFinds} \union {<<>>} : evidence' = naabu \o nmap
      BY <2>2
    <3>2. \A n \in NaabuFinds \union NmapFinds : <<n>> \in Seq(Batches)
      BY FindingsType
    <3>3. <<>> \in Seq(Batches)
      OBVIOUS
    <3>4. naabu \in Seq(Batches)
      BY <3>2, <3>3
    <3>5. nmap \in Seq(Batches)
      BY <3>2, <3>3
    <3> QED BY <3>1, <3>4, <3>5
  <2> QED BY <2>1, <2>2 DEF RunEssentialPlan
<1>2. phase = "essential" /\ phase' \in {"observe", "done"} /\ cancelled' \in BOOLEAN
  BY DEF RunEssentialPlan, TypeOK
<1> QED
  BY <1>1, <1>2 DEF RunEssentialPlan, TypeOK, Counting, stateVars

LEMMA ObserveType == TypeOK /\ Counting /\ Observe => TypeOK' /\ Counting'
<1> SUFFICES ASSUME TypeOK, Counting, Observe PROVE TypeOK' /\ Counting'
  OBVIOUS
<1>1. evidence \in Seq(Batches) /\ evidence # <<>>
  BY DEF TypeOK, Observe
<1>2. Head(evidence) \in Batches /\ Tail(evidence) \in Seq(Batches)
  BY <1>1
<1>3. Head(evidence).found \in Findings /\ Head(evidence).told \in Told
  BY <1>2 DEF Batches
<1>4. services' \in Findings
  BY <1>3 DEF TypeOK, Observe, Ingest, Findings
<1>5. facts' \in Told
  BY <1>3 DEF TypeOK, Observe, Ingest, Told
<1>6. byProtocol' \in [Protocols -> SUBSET Endpoints]
  BY DEF Observe, Ingest, Index
<1> QED
  BY <1>2, <1>4, <1>5, <1>6 DEF Observe, TypeOK, Counting

LEMMA DecideType == TypeOK /\ Counting /\ Decide => TypeOK' /\ Counting'
<1> SUFFICES ASSUME TypeOK, Counting, Decide PROVE TypeOK' /\ Counting'
  OBVIOUS
<1>1. [considered |-> Considered, selected |-> Best(Considered)] \in Rounds
  BY ConsideredAreActions DEF Rounds
<1>2. rounds' \in Seq(Rounds) /\ Len(rounds') = Len(rounds) + 1
  BY <1>1 DEF Decide, TypeOK
<1>3. completed' \subseteq Actions
  BY ConsideredAreActions DEF Decide, MarkCompleted, TypeOK
<1>4. round <= MaxRounds /\ phase = "observe" /\ phase' \in {"done", "execute"}
  BY DEF Decide, RoundsLeft
<1>5. round \in Nat /\ Len(rounds) \in Nat
  BY DEF TypeOK
<1> QED
  BY <1>2, <1>3, <1>4, <1>5 DEF Decide, TypeOK, Counting, stateVars

LEMMA FollowupType == TypeOK /\ Counting /\ RunFollowupPlan => TypeOK' /\ Counting'
<1> SUFFICES ASSUME TypeOK, Counting, RunFollowupPlan PROVE TypeOK' /\ Counting'
  OBVIOUS
<1> DEFINE plan == FollowupPlan(rounds[Len(rounds)].selected)
<1>1. evidence' \in Seq(Batches)
  <2>1. CASE UNCHANGED evidence
    BY <2>1 DEF TypeOK
  <2>2. CASE \E finds \in FollowupFinds(plan) : evidence' = <<finds>>
    BY <2>2, FindingsType
  <2> QED BY <2>1, <2>2 DEF RunFollowupPlan
<1>2. /\ round \in Nat /\ rounds \in Seq(Rounds)
      /\ phase = "execute" /\ Len(rounds) = round /\ round <= MaxRounds
  BY DEF TypeOK, Counting, RunFollowupPlan
<1>3. round \in 1 .. MaxRounds + 1
  BY DEF TypeOK
<1>4. rounds[Len(rounds)] \in Rounds
  BY <1>2, <1>3
<1>5. plan \subseteq Actions
  BY <1>4 DEF FollowupPlan, Rounds
<1>6. ran' \subseteq Actions
  BY <1>5 DEF RunFollowupPlan, TypeOK
<1>7. phase' \in {"observe", "done"} /\ cancelled' \in BOOLEAN
  BY DEF RunFollowupPlan, TypeOK
<1>8. round' = round + 1
  BY DEF RunFollowupPlan
<1>9. round' \in 1 .. MaxRounds + 1
  BY <1>2, <1>3, <1>8, MaxRoundsIsNumber
<1> QED
  BY <1>1, <1>2, <1>6, <1>7, <1>8, <1>9 DEF RunFollowupPlan, TypeOK, Counting, stateVars

LEMMA StepType == TypeOK /\ Counting /\ [Next]_vars => TypeOK' /\ Counting'
<1> SUFFICES ASSUME TypeOK, Counting, [Next]_vars PROVE TypeOK' /\ Counting'
  OBVIOUS
<1>1. CASE OutOfRounds
  BY <1>1 DEF OutOfRounds, TypeOK, Counting, stateVars
<1>2. CASE Escape
  BY <1>2 DEF Escape, TypeOK, Counting, stateVars
<1>3. CASE UNCHANGED vars
  BY <1>3 DEF vars, TypeOK, Counting, stateVars
<1> QED
  BY <1>1, <1>2, <1>3, EssentialType, ObserveType, DecideType, FollowupType DEF Next

(* Everything in an investigation has its type, and it never runs a round
   beyond its budget (_run_recon_iteratively). *)
THEOREM TypeCorrect == Spec => []TypeOK
<1>1. Init => TypeOK /\ Counting
  BY InitType
<1>2. TypeOK /\ Counting /\ [Next]_vars => (TypeOK /\ Counting)'
  BY StepType
<1> QED
  BY <1>1, <1>2, PTL DEF Spec

-----------------------------------------------------------------------------
LEMMA IndexStep == TypeOK /\ IndexAgrees /\ [Next]_vars => IndexAgrees'
<1> SUFFICES ASSUME TypeOK, IndexAgrees, [Next]_vars PROVE IndexAgrees'
  OBVIOUS
<1>1. CASE Observe
  <2> DEFINE found == Head(evidence).found
  <2>1. SUFFICES ASSUME NEW e \in Endpoints, NEW p \in Protocols
                 PROVE  e \in byProtocol'[p] <=> services'[e] # Unknown /\ services'[e].protocol = p
    BY DEF IndexAgrees
  <2>2. e \in byProtocol'[p] <=>
          \/ found[e] # Unknown /\ found[e].protocol = p
          \/ e \in byProtocol[p] /\ (found[e] # Unknown => services[e].protocol # p)
    BY <1>1 DEF Observe, Ingest, Index
  <2>3. services'[e] = IF found[e] = Unknown THEN services[e] ELSE found[e]
    BY <1>1 DEF Observe, Ingest
  <2>4. e \in byProtocol[p] <=> services[e] # Unknown /\ services[e].protocol = p
    BY DEF IndexAgrees
  <2> HIDE DEF found
  <2> QED BY <2>2, <2>3, <2>4
<1>2. CASE UNCHANGED stateVars
  BY <1>2 DEF IndexAgrees, stateVars
<1> QED
  BY <1>1, <1>2 DEF Next, RunEssentialPlan, OutOfRounds, Decide, RunFollowupPlan, Escape, vars

(* The index by protocol and the facts agree, whatever is observed. *)
THEOREM IndexCorrect == Spec => []IndexAgrees
<1>1. Init => IndexAgrees
  BY DEF Init, InitVector, IndexAgrees
<1>2. TypeOK /\ IndexAgrees /\ [Next]_vars => IndexAgrees'
  BY IndexStep
<1> QED
  BY <1>1, <1>2, TypeCorrect, PTL DEF Spec

-----------------------------------------------------------------------------
\* What was selected is completed, and what is completed is not selected.
Carried ==
  /\ \A i \in DOMAIN rounds : rounds[i].selected \subseteq completed
  /\ NoActionTwice

LEMMA CarriedStep == TypeOK /\ Carried /\ [Next]_vars => Carried'
<1> SUFFICES ASSUME TypeOK, Carried, [Next]_vars PROVE Carried'
  OBVIOUS
<1>1. CASE Decide
  <2> DEFINE selected == Best(Considered)
             n == Len(rounds) + 1
  <2>1. rounds \in Seq(Rounds) /\ Len(rounds) \in Nat
    BY DEF TypeOK
  <2>2. rounds' = Append(rounds, [considered |-> Considered, selected |-> selected])
    BY <1>1 DEF Decide
  <2>3. /\ DOMAIN rounds = 1 .. Len(rounds) /\ DOMAIN rounds' = 1 .. n
        /\ rounds'[n].selected = selected
        /\ \A i \in DOMAIN rounds : rounds'[i] = rounds[i]
    BY <2>1, <2>2
  <2>4. \A i \in DOMAIN rounds' : i = n \/ i \in DOMAIN rounds
    BY <2>1, <2>3
  <2>5. completed' = completed \union selected
    BY <1>1 DEF Decide, MarkCompleted
  <2>6. selected \intersect completed = {}
    BY ConsideredAreActions DEF Considered, Candidates
  <2>7. \A i \in DOMAIN rounds : rounds[i].selected \subseteq completed
    BY DEF Carried
  <2> HIDE DEF n, selected
  <2>8. \A i \in DOMAIN rounds' : rounds'[i].selected \subseteq completed'
    BY <2>3, <2>4, <2>5, <2>7
  <2>9. NoActionTwice'
    <3> SUFFICES ASSUME NEW i \in DOMAIN rounds', NEW j \in DOMAIN rounds', i # j
                 PROVE  rounds'[i].selected \intersect rounds'[j].selected = {}
      BY DEF NoActionTwice
    <3>1. CASE i \in DOMAIN rounds /\ j \in DOMAIN rounds
      BY <3>1, <2>3 DEF Carried, NoActionTwice
    <3>2. CASE i = n /\ j \in DOMAIN rounds
      BY <3>2, <2>3, <2>6, <2>7
    <3>3. CASE i \in DOMAIN rounds /\ j = n
      BY <3>3, <2>3, <2>6, <2>7
    <3> QED BY <3>1, <3>2, <3>3, <2>4
  <2> QED BY <2>8, <2>9 DEF Carried
<1>2. CASE UNCHANGED <<rounds, completed>>
  BY <1>2 DEF Carried, NoActionTwice
<1> QED
  BY <1>1, <1>2 DEF Next, RunEssentialPlan, OutOfRounds, Observe, RunFollowupPlan, Escape, vars

(* No action is selected in two rounds. *)
THEOREM WorkDoneOnce == Spec => []NoActionTwice
<1>1. Init => Carried
  BY DEF Init, InitVector, Carried, NoActionTwice
<1>2. TypeOK /\ Carried /\ [Next]_vars => Carried'
  BY CarriedStep
<1>3. Carried => NoActionTwice
  BY DEF Carried
<1> QED
  BY <1>1, <1>2, <1>3, TypeCorrect, PTL DEF Spec

-----------------------------------------------------------------------------
IsVague(finding) == finding = Unknown \/ finding.protocol = "unknown"

\* Evidence without a protocol waits only where nothing is identified, and
\* behind no evidence that identifies something.
VagueFirst ==
  /\ phase = "essential" => evidence = <<>> /\ \A e \in Endpoints : services[e] = Unknown
  /\ \A i \in DOMAIN evidence, e \in Endpoints :
       evidence[i].found[e] # Unknown /\ evidence[i].found[e].protocol = "unknown" =>
         /\ IsVague(services[e])
         /\ \A j \in 1 .. i - 1 : IsVague(evidence[j].found[e])

LEMMA EssentialVague == VagueFirst /\ RunEssentialPlan => VagueFirst'
<1> SUFFICES ASSUME VagueFirst, RunEssentialPlan PROVE VagueFirst'
  OBVIOUS
<1>1. /\ phase' # "essential" /\ evidence = <<>> /\ services' = services
      /\ \A e \in Endpoints : services[e] = Unknown
  BY DEF VagueFirst, RunEssentialPlan, stateVars
<1>2. CASE UNCHANGED evidence
  BY <1>1, <1>2 DEF VagueFirst
<1>3. CASE \E naabu \in {<<n>> : n \in NaabuFinds} \union {<<>>},
              nmap \in {<<n>> : n \in NmapFinds} \union {<<>>} : evidence' = naabu \o nmap
  <2>1. PICK naabu \in {<<n>> : n \in NaabuFinds} \union {<<>>},
             nmap \in {<<n>> : n \in NmapFinds} \union {<<>>} : evidence' = naabu \o nmap
    BY <1>3
  <2>2. \A n \in NaabuFinds, e \in Endpoints : IsVague(n.found[e])
    BY DEF NaabuFinds, IsVague, Service
  <2>3. CASE naabu = <<>>
    <3>1. DOMAIN evidence' \subseteq {1}
      BY <2>1, <2>3
    <3> QED BY <1>1, <3>1 DEF VagueFirst, IsVague
  <2>4. CASE naabu # <<>>
    <3>1. PICK n \in NaabuFinds : naabu = <<n>>
      BY <2>4
    <3>2. DOMAIN evidence' \subseteq {1, 2} /\ evidence'[1] = n
      BY <2>1, <3>1
    <3> QED BY <1>1, <2>2, <3>2 DEF VagueFirst, IsVague
  <2> QED BY <2>3, <2>4
<1> QED
  BY <1>2, <1>3 DEF RunEssentialPlan

LEMMA ObserveVague == TypeOK /\ VagueFirst /\ Observe => VagueFirst'
<1> SUFFICES ASSUME TypeOK, VagueFirst, Observe PROVE VagueFirst'
  OBVIOUS
<1>1. evidence \in Seq(Batches) /\ evidence # <<>> /\ phase' # "essential"
  BY DEF TypeOK, Observe
<1>2. /\ \A i \in DOMAIN evidence' : i + 1 \in DOMAIN evidence /\ evidence'[i] = evidence[i + 1]
      /\ 1 \in DOMAIN evidence /\ evidence[1] = Head(evidence)
      /\ DOMAIN evidence' \subseteq Nat
  BY <1>1 DEF Observe
<1>3. SUFFICES ASSUME NEW i \in DOMAIN evidence', NEW e \in Endpoints,
                      evidence'[i].found[e] # Unknown,
                      evidence'[i].found[e].protocol = "unknown"
               PROVE  /\ IsVague(services'[e])
                      /\ \A j \in 1 .. i - 1 : IsVague(evidence'[j].found[e])
  BY <1>1 DEF VagueFirst, IsVague
<1>4. /\ IsVague(services[e])
      /\ \A j \in 1 .. i : IsVague(evidence[j].found[e])
  <2>1. i + 1 \in DOMAIN evidence /\ evidence'[i] = evidence[i + 1] /\ i \in Nat
    BY <1>2
  <2>2. \A j \in 1 .. i : j \in 1 .. (i + 1) - 1
    BY <2>1
  <2> QED BY <1>3, <2>1, <2>2 DEF VagueFirst
<1>5. 1 \in 1 .. i /\ i \in Nat
  BY <1>1 DEF Observe
<1>6. IsVague(services'[e])
  <2>1. services'[e] = IF evidence[1].found[e] = Unknown THEN services[e] ELSE evidence[1].found[e]
    BY <1>2 DEF Observe, Ingest
  <2> QED BY <1>4, <1>5, <2>1 DEF IsVague
<1>7. \A j \in 1 .. i - 1 : IsVague(evidence'[j].found[e])
  <2>1. SUFFICES ASSUME NEW j \in 1 .. i - 1 PROVE IsVague(evidence'[j].found[e])
    OBVIOUS
  <2>2. j \in DOMAIN evidence' /\ j + 1 \in 1 .. i
    BY <1>1, <1>5 DEF Observe
  <2> QED BY <1>2, <1>4, <2>2
<1> QED
  BY <1>6, <1>7

LEMMA VagueStep == TypeOK /\ VagueFirst /\ [Next]_vars => VagueFirst'
<1> SUFFICES ASSUME TypeOK, VagueFirst, [Next]_vars PROVE VagueFirst'
  OBVIOUS
<1>1. CASE RunFollowupPlan
  <2>1. services' = services /\ phase' # "essential"
    BY <1>1 DEF RunFollowupPlan, stateVars
  <2>2. CASE UNCHANGED evidence
    BY <2>1, <2>2 DEF VagueFirst
  <2>3. CASE \E finds \in FollowupFinds(FollowupPlan(rounds[Len(rounds)].selected)) :
               evidence' = <<finds>>
    <3>1. PICK finds \in FollowupFinds(FollowupPlan(rounds[Len(rounds)].selected)) :
            evidence' = <<finds>>
      BY <2>3
    <3>2. \A e \in Endpoints : finds.found[e] # Unknown => finds.found[e].protocol # "unknown"
      BY DEF FollowupFinds, Service
    <3>3. \A i \in DOMAIN evidence' : evidence'[i] = finds
      BY <3>1
    <3> QED BY <2>1, <3>2, <3>3 DEF VagueFirst
  <2> QED BY <1>1, <2>2, <2>3 DEF RunFollowupPlan
<1>2. CASE UNCHANGED <<services, evidence>> /\ (phase' = "essential" => phase = "essential")
  BY <1>2 DEF VagueFirst
<1> QED
  BY <1>1, <1>2, EssentialVague, ObserveVague
     DEF Next, OutOfRounds, Decide, Escape, vars, stateVars

LEMMA ImproveStep ==
  ASSUME TypeOK, VagueFirst, [Next]_vars, NEW e \in Endpoints,
         services[e] # Unknown, services[e].protocol # "unknown"
  PROVE  services'[e].protocol # "unknown"
<1>1. CASE Observe
  <2>1. evidence \in Seq(Batches) /\ evidence # <<>>
    BY <1>1 DEF TypeOK, Observe
  <2>2. 1 \in DOMAIN evidence /\ evidence[1] = Head(evidence)
    BY <2>1
  <2>3. services'[e] = IF evidence[1].found[e] = Unknown THEN services[e] ELSE evidence[1].found[e]
    BY <1>1, <2>2 DEF Observe, Ingest
  <2> QED BY <2>2, <2>3 DEF VagueFirst, IsVague
<1>2. CASE UNCHANGED services
  BY <1>2
<1> QED
  BY <1>1, <1>2
     DEF Next, RunEssentialPlan, OutOfRounds, Decide, RunFollowupPlan, Escape, vars, stateVars

(* A service that was identified stays identified. *)
THEOREM IdentificationKept == Spec => ProtocolsOnlyImprove
<1>1. Init => VagueFirst
  BY DEF Init, InitVector, VagueFirst
<1>2. TypeOK /\ VagueFirst /\ [Next]_vars => VagueFirst'
  BY VagueStep
<1>3. TypeOK /\ VagueFirst /\ [Next]_vars =>
        [\A e \in Endpoints :
           services[e] # Unknown /\ services[e].protocol # "unknown" =>
             services'[e].protocol # "unknown"]_vars
  BY ImproveStep
<1> QED
  BY <1>1, <1>2, <1>3, TypeCorrect, PTL DEF Spec, ProtocolsOnlyImprove

-----------------------------------------------------------------------------
\* Where there is something to choose from, something is chosen.
LEMMA BestNotEmpty ==
  ASSUME NEW S \in SUBSET Actions, S # {}, MaxActions > 0
  PROVE  Best(S) # {}
<1> DEFINE Better(a) == {b \in S : Before(b, a)}
           T == {Better(a) : a \in S}
           R == StrictSubsetOrdering(Actions)
<1>1. IsFiniteSet(S) /\ \A a \in S : Better(a) \subseteq Actions /\ IsFiniteSet(Better(a))
  BY ActionsAreFinite, FS_Subset
<1>2. T # {} /\ T \subseteq FiniteSubsetsOf(Actions)
  BY <1>1 DEF FiniteSubsetsOf
<1>3. PICK B \in T : \A C \in T : <<C, B>> \notin R
  <2>1. IsWellFoundedOn(R, FiniteSubsetsOf(Actions))
    BY FS_StrictSubsetOrderingWellFounded
  <2> HIDE DEF T, R
  <2> QED BY <1>2, <2>1, WFMin
<1>4. PICK a \in S : B = Better(a)
  BY <1>3
<1>5. Better(a) = {}
  <2> SUFFICES ASSUME NEW b \in Better(a) PROVE FALSE
    OBVIOUS
  <2>1. b \in S /\ Before(b, a)
    OBVIOUS
  <2>2. \A x \in S : /\ x.capability \in Int /\ Catalog[x.capability].score \in Int
                     /\ x.target \in Int
    <3> SUFFICES ASSUME NEW x \in S
                 PROVE  x.capability \in Int /\ Catalog[x.capability].score \in Int /\ x.target \in Int
      OBVIOUS
    <3>1. x.capability \in Capabilities /\ x.target \in Endpoints \union {Goal}
      BY DEF Actions
    <3>2. x.target \in Int
      <4>1. CASE x.target \in Endpoints
        BY <4>1, EndpointsAreNotTheGoal
      <4>2. CASE x.target = 0
        BY <4>2
      <4> QED BY <3>1, <4>1, <4>2 DEF Goal
    <3>3. x.capability \in Int /\ Catalog[x.capability].score \in Int
      BY <3>1, CatalogIsRanked
    <3> QED BY <3>2, <3>3
  <2>3. ~Before(b, b)
    BY <2>1, <2>2 DEF Before
  <2>4. ASSUME NEW x \in S, Before(x, b) PROVE Before(x, a)
    BY <2>1, <2>2, <2>4 DEF Before
  <2>5. Better(b) \subseteq Better(a) /\ b \notin Better(b)
    BY <2>3, <2>4
  <2>6. Better(b) # Better(a)
    BY <2>5
  <2>7. Better(b) \in T /\ Better(b) \in SUBSET Actions /\ Better(a) \in SUBSET Actions
    BY <2>1
  <2> HIDE DEF Better, T
  <2> QED BY <1>3, <1>4, <2>5, <2>6, <2>7 DEF StrictSubsetOrdering
<1>6. Cardinality({b \in S : Before(b, a)}) < MaxActions
  BY <1>5, FS_EmptySet, MaxActionsIsNumber
<1> QED
  BY <1>6 DEF Best

\* No action that is considered is dropped for want of a tool.
LEMMA ConsideredHasTool == \A a \in Considered : ToolOf(a) # "none"
<1> SUFFICES ASSUME NEW a \in Considered PROVE ToolOf(a) # "none"
  OBVIOUS
<1>1. a.capability \in Capabilities /\ a.target \in Targets(a.capability)
  BY DEF Considered, Candidates, Actions
<1>2. ServiceRequirements(a.capability) # {} => a.target # Goal
  BY <1>1, EndpointsAreNotTheGoal DEF Targets
<1> DEFINE verb == Catalog[a.capability].verb
           subject == Catalog[a.capability].subject
<1>3. \/ verb = "collect"
      \/ /\ a.target # Goal
         /\ \/ verb = "discover" /\ subject = "http_services"
            \/ verb \in {"probe", "fingerprint"} /\ subject \in {"http", "https"}
            \/ verb = "inspect" /\ subject \in {"tls", "smb"}
  BY <1>1, <1>2, CatalogHasTools
<1>4. CASE verb = "collect"
  BY <1>4 DEF ToolOf
<1>5. CASE verb # "collect"
  <2>1. CASE verb = "discover" /\ subject = "http_services"
    BY <1>3, <1>5, <2>1 DEF ToolOf
  <2>2. CASE verb = "probe" /\ subject \in {"http", "https"}
    BY <1>3, <1>5, <2>2 DEF ToolOf
  <2>3. CASE verb = "fingerprint" /\ subject \in {"http", "https"}
    BY <1>3, <1>5, <2>3 DEF ToolOf
  <2>4. CASE verb = "inspect" /\ subject \in {"tls", "smb"}
    BY <1>3, <1>5, <2>4 DEF ToolOf
  <2> QED BY <1>3, <1>5, <2>1, <2>2, <2>3, <2>4
<1> QED
  BY <1>4, <1>5

LEMMA PlanIsSelection == FollowupPlan(Best(Considered)) = Best(Considered)
BY ConsideredHasTool, ConsideredAreActions DEF FollowupPlan

\* What the facts enable is a candidate, or was completed.
LEMMA EnabledIsCandidate ==
  ASSUME TypeOK, IndexAgrees, NEW a \in Actions, Enabled(a)
  PROVE  a \in Candidates \union completed
<1> DEFINE c == a.capability
<1>1. c \in Capabilities /\ Catalog[c].requires # {} /\ a.target \in Endpoints \union {Goal}
  BY DEF Actions, Enabled
<1>2. ASSUME NEW r \in ServiceRequirements(c) PROVE a.target \in Endpoints /\ a.target \in Matches(r)
  <2>1. r \in Catalog[c].requires /\ r.entity = "service"
    BY <1>2 DEF ServiceRequirements
  <2>2. a.target \in Endpoints
    BY <1>1, <1>2 DEF Enabled
  <2>3. services[a.target] = Service(r.value, r.state)
    BY <2>1 DEF Enabled
  <2>4. r.value \in Protocols /\ r.state \in States
    BY <1>1, <2>1, CatalogAsksOfThese
  <2>5. services[a.target] # Unknown
    BY <2>3, <2>4, UnknownIsNoService DEF Service
  <2>6. a.target \in byProtocol[r.value]
    BY <2>2, <2>3, <2>4, <2>5 DEF IndexAgrees, Service
  <2> QED BY <2>2, <2>3, <2>6 DEF Matches, Service
<1>3. \A r \in Catalog[c].requires : Holds(r)
  <2> SUFFICES ASSUME NEW r \in Catalog[c].requires PROVE Holds(r)
    OBVIOUS
  <2>1. CASE r.entity = "service"
    BY <1>2, <2>1 DEF Holds, ServiceRequirements
  <2>2. CASE r.entity # "service"
    BY <2>2 DEF Holds, Enabled
  <2> QED BY <2>1, <2>2
<1>4. a.target \in Targets(c)
  BY <1>2 DEF Targets, Enabled
<1> QED
  BY <1>1, <1>3, <1>4 DEF Candidates, Applicable

\* What is considered depends on the facts, the index and completed alone.
LEMMA SameConsidered ==
  ASSUME UNCHANGED <<stateVars, completed>>
  PROVE  Considered' = Considered
<1>1. UNCHANGED <<services, byProtocol, facts, completed>>
  BY DEF stateVars
<1>2. ASSUME NEW r PROVE Matches(r)' = Matches(r)
  BY <1>1 DEF Matches
<1>3. ASSUME NEW r PROVE Holds(r)' <=> Holds(r)
  BY <1>1, <1>2 DEF Holds
<1>4. Applicable' = Applicable
  BY <1>3 DEF Applicable
<1>5. ASSUME NEW c PROVE Targets(c)' = Targets(c)
  BY <1>2 DEF Targets
<1>6. Candidates' = Candidates
  BY <1>1, <1>4, <1>5 DEF Candidates
<1> QED
  BY <1>6 DEF Considered, MayDo

\* What is completed was run, or is about to be; a loop that ended for want
\* of steps had nothing left to consider.
NothingLeft ==
  /\ phase \in {"essential", "observe"} => completed = ran
  /\ phase = "execute" =>
       /\ rounds # <<>>
       /\ completed = ran \union FollowupPlan(rounds[Len(rounds)].selected)
  /\ phase = "done" /\ ~cancelled /\ round <= MaxRounds =>
       /\ completed = ran
       /\ MaxActions = 0 \/ Considered = {}

LEMMA LeftStep == TypeOK /\ NothingLeft /\ [Next]_vars => NothingLeft'
<1> SUFFICES ASSUME TypeOK, NothingLeft, [Next]_vars PROVE NothingLeft'
  OBVIOUS
<1>1. CASE RunEssentialPlan
  BY <1>1 DEF RunEssentialPlan, NothingLeft
<1>2. CASE OutOfRounds
  BY <1>2, MaxRoundsIsNumber DEF OutOfRounds, RoundsLeft, NothingLeft, TypeOK
<1>3. CASE Observe
  BY <1>3 DEF Observe, NothingLeft
<1>4. CASE Decide
  <2> DEFINE selected == Best(Considered)
  <2>1. /\ phase = "observe" /\ completed = ran /\ ran' = ran
        /\ completed' = completed \union selected
        /\ rounds' = Append(rounds, [considered |-> Considered, selected |-> selected])
        /\ phase' = IF FollowupPlan(selected) = {} THEN "done" ELSE "execute"
        /\ UNCHANGED stateVars
    BY <1>4 DEF Decide, MarkCompleted, NothingLeft
  <2>2. rounds' # <<>> /\ rounds'[Len(rounds')].selected = selected
    BY <2>1 DEF TypeOK
  <2>3. FollowupPlan(selected) = selected
    BY PlanIsSelection
  <2>4. CASE FollowupPlan(selected) = {}
    <3>1. completed' = completed
      BY <2>1, <2>3, <2>4
    <3>2. MaxActions = 0 \/ Considered = {}
      <4>1. Considered \in SUBSET Actions
        BY ConsideredAreActions
      <4>2. CASE Considered # {} /\ MaxActions # 0
        <5>1. MaxActions > 0
          BY <4>2, MaxActionsIsNumber
        <5>2. Best(Considered) # {}
          BY <4>1, <4>2, <5>1, BestNotEmpty
        <5> QED BY <2>3, <2>4, <5>2
      <4> QED BY <4>2
    <3>3. Considered' = Considered
      BY <2>1, <3>1, SameConsidered
    <3> QED BY <2>1, <2>4, <3>1, <3>2, <3>3 DEF NothingLeft
  <2>5. CASE FollowupPlan(selected) # {}
    BY <2>1, <2>2, <2>3, <2>5 DEF NothingLeft
  <2> QED BY <2>4, <2>5
<1>5. CASE RunFollowupPlan
  BY <1>5 DEF RunFollowupPlan, NothingLeft
<1>6. CASE Escape
  BY <1>6 DEF Escape, NothingLeft
<1>7. CASE UNCHANGED vars
  <2>1. Considered' = Considered
    BY <1>7, SameConsidered DEF vars
  <2> QED BY <1>7, <2>1 DEF vars, NothingLeft
<1> QED
  BY <1>1, <1>2, <1>3, <1>4, <1>5, <1>6, <1>7 DEF Next

(* An investigation that ends within its budget and is not cancelled has run
   everything that its facts enable and its policy permits. *)
THEOREM InvestigationComplete == Spec => []NothingOverlooked
<1>1. Init => NothingLeft
  BY DEF Init, InitVector, NothingLeft
<1>2. TypeOK /\ NothingLeft /\ [Next]_vars => NothingLeft'
  BY LeftStep
<1>3. TypeOK /\ IndexAgrees /\ NothingLeft => NothingOverlooked
  <2> SUFFICES ASSUME TypeOK, IndexAgrees, NothingLeft,
                      phase = "done", ~cancelled, round <= MaxRounds,
                      NEW a \in Actions, Enabled(a), MayDo(a), MaxActions # 0
               PROVE  a \in ran
    BY DEF NothingOverlooked
  <2>1. completed = ran /\ Considered = {}
    BY DEF NothingLeft
  <2>2. a \in Candidates \union completed
    BY EnabledIsCandidate
  <2> QED BY <2>1, <2>2 DEF Considered
<1> QED
  BY <1>1, <1>2, <1>3, TypeCorrect, IndexCorrect, PTL DEF Spec
=============================================================================
