------------------------------ MODULE ReconRun ------------------------------
(***************************************************************************)
(* A recon request, planned and carried out: the waves of the plan, and    *)
(* the handlers and tool adapters (engine/handlers/, tools/) that turn what*)
(* a command returns into evidence and an outcome.                         *)
(*                                                                         *)
(* The steps of a wave run in the order of the plan. In the program they   *)
(* run in parallel, which makes no difference here: what a handler sees is *)
(* the evidence of the waves before, and evidence is merged at the end of  *)
(* the wave in the order of the plan (Scheduler, EvidenceIsDeterministic). *)
(***************************************************************************)
EXTENDS ReconPlan

CONSTANTS
  Situations,  \* requests, each with the tools the user has disabled
  Intents      \* the sequences of capabilities that Vector may select in a round

\* What a request can be.
Requests ==
  [type : {"ip", "domain", "url"}, tls : BOOLEAN, strategy : STRING, transport : STRING,
   ports : Seq(SUBSET Ports), top : Nat, probe : STRING]

ASSUME SituationsOK == Situations \subseteq [request : Requests, disabled : SUBSET Tools]

ASSUME IntentsOK == Intents \subseteq Seq(Capabilities)

VARIABLES
  request, disabled,
  plan,        \* the plan being carried out
  followed,    \* whether it is the plan of a round of Vector's
  placed,      \* its steps in this wave and the waves before
  wave,        \* its steps that are still to run in this wave
  evidence,    \* the artifacts a handler sees,
  staged,      \* and with them those of this wave
  saw,         \* the evidence given to the tools that look at it
  scan,        \* what nmap was to do in the end
  last         \* the last result: what the command gave, and what was made of it

vars == <<request, disabled, plan, followed, placed, wave, evidence, staged, saw, scan, last>>

Exits == {"none", "missing", "ok", "timeout", "denied", "error"}

Answers == {"ok", "absent", "nxdomain", "error"}

\* What nmap says of a port. "open|filtered" is a UDP port without an answer; a
\* TCP port without one is filtered.
PortStates == {"open", "closed", "filtered", "open|filtered"}

\* What comes back from a command, with the states of the ports that it lists, or
\* from one or more lookups.
Replies ==
  [exit : Exits, found : BOOLEAN, listed : SUBSET PortStates, answers : SUBSET Answers]

Command(exit, found) == [exit |-> exit, found |-> found, listed |-> {}, answers |-> {}]

PortScan(exit, listed) == [Command(exit, "open" \in listed) EXCEPT !.listed = listed]

Lookup(answers) == [exit |-> "none", found |-> FALSE, listed |-> {}, answers |-> answers]

NoReply == Command("none", FALSE)

NoEvidence == [discovery |-> "none", naabu |-> {}, nmap |-> {}, address |-> FALSE]

Unseen == [discovery |-> "unseen", naabu |-> {}, nmap |-> {}, address |-> FALSE]

\* The tools whose handlers look at evidence.
Readers == {"nmap", "httpx", "ipintel", "rdap"}

NotScanned == [state |-> "no", ports |-> {}, udp |-> FALSE, sudo |-> FALSE]

\* The ports of which evidence says that they are open, for TCP.
OpenPorts(known) == known.naabu \union known.nmap

-----------------------------------------------------------------------------
\* What an adapter says of a command: <<ok, skipped, negative, warned>>.
Done == <<TRUE, FALSE, FALSE, FALSE>>
Negative == <<TRUE, FALSE, TRUE, FALSE>>
Skipped == <<FALSE, TRUE, FALSE, FALSE>>
Warned == <<TRUE, FALSE, FALSE, TRUE>>
Failed == <<FALSE, FALSE, FALSE, FALSE>>

\* classify_result, for what handlers return.
Classify(verdict) ==
  CASE verdict[2]                                                   -> "skipped"
    [] ~verdict[2] /\ verdict[3]                                    -> "negative"
    [] ~verdict[2] /\ ~verdict[3] /\ ~verdict[1]                    -> "failed"
    [] ~verdict[2] /\ ~verdict[3] /\ verdict[1] /\ verdict[4]       -> "warning"
    [] ~verdict[2] /\ ~verdict[3] /\ verdict[1] /\ ~verdict[4]      -> "done"

\* Mutant: that nothing was found is looked at before how the command ended.
ListingVerdict_AnyExit(reply) ==
  IF reply.exit = "missing" THEN Skipped
  ELSE IF reply.found THEN Done ELSE Negative

\* httpx, katana, whatweb, sslyze, rpcinfo, subfinder: what was found counts
\* however the command ended.
ListingVerdict(reply) ==
  IF reply.exit = "missing" THEN Skipped
  ELSE IF reply.found THEN Done
  ELSE IF reply.exit = "ok" THEN Negative ELSE Failed

SmbVerdict(reply) ==
  CASE reply.exit = "missing"                 -> Skipped
    [] reply.exit = "ok" /\ reply.found       -> Done
    [] reply.exit = "ok" /\ ~reply.found      -> Negative
    [] reply.exit = "denied"                  -> Warned
    [] reply.exit \in {"timeout", "error"}    -> Failed

NaabuVerdict(reply) ==
  CASE reply.exit = "missing"                   -> Skipped
    [] reply.exit = "ok" /\ reply.found         -> Done
    [] reply.exit = "ok" /\ ~reply.found        -> Negative
    [] reply.exit = "timeout" /\ reply.found    -> Warned
    [] OTHER                                    -> Failed

\* A missing nmap is a failure, as nothing stands in for it. Ports "open|filtered"
\* are not counted, nor those without an answer that nmap does not list. What it
\* printed may have warnings.
NmapVerdict(reply, warned) ==
  IF reply.exit # "ok" THEN Failed
  ELSE IF reply.listed \intersect {"open", "filtered"} = {} THEN Negative
  ELSE IF warned THEN Warned ELSE Done

\* The tools without a command get answers: one for each type of record,
\* registry or URL. "nxdomain" is what DNS says of a name that does not exist.
DnsVerdict(answers) ==
  IF "ok" \in answers THEN Done
  ELSE IF "nxdomain" \in answers \/ answers = {"absent"} THEN Negative ELSE Failed

RdapVerdict(answers) ==
  IF "ok" \in answers THEN IF "error" \in answers THEN Warned ELSE Done
  ELSE IF answers = {"absent"} THEN Negative ELSE Failed

\* A refused connection is an absent service.
HttpVerdict(answers) ==
  IF "ok" \in answers THEN IF answers = {"ok"} THEN Done ELSE Warned
  ELSE IF answers = {"absent"} THEN Negative ELSE Failed

FingerprintVerdict(answers) ==
  IF answers = {"absent"} THEN Skipped ELSE HttpVerdict(answers)

IntelVerdict(answers) == IF answers = {"ok"} THEN Done ELSE Failed

\* A certificate may be there and not be readable.
TlsVerdict(answers, readable) ==
  IF answers = {"ok"} THEN IF readable THEN Done ELSE Warned
  ELSE IF answers = {"absent"} THEN Negative ELSE Failed

\* A target without a scheme is tried with both, and an address always is. What
\* Vector asks for has a scheme.
UrlCount == IF request.type = "url" \/ (followed /\ request.type # "ip") THEN 1 ELSE 2

\* Registries are asked for the name and, once known, for the address.
RegistryCount(step) == IF ~step.ip /\ evidence.address THEN 2 ELSE 1

AnswersOf(n) == {a \in SUBSET {"ok", "absent", "error"} : a # {} /\ Cardinality(a) <= n}

-----------------------------------------------------------------------------
Init ==
  /\ \E x \in Situations :
       /\ request = x.request
       /\ disabled = x.disabled
       /\ plan = IF request.strategy = "auto" THEN BuildEssentialPlan(request, disabled)
                 ELSE BuildPlan(request, disabled)
  /\ followed = FALSE
  /\ placed = {} /\ wave = {}
  /\ evidence = NoEvidence /\ staged = NoEvidence
  /\ saw = [t \in Readers |-> Unseen]
  /\ scan = NotScanned
  /\ last = [tool |-> "", reply |-> NoReply, outcome |-> ""]

\* A wave ends with the merge of its evidence, and the next one is placed.
NextWave ==
  /\ wave = {} /\ placed # DOMAIN plan
  /\ wave' = NextGroup(plan, placed)
  /\ wave' # {}
  /\ placed' = placed \union wave'
  /\ evidence' = staged
  /\ UNCHANGED <<request, disabled, plan, followed, staged, saw, scan, last>>

\* What every handler does: look at the evidence, end with a result.
Run(s, reply, verdict) ==
  /\ s \in wave /\ \A t \in wave : s <= t
  /\ wave' = wave \ {s}
  /\ saw' = IF plan[s].tool \in Readers THEN [saw EXCEPT ![plan[s].tool] = evidence] ELSE saw
  /\ last' = [tool |-> plan[s].tool, reply |-> reply, outcome |-> Classify(verdict)]
  /\ UNCHANGED <<request, disabled, plan, followed, placed, evidence>>

RunListing(s) ==
  /\ \E exit \in {"missing", "ok", "timeout", "error"}, found \in BOOLEAN :
       /\ exit = "missing" => ~found
       /\ Run(s, Command(exit, found), ListingVerdict(Command(exit, found)))
  /\ UNCHANGED <<staged, scan>>

\* execute_httpx and so on: one action for each handler.
RunHttpx(s) == plan[s].tool = "httpx" /\ RunListing(s)
RunWhatweb(s) == plan[s].tool = "whatweb" /\ RunListing(s)
RunKatana(s) == plan[s].tool = "katana" /\ RunListing(s)
RunSslyze(s) == plan[s].tool = "sslyze" /\ RunListing(s)
RunRpcinfo(s) == plan[s].tool = "rpcinfo" /\ RunListing(s)
RunSubfinder(s) == plan[s].tool = "subfinder" /\ RunListing(s)

RunSmbclient(s) ==
  /\ plan[s].tool = "smbclient"
  /\ \E exit \in {"missing", "ok", "timeout", "denied", "error"}, found \in BOOLEAN :
       /\ exit # "ok" => ~found
       /\ Run(s, Command(exit, found), SmbVerdict(Command(exit, found)))
  /\ UNCHANGED <<staged, scan>>

\* Nine types of records, of which some give addresses.
RunDns(s) ==
  /\ plan[s].tool = "dns"
  /\ \E answers \in SUBSET Answers \ {{}}, address \in BOOLEAN :
       /\ address => "ok" \in answers
       /\ Run(s, Lookup(answers), DnsVerdict(answers))
       /\ staged' = [staged EXCEPT !.address = @ \/ address]
  /\ UNCHANGED scan

RunHttp(s) ==
  /\ plan[s].tool = "http"
  /\ \E answers \in AnswersOf(UrlCount) : Run(s, Lookup(answers), HttpVerdict(answers))
  /\ UNCHANGED <<staged, scan>>

RunFingerprint(s) ==
  /\ plan[s].tool = "fingerprint"
  /\ \E answers \in AnswersOf(UrlCount) : Run(s, Lookup(answers), FingerprintVerdict(answers))
  /\ UNCHANGED <<staged, scan>>

RunRdap(s) ==
  /\ plan[s].tool = "rdap"
  /\ \E answers \in AnswersOf(RegistryCount(plan[s])) : Run(s, Lookup(answers), RdapVerdict(answers))
  /\ UNCHANGED <<staged, scan>>

RunIpintel(s) ==
  /\ plan[s].tool = "ipintel"
  /\ \E answers \in {{"ok"}, {"error"}} : Run(s, Lookup(answers), IntelVerdict(answers))
  /\ UNCHANGED <<staged, scan>>

RunTls(s) ==
  /\ plan[s].tool = "tls"
  /\ \E answers \in AnswersOf(1), readable \in BOOLEAN :
       Run(s, Lookup(answers), TlsVerdict(answers, readable))
  /\ UNCHANGED <<staged, scan>>

\* execute_naabu. Ports found by a scan that failed are dropped.
RunNaabu(s) ==
  /\ plan[s].tool = "naabu"
  /\ \E exit \in {"missing", "ok", "timeout", "error"}, open \in SUBSET NaabuScope(plan[s].scan) :
       /\ exit = "missing" => open = {}
       /\ Run(s, Command(exit, open # {}), NaabuVerdict(Command(exit, open # {})))
       /\ staged' = [staged EXCEPT
            !.discovery = IF exit = "ok" THEN "complete" ELSE "partial",
            !.naabu = IF exit \in {"ok", "timeout"} THEN open ELSE {}]
  /\ UNCHANGED scan

\* Mutant: whatever naabu found narrows the scan.
NarrowedScope_AnyDiscovery(step) ==
  IF evidence.naabu # {} THEN evidence.naabu ELSE NmapScope(step.scan)

\* Only a complete scan of naabu's narrows what nmap looks at.
NarrowedScope(step) ==
  IF evidence.discovery = "complete" /\ evidence.naabu # {} THEN evidence.naabu
  ELSE NmapScope(step.scan)

\* execute_nmap, where naabu found all ports closed.
SkipNmap(s) ==
  /\ plan[s].tool = "nmap"
  /\ evidence.discovery = "complete" /\ evidence.naabu = {}
  /\ Run(s, NoReply, <<FALSE, TRUE, TRUE, FALSE>>)
  /\ scan' = [NotScanned EXCEPT !.state = "skipped"]
  /\ UNCHANGED staged

\* execute_nmap. A scan that failed may have found ports. Ports that are alike may
\* not be listed. What nmap finds of UDP is not evidence of open TCP ports.
RunNmap(s) ==
  /\ plan[s].tool = "nmap"
  /\ ~(evidence.discovery = "complete" /\ evidence.naabu = {})
  /\ LET ports == NarrowedScope(plan[s])
         udp   == plan[s].scan.udp
         seen  == {"unlisted"} \union (IF udp THEN PortStates ELSE PortStates \ {"open|filtered"})
     IN  /\ \E exit \in {"missing", "ok", "timeout", "error"}, state \in [ports -> seen],
               warned \in BOOLEAN :
              LET open  == {p \in ports : state[p] = "open"}
                  reply == PortScan(exit, {state[p] : p \in ports} \ {"unlisted"})
              IN  /\ exit = "missing" => reply.listed = {}
                  /\ Run(s, reply, NmapVerdict(reply, warned))
                  /\ staged' = IF udp THEN staged ELSE [staged EXCEPT !.nmap = open]
         /\ scan' = [state |-> "ran", ports |-> ports, udp |-> udp, sudo |-> NeedsSudo(plan[s].scan)]

\* The plan of a round has an execution of its own, and begins without evidence.
FollowUp ==
  /\ request.strategy = "auto" /\ ~followed
  /\ wave = {} /\ placed = DOMAIN plan
  /\ \E intents \in Intents :
       /\ \A i \in DOMAIN intents : intents[i] \in ReconCapabilities(request)
       /\ plan' = BuildFollowupPlan(request, intents)
  /\ followed' = TRUE
  /\ placed' = {}
  /\ evidence' = NoEvidence /\ staged' = NoEvidence
  /\ saw' = [t \in Readers |-> Unseen]
  /\ scan' = NotScanned
  /\ last' = [last EXCEPT !.tool = "", !.reply = NoReply, !.outcome = ""]
  /\ UNCHANGED <<request, disabled, wave>>

Finished == wave = {} /\ placed = DOMAIN plan

RunStep(s) ==
  \/ RunDns(s) \/ RunSubfinder(s) \/ RunIpintel(s) \/ RunRdap(s)
  \/ RunHttp(s) \/ RunHttpx(s) \/ RunFingerprint(s) \/ RunWhatweb(s) \/ RunKatana(s)
  \/ RunTls(s) \/ RunSslyze(s) \/ RunRpcinfo(s) \/ RunSmbclient(s)
  \/ RunNaabu(s) \/ SkipNmap(s) \/ RunNmap(s)

Next ==
  \/ NextWave
  \/ \E s \in wave : RunStep(s)
  \/ FollowUp
  \/ Finished /\ UNCHANGED vars

Spec == Init /\ [][Next]_vars

-----------------------------------------------------------------------------
Evidence == [discovery : {"none", "unseen", "partial", "complete"}, naabu : SUBSET Ports,
             nmap : SUBSET Ports, address : BOOLEAN]

TypeOK ==
  /\ [request |-> request, disabled |-> disabled] \in Situations
  /\ \A s \in DOMAIN plan : plan[s].tool \in Tools \ disabled \/ followed
  /\ followed \in BOOLEAN
  /\ placed \subseteq DOMAIN plan /\ wave \subseteq placed
  /\ evidence \in Evidence /\ staged \in Evidence /\ saw \in [Readers -> Evidence]
  /\ scan \in [state : {"no", "skipped", "ran"}, ports : SUBSET Ports, udp : BOOLEAN, sudo : BOOLEAN]
  /\ last \in [tool : Tools \union {""}, reply : Replies, outcome : Outcomes \union {""}]

\* Every plan, also of follow-ups that use a tool twice, passes the checks of
\* validate_plan_graph: identities are unique, what is depended on exists, and
\* there are no cycles, as a step depends on lower groups only.
PlansAreValid ==
  /\ \A s, t \in DOMAIN plan : plan[s].id = plan[t].id => s = t
  /\ \A s \in DOMAIN plan : \A d \in plan[s].deps :
       \E t \in DOMAIN plan : plan[t].id = d.on /\ plan[t].group < plan[s].group

\* Nothing comes too late: a handler that looks for ports of naabu or nmap, or
\* for addresses, was given all there is in the end. nmap itself looks at what
\* naabu found only; an address target needs no addresses.
NothingComesLate ==
  Finished =>
    /\ saw["nmap"] # Unseen => /\ saw["nmap"].discovery = staged.discovery
                               /\ saw["nmap"].naabu = staged.naabu
    /\ saw["httpx"] # Unseen => OpenPorts(saw["httpx"]) = OpenPorts(staged)
    /\ \A t \in {"ipintel", "rdap"} : saw[t] # Unseen => saw[t].address = staged.address

\* The ports that the request, or for want of ports in it the strategy, asks for.
RequestedPorts ==
  IF request.ports # <<>> THEN Head(request.ports)
  ELSE IF request.top # 0 THEN TopPorts(request.top)
  ELSE IF ReconProfile(request) = "deep" THEN Ports
  ELSE TopPorts(PolicyTop[ReconProfile(request)])

\* The ports that the plan has naabu look at.
NaabuCovers ==
  UNION {NaabuScope(plan[s].scan) : s \in {t \in DOMAIN plan : plan[t].tool = "naabu"}}

\* The ports that a complete scan of naabu's found closed, as nmap was told.
FoundClosed ==
  IF saw["nmap"].discovery = "complete" THEN NaabuCovers \ saw["nmap"].naabu ELSE {}

\* naabu makes nmap's work less, never the coverage: of the ports asked for
\* nmap leaves out, or is skipped for, only those that naabu found closed.
\* About TCP, and about ports or top_ports: with both, they differ in which.
CoverageIsKept ==
  scan.state # "no" /\ "udp" \notin {request.transport, request.strategy}
      /\ (request.ports = <<>> \/ request.top = 0)
    => RequestedPorts \ scan.ports \subseteq FoundClosed

\* The shell asks for elevation before a run, on a plan built for the question:
\* nmap is never run with sudo by a request that was not said to need it.
ElevationIsForeseen == scan.sudo => RequiresElevation(request, disabled)

Conclusive(reply) ==
  \/ reply.exit = "ok" /\ ~reply.found /\ "filtered" \notin reply.listed
  \/ reply.answers = {"absent"}
  \/ "nxdomain" \in reply.answers /\ "ok" \notin reply.answers

\* A negative outcome, shown as "not found", is never made of a command that did
\* not end well or that found something, of a scan that lists a port as filtered,
\* or of lookups that were left unanswered. It does not say of nmap that the ports
\* answered: those "open|filtered", and filtered ones not listed, may be behind it.
NegativeIsConclusive == last.outcome = "negative" => Conclusive(last.reply)

\* docs/recon-design.md:1101: an explicit transport overrides the strategy's,
\* so that udp scans the UDP ports asked for. Violated: naabu looks for TCP.
UdpIsScanned ==
  Finished /\ request.transport = "udp" /\ request.ports = <<>> /\ request.top = 0 /\ scan.state # "no"
    => scan.udp /\ TopPorts(PolicyTop["udp"]) \subseteq scan.ports
=============================================================================
