--------------------------- MODULE ReconRunProofs ---------------------------
(***************************************************************************)
(* For every set of requests, preferences and ports, and whatever commands *)
(* return: plans are valid, naabu costs no coverage, elevation is foreseen,*)
(* negative results are conclusive, and no evidence comes too late.        *)
(*                                                                         *)
(* The invariant says of the plan being carried out that it is valid and   *)
(* that its scans are what the request asks for (PlanFits), and of a       *)
(* complete discovery that a naabu of this plan made it (Discovered). That *)
(* steps wait for those that make what they look at is InTime's matter.    *)
(***************************************************************************)
EXTENDS ReconRun, FiniteSetTheorems, SequenceTheorems, TLAPS

StepFields == {"tool", "action", "ip", "group", "scan", "id", "deps"}

IsStep(step) ==
  DOMAIN step = StepFields /\ step = [f \in StepFields |-> step[f]]

AreSteps(steps) ==
  /\ DOMAIN steps \subseteq Nat /\ IsFiniteSet(DOMAIN steps)
  /\ steps = [i \in DOMAIN steps |-> steps[i]]
  /\ \A i \in DOMAIN steps : IsStep(steps[i])

IsValid(p) ==
  /\ \A s, t \in DOMAIN p : p[s].id = p[t].id => s = t
  /\ \A s \in DOMAIN p : \A d \in p[s].deps :
       \E t \in DOMAIN p : p[t].id = d.on /\ p[t].group < p[s].group

-----------------------------------------------------------------------------
\* Of two uses of a tool for an action the later one has the higher number.
LEMMA OccurrencesDiffer ==
  ASSUME NEW steps, AreSteps(steps), NEW s \in DOMAIN steps, NEW t \in DOMAIN steps, s < t,
         steps[s].tool = steps[t].tool, steps[s].action = steps[t].action
  PROVE  Occurrence(steps, s) # Occurrence(steps, t)
<1> DEFINE Upto(i) == {j \in DOMAIN steps : /\ j <= i
                                            /\ steps[j].tool = steps[i].tool
                                            /\ steps[j].action = steps[i].action}
<1>1. IsFiniteSet(Upto(t))
  BY FS_Subset, Upto(t) \subseteq DOMAIN steps DEF AreSteps
<1>2. Upto(s) \subseteq Upto(t) /\ t \in Upto(t) /\ t \notin Upto(s)
  BY DEF AreSteps
<1>3. Upto(s) # Upto(t)
  BY <1>2
<1>4. Cardinality(Upto(s)) # Cardinality(Upto(t))
  <2> HIDE DEF Upto
  <2> QED
    BY <1>1, <1>2, <1>3, FS_Subset
<1> QED
  BY <1>4 DEF Occurrence

\* What identities and dependencies are attached to, and what is left alone.
LEMMA ExecutionPlanFields ==
  ASSUME NEW steps, AreSteps(steps)
  PROVE  /\ DOMAIN ExecutionPlan(steps) = DOMAIN steps
         /\ \A i \in DOMAIN steps :
              /\ ExecutionPlan(steps)[i].tool = steps[i].tool
              /\ ExecutionPlan(steps)[i].scan = steps[i].scan
              /\ ExecutionPlan(steps)[i].group = steps[i].group
              /\ ExecutionPlan(steps)[i].id = StepId(steps, i)
              /\ ExecutionPlan(steps)[i].deps =
                   {[on |-> StepId(steps, j), optional |-> TRUE, needs |-> {}] :
                      j \in {k \in DOMAIN steps : steps[k].group < steps[i].group}}
BY DEF ExecutionPlan, AreSteps, IsStep, StepFields

LEMMA ExecutionPlanValid ==
  ASSUME NEW steps, AreSteps(steps)
  PROVE  IsValid(ExecutionPlan(steps))
<1> DEFINE p == ExecutionPlan(steps)
<1>1. DOMAIN p = DOMAIN steps
  BY ExecutionPlanFields
<1>2. ASSUME NEW s \in DOMAIN steps, NEW t \in DOMAIN steps, p[s].id = p[t].id
      PROVE  s = t
  <2>1. StepId(steps, s) = StepId(steps, t)
    BY <1>2, ExecutionPlanFields
  <2>2. /\ steps[s].tool = steps[t].tool /\ steps[s].action = steps[t].action
        /\ Occurrence(steps, s) = Occurrence(steps, t)
    BY <2>1 DEF StepId
  <2>3. s \in Nat /\ t \in Nat
    BY DEF AreSteps
  <2>4. ~(s < t)
    BY <2>2, OccurrencesDiffer
  <2>5. ~(t < s)
    BY <2>2, OccurrencesDiffer
  <2> QED
    BY <2>3, <2>4, <2>5
<1>3. ASSUME NEW s \in DOMAIN steps, NEW d \in p[s].deps
      PROVE  \E t \in DOMAIN p : p[t].id = d.on /\ p[t].group < p[s].group
  <2>1. PICK j \in DOMAIN steps :
          /\ steps[j].group < steps[s].group
          /\ d = [on |-> StepId(steps, j), optional |-> TRUE, needs |-> {}]
    BY <1>3, ExecutionPlanFields
  <2>2. p[j].id = d.on /\ p[j].group < p[s].group
    BY <2>1, ExecutionPlanFields
  <2> QED
    BY <2>2, <1>1
<1> QED
  BY <1>1, <1>2, <1>3 DEF IsValid

-----------------------------------------------------------------------------
LEMMA StepForIsStep ==
  ASSUME NEW r, NEW tool, NEW action
  PROVE  /\ IsStep(StepFor(r, tool, action))
         /\ StepFor(r, tool, action).tool = tool
         /\ tool \in {"naabu", "nmap"} => StepFor(r, tool, action).scan = ScanParams(r)
BY DEF StepFor, IsStep, StepFields

LEMMA FollowupStepIsStep ==
  ASSUME NEW r, NEW intent \in Capabilities
  PROVE  /\ IsStep(FollowupStep(r, intent))
         /\ FollowupStep(r, intent).tool \in Tools \ {"naabu", "nmap"}
<1> DEFINE entry == FollowupTool(intent)
           step == StepFor(r, entry[1], entry[2])
<1>1. entry[1] \in Tools \ {"naabu", "nmap"}
  BY DEF Capabilities, FollowupTool, Tools
<1>2. IsStep(step) /\ step.tool = entry[1]
  BY StepForIsStep
<1>3. FollowupStep(r, intent) =
        [step EXCEPT !.group = IF entry[1] = "fingerprint" THEN 1 ELSE 0]
  BY DEF FollowupStep
<1> HIDE DEF entry, step
<1> QED
  BY <1>1, <1>2, <1>3 DEF IsStep, StepFields

LEMMA PipelineFinite ==
  ASSUME NEW r, r.type \in {"ip", "domain", "url"}
  PROVE  Len(Pipeline(r)) \in Nat
BY DEF Pipeline

\* A plan for a pipeline has all tools of it that were asked for and are
\* enabled, no others, and scans as requested.
FitsPipeline(p, r, D, tools) ==
  /\ IsValid(p)
  /\ DOMAIN p = {i \in 1 .. Len(Pipeline(r)) :
                   Pipeline(r)[i][1] \in tools /\ Selected(r, D, Pipeline(r)[i][1])}
  /\ \A s \in DOMAIN p :
       /\ p[s].tool = Pipeline(r)[s][1] /\ p[s].tool \in tools \ D
       /\ p[s].tool \in {"naabu", "nmap"} => p[s].scan = ScanParams(r)

LEMMA PlanForFits ==
  ASSUME NEW r, r.type \in {"ip", "domain", "url"}, NEW D, NEW tools, tools \subseteq Tools
  PROVE  FitsPipeline(PlanFor(r, D, tools), r, D, tools)
<1> DEFINE pipeline == Pipeline(r)
           chosen == {i \in 1 .. Len(pipeline) :
                        pipeline[i][1] \in tools /\ Selected(r, D, pipeline[i][1])}
           steps == [i \in chosen |-> StepFor(r, pipeline[i][1], pipeline[i][2])]
<1>1. Len(pipeline) \in Nat
  BY PipelineFinite
<1> HIDE DEF pipeline
<1>2. chosen \subseteq Nat /\ IsFiniteSet(chosen)
  <2>1. IsFiniteSet(1 .. Len(pipeline))
    BY <1>1, FS_Interval
  <2> QED
    BY <1>1, <2>1, FS_Subset
<1>3. AreSteps(steps)
  BY <1>2, StepForIsStep DEF AreSteps
<1>4. PlanFor(r, D, tools) = ExecutionPlan(steps)
  BY DEF PlanFor, pipeline
<1>5. IsValid(ExecutionPlan(steps))
  BY <1>3, ExecutionPlanValid
<1>6. ASSUME NEW s \in chosen
      PROVE  /\ ExecutionPlan(steps)[s].tool = pipeline[s][1]
             /\ ExecutionPlan(steps)[s].tool \in tools \ D
             /\ ExecutionPlan(steps)[s].tool \in {"naabu", "nmap"} =>
                  ExecutionPlan(steps)[s].scan = ScanParams(r)
  <2>1. /\ ExecutionPlan(steps)[s].tool = steps[s].tool
        /\ ExecutionPlan(steps)[s].scan = steps[s].scan
    BY <1>3, ExecutionPlanFields
  <2>2. /\ steps[s].tool = pipeline[s][1]
        /\ steps[s].tool \in {"naabu", "nmap"} => steps[s].scan = ScanParams(r)
    BY StepForIsStep
  <2>3. pipeline[s][1] \in tools \ D
    BY DEF Selected
  <2> QED
    BY <2>1, <2>2, <2>3
<1>7. DOMAIN ExecutionPlan(steps) = chosen
  BY <1>3, ExecutionPlanFields
<1> HIDE DEF steps
<1> QED
  BY <1>4, <1>5, <1>6, <1>7 DEF FitsPipeline, pipeline

\* A follow-up plan scans no ports.
LEMMA FollowupPlanFits ==
  ASSUME NEW q, NEW intents \in Seq(Capabilities)
  PROVE  LET p == BuildFollowupPlan(q, intents)
         IN  /\ IsValid(p)
             /\ \A s \in DOMAIN p : p[s].tool \in Tools \ {"naabu", "nmap"}
<1> DEFINE steps == [i \in 1 .. Len(intents) |-> FollowupStep(Parsed(q), intents[i])]
<1>1. AreSteps(steps)
  <2>1. Len(intents) \in Nat /\ \A i \in 1 .. Len(intents) : intents[i] \in Capabilities
    OBVIOUS
  <2>2. IsFiniteSet(1 .. Len(intents))
    BY <2>1, FS_Interval
  <2> QED
    BY <2>1, <2>2, FollowupStepIsStep DEF AreSteps
<1>2. BuildFollowupPlan(q, intents) = ExecutionPlan(steps)
  BY DEF BuildFollowupPlan
<1>3. IsValid(ExecutionPlan(steps))
  BY <1>1, ExecutionPlanValid
<1>4. \A s \in DOMAIN steps : steps[s].tool \in Tools \ {"naabu", "nmap"}
  BY FollowupStepIsStep
<1>5. \A s \in DOMAIN ExecutionPlan(steps) :
         ExecutionPlan(steps)[s].tool \in Tools \ {"naabu", "nmap"}
  <2> HIDE DEF steps
  <2> QED
    BY <1>1, <1>4, ExecutionPlanFields
<1> QED
  BY <1>2, <1>3, <1>5

-----------------------------------------------------------------------------
\* Parsing changes the ports only.
LEMMA ParsedRequest ==
  ASSUME NEW q \in Requests
  PROVE  /\ Parsed(q) \in [type : {"ip", "domain", "url"}, tls : BOOLEAN, strategy : STRING,
                           transport : STRING, ports : SUBSET Ports, top : Nat, probe : STRING]
         /\ Parsed(q).ports = IF q.ports = <<>> THEN {} ELSE Head(q.ports)
         /\ Parsed(q).type = q.type /\ Parsed(q).strategy = q.strategy
         /\ Parsed(q).transport = q.transport /\ Parsed(q).top = q.top
BY DEF Parsed, Requests

LEMMA ScanParamsType ==
  ASSUME NEW q \in Requests
  PROVE  /\ ScanParams(Parsed(q)) \in [ports : SUBSET Ports, top : Nat, udp : BOOLEAN, os : BOOLEAN]
         /\ NaabuScope(ScanParams(Parsed(q))) \subseteq Ports
         /\ NmapScope(ScanParams(Parsed(q))) \subseteq Ports
<1> DEFINE r == Parsed(q)
<1>1. /\ r.ports \subseteq Ports /\ r.top \in Nat
  BY ParsedRequest
<1>2. PolicyName(r) \in Strategies
  BY DEF PolicyName, ReconProfile, Strategies
<1>3. PolicyTop[PolicyName(r)] \in Nat
  BY <1>2 DEF PolicyTop, Strategies
<1> HIDE DEF r
<1>4. ScanParams(r) \in [ports : SUBSET Ports, top : Nat, udp : BOOLEAN, os : BOOLEAN]
  BY <1>1, <1>3 DEF ScanParams
<1>5. NaabuScope(ScanParams(r)) \subseteq Ports /\ NmapScope(ScanParams(r)) \subseteq Ports
  BY <1>4 DEF NaabuScope, NmapScope, TopPorts
<1> QED
  BY <1>4, <1>5 DEF r

\* Both scanners are told all ports that are asked for.
LEMMA ScansCover ==
  ASSUME request \in Requests, "udp" \notin {request.transport, request.strategy},
         request.ports = <<>> \/ request.top = 0
  PROVE  /\ RequestedPorts \subseteq NaabuScope(ScanParams(Parsed(request)))
         /\ RequestedPorts \subseteq NmapScope(ScanParams(Parsed(request)))
<1> DEFINE r == Parsed(request)
           profile == ReconProfile(request)
<1>1. /\ r.ports = IF request.ports = <<>> THEN {} ELSE Head(request.ports)
      /\ r.ports \subseteq Ports /\ r.top = request.top
      /\ r.strategy = request.strategy /\ r.transport = request.transport
  BY ParsedRequest
<1>2. PolicyName(r) = profile /\ profile \in Strategies \ {"udp"}
  BY <1>1 DEF PolicyName, ReconProfile, Strategies
<1>3. profile # "deep" => PolicyTop[profile] \in Nat \ {0}
  BY <1>2 DEF PolicyTop, Strategies
<1>4. profile = "deep" => PolicyTop[profile] = 0
  BY DEF PolicyTop
<1> HIDE DEF r, profile
<1>5. CASE request.ports # <<>>
  <2>1. RequestedPorts = r.ports /\ r.top = 0
    BY <1>1, <1>5 DEF RequestedPorts
  <2>2. r.ports # {} => ScanParams(r).ports = r.ports /\ ScanParams(r).top = 0
    BY <2>1 DEF ScanParams
  <2>3. CASE r.ports = {}
    BY <2>1, <2>3 DEF r
  <2>4. CASE r.ports # {}
    BY <2>1, <2>2, <2>4 DEF r, NaabuScope, NmapScope
  <2> QED
    BY <2>3, <2>4
<1>6. CASE request.ports = <<>> /\ request.top # 0
  <2>1. RequestedPorts = TopPorts(r.top)
    BY <1>1, <1>6 DEF RequestedPorts
  <2>2. ScanParams(r).ports = {} /\ ScanParams(r).top = r.top
    BY <1>1, <1>6 DEF ScanParams
  <2> QED
    BY <1>1, <1>6, <2>1, <2>2 DEF r, NaabuScope, NmapScope, TopPorts
<1>7. CASE request.ports = <<>> /\ request.top = 0
  <2>1. /\ ScanParams(r).ports = IF profile = "deep" THEN Ports ELSE {}
        /\ ScanParams(r).top = PolicyTop[profile]
    BY <1>1, <1>2, <1>7 DEF ScanParams
  <2>2. RequestedPorts = IF profile = "deep" THEN Ports ELSE TopPorts(PolicyTop[profile])
    BY <1>7 DEF RequestedPorts, profile
  <2> QED
    BY <1>3, <1>4, <2>1, <2>2 DEF r, NaabuScope, NmapScope, TopPorts
<1> QED
  BY <1>5, <1>6, <1>7
-----------------------------------------------------------------------------
\* What every handler may return.
Verdicts == {Done, Negative, Skipped, Warned, Failed, <<FALSE, TRUE, TRUE, FALSE>>}

LEMMA ClassifyVerdicts ==
  ASSUME NEW v \in Verdicts
  PROVE  Classify(v) \in Outcomes /\ (Classify(v) = "negative" => v = Negative)
<1>1. /\ Classify(Done) = "done" /\ Classify(Negative) = "negative"
      /\ Classify(Skipped) = "skipped" /\ Classify(Warned) = "warning"
      /\ Classify(Failed) = "failed" /\ Classify(<<FALSE, TRUE, TRUE, FALSE>>) = "skipped"
  BY DEF Classify, Done, Negative, Skipped, Warned, Failed
<1> QED
  BY <1>1 DEF Verdicts, Outcomes

LEMMA CommandType ==
  ASSUME NEW exit \in Exits, NEW found \in BOOLEAN
  PROVE  /\ Command(exit, found) \in Replies
         /\ Command(exit, found).exit = exit /\ Command(exit, found).found = found
         /\ Command(exit, found).listed = {}
BY DEF Command, Replies

LEMMA LookupType ==
  ASSUME NEW answers \in SUBSET Answers
  PROVE  Lookup(answers) \in Replies /\ Lookup(answers).answers = answers
BY DEF Lookup, Replies, Exits

\* A step that runs ends with one of these verdicts; it is negative for a reason.
EndsWell(s) ==
  \E reply \in Replies, verdict \in Verdicts :
    Run(s, reply, verdict) /\ (verdict = Negative => Conclusive(reply))

LEMMA ListingEndsWell ==
  ASSUME NEW s, RunListing(s)
  PROVE  EndsWell(s)
<1>1. PICK exit \in {"missing", "ok", "timeout", "error"}, found \in BOOLEAN :
        Run(s, Command(exit, found), ListingVerdict(Command(exit, found)))
  BY DEF RunListing
<1> DEFINE reply == Command(exit, found)
<1>2. reply \in Replies /\ reply.exit = exit /\ reply.found = found /\ reply.listed = {}
  BY CommandType DEF Exits
<1>3. ListingVerdict(reply) \in Verdicts
  BY DEF ListingVerdict, Verdicts
<1>4. ListingVerdict(reply) = Negative => Conclusive(reply)
  BY <1>2 DEF ListingVerdict, Conclusive, Done, Skipped, Failed, Negative
<1> QED
  BY <1>1, <1>2, <1>3, <1>4 DEF EndsWell

LEMMA HandlersEndWell ==
  ASSUME NEW s, RunStep(s)
  PROVE  EndsWell(s)
<1>1. CASE \/ RunSubfinder(s) \/ RunHttpx(s) \/ RunWhatweb(s) \/ RunKatana(s)
           \/ RunSslyze(s) \/ RunRpcinfo(s)
  BY <1>1, ListingEndsWell
     DEF RunSubfinder, RunHttpx, RunWhatweb, RunKatana, RunSslyze, RunRpcinfo
<1>2. CASE RunSmbclient(s)
  <2>1. PICK exit \in {"missing", "ok", "timeout", "denied", "error"}, found \in BOOLEAN :
          Run(s, Command(exit, found), SmbVerdict(Command(exit, found)))
    BY <1>2 DEF RunSmbclient
  <2> DEFINE reply == Command(exit, found)
  <2>2. reply \in Replies /\ reply.exit = exit /\ reply.found = found /\ reply.listed = {}
    BY CommandType DEF Exits
  <2> HIDE DEF reply
  <2>3. SmbVerdict(reply) \in Verdicts
    BY <2>2 DEF SmbVerdict, Verdicts
  <2>4. SmbVerdict(reply) = Negative => Conclusive(reply)
    BY <2>2 DEF SmbVerdict, Conclusive, Done, Skipped, Warned, Failed, Negative
  <2> QED
    BY <2>1, <2>2, <2>3, <2>4 DEF EndsWell, reply
<1>3. CASE RunNaabu(s)
  <2>1. PICK exit \in {"missing", "ok", "timeout", "error"}, open \in SUBSET NaabuScope(plan[s].scan) :
          Run(s, Command(exit, open # {}), NaabuVerdict(Command(exit, open # {})))
    BY <1>3 DEF RunNaabu
  <2> DEFINE found == open # {}
             reply == Command(exit, found)
  <2>2. reply \in Replies /\ reply.exit = exit /\ reply.found = found /\ reply.listed = {}
    BY CommandType, found \in BOOLEAN DEF Exits
  <2> HIDE DEF reply, found
  <2>3. /\ NaabuVerdict(reply) \in Verdicts
        /\ NaabuVerdict(reply) = Negative => Conclusive(reply)
    BY <2>2, exit \in {"missing", "ok", "timeout", "error"}, Zenon
       DEF NaabuVerdict, Conclusive, Verdicts, Done, Skipped, Warned, Failed, Negative
  <2> QED
    BY <2>1, <2>2, <2>3 DEF EndsWell, reply, found
<1>4. CASE SkipNmap(s)
  <2>1. Run(s, NoReply, <<FALSE, TRUE, TRUE, FALSE>>)
    BY <1>4 DEF SkipNmap
  <2>2. NoReply \in Replies
    BY CommandType DEF NoReply, Exits
  <2> QED
    BY <2>1, <2>2 DEF EndsWell, Verdicts, Negative
<1>5. CASE RunNmap(s)
  <2>1. PICK exit \in {"missing", "ok", "timeout", "error"}, listed \in SUBSET PortStates,
             warned \in BOOLEAN :
          Run(s, PortScan(exit, listed), NmapVerdict(PortScan(exit, listed), warned))
    <3> DEFINE ports == NarrowedScope(plan[s])
               seen  == {"unlisted"} \union
                          (IF plan[s].scan.udp THEN PortStates ELSE PortStates \ {"open|filtered"})
               Listed(state) == {state[p] : p \in ports} \ {"unlisted"}
    <3>1. PICK exit \in {"missing", "ok", "timeout", "error"}, state \in [ports -> seen],
               warned \in BOOLEAN :
            Run(s, PortScan(exit, Listed(state)), NmapVerdict(PortScan(exit, Listed(state)), warned))
      BY <1>5 DEF RunNmap
    <3>2. seen \ {"unlisted"} \subseteq PortStates
      OBVIOUS
    <3> HIDE DEF ports, seen
    <3>3. Listed(state) \in SUBSET PortStates
      BY <3>2
    <3> HIDE DEF Listed
    <3> QED
      BY <3>1, <3>3
  <2> DEFINE reply == PortScan(exit, listed)
  <2>2. /\ reply \in Replies
        /\ reply.exit = exit /\ reply.found = ("open" \in listed) /\ reply.listed = listed
    <3> DEFINE found == "open" \in listed
               base  == Command(exit, found)
    <3>1. base \in Replies /\ base.exit = exit /\ base.found = found
      BY CommandType, found \in BOOLEAN DEF Exits
    <3>2. reply = [base EXCEPT !.listed = listed]
      BY DEF PortScan
    <3> HIDE DEF reply, base, found
    <3>3. /\ reply \in Replies
          /\ reply.exit = exit /\ reply.found = found /\ reply.listed = listed
      BY <3>1, <3>2 DEF Replies
    <3> QED
      BY <3>3 DEF found
  <2> HIDE DEF reply
  <2>3. NmapVerdict(reply, warned) \in Verdicts
    BY DEF NmapVerdict, Verdicts
  <2>4. NmapVerdict(reply, warned) = Negative => Conclusive(reply)
    BY <2>2 DEF NmapVerdict, Conclusive, Done, Warned, Failed, Negative
  <2> QED
    BY <2>1, <2>2, <2>3, <2>4 DEF EndsWell, reply
<1>6. CASE RunDns(s)
  <2>1. PICK answers \in SUBSET Answers \ {{}} : Run(s, Lookup(answers), DnsVerdict(answers))
    BY <1>6 DEF RunDns
  <2>2. /\ DnsVerdict(answers) \in Verdicts
        /\ DnsVerdict(answers) = Negative => Conclusive(Lookup(answers))
    BY LookupType DEF DnsVerdict, Verdicts, Conclusive, Done, Failed, Negative
  <2> QED
    BY <2>1, <2>2, LookupType DEF EndsWell
<1>7. CASE RunHttp(s) \/ RunFingerprint(s) \/ RunRdap(s) \/ RunIpintel(s) \/ RunTls(s)
  <2>1. PICK answers \in SUBSET Answers, readable \in BOOLEAN :
          \E verdict \in {HttpVerdict(answers), FingerprintVerdict(answers), RdapVerdict(answers),
                          IntelVerdict(answers), TlsVerdict(answers, readable)} :
            Run(s, Lookup(answers), verdict)
    BY <1>7 DEF RunHttp, RunFingerprint, RunRdap, RunIpintel, RunTls, AnswersOf, Answers
  <2>2. \A verdict \in {HttpVerdict(answers), FingerprintVerdict(answers), RdapVerdict(answers),
                        IntelVerdict(answers), TlsVerdict(answers, readable)} :
          verdict \in Verdicts /\ (verdict = Negative => Conclusive(Lookup(answers)))
    <3> DEFINE IsRight(verdict) ==
                 verdict \in Verdicts /\ (verdict = Negative => answers = {"absent"})
    <3>1. IsRight(HttpVerdict(answers))
      BY DEF HttpVerdict, Verdicts, Done, Warned, Failed, Negative
    <3>2. IsRight(FingerprintVerdict(answers))
      <4> HIDE DEF IsRight
      <4>1. IsRight(Skipped)
        BY DEF IsRight, Verdicts, Skipped, Negative
      <4> QED
        BY <3>1, <4>1 DEF FingerprintVerdict
    <3>3. IsRight(RdapVerdict(answers))
      BY DEF RdapVerdict, Verdicts, Done, Warned, Failed, Negative
    <3>4. IsRight(IntelVerdict(answers))
      BY DEF IntelVerdict, Verdicts, Done, Failed, Negative
    <3>5. IsRight(TlsVerdict(answers, readable))
      BY DEF TlsVerdict, Verdicts, Done, Warned, Failed, Negative
    <3>6. answers = {"absent"} => Conclusive(Lookup(answers))
      BY LookupType DEF Conclusive
    <3> HIDE DEF IsRight
    <3>7. \A verdict : IsRight(verdict) =>
            verdict \in Verdicts /\ (verdict = Negative => Conclusive(Lookup(answers)))
      BY <3>6 DEF IsRight
    <3> QED
      BY <3>1, <3>2, <3>3, <3>4, <3>5, <3>7
  <2> QED
    BY <2>1, <2>2, LookupType DEF EndsWell
<1> QED
  BY <1>1, <1>2, <1>3, <1>4, <1>5, <1>6, <1>7 DEF RunStep

(* An outcome is negative only for what was found to be absent, for every
   tool and whatever its command or its lookups returned. *)
THEOREM NegativeConclusive == Spec => []NegativeIsConclusive
<1>1. Init => NegativeIsConclusive
  <2> SUFFICES ASSUME Init PROVE NegativeIsConclusive
    OBVIOUS
  <2>1. last = [tool |-> "", reply |-> NoReply, outcome |-> ""]
    BY Zenon DEF Init
  <2>2. last.outcome = ""
    BY <2>1
  <2> QED
    BY <2>2 DEF NegativeIsConclusive
<1>2. NegativeIsConclusive /\ [Next]_vars => NegativeIsConclusive'
  <2> SUFFICES ASSUME NegativeIsConclusive, [Next]_vars
               PROVE  NegativeIsConclusive'
    OBVIOUS
  <2>1. ASSUME NEW s \in wave, RunStep(s)
        PROVE  NegativeIsConclusive'
    <3>1. PICK reply \in Replies, verdict \in Verdicts :
            Run(s, reply, verdict) /\ (verdict = Negative => Conclusive(reply))
      BY <2>1, HandlersEndWell DEF EndsWell
    <3>2. last'.reply = reply /\ last'.outcome = Classify(verdict)
      BY <3>1 DEF Run
    <3> QED
      BY <3>1, <3>2, ClassifyVerdicts DEF NegativeIsConclusive, Conclusive
  <2>2. CASE FollowUp
    BY <2>2 DEF FollowUp, NegativeIsConclusive
  <2>3. CASE NextWave
    BY <2>3 DEF NextWave, NegativeIsConclusive, Conclusive
  <2>4. CASE UNCHANGED vars
    BY <2>4 DEF vars, NegativeIsConclusive, Conclusive
  <2> QED
    BY <2>1, <2>2, <2>3, <2>4 DEF Next
<1> QED
  BY <1>1, <1>2, PTL DEF Spec
-----------------------------------------------------------------------------
(* The plan being carried out is valid, scans as requested, and runs nmap with
   sudo only if that was foreseen. *)
PlanFits ==
  /\ IsValid(plan)
  /\ \A s \in DOMAIN plan :
       /\ plan[s].tool \in Tools
       /\ plan[s].tool \in {"naabu", "nmap"} => plan[s].scan = ScanParams(Parsed(request))
       /\ plan[s].tool = "nmap" /\ NeedsSudo(plan[s].scan) => RequiresElevation(request, disabled)

(* Only a naabu of this plan completes a discovery. *)
HasNaabu == \E s \in DOMAIN plan : plan[s].tool = "naabu"

Discovered ==
  /\ evidence.discovery = "complete" => HasNaabu
  /\ staged.discovery = "complete" => HasNaabu

IInv == TypeOK /\ PlanFits /\ Discovered

\* What the invariant says of the request.
LEMMA RequestType ==
  ASSUME [request |-> request, disabled |-> disabled] \in Situations
  PROVE  request \in Requests /\ disabled \in SUBSET Tools
<1> DEFINE x == [request |-> request, disabled |-> disabled]
<1>1. x \in [request : Requests, disabled : SUBSET Tools]
  BY SituationsOK
<1> QED
  BY <1>1

\* The first plan, whether it is for the whole pipeline or the essential one.
LEMMA FirstPlanFits ==
  ASSUME request \in Requests,
         \/ plan = BuildPlan(request, disabled)
         \/ plan = BuildEssentialPlan(request, disabled)
  PROVE  PlanFits /\ \A s \in DOMAIN plan : plan[s].tool \in Tools \ disabled
<1> DEFINE r == Parsed(request)
           some == {"dns", "naabu", "nmap"} \union (IF request.type = "url" THEN {"http"} ELSE {})
<1>1. r.type \in {"ip", "domain", "url"}
  BY ParsedRequest
<1>2. PICK tools \in {Tools, some} : plan = PlanFor(r, disabled, tools)
  BY DEF BuildPlan, BuildEssentialPlan
<1>3. tools \subseteq Tools
  BY DEF Tools
<1> HIDE DEF r, some
<1>4. FitsPipeline(plan, r, disabled, tools)
  BY <1>1, <1>2, <1>3, PlanForFits
<1>5. ASSUME NEW s \in DOMAIN plan, plan[s].tool = "nmap", NeedsSudo(plan[s].scan)
      PROVE  RequiresElevation(request, disabled)
  <2> DEFINE p == PlanFor(r, disabled, Tools)
  <2>1. FitsPipeline(p, r, disabled, Tools)
    BY <1>1, PlanForFits
  <2> HIDE DEF p
  <2>2. s \in DOMAIN p /\ p[s].tool = "nmap" /\ p[s].scan = plan[s].scan
    BY <1>3, <1>4, <1>5, <2>1 DEF FitsPipeline
  <2>3. p = BuildPlan(request, disabled)
    BY DEF p, BuildPlan, r
  <2> QED
    BY <1>5, <2>2, <2>3 DEF RequiresElevation
<1> QED
  BY <1>3, <1>4, <1>5 DEF FitsPipeline, PlanFits, r
-----------------------------------------------------------------------------
LEMMA NoEvidenceType ==
  NoEvidence \in Evidence /\ Unseen \in Evidence /\ NoReply \in Replies
BY DEF NoEvidence, Unseen, Evidence, NoReply, Command, Replies, Exits

ScanType == [state : {"no", "skipped", "ran"}, ports : SUBSET Ports, udp : BOOLEAN, sudo : BOOLEAN]

LEMMA InitInv == Init => IInv
<1> SUFFICES ASSUME Init PROVE IInv
  OBVIOUS
<1>1. PICK x \in Situations :
        /\ request = x.request /\ disabled = x.disabled
        /\ plan = IF request.strategy = "auto" THEN BuildEssentialPlan(request, disabled)
                  ELSE BuildPlan(request, disabled)
  BY DEF Init
<1>2. /\ followed = FALSE /\ placed = {} /\ wave = {}
      /\ evidence = NoEvidence /\ staged = NoEvidence
      /\ saw = [t \in Readers |-> Unseen] /\ scan = NotScanned
      /\ last = [tool |-> "", reply |-> NoReply, outcome |-> ""]
  BY Zenon DEF Init
<1>3. [request |-> request, disabled |-> disabled] \in Situations
  <2>1. x \in [request : Requests, disabled : SUBSET Tools]
    BY SituationsOK
  <2>2. x = [request |-> x.request, disabled |-> x.disabled]
    BY <2>1
  <2> QED
    BY <1>1, <2>2
<1>4. request \in Requests
  BY <1>3, RequestType
<1>5. PlanFits /\ \A s \in DOMAIN plan : plan[s].tool \in Tools \ disabled
  BY <1>1, <1>4, FirstPlanFits
<1>6. evidence \in Evidence /\ staged \in Evidence /\ saw \in [Readers -> Evidence]
  BY <1>2, NoEvidenceType
<1>7. scan \in ScanType
  BY <1>2 DEF NotScanned, ScanType
<1>8. last \in [tool : Tools \union {""}, reply : Replies, outcome : Outcomes \union {""}]
  BY <1>2, NoEvidenceType
<1>9. TypeOK
  BY <1>2, <1>3, <1>5, <1>6, <1>7, <1>8 DEF TypeOK, ScanType
<1>10. Discovered
  BY <1>2 DEF Discovered, NoEvidence
<1> QED
  BY <1>5, <1>9, <1>10 DEF IInv

\* What every step that runs keeps.
LEMMA RunKeeps ==
  ASSUME IInv, NEW s \in wave, NEW reply \in Replies, NEW verdict \in Verdicts,
         Run(s, reply, verdict), staged' \in Evidence, scan' \in ScanType,
         staged'.discovery = "complete" => HasNaabu
  PROVE  IInv'
<1>1. /\ wave' = wave \ {s}
      /\ saw' = IF plan[s].tool \in Readers THEN [saw EXCEPT ![plan[s].tool] = evidence] ELSE saw
      /\ last' = [tool |-> plan[s].tool, reply |-> reply, outcome |-> Classify(verdict)]
      /\ UNCHANGED <<request, disabled, plan, followed, placed, evidence>>
  BY DEF Run
<1>2. /\ s \in DOMAIN plan /\ placed \subseteq DOMAIN plan /\ wave \subseteq placed
      /\ evidence \in Evidence /\ saw \in [Readers -> Evidence]
  BY DEF IInv, TypeOK
<1>3. plan[s].tool \in Tools
  BY <1>2 DEF IInv, PlanFits
<1>4. saw' \in [Readers -> Evidence]
  BY <1>1, <1>2
<1>5. last' \in [tool : Tools \union {""}, reply : Replies, outcome : Outcomes \union {""}]
  BY <1>1, <1>3, ClassifyVerdicts
<1>6. TypeOK'
  BY <1>1, <1>2, <1>4, <1>5 DEF IInv, TypeOK, ScanType
<1>7. PlanFits'
  BY <1>1 DEF IInv, PlanFits, IsValid
<1>8. Discovered'
  BY <1>1 DEF IInv, Discovered, HasNaabu
<1> QED
  BY <1>6, <1>7, <1>8 DEF IInv

LEMMA RunStepInv ==
  ASSUME IInv, NEW s \in wave, RunStep(s)
  PROVE  IInv'
<1>1. PICK reply \in Replies, verdict \in Verdicts : Run(s, reply, verdict)
  BY HandlersEndWell DEF EndsWell
<1>2. /\ s \in DOMAIN plan /\ staged \in Evidence /\ evidence \in Evidence /\ scan \in ScanType
      /\ [request |-> request, disabled |-> disabled] \in Situations
      /\ staged.discovery = "complete" => HasNaabu
  BY DEF IInv, TypeOK, Discovered, ScanType
<1>3. request \in Requests
  BY <1>2, RequestType
<1>4. plan[s].tool \in {"naabu", "nmap"} =>
        /\ plan[s].scan = ScanParams(Parsed(request))
        /\ NaabuScope(plan[s].scan) \subseteq Ports /\ NmapScope(plan[s].scan) \subseteq Ports
        /\ plan[s].scan.udp \in BOOLEAN /\ plan[s].scan.os \in BOOLEAN
  BY <1>2, <1>3, ScanParamsType DEF IInv, PlanFits
<1> DEFINE Kept == staged' \in Evidence /\ scan' \in ScanType /\ (staged'.discovery = "complete" => HasNaabu)
<1>5. ASSUME UNCHANGED <<staged, scan>> PROVE Kept
  BY <1>2, <1>5
<1>6. ASSUME RunDns(s) PROVE Kept
  <2>1. PICK address \in BOOLEAN :
          staged' = [staged EXCEPT !.address = staged.address \/ address] /\ scan' = scan
    BY <1>6 DEF RunDns
  <2>2. staged' \in Evidence /\ staged'.discovery = staged.discovery
    BY <1>2, <2>1 DEF Evidence
  <2> QED
    BY <1>2, <2>1, <2>2
<1>7. ASSUME RunNaabu(s) PROVE Kept
  <2>1. PICK exit \in {"missing", "ok", "timeout", "error"}, open \in SUBSET NaabuScope(plan[s].scan) :
          staged' = [staged EXCEPT
            !.discovery = IF exit = "ok" THEN "complete" ELSE "partial",
            !.naabu = IF exit \in {"ok", "timeout"} THEN open ELSE {}]
    BY <1>7 DEF RunNaabu
  <2>2. plan[s].tool = "naabu" /\ scan' = scan
    BY <1>7 DEF RunNaabu
  <2>3. staged' \in Evidence
    BY <1>2, <1>4, <2>1, <2>2 DEF Evidence
  <2>4. HasNaabu
    BY <1>2, <2>2 DEF HasNaabu
  <2> QED
    BY <1>2, <2>2, <2>3, <2>4
<1>8. ASSUME SkipNmap(s) PROVE Kept
  <2>1. scan' = [NotScanned EXCEPT !.state = "skipped"] /\ staged' = staged
    BY <1>8 DEF SkipNmap
  <2>2. scan' \in ScanType
    BY <2>1 DEF NotScanned, ScanType
  <2> QED
    BY <1>2, <2>1, <2>2
<1>9. ASSUME RunNmap(s) PROVE Kept
  <2> DEFINE ports == NarrowedScope(plan[s])
             udp == plan[s].scan.udp
  <2>1. PICK open \in SUBSET ports :
          staged' = IF udp THEN staged ELSE [staged EXCEPT !.nmap = open]
    BY <1>9 DEF RunNmap
  <2>2. plan[s].tool = "nmap" /\
        scan' = [state |-> "ran", ports |-> ports, udp |-> udp, sudo |-> NeedsSudo(plan[s].scan)]
    BY <1>9 DEF RunNmap
  <2>3. ports \subseteq Ports
    BY <1>2, <1>4, <2>2 DEF NarrowedScope, Evidence
  <2>4. NeedsSudo(plan[s].scan) \in BOOLEAN
    BY <1>4, <2>2 DEF NeedsSudo
  <2> HIDE DEF ports
  <2>5. scan' \in ScanType
    BY <1>4, <2>2, <2>3, <2>4 DEF ScanType
  <2>6. staged' \in Evidence /\ staged'.discovery = staged.discovery
    BY <1>2, <2>1, <2>3 DEF Evidence
  <2> QED
    BY <1>2, <2>5, <2>6
<1>10. Kept
  BY <1>5, <1>6, <1>7, <1>8, <1>9
     DEF RunStep, RunSubfinder, RunIpintel, RunRdap, RunHttp, RunHttpx, RunFingerprint, RunWhatweb,
         RunKatana, RunTls, RunSslyze, RunRpcinfo, RunSmbclient, RunListing
<1> QED
  BY <1>1, <1>10, RunKeeps

LEMMA NextInv ==
  ASSUME IInv, [Next]_vars
  PROVE  IInv'
<1>1. ASSUME NEW s \in wave, RunStep(s)
      PROVE  IInv'
  BY <1>1, RunStepInv
<1>2. CASE NextWave
  <2>1. /\ wave' = NextGroup(plan, placed) /\ placed' = placed \union wave' /\ evidence' = staged
        /\ UNCHANGED <<request, disabled, plan, followed, staged, saw, scan, last>>
    BY <1>2 DEF NextWave
  <2>2. NextGroup(plan, placed) \subseteq DOMAIN plan
    BY DEF NextGroup, Ready
  <2>3. TypeOK'
    BY <2>1, <2>2 DEF IInv, TypeOK
  <2>4. PlanFits'
    BY <2>1 DEF IInv, PlanFits, IsValid
  <2>5. Discovered'
    BY <2>1 DEF IInv, Discovered, HasNaabu
  <2> QED
    BY <2>3, <2>4, <2>5 DEF IInv
<1>3. CASE FollowUp
  <2>1. PICK intents \in Intents : plan' = BuildFollowupPlan(request, intents)
    BY <1>3 DEF FollowUp
  <2>2. /\ followed' = TRUE /\ placed' = {} /\ wave = {} /\ wave' = wave
        /\ evidence' = NoEvidence /\ staged' = NoEvidence
        /\ saw' = [t \in Readers |-> Unseen] /\ scan' = NotScanned
        /\ last' = [last EXCEPT !.tool = "", !.reply = NoReply, !.outcome = ""]
        /\ request' = request /\ disabled' = disabled
    BY <1>3, Zenon DEF FollowUp
  <2>3. intents \in Seq(Capabilities)
    BY IntentsOK
  <2>4. IsValid(plan') /\ \A s \in DOMAIN plan' : plan'[s].tool \in Tools \ {"naabu", "nmap"}
    BY <2>1, <2>3, FollowupPlanFits
  <2>5. PlanFits'
    BY <2>4 DEF PlanFits, IsValid
  <2>6. evidence' \in Evidence /\ staged' \in Evidence /\ saw' \in [Readers -> Evidence]
    BY <2>2, NoEvidenceType
  <2>7. scan' \in ScanType
    BY <2>2 DEF NotScanned, ScanType
  <2>8. last' \in [tool : Tools \union {""}, reply : Replies, outcome : Outcomes \union {""}]
    BY <2>2, NoEvidenceType DEF IInv, TypeOK
  <2>9. TypeOK'
    BY <2>2, <2>6, <2>7, <2>8 DEF IInv, TypeOK, ScanType
  <2>10. Discovered'
    BY <2>2 DEF Discovered, NoEvidence
  <2> QED
    BY <2>5, <2>9, <2>10 DEF IInv
<1>4. CASE UNCHANGED vars
  <2>1. TypeOK'
    BY <1>4 DEF vars, IInv, TypeOK
  <2>2. PlanFits' /\ Discovered'
    BY <1>4 DEF vars, IInv, PlanFits, IsValid, Discovered, HasNaabu
  <2> QED
    BY <2>1, <2>2 DEF IInv
<1> QED
  BY <1>1, <1>2, <1>3, <1>4 DEF Next

LEMMA Invariance == Spec => []IInv
BY InitInv, NextInv, PTL DEF Spec

(* Types of the state, for every set of requests and intents. *)
THEOREM TypeCorrect == Spec => []TypeOK
BY Invariance, PTL DEF IInv

(* No plan, of any request, disabled tools or intents, has colliding
   identities, unknown dependencies or cycles (planner.py:224). *)
THEOREM PlansValid == Spec => []PlansAreValid
<1>1. IInv => PlansAreValid
  BY DEF IInv, PlanFits, IsValid, PlansAreValid
<1> QED
  BY <1>1, Invariance, PTL

-----------------------------------------------------------------------------
(* nmap runs with sudo only for requests of which the shell was told before
   that they need it (privileges.py:10). *)
THEOREM ElevationForeseen == Spec => []ElevationIsForeseen
<1>1. Init => ElevationIsForeseen
  <2> SUFFICES ASSUME Init PROVE ElevationIsForeseen
    OBVIOUS
  <2>1. scan = NotScanned
    BY Zenon DEF Init
  <2> QED
    BY <2>1 DEF NotScanned, ElevationIsForeseen
<1>2. IInv /\ ElevationIsForeseen /\ [Next]_vars => ElevationIsForeseen'
  <2> SUFFICES ASSUME IInv, ElevationIsForeseen, [Next]_vars
               PROVE  ElevationIsForeseen'
    OBVIOUS
  <2>1. CASE UNCHANGED <<scan, request, disabled>>
    BY <2>1 DEF ElevationIsForeseen, RequiresElevation
  <2>2. ASSUME NEW s \in wave, SkipNmap(s)
        PROVE  ElevationIsForeseen'
    BY <2>2 DEF SkipNmap, NotScanned, ElevationIsForeseen
  <2>3. ASSUME NEW s \in wave, RunNmap(s)
        PROVE  ElevationIsForeseen'
    <3>1. /\ plan[s].tool = "nmap" /\ scan'.sudo = NeedsSudo(plan[s].scan)
          /\ request' = request /\ disabled' = disabled
      BY <2>3 DEF RunNmap, Run
    <3>2. s \in DOMAIN plan
      BY DEF IInv, TypeOK
    <3> QED
      BY <3>1, <3>2 DEF IInv, PlanFits, ElevationIsForeseen
  <2>4. CASE FollowUp
    <3>1. scan' = NotScanned
      BY <2>4 DEF FollowUp
    <3> QED
      BY <3>1 DEF NotScanned, ElevationIsForeseen
  <2>5. ASSUME NEW s \in wave, RunStep(s), ~SkipNmap(s), ~RunNmap(s)
        PROVE  ElevationIsForeseen'
    <3>1. scan' = scan
      BY <2>5 DEF RunStep, RunDns, RunSubfinder, RunIpintel, RunRdap, RunHttp, RunHttpx,
                  RunFingerprint, RunWhatweb, RunKatana, RunTls, RunSslyze, RunRpcinfo,
                  RunSmbclient, RunListing, RunNaabu
    <3>2. PICK reply, verdict : Run(s, reply, verdict)
      BY <2>5, HandlersEndWell DEF EndsWell
    <3> QED
      BY <2>1, <3>1, <3>2 DEF Run
  <2>6. CASE NextWave \/ UNCHANGED vars
    BY <2>1, <2>6 DEF NextWave, vars
  <2> QED
    BY <2>2, <2>3, <2>4, <2>5, <2>6 DEF Next
<1> QED
  BY <1>1, <1>2, Invariance, PTL DEF Spec

-----------------------------------------------------------------------------
(* Of the TCP ports asked for nmap leaves out only those that a complete scan
   of naabu's found closed, whichever of the two was enabled, missing, failed
   or timed out (network.py:124, 139). *)
THEOREM CoverageKept == Spec => []CoverageIsKept
<1>1. Init => CoverageIsKept
  <2> SUFFICES ASSUME Init PROVE CoverageIsKept
    OBVIOUS
  <2>1. scan = NotScanned
    BY Zenon DEF Init
  <2> QED
    BY <2>1 DEF NotScanned, CoverageIsKept
<1>2. IInv /\ CoverageIsKept /\ [Next]_vars => CoverageIsKept'
  <2> SUFFICES ASSUME IInv, CoverageIsKept, [Next]_vars
               PROVE  CoverageIsKept'
    OBVIOUS
  <2>1. ASSUME UNCHANGED <<request, plan, scan>>, saw'["nmap"] = saw["nmap"]
        PROVE  CoverageIsKept'
    BY <2>1 DEF CoverageIsKept, RequestedPorts, FoundClosed, NaabuCovers
  <2>2. ASSUME NEW s \in wave, SkipNmap(s) \/ RunNmap(s)
        PROVE  CoverageIsKept'
    <3>1. /\ plan[s].tool = "nmap" /\ s \in DOMAIN plan
          /\ request \in Requests /\ saw \in [Readers -> Evidence]
          /\ plan[s].scan = ScanParams(Parsed(request))
      BY <2>2, RequestType DEF SkipNmap, RunNmap, IInv, TypeOK, PlanFits
    <3>2. /\ saw' = [saw EXCEPT !["nmap"] = evidence]
          /\ request' = request /\ plan' = plan
      BY <2>2, <3>1 DEF SkipNmap, RunNmap, Run, Readers
    <3>3. saw'["nmap"] = evidence
      BY <3>1, <3>2 DEF Readers
    <3> DEFINE sp == ScanParams(Parsed(request))
    <3>4. evidence.discovery = "complete" => FoundClosed' = NaabuScope(sp) \ evidence.naabu
      <4> SUFFICES ASSUME evidence.discovery = "complete"
                   PROVE  FoundClosed' = NaabuScope(sp) \ evidence.naabu
        OBVIOUS
      <4>1. PICK n \in DOMAIN plan' : plan'[n].tool = "naabu"
        BY <3>2 DEF IInv, Discovered, HasNaabu
      <4>2. \A t \in DOMAIN plan' :
              plan'[t].tool = "naabu" => NaabuScope(plan'[t].scan) = NaabuScope(sp)
        BY <3>2 DEF IInv, PlanFits
      <4>3. NaabuCovers' = NaabuScope(sp)
        BY <4>1, <4>2 DEF NaabuCovers
      <4> QED
        BY <3>3, <4>3 DEF FoundClosed
    <3>5. \/ evidence.discovery = "complete" /\ scan'.ports = evidence.naabu
          \/ scan'.ports = NmapScope(sp)
      BY <2>2, <3>1 DEF SkipNmap, RunNmap, NarrowedScope, NotScanned
    <3>6. RequestedPorts' = RequestedPorts
      BY <3>2 DEF RequestedPorts
    <3> QED
      BY <3>1, <3>2, <3>4, <3>5, <3>6, ScansCover DEF CoverageIsKept
  <2>3. ASSUME NEW s \in wave, RunStep(s), ~(SkipNmap(s) \/ RunNmap(s))
        PROVE  CoverageIsKept'
    <3>1. plan[s].tool # "nmap" /\ scan' = scan
      BY <2>3 DEF RunStep, RunDns, RunSubfinder, RunIpintel, RunRdap, RunHttp, RunHttpx,
                  RunFingerprint, RunWhatweb, RunKatana, RunTls, RunSslyze, RunRpcinfo,
                  RunSmbclient, RunListing, RunNaabu
    <3>2. PICK reply, verdict : Run(s, reply, verdict)
      BY <2>3, HandlersEndWell DEF EndsWell
    <3>3. saw'["nmap"] = saw["nmap"] /\ request' = request /\ plan' = plan
      BY <3>1, <3>2 DEF Run, IInv, TypeOK, Readers
    <3> QED
      BY <2>1, <3>1, <3>3
  <2>4. CASE FollowUp
    <3>1. scan' = NotScanned
      BY <2>4 DEF FollowUp
    <3> QED
      BY <3>1 DEF NotScanned, CoverageIsKept
  <2>5. CASE NextWave \/ UNCHANGED vars
    BY <2>1, <2>5 DEF NextWave, vars
  <2> QED
    BY <2>2, <2>3, <2>4, <2>5 DEF Next
<1> QED
  BY <1>1, <1>2, Invariance, PTL DEF Spec
-----------------------------------------------------------------------------
(* Evidence in time. *)

\* Step s of a plan makes evidence that step t looks at.
Feeds(p, s, t) ==
  \/ p[s].tool = "naabu" /\ p[t].tool \in {"nmap", "httpx"}
  \/ p[s].tool = "nmap" /\ p[t].tool = "httpx"
  \/ p[s].tool = "dns" /\ p[t].tool \in {"ipintel", "rdap"}

\* A step waits for the steps that make what it looks at.
Linked(p) ==
  \A s, t \in DOMAIN p : Feeds(p, s, t) => p[s].id \in DependsOn(p, t)

\* What a tool looks at is the same in both.
Same(tool, x, y) ==
  /\ tool = "nmap" => x.discovery = y.discovery /\ x.naabu = y.naabu
  /\ tool = "httpx" => OpenPorts(x) = OpenPorts(y)
  /\ tool \in {"ipintel", "rdap"} => x.address = y.address

\* What a placed step depends on has ended, and what a step was or is given
\* is what there is.
InTime ==
  /\ Linked(plan)
  /\ \A t \in placed, s \in DOMAIN plan :
       plan[s].id \in DependsOn(plan, t) => s \in placed \ wave
  /\ \A t \in wave : Same(plan[t].tool, evidence, staged)
  /\ \A tool \in Readers : saw[tool] # Unseen =>
       /\ Same(tool, saw[tool], staged)
       /\ \E t \in placed \ wave : plan[t].tool = tool

\* Addresses of an address are not looked up.
LEMMA NoLookupOfAddresses ==
  ASSUME NEW r, r.type = "ip", NEW i \in 1 .. Len(Pipeline(r))
  PROVE  Pipeline(r)[i][1] # "dns"
BY DEF Pipeline

\* The first plan runs whoever looks at evidence after those who make it.
LEMMA FirstPlanLinked ==
  ASSUME NEW r, r.type \in {"ip", "domain", "url"}, NEW D, NEW tools
  PROVE  Linked(PlanFor(r, D, tools))
<1> DEFINE pipeline == Pipeline(r)
           chosen == {i \in 1 .. Len(pipeline) :
                        pipeline[i][1] \in tools /\ Selected(r, D, pipeline[i][1])}
           steps == [i \in chosen |-> StepFor(r, pipeline[i][1], pipeline[i][2])]
           p == ExecutionPlan(steps)
<1>1. Len(pipeline) \in Nat
  BY PipelineFinite
<1>2. r.type = "ip" => \A i \in chosen : pipeline[i][1] # "dns"
  BY NoLookupOfAddresses
<1>3. PlanFor(r, D, tools) = p
  BY DEF PlanFor
<1> HIDE DEF pipeline
<1>4. chosen \subseteq Nat /\ IsFiniteSet(chosen)
  <2>1. IsFiniteSet(1 .. Len(pipeline))
    BY <1>1, FS_Interval
  <2> QED
    BY <1>1, <2>1, FS_Subset
<1>5. AreSteps(steps)
  BY <1>4, StepForIsStep DEF AreSteps
<1>6. ASSUME NEW i \in chosen
      PROVE  /\ steps[i].tool = pipeline[i][1]
             /\ steps[i].group = ExecutionGroup(steps[i].tool, r.type = "ip")
  BY DEF StepFor
<1>7. ASSUME NEW s \in chosen, NEW t \in chosen, Feeds(steps, s, t)
      PROVE  steps[s].group < steps[t].group
  <2>1. steps[s].tool = "dns" => r.type # "ip"
    BY <1>2, <1>6
  <2> HIDE DEF steps, chosen
  <2> QED BY <1>6, <1>7, <2>1 DEF Feeds, ExecutionGroup
<1>8. DOMAIN steps = chosen
  OBVIOUS
<1> HIDE DEF steps, chosen
<1>9. ASSUME NEW s \in DOMAIN p, NEW t \in DOMAIN p, Feeds(p, s, t)
      PROVE  p[s].id \in DependsOn(p, t)
  <2>1. s \in chosen /\ t \in chosen /\ p[s].tool = steps[s].tool /\ p[t].tool = steps[t].tool
    BY <1>5, <1>8, ExecutionPlanFields
  <2>2. steps[s].group < steps[t].group
    BY <1>7, <1>9, <2>1 DEF Feeds
  <2>3. /\ p[s].id = StepId(steps, s)
        /\ [on |-> StepId(steps, s), optional |-> TRUE, needs |-> {}] \in p[t].deps
    BY <1>5, <1>8, <2>1, <2>2, ExecutionPlanFields
  <2> QED BY <2>3 DEF DependsOn
<1> QED BY <1>3, <1>9 DEF Linked

\* A follow-up plan makes no evidence of those kinds.
LEMMA FollowupPlanLinked ==
  ASSUME NEW q, NEW intents \in Seq(Capabilities)
  PROVE  Linked(BuildFollowupPlan(q, intents))
<1> DEFINE steps == [i \in 1 .. Len(intents) |-> FollowupStep(Parsed(q), intents[i])]
           p == ExecutionPlan(steps)
<1>1. ASSUME NEW intent \in Capabilities
      PROVE  IsStep(FollowupStep(Parsed(q), intent)) /\ FollowupStep(Parsed(q), intent).tool # "dns"
  <2> DEFINE entry == FollowupTool(intent)
             step == StepFor(Parsed(q), entry[1], entry[2])
  <2>1. entry[1] # "dns"
    BY DEF Capabilities, FollowupTool
  <2>2. IsStep(step) /\ step.tool = entry[1]
    BY StepForIsStep
  <2>3. FollowupStep(Parsed(q), intent) =
          [step EXCEPT !.group = IF entry[1] = "fingerprint" THEN 1 ELSE 0]
    BY DEF FollowupStep
  <2> HIDE DEF entry, step
  <2> QED BY <2>1, <2>2, <2>3 DEF IsStep, StepFields
<1>2. Len(intents) \in Nat /\ \A i \in 1 .. Len(intents) : intents[i] \in Capabilities
  OBVIOUS
<1>3. AreSteps(steps)
  <2>1. IsFiniteSet(1 .. Len(intents))
    BY <1>2, FS_Interval
  <2> QED BY <1>1, <1>2, <2>1 DEF AreSteps
<1>4. BuildFollowupPlan(q, intents) = p
  BY DEF BuildFollowupPlan
<1>5. \A s \in DOMAIN steps : steps[s].tool # "dns"
  BY <1>1, <1>2
<1>6. \A s \in DOMAIN p : p[s].tool \notin {"naabu", "nmap", "dns"}
  <2>1. \A s \in DOMAIN p : p[s].tool \notin {"naabu", "nmap"}
    BY <1>4, FollowupPlanFits
  <2>2. \A s \in DOMAIN p : p[s].tool = steps[s].tool /\ s \in DOMAIN steps
    <3> HIDE DEF steps
    <3> QED BY <1>3, ExecutionPlanFields
  <2> QED BY <1>5, <2>1, <2>2
<1> QED BY <1>4, <1>6 DEF Linked, Feeds

\* A step changes nothing that a tool looks at which it does not feed.
LEMMA StagedKept ==
  ASSUME IInv, NEW s \in wave, RunStep(s), NEW tool \in Readers, NEW seen \in Evidence,
         Same(tool, seen, staged),
         ~ (plan[s].tool = "naabu" /\ tool \in {"nmap", "httpx"}),
         ~ (plan[s].tool = "nmap" /\ tool = "httpx"),
         ~ (plan[s].tool = "dns" /\ tool \in {"ipintel", "rdap"})
  PROVE  Same(tool, seen, staged')
<1>1. staged \in Evidence
  BY DEF IInv, TypeOK
<1>2. CASE staged' = staged
  BY <1>2
<1>3. CASE RunDns(s)
  <2>1. tool \notin {"ipintel", "rdap"}
    BY <1>3 DEF RunDns
  <2>2. PICK address : staged' = [staged EXCEPT !.address = address]
    BY <1>3 DEF RunDns
  <2>3. /\ staged'.discovery = staged.discovery /\ staged'.naabu = staged.naabu
        /\ staged'.nmap = staged.nmap
    BY <1>1, <2>2 DEF Evidence
  <2> QED BY <2>1, <2>3 DEF Same, OpenPorts
<1>4. CASE RunNaabu(s)
  <2>1. tool \in {"ipintel", "rdap"}
    BY <1>4 DEF RunNaabu, Readers
  <2>2. PICK d, open : staged' = [staged EXCEPT !.discovery = d, !.naabu = open]
    BY <1>4 DEF RunNaabu
  <2>3. staged'.address = staged.address
    BY <1>1, <2>2 DEF Evidence
  <2> QED BY <2>1, <2>3 DEF Same
<1>5. CASE RunNmap(s)
  <2>1. tool # "httpx"
    BY <1>5 DEF RunNmap
  <2>2. \/ staged' = staged
        \/ \E open : staged' = [staged EXCEPT !.nmap = open]
    BY <1>5 DEF RunNmap
  <2>3. /\ staged'.discovery = staged.discovery /\ staged'.naabu = staged.naabu
        /\ staged'.address = staged.address
    BY <1>1, <2>2 DEF Evidence
  <2> QED BY <2>1, <2>3 DEF Same
<1> QED
  BY <1>2, <1>3, <1>4, <1>5
     DEF RunStep, RunSubfinder, RunIpintel, RunRdap, RunHttp, RunHttpx, RunFingerprint, RunWhatweb,
         RunKatana, RunTls, RunSslyze, RunRpcinfo, RunSmbclient, RunListing, SkipNmap

\* A step that is run finds what it looks at, and disturbs no other.
LEMMA RunInTime ==
  ASSUME IInv, InTime, NEW s \in wave, RunStep(s)
  PROVE  InTime'
<1>1. PICK reply, verdict : Run(s, reply, verdict)
  BY HandlersEndWell DEF EndsWell
<1>2. /\ wave' = wave \ {s} /\ UNCHANGED <<plan, placed, evidence>>
      /\ saw' = IF plan[s].tool \in Readers THEN [saw EXCEPT ![plan[s].tool] = evidence] ELSE saw
  BY <1>1 DEF Run
<1>3. /\ wave \subseteq placed /\ placed \subseteq DOMAIN plan /\ evidence \in Evidence
      /\ staged \in Evidence /\ saw \in [Readers -> Evidence]
  BY DEF IInv, TypeOK
<1>4. ASSUME NEW t \in placed PROVE ~ Feeds(plan, s, t)
  BY <1>3 DEF InTime, Linked
<1>5. Linked(plan)' /\ \A t \in placed', u \in DOMAIN plan' :
        plan'[u].id \in DependsOn(plan', t) => u \in placed' \ wave'
  BY <1>2 DEF InTime, Linked, Feeds
<1>6. ASSUME NEW t \in placed, plan[t].tool \in Readers, NEW seen \in Evidence,
             Same(plan[t].tool, seen, staged)
      PROVE  Same(plan[t].tool, seen, staged')
  <2>1. ~ Feeds(plan, s, t)
    BY <1>4
  <2> QED BY <1>6, <2>1, StagedKept DEF Feeds
<1>7. ASSUME NEW t \in wave' PROVE Same(plan'[t].tool, evidence', staged')
  <2>1. t \in wave /\ t \in placed /\ Same(plan[t].tool, evidence, staged)
    BY <1>2, <1>3, <1>7 DEF InTime
  <2>2. CASE plan[t].tool \in Readers
    BY <1>2, <1>3, <1>6, <2>1, <2>2
  <2>3. CASE plan[t].tool \notin Readers
    BY <1>2, <2>3 DEF Same, Readers
  <2> QED BY <2>2, <2>3
<1>8. ASSUME NEW tool \in Readers, saw'[tool] # Unseen
      PROVE  Same(tool, saw'[tool], staged') /\ \E t \in placed' \ wave' : plan'[t].tool = tool
  <2>1. CASE tool = plan[s].tool
    <3>1. saw'[tool] = evidence
      BY <1>2, <1>3, <2>1
    <3>2. s \in placed /\ Same(plan[s].tool, evidence, staged)
      BY <1>3 DEF InTime
    <3>3. Same(tool, evidence, staged')
      BY <1>3, <1>6, <2>1, <3>2
    <3>4. s \in placed' \ wave' /\ plan'[s].tool = tool
      BY <1>2, <2>1, <3>2
    <3> QED BY <3>1, <3>3, <3>4
  <2>2. CASE tool # plan[s].tool
    <3>1. saw'[tool] = saw[tool]
      BY <1>2, <1>3, <2>2
    <3>2. PICK t \in placed \ wave : plan[t].tool = tool /\ Same(tool, saw[tool], staged)
      BY <1>8, <3>1 DEF InTime
    <3>3. saw[tool] \in Evidence
      BY <1>3
    <3>4. Same(tool, saw[tool], staged')
      BY <1>6, <3>2, <3>3
    <3>5. t \in placed' \ wave' /\ plan'[t].tool = tool
      BY <1>2, <3>2
    <3> QED BY <3>1, <3>4, <3>5
  <2> QED BY <2>1, <2>2
<1> QED BY <1>5, <1>7, <1>8 DEF InTime

\* A wave is placed when all that its steps depend on has ended.
LEMMA WaveInTime ==
  ASSUME IInv, InTime, NextWave
  PROVE  InTime'
<1>1. /\ wave = {} /\ wave' = NextGroup(plan, placed) /\ placed' = placed \union wave'
      /\ evidence' = staged /\ UNCHANGED <<plan, staged, saw>>
  BY DEF NextWave
<1>2. /\ wave' \subseteq DOMAIN plan \ placed /\ placed \subseteq DOMAIN plan
      /\ \A s, t \in DOMAIN plan : plan[s].id = plan[t].id => s = t
  BY <1>1 DEF NextGroup, Ready, IInv, TypeOK, PlanFits, IsValid
<1>3. ASSUME NEW t \in wave', NEW s \in DOMAIN plan, plan[s].id \in DependsOn(plan, t)
      PROVE  s \in placed
  <2>1. t \in DOMAIN plan /\ HasDependencies(plan)
    BY <1>2, <1>3 DEF DependsOn, HasDependencies
  <2>2. DependsOn(plan, t) \subseteq Identities(plan, placed)
    BY <1>1, <1>3, <2>1 DEF NextGroup, Ready
  <2>3. PICK u \in placed : plan[u].id = plan[s].id
    BY <1>3, <2>2 DEF Identities
  <2> QED BY <1>2, <2>3
<1>4. Linked(plan)'
  BY <1>1 DEF InTime, Linked, Feeds
<1>5. ASSUME NEW t \in placed', NEW s \in DOMAIN plan', plan'[s].id \in DependsOn(plan', t)
      PROVE  s \in placed' \ wave'
  <2>1. s \in placed
    BY <1>1, <1>3, <1>5 DEF InTime
  <2> QED BY <1>1, <1>2, <2>1
<1>6. \A t \in wave' : Same(plan'[t].tool, evidence', staged')
  BY <1>1 DEF Same
<1>7. ASSUME NEW tool \in Readers, saw'[tool] # Unseen
      PROVE  Same(tool, saw'[tool], staged') /\ \E t \in placed' \ wave' : plan'[t].tool = tool
  BY <1>1, <1>2, <1>7 DEF InTime
<1> QED BY <1>4, <1>5, <1>6, <1>7 DEF InTime

(* Nothing comes too late: what nmap, httpx, ipintel and rdap look at is all
   made by steps they wait for, in every plan (planner.py:224, scheduler). *)
THEOREM EvidenceInTime == Spec => []NothingComesLate
<1>1. Init => InTime
  <2> SUFFICES ASSUME Init PROVE InTime
    OBVIOUS
  <2>1. placed = {} /\ wave = {} /\ saw = [t \in Readers |-> Unseen]
    BY Zenon DEF Init
  <2>2. [request |-> request, disabled |-> disabled] \in Situations
    BY InitInv DEF IInv, TypeOK
  <2>3. Parsed(request).type \in {"ip", "domain", "url"}
    BY <2>2, RequestType, ParsedRequest
  <2>4. \/ plan = BuildEssentialPlan(request, disabled)
        \/ plan = BuildPlan(request, disabled)
    BY DEF Init
  <2>5. Linked(plan)
    BY <2>3, <2>4, FirstPlanLinked DEF BuildEssentialPlan, BuildPlan
  <2> QED BY <2>1, <2>5 DEF InTime
<1>2. IInv /\ InTime /\ [Next]_vars => InTime'
  <2> SUFFICES ASSUME IInv, InTime, [Next]_vars PROVE InTime'
    OBVIOUS
  <2>1. CASE FollowUp
    <3>1. PICK intents \in Intents : plan' = BuildFollowupPlan(request, intents)
      BY <2>1 DEF FollowUp
    <3>2. /\ placed' = {} /\ wave' = {} /\ saw' = [t \in Readers |-> Unseen]
      BY <2>1, Zenon DEF FollowUp
    <3>3. Linked(plan')
      BY <3>1, IntentsOK, FollowupPlanLinked
    <3> QED BY <3>2, <3>3 DEF InTime, Linked, Feeds
  <2>2. CASE UNCHANGED vars
    BY <2>2 DEF vars, InTime, Linked, Feeds
  <2> QED BY <2>1, <2>2, RunInTime, WaveInTime DEF Next
<1>3. InTime => NothingComesLate
  BY DEF InTime, NothingComesLate, Same, Readers
<1> QED BY <1>1, <1>2, <1>3, Invariance, PTL DEF Spec
=============================================================================
