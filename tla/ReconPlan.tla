----------------------------- MODULE ReconPlan -----------------------------
(***************************************************************************)
(* From a recon request to a plan (engine/planner.py, core/recon/).        *)
(*                                                                         *)
(* A request has                                                           *)
(*   type, tls    what the target is; a URL may be https,                  *)
(*   strategy, transport, top, probe   as given, "" or 0 if not,           *)
(*   ports        what is listed after "ports=", each item a port, a range *)
(*                or "all", that is: a set of ports.                       *)
(* A port is known by its place in the list of the most common ports, which*)
(* naabu and nmap are taken to share.                                      *)
(*                                                                         *)
(* scan_policy.py knows more overrides (profile, os, os_detection, service,*)
(* scripts, timing), but validate_recon_expression refuses a request with  *)
(* one of them before anybody looks at it. speed sets nmap's timing only.  *)
(***************************************************************************)
EXTENDS PlanGraph

CONSTANT Ports

ASSUME PortsAreRanks == Ports \subseteq Nat \ {0}

TopPorts(n) == {p \in Ports : p <= n}

Strategies == {"surface", "fast", "balanced", "quiet", "deep", "udp", "auto"}

Tools == {"dns", "subfinder", "ipintel", "http", "httpx", "fingerprint", "whatweb",
          "katana", "tls", "sslyze", "rdap", "rpcinfo", "smbclient", "naabu", "nmap"}

-----------------------------------------------------------------------------
\* parse_expression takes every comma for the end of a parameter, and what
\* then has no "=" for nothing: of a list of ports the first item is left.
Parsed(request) ==
  [request EXCEPT !.ports = IF request.ports = <<>> THEN {} ELSE Head(request.ports)]

ReconProfile(r) == IF r.strategy \in Strategies THEN r.strategy ELSE "balanced"

\* config/recon_tools.json
Supports(tool, profile) ==
  CASE tool \in {"dns", "http", "httpx", "nmap"} -> TRUE
    [] tool = "ipintel"   -> profile \notin {"surface", "fast"}
    [] tool = "naabu"     -> profile # "udp"
    [] tool = "smbclient" -> profile = "auto"
    [] OTHER              -> profile # "auto"

-----------------------------------------------------------------------------
\* Scan policies: how many of the most common ports; deep scans all instead.
PolicyTop == [surface |-> 100, fast |-> 1000, balanced |-> 5000, quiet |-> 1000,
              deep |-> 0, udp |-> 100, auto |-> 5000]

PolicyName(r) == IF r.transport = "udp" THEN "udp" ELSE ReconProfile(r)

NothingToScan == [ports |-> {}, top |-> 0, udp |-> FALSE, os |-> FALSE]

\* nmap_policy_params: the policy, and what the request has to say instead.
\* A set of ports is empty, a number of ports 0, if there is none.
ScanParams(r) ==
  LET policy == PolicyName(r)
      given  == r.ports # {} \/ r.top # 0
  IN  [ports |-> IF given \/ policy # "deep" THEN r.ports ELSE Ports,
       top   |-> IF given THEN r.top ELSE PolicyTop[policy],
       udp   |-> policy = "udp",
       os    |-> IF r.probe # "" THEN r.probe = "fingerprint" ELSE policy = "deep"]

\* What naabu's command covers. It has lists of the 100 and the 1000 most
\* common ports; otherwise it scans all.
NaabuScope(scan) ==
  IF scan.ports # {} THEN scan.ports
  ELSE IF scan.top \in {100, 1000} THEN TopPorts(scan.top) ELSE Ports

\* What nmap's command covers, which looks at top_ports first.
NmapScope(scan) == IF scan.top # 0 THEN TopPorts(scan.top) ELSE scan.ports

\* Of the flags Blackline uses, -sU and -O are privileged.
NeedsSudo(scan) == scan.udp \/ scan.os

-----------------------------------------------------------------------------
\* Mutant: httpx runs with the other web tools.
ExecutionGroup_WithWebTools(tool, ip) ==
  CASE tool = "nmap"    -> IF ip THEN 1 ELSE 2
    [] tool = "ipintel" -> IF ip THEN 0 ELSE 1
    [] tool \in {"sslyze", "rpcinfo", "fingerprint", "whatweb", "katana", "httpx"} -> 1
    [] tool = "rdap"    -> 2
    [] OTHER            -> 0

ExecutionGroup(tool, ip) ==
  CASE tool = "nmap"    -> IF ip THEN 1 ELSE 2
    [] tool = "ipintel" -> IF ip THEN 0 ELSE 1
    [] tool = "httpx"   -> 3
    [] tool \in {"sslyze", "rpcinfo", "fingerprint", "whatweb", "katana"} -> 1
    [] tool = "rdap"    -> 2
    [] OTHER            -> 0

\* The pipeline of a target, as <<tool, action>>; without reverse_dns, for
\* which there is no handler yet, and which no plan takes over.
Pipeline(r) ==
  LET web     == <<<<"httpx", "httpx_probe">>, <<"fingerprint", "web_fingerprint">>,
                   <<"whatweb", "whatweb_fingerprint">>>>
      crawl   == <<<<"katana", "web_crawl">>>>
      tls     == <<<<"tls", "tls_inspection">>, <<"sslyze", "sslyze">>>>
      rdap    == <<<<"rdap", "rdap">>>>
      rpc     == <<<<"rpcinfo", "rpcinfo">>>>
      dns     == <<<<"dns", "dns">>>>
      intel   == <<<<"ipintel", "ipintel">>>>
      probe   == <<<<"http", "http_probe">>>>
      scans   == <<<<"naabu", "fast_port_discovery">>, <<"nmap", "port_scan">>>>
  IN  CASE r.type = "ip"     -> intel \o <<<<"http", "http_ip_probe">>>> \o web \o tls
                                  \o rdap \o rpc \o scans
        [] r.type = "domain" -> dns \o <<<<"subfinder", "subfinder">>>> \o intel \o probe
                                  \o web \o crawl \o tls \o rdap \o rpc \o scans
        [] r.type = "url"    -> probe \o web \o crawl \o dns \o intel
                                  \o (IF r.tls THEN tls ELSE <<>>) \o rdap \o scans

\* _plan_step_from_recon_step; identity and dependencies follow.
StepFor(r, tool, action) ==
  [tool |-> tool, action |-> action, ip |-> r.type = "ip",
   group |-> ExecutionGroup(tool, r.type = "ip"),
   scan |-> IF tool \in {"naabu", "nmap"} THEN ScanParams(r) ELSE NothingToScan,
   id |-> "", deps |-> {}]

\* Mutant: one identity for all uses of a tool for an action.
Occurrence_Same(steps, i) == 1

Occurrence(steps, i) ==
  Cardinality({j \in DOMAIN steps : /\ j <= i
                                    /\ steps[j].tool = steps[i].tool
                                    /\ steps[j].action = steps[i].action})

StepId(steps, i) == <<steps[i].tool, steps[i].action, Occurrence(steps, i)>>

\* _execution_plan: identities, and with _attach_wave_dependencies that a step
\* depends on all of lower groups. What it consumes of them is not required, as
\* these dependencies are optional.
ExecutionPlan(steps) ==
  [i \in DOMAIN steps |->
     [steps[i] EXCEPT
        !.id   = StepId(steps, i),
        !.deps = {[on |-> StepId(steps, j), optional |-> TRUE, needs |-> {}] :
                    j \in {k \in DOMAIN steps : steps[k].group < steps[i].group}}]]

\* The profile has the tool, and the user enables it.
Selected(r, disabled, tool) == tool \notin disabled /\ Supports(tool, ReconProfile(r))

\* Plans for a pipeline. What is not selected leaves a gap in the numbers of
\* the steps, of which only the order matters.
PlanFor(r, disabled, tools) ==
  LET pipeline == Pipeline(r)
      chosen   == {i \in 1 .. Len(pipeline) :
                     pipeline[i][1] \in tools /\ Selected(r, disabled, pipeline[i][1])}
  IN  ExecutionPlan([i \in chosen |-> StepFor(r, pipeline[i][1], pipeline[i][2])])

BuildPlan(request, disabled) == PlanFor(Parsed(request), disabled, Tools)

\* What Vector needs before it can decide anything.
BuildEssentialPlan(request, disabled) ==
  PlanFor(Parsed(request), disabled,
          {"dns", "naabu", "nmap"} \union (IF request.type = "url" THEN {"http"} ELSE {}))

\* What Vector can ask for (config/vector/recon.json): a verb and a subject.
Capabilities ==
  {<<"collect", "network_intelligence_after_failure">>,
   <<"collect", "network_intelligence_after_empty_scan">>,
   <<"discover", "http_services">>, <<"probe", "http">>, <<"probe", "https">>,
   <<"fingerprint", "http">>, <<"fingerprint", "https">>,
   <<"inspect", "tls">>, <<"inspect", "smb">>}

\* recon_capabilities: and what it is given for a request.
ReconCapabilities(r) ==
  {c \in Capabilities : /\ r.transport = "udp" => c[1] = "collect"
                        /\ r.probe \in {"surface", "service"} => c[1] = "probe"}

FollowupTool(intent) ==
  CASE intent[1] = "collect"                    -> <<"ipintel", "network_intelligence">>
    [] intent[1] = "discover"                   -> <<"httpx", "discover_http_services">>
    [] intent[1] = "probe"                      -> <<"httpx", "httpx_probe">>
    [] intent[1] = "fingerprint"                -> <<"fingerprint", "web_fingerprint">>
    [] intent = <<"inspect", "tls">>            -> <<"tls", "tls_inspection">>
    [] intent = <<"inspect", "smb">>            -> <<"smbclient", "smb_share_enumeration">>

FollowupStep(r, intent) ==
  LET entry == FollowupTool(intent)
  IN  [StepFor(r, entry[1], entry[2]) EXCEPT !.group = IF entry[1] = "fingerprint" THEN 1 ELSE 0]

BuildFollowupPlan(request, intents) ==
  ExecutionPlan([i \in 1 .. Len(intents) |-> FollowupStep(Parsed(request), intents[i])])

\* Mutant: of the scans only that of UDP is taken for privileged.
RequiresElevation_UdpOnly(request, disabled) ==
  LET plan == BuildPlan(request, disabled)
  IN  \E s \in DOMAIN plan : plan[s].tool = "nmap" /\ plan[s].scan.udp

\* Whether the shell has to be elevated for a request, decided before it runs.
RequiresElevation(request, disabled) ==
  LET plan == BuildPlan(request, disabled)
  IN  \E s \in DOMAIN plan : plan[s].tool = "nmap" /\ NeedsSudo(plan[s].scan)
=============================================================================
