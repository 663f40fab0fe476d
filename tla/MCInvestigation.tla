-------------------------- MODULE MCInvestigation --------------------------
(***************************************************************************)
(* Two endpoints, and the catalogue of config/vector/recon.json, scored    *)
(* with the cost weight of the auto strategy and in the order of the       *)
(* identities of candidates ("probe:https|" sorts before "probe:http|").   *)
(***************************************************************************)
EXTENDS Investigation

IfService(protocol) == {[entity |-> "service", value |-> protocol, state |-> "open"]}

IfNmap(state) == {[entity |-> "discovery", value |-> "nmap", state |-> state]}

Capability(verb, subject, requires, score) ==
  [verb |-> verb, subject |-> subject, requires |-> requires, score |-> score]

MCCatalog ==
  << Capability("collect", "network_intelligence_after_empty_scan", IfNmap("no_services"), 3),
     Capability("collect", "network_intelligence_after_failure", IfNmap("failed"), 4),
     Capability("discover", "http_services", IfService("unknown"), 4),
     Capability("fingerprint", "https", IfService("https"), 1),
     Capability("fingerprint", "http", IfService("http"), 1),
     Capability("inspect", "smb", IfService("smb"), 1),
     Capability("inspect", "tls", IfService("https"), 1),
     Capability("probe", "https", IfService("https"), 3),
     Capability("probe", "http", IfService("http"), 3) >>

MCFactKeys == {NmapFact}
=============================================================================
