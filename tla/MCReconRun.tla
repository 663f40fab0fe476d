----------------------------- MODULE MCReconRun -----------------------------
(***************************************************************************)
(* Ports among the 100, the 5000, and beyond the 5000 most common. All     *)
(* strategies for all targets as they are; ports and probes, and disabled  *)
(* tools, with a domain.                                                   *)
(***************************************************************************)
EXTENDS ReconRun

MCPorts == {50, 2000, 60000}

Plain(type, tls, strategy, transport) ==
  [type |-> type, tls |-> tls, strategy |-> strategy, transport |-> transport,
   ports |-> <<>>, top |-> 0, probe |-> ""]

Everyday ==
  {Plain(t[1], t[2], strategy, transport) :
     t \in {<<"ip", FALSE>>, <<"domain", FALSE>>, <<"url", FALSE>>, <<"url", TRUE>>},
     strategy \in Strategies \union {""}, transport \in {"", "udp"}}

Domain == Plain("domain", FALSE, "", "")

Particular ==
  UNION {{[r EXCEPT !.ports = p] : p \in {<<{2000}>>, <<{50}, {60000}>>, <<MCPorts>>}}
           \union {[r EXCEPT !.top = n] : n \in {100, 1000, 3000}}
           \union {[r EXCEPT !.ports = <<{2000}>>, !.top = 100]}
           \union {[r EXCEPT !.probe = p] : p \in {"service", "fingerprint"}} :
         r \in {[Domain EXCEPT !.strategy = s] : s \in {"balanced", "deep", "auto"}}}

MCSituations ==
  {[request |-> r, disabled |-> {}] : r \in Everyday \union Particular}
    \union {[request |-> Domain, disabled |-> d] :
              d \in {{"naabu"}, {"nmap"}, {"dns"}, {"naabu", "nmap", "httpx"}}}

\* One or two of them, alike if for different endpoints; what to collect is
\* for the target as a whole.
MCIntents ==
  {<<c>> : c \in Capabilities}
    \union {<<c, d>> : c \in Capabilities, d \in {e \in Capabilities : e[1] # "collect"}}
=============================================================================
