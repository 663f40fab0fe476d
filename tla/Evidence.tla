------------------------------ MODULE Evidence ------------------------------
(***************************************************************************)
(* The evidence graph (core/recon/evidence.py): the results of a run, one  *)
(* for each tool, turned into claims about subjects, each with the sources *)
(* that support it.                                                        *)
(*                                                                         *)
(* A payload has the provider that is named in it, if any, the certificate *)
(* parser (of tls), and findings: records of which each field is a         *)
(* sequence of values, or is not there.  A tool whose payload has no list  *)
(* of findings has one finding.  Values are what is left after strip.      *)
(***************************************************************************)
EXTENDS Selection, Sequences, SequencesExt

\* Rows: what a field of a finding says of whom, and the values that say nothing.
Row(field, subject, predicate, unsaid) ==
  [field |-> field, subject |-> subject, predicate |-> predicate, unsaid |-> unsaid]

Says(field, predicate) == Row(field, "target", predicate, {""})

SaysKnown(field, predicate) == Row(field, "target", predicate, {"", "unknown"})

Technology == SaysKnown("technologies", "uses_technology")

WebServer == <<SaysKnown("webserver", "served_by"), Technology>>

\* The tools, in the order in which they are correlated, and their rows.
Order == <<"dns", "subfinder", "rdap", "ipintel", "fingerprint", "httpx", "whatweb",
           "katana", "rpcinfo", "smbclient", "naabu", "sslyze", "tls">>

Rows ==
  [dns         |-> <<Says("A", "resolves_to"), Says("AAAA", "resolves_to")>>,
   subfinder   |-> <<Says("host", "discovers_subdomain")>>,
   rdap        |-> <<Says("domain", "identifies_domain"),
                     Row("registrar", "domain", "registered_by", {"", "unknown"}),
                     Says("address", "resolves_to"),
                     Row("organization", "address", "owned_by", {"", "unknown"}),
                     Row("asn", "address", "announced_by", {"", "unknown"})>>,
   ipintel     |-> <<Says("lookup_ip", "resolves_to"),
                     Row("asn", "lookup_ip", "announced_by", {"", "unknown"}),
                     Row("org", "lookup_ip", "owned_by", {"", "unknown", "private network"})>>,
   fingerprint |-> <<SaysKnown("server", "served_by"), SaysKnown("framework", "uses_framework")>>,
   httpx       |-> WebServer,
   whatweb     |-> WebServer,
   katana      |-> <<Says("url", "discovers_endpoint"), Technology>>,
   rpcinfo     |-> <<Says("registration", "exposes_rpc_service")>>,
   smbclient   |-> <<Says("name", "exposes_smb_share")>>,
   naabu       |-> <<Says("port", "exposes_port")>>,
   sslyze      |-> <<Says("protocols", "supports_tls_protocol"), Says("findings", "has_tls_finding")>>,
   tls         |-> <<Says("sans", "presents_tls_name")>>]

Fallback(tool) ==
  CASE tool \in {"dns", "ipintel"} -> <<>>
    [] tool = "rdap"               -> <<"rdap.org">>
    [] tool = "fingerprint"        -> <<"urllib">>
    [] tool = "tls"                -> <<"python ssl">>
    [] OTHER                       -> <<tool>>

Values(finding, field) == IF field \in DOMAIN finding THEN finding[field] ELSE <<>>

\* _sources, with what tls and subfinder add to it.
Sources(tool, payload, finding) ==
  LET named == IF payload.provider = "" THEN Fallback(tool) ELSE <<payload.provider>>
      parser == IF payload.parser = "" \/ payload.parser \in ToSet(named) THEN <<>> ELSE <<payload.parser>>
  IN  CASE tool = "tls" -> named \o parser
        [] tool = "subfinder" /\ Values(finding, "sources") # <<>> -> finding.sources
        [] OTHER -> named

\* Whom a row speaks of: what the finding has in that field, or the target.
Subject(target, finding, row) ==
  LET values == Values(finding, row.subject)
      named  == {i \in DOMAIN values : values[i] # ""}
  IN  IF named = {} THEN target ELSE values[CHOOSE i \in named : \A j \in named : i <= j]

\* Where the field of a row says something.
Said(finding, row) ==
  {i \in DOMAIN Values(finding, row.field) : Values(finding, row.field)[i] \notin row.unsaid}

\* What the loops over the payload of a tool come to, as <<finding, row, value>>.
Mentions(tool, payload) ==
  UNION {{<<f, r, v>> : v \in Said(payload.findings[f], Rows[tool][r])} :
           f \in DOMAIN payload.findings, r \in DOMAIN Rows[tool]}

\* The claim that is made there.
Claim(target, tool, payload, mention) ==
  LET finding == payload.findings[mention[1]]
      row     == Rows[tool][mention[2]]
  IN  [subject   |-> Subject(target, finding, row),
       predicate |-> row.predicate,
       value     |-> Values(finding, row.field)[mention[3]],
       sources   |-> Sources(tool, payload, finding)]

\* The sources and the claims there may be.
SourceNames == STRING \union UNION {ToSet(Fallback(t)) : t \in ToSet(Order)}

Claims ==
  [subject : STRING, value : STRING, sources : Seq(SourceNames),
   predicate : UNION {{Rows[t][r].predicate : r \in DOMAIN Rows[t]} : t \in ToSet(Order)}]

\* All that the payload of a tool says.
Statements(target, tool, payload) ==
  {Claim(target, tool, payload, m) : m \in Mentions(tool, payload)}

SameFact(c, d) == c.subject = d.subject /\ c.predicate = d.predicate /\ c.value = d.value

\* dict.fromkeys: the first of each.
Distinct(s) == AtPlaces(s, {i \in DOMAIN s : \A j \in 1 .. i - 1 : s[j] # s[i]})

\* Mutant: the sources there are and the new ones are simply joined.
AddClaim_Repeating(claims, claim) ==
  IF \E i \in DOMAIN claims : SameFact(claims[i], claim)
  THEN [i \in DOMAIN claims |->
          IF SameFact(claims[i], claim)
          THEN [claims[i] EXCEPT !.sources = @ \o claim.sources] ELSE claims[i]]
  ELSE Append(claims, claim)

\* _add_claim.  The sources of a new claim stay as they are.
AddClaim(claims, claim) ==
  IF \E i \in DOMAIN claims : SameFact(claims[i], claim)
  THEN [i \in DOMAIN claims |->
          IF SameFact(claims[i], claim)
          THEN [claims[i] EXCEPT !.sources = Distinct(@ \o claim.sources)] ELSE claims[i]]
  ELSE Append(claims, claim)

-----------------------------------------------------------------------------
\* build_evidence_graph goes through the tools in order, and through what the
\* payload of each says: its places, as <<tool, finding, row, value>>.
Places(payloads) ==
  UNION {{<<i, m[1], m[2], m[3]>> : m \in Mentions(Order[i], payloads[Order[i]])} :
           i \in {i \in DOMAIN Order : Order[i] \in DOMAIN payloads}}

Before(p, q) == \E k \in 1 .. 4 : p[k] < q[k] /\ \A j \in 1 .. k - 1 : p[j] = q[j]

ClaimAt(target, payloads, p) ==
  Claim(target, Order[p[1]], payloads[Order[p[1]]], <<p[2], p[3], p[4]>>)
=============================================================================
