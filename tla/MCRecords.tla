----------------------------- MODULE MCRecords ------------------------------
(***************************************************************************)
(* Runs of two to four steps whose tools say the same of the same subject, *)
(* some with a tool that runs, or fails, twice, one with a tool that names *)
(* a source twice.                                                         *)
(***************************************************************************)
EXTENDS RunRecords

Payload(provider, findings) == [provider |-> provider, parser |-> "", findings |-> findings]

Step(tool, outcome, payload) == [tool |-> tool, outcome |-> outcome, payload |-> payload]

Did(tool, finding) == Step(tool, "done", Payload("", <<finding>>))

DidNot(tool) == Step(tool, "failed", Payload("", <<>>))

Dns      == Step("dns", "done", Payload("dnspython", <<[A |-> <<"ip1", "ip2">>, AAAA |-> <<>>]>>))
Rdap     == Did("rdap", [domain |-> <<"owasp.org">>, registrar |-> <<"registrar">>,
                         address |-> <<"ip1">>, organization |-> <<"org">>, asn |-> <<"asn">>])
RdapFew  == Step("rdap", "warning", Payload("rdap.org", <<[organization |-> <<"unknown">>, asn |-> <<"asn">>]>>))
Intel    == Step("ipintel", "done", Payload("yougotmapped",
                   <<[lookup_ip |-> <<"ip1">>, asn |-> <<"asn">>, org |-> <<"private network">>]>>))
IntelOrg == Did("ipintel", [lookup_ip |-> <<"ip1">>, asn |-> <<"unknown">>, org |-> <<"org">>])
Names    == Step("subfinder", "done", Payload("",
                   <<[host |-> <<"www">>, sources |-> <<"crtsh">>], [host |-> <<"www">>, sources |-> <<"alienvault">>],
                     [host |-> <<"api">>], [host |-> <<"ftp">>, sources |-> <<"crtsh", "crtsh">>]>>))
Httpx    == Step("httpx", "done", Payload("",
                   <<[webserver |-> <<"nginx">>, technologies |-> <<"next", "react">>],
                     [webserver |-> <<"unknown">>, technologies |-> <<"next", "">>]>>))
Httpx2   == Did("httpx", [webserver |-> <<"caddy">>, technologies |-> <<"react">>])
Katana   == Did("katana", [url |-> <<"url">>, technologies |-> <<"next">>])
Whatweb  == Did("whatweb", [webserver |-> <<"nginx">>, technologies |-> <<"react">>])
Server   == Did("fingerprint", [server |-> <<"nginx">>, framework |-> <<"unknown">>])
Tls(p)   == Step("tls", "done", [provider |-> "python ssl", parser |-> p, findings |-> <<[sans |-> <<"name">>]>>])
Naabu    == Did("naabu", [port |-> <<"port">>])
Rpc      == Did("rpcinfo", [registration |-> <<"nfs">>])
Smb      == Did("smbclient", [name |-> <<"share">>])
Sslyze   == Did("sslyze", [protocols |-> <<"tls1">>, findings |-> <<"weak">>])
Nmap     == Step("nmap", "negative", Payload("nmap", <<>>))

MCRuns ==
  {<<Nmap, Dns, Rdap, Intel>>, <<Dns, RdapFew, IntelOrg>>, <<Rdap, IntelOrg, Dns>>,
   <<Katana, Httpx, Whatweb, Server>>, <<Httpx, Httpx2, Whatweb>>, <<Httpx, DidNot("httpx"), Katana>>,
   <<Names, Tls("openssl")>>, <<Tls("python ssl"), Naabu, Rpc>>, <<Smb, Sslyze>>,
   <<DidNot("dns"), DidNot("rdap")>>}
=============================================================================
