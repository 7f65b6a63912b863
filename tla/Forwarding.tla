----------------------------- MODULE Forwarding -----------------------------
(***************************************************************************)
(* What the proxy handler does to the head of a request and of its answer  *)
(* (proxy.rs): the request id, the Host check, hop-by-hop headers, the     *)
(* pinned Host, the stripped prefix and the forwarding headers.            *)
(*                                                                         *)
(* A request leaves a client and crosses a chain of proxies, each of them  *)
(* running this code under its own settings, though all with the same      *)
(* trusted_proxies; every proxy but the first reads headers that another   *)
(* one wrote.  The variable via is the truth about the journey (who        *)
(* connected, how, asking for what), which the headers are meant to tell.  *)
(*                                                                         *)
(* A header map is a function from the names present to their values.  A   *)
(* value keeps the lines and list elements the code tells apart; the       *)
(* spelling of an address, scheme, port or host is abstracted to whether   *)
(* the code's parser accepts it.                                           *)
(***************************************************************************)
EXTENDS TrustedProxies, FiniteSetsExt

CONSTANTS
    Requests,   \* [trust, client, headers, authority, version, path]: what
                \* the client may send and the trusted_proxies in force
    Proxies,    \* [addr, proto, prefix, strip, rewrite, upstream, xff,
                \* forwarded, request_id]: the proxies it may cross
    Answers,    \* header maps the upstream may answer with
    PlainHosts, \* the hosts that plain_authority accepts
    Folded,     \* name -> its folded form, for names not spelled canonically
    MaxHops     \* bound on the length of the chain

VARIABLES
    phase,      \* "request" on its way up, "response" on its way back
    trust,      \* the entries of trusted_proxies
    sender,     \* address of whoever holds the request now
    req,        \* the request's headers
    path,       \* its path, a sequence of segments
    authority,  \* the authority of its target, NoHost when there is none
    version,    \* 10, 11 or 20
    via,        \* one record per proxy crossed
    resp,       \* the answer's headers
    back        \* proxies the answer has still to cross

fvars == <<phase, trust, sender, req, path, authority, version, via, resp, back>>

Junk   == <<0, 0>>   \* a list entry that is no address
NoHost == "none"
Schemes == STRING \ {"?"}   \* "?" is no scheme token
Ports   == 1..65535

Has(h, name) == name \in DOMAIN h
Get(h, name) == IF Has(h, name) THEN h[name] ELSE <<>>
Insert(h, name, v) == [n \in DOMAIN h \cup {name} |-> IF n = name THEN v ELSE h[n]]
Without(h, names) == Restrict(h, DOMAIN h \ names)

---------------------------------------------------------------------------
(* The request id: a single valid one is kept, anything else replaced. *)
ValidRequestId(id) == id[1] # "malformed"

EnsureRequestId(h, fresh) ==
    LET ids == Get(h, "x-request-id")
    IN IF Len(ids) = 1 /\ ValidRequestId(ids[1]) THEN h
       ELSE Insert(h, "x-request-id", <<fresh>>)

FreshId(n) == <<"fresh", n>>

(* The answer gets the id unless the upstream named one itself. *)
EchoRequestId(h, id) == IF Has(h, "x-request-id") THEN h ELSE Insert(h, "x-request-id", <<id>>)

HopByHop ==
    {"connection", "keep-alive", "proxy-authenticate", "proxy-authorization",
     "te", "trailer", "transfer-encoding", "upgrade"}

(* Mutant: whatever Connection names is removed. *)
StripNamed(h) ==
    LET named == IF Has(h, "connection") THEN h["connection"] ELSE {}
    IN Without(h, named \cup HopByHop)

StripHopByHop(h) ==
    LET named == IF Has(h, "connection") THEN h["connection"] ELSE {}
    IN Without(h, (named \ {"host", "x-request-id"}) \cup HopByHop)

PlainAuthority(host) == host \in PlainHosts

BadHost(h, target, ver) ==
    LET hosts == Get(h, "host")
    IN CASE Len(hosts) = 0 -> target = NoHost /\ ver = 11
         [] Len(hosts) = 1 -> target = NoHost /\ ~PlainAuthority(hosts[1])
         [] OTHER          -> TRUE

(* Of a request's headers.  The method is not modelled: a CONNECT, which   *)
(* wants an upgrade too, is only ever refused (Refuse).                    *)
WantsUpgrade(h) == Has(h, "upgrade") /\ h["upgrade"] # "h2c"

JoinCookies(h, ver) ==
    IF ver = 20 /\ Len(Get(h, "cookie")) >= 2
    THEN Insert(h, "cookie", <<h["cookie"]>>) ELSE h

(* The host the client meant: the target's authority, else the Host header. *)
ClientHost(h, target) ==
    IF target # NoHost THEN target
    ELSE IF Has(h, "host") THEN h["host"][1] ELSE NoHost

PinHost(h, host) == IF host = NoHost THEN h ELSE Insert(h, "host", <<host>>)

---------------------------------------------------------------------------
(* The forwarding headers. *)
UntrustedStripped ==
    {"forwarded", "x-forwarded-host", "x-forwarded-ssl", "x-forwarded-scheme",
     "x-forwarded-port", "x-forwarded-prefix"}

TrustGoverned == UntrustedStripped \cup {"x-forwarded-for", "x-forwarded-proto", "x-real-ip"}

IsNoncanonicalSpelling(name) == name \in DOMAIN Folded /\ Folded[name] \in TrustGoverned

StripNoncanonicalSpellings(h) == Without(h, {n \in DOMAIN h : IsNoncanonicalSpelling(n)})

(* The rightmost token of a list header, if the parser accepts it. *)
Rightmost(h, name, valid) ==
    LET tokens == Get(h, name)
        last == tokens[Len(tokens)]
    IN IF tokens # <<>> /\ last \in valid THEN <<last>> ELSE <<>>

SetPort(h, port) ==
    IF port = <<>> THEN Without(h, {"x-forwarded-port"}) ELSE Insert(h, "x-forwarded-port", port)

(***************************************************************************)
(* The entries of x-forwarded-for on the lines that are visible ASCII, and *)
(* how many of them precede the last line that is not (0 without one).     *)
(***************************************************************************)
Line(entries) == [entries |-> entries, hidden |-> 0]
ForwardedFor(h) == IF Has(h, "x-forwarded-for") THEN h["x-forwarded-for"] ELSE Line(<<>>)

(* parse_xff_entry finds an address in the entry. *)
IsAddress(entry) == entry # Junk

(* Where a walk from the right past the trusted addresses may stop. *)
Stops(xff, nets) ==
    {i \in DOMAIN xff.entries :
        i > xff.hidden /\ ~(IsAddress(xff.entries[i]) /\ TrustContains(nets, xff.entries[i]))}

(* Mutant: the walk goes from the left. *)
WalkFromTheLeft(h, nets, peer) ==
    LET xff == ForwardedFor(h)
        stops == Stops(xff, nets)
    IN IF stops # {} /\ IsAddress(xff.entries[Min(stops)]) THEN xff.entries[Min(stops)] ELSE peer

WalkForwardedFor(h, nets, peer) ==
    LET xff == ForwardedFor(h)
        stops == Stops(xff, nets)
    IN IF stops # {} /\ IsAddress(xff.entries[Max(stops)]) THEN xff.entries[Max(stops)] ELSE peer

SetRealIp(h, ip) == Insert(h, "x-real-ip", Normalise(ip))

AppendForwardedFor(h, peer) ==
    Insert(h, "x-forwarded-for", Line(Append(ForwardedFor(h).entries, peer)))

ForwardedElement(peer, proto, host) == [node |-> Normalise(peer), proto |-> proto, host |-> host]

(* Mutant: the list starts anew at every hop. *)
ReplaceForwarded(h, peer, proto, host) ==
    Insert(h, "forwarded", <<ForwardedElement(peer, proto, host)>>)

AppendForwarded(h, peer, proto, host) ==
    Insert(h, "forwarded", Append(Get(h, "forwarded"), ForwardedElement(peer, proto, host)))

(* The headers a trusted peer's are turned into, and a stranger's. *)
FromTrusted(h, proto) ==
    LET scheme == Rightmost(h, "x-forwarded-proto", Schemes)
    IN SetPort(Insert(h, "x-forwarded-proto", IF scheme = <<>> THEN <<proto>> ELSE scheme),
               Rightmost(h, "x-forwarded-port", Ports))

FromStranger(h, proto) ==
    Without(Insert(h, "x-forwarded-proto", <<proto>>), UntrustedStripped)

ApplyForwardedHeaders(h, peer, proto, host, nets, p) ==
    LET h0 == StripNoncanonicalSpellings(h)
        h1 == IF TrustContains(nets, peer) THEN FromTrusted(h0, proto) ELSE FromStranger(h0, proto)
        client == IF TrustContains(nets, peer) THEN WalkForwardedFor(h0, nets, peer) ELSE peer
        h2 == SetRealIp(h1, client)
        h3 == IF p.xff = "replace"
              THEN Insert(h2, "x-forwarded-for", Line(<<Normalise(client)>>))
              ELSE AppendForwardedFor(h2, peer)
    IN IF p.forwarded THEN AppendForwarded(h3, peer, proto, host) ELSE h3

(* A trusted hop's single plain x-forwarded-prefix stays in front of ours. *)
(* The segment "with-comma" stands for all that keep one from being plain,  *)
(* a comma among them, which a route's prefix may have, too.               *)
PlainPrefix(v) == v # <<>> /\ "with-comma" \notin Range(v)

(* Mutant: what an outer hop stripped is forgotten. *)
SetOwnPrefix(h, prefix) == Insert(h, "x-forwarded-prefix", <<prefix>>)

SetForwardedPrefix(h, prefix) ==
    LET lines == Get(h, "x-forwarded-prefix")
        outer == IF Len(lines) = 1 /\ PlainPrefix(lines[1]) THEN lines[1] ELSE <<>>
    IN Insert(h, "x-forwarded-prefix", <<outer \o prefix>>)

---------------------------------------------------------------------------
(* A header that has lines has a list of them, a path is a list of         *)
(* segments; a name in its canonical spelling is not folded.               *)
ASSUME JourneyAssumption ==
    /\ MaxHops \in Nat
    /\ \A r \in Requests :
          /\ \A entry \in r.trust : entry.ip \in IPs
          /\ r.client \in IPs /\ r.path \in Seq(STRING) /\ r.authority \in STRING
          /\ \A name \in {"host", "x-request-id"} : Has(r.headers, name) =>
                r.headers[name] \in Seq(Range(r.headers[name])) \ {<<>>}
          /\ LET entries == ForwardedFor(r.headers).entries IN entries \in Seq(Range(entries))
    /\ \A p \in Proxies :
          /\ p.addr \in IPs /\ p.proto \in Schemes /\ p.prefix \in Seq(STRING)
    /\ DOMAIN Folded \cap (TrustGoverned \cup {"host", "connection", "x-request-id"}) = {}

ForwardingInit ==
    \E r \in Requests :
        /\ trust = r.trust
        /\ \A entry \in trust : Parses(entry)
        /\ sender = r.client
        /\ req = r.headers
        /\ path = r.path
        /\ authority = r.authority
        /\ version = r.version
        /\ phase = "request"
        /\ via = <<>>
        /\ resp = <<>>
        /\ back = 0

Nets == {Parse(entry) : entry \in trust}

(* handle_inner's first step: the id is settled before anything is judged. *)
Received(p) ==
    IF p.request_id THEN EnsureRequestId(req, FreshId(Len(via) + 1)) ELSE req

(* What the headers and the path have to be like for p to send them on. *)
Accepts(p) ==
    /\ ~BadHost(Received(p), authority, version)
    /\ Len(p.prefix) <= Len(path) /\ SubSeq(path, 1, Len(p.prefix)) = p.prefix
    /\ ~WantsUpgrade(Received(p))

Strips(p) == p.strip /\ p.prefix # <<>>

(***************************************************************************)
(* Forward(p): proxy p accepts the request and sends it on.  The next hop  *)
(* sees an HTTP/1.1 origin-form request from p; the client library names   *)
(* the upstream in Host when the request has none.                         *)
(***************************************************************************)
Forward(p) ==
    /\ phase = "request"
    /\ Len(via) < MaxHops
    /\ Accepts(p)
    /\ LET host == ClientHost(Received(p), authority)
           clean == JoinCookies(StripHopByHop(Received(p)), version)
           pinned == PinHost(clean, IF p.rewrite THEN p.upstream ELSE authority)
           told == ApplyForwardedHeaders(pinned, sender, p.proto, host, Nets, p)
           sent == IF Strips(p) THEN SetForwardedPrefix(told, p.prefix) ELSE told
       IN /\ req' = IF Has(sent, "host") THEN sent ELSE Insert(sent, "host", <<p.upstream>>)
          /\ via' = Append(via, [peer |-> sender, proxy |-> p, path |-> path, host |-> host,
                                 id |-> Get(Received(p), "x-request-id")])
    /\ path' = IF p.strip THEN SubSeq(path, Len(p.prefix) + 1, Len(path)) ELSE path
    /\ sender' = p.addr
    /\ authority' = NoHost
    /\ version' = 11
    /\ UNCHANGED <<phase, trust, resp, back>>

(* Refuse(p): p answers itself.  It does so if ~Accepts(p), with 400, 404   *)
(* or 501, but also whatever the headers, for reasons of Routing's and      *)
(* Request's: a health check of p's own (200), a bad path (400), the method *)
(* CONNECT (501), an open circuit (503), a request that cannot be rewritten *)
(* or to which no answer comes.                                             *)
Refuse(p) ==
    /\ phase = "request"
    /\ Len(via) < MaxHops
    /\ phase' = "response"
    /\ resp' = IF p.request_id THEN EchoRequestId(<<>>, Received(p)["x-request-id"][1]) ELSE <<>>
    /\ back' = Len(via)
    /\ UNCHANGED <<trust, sender, req, path, authority, version, via>>

(* The upstream behind the last proxy answers. *)
Answer ==
    /\ phase = "request"
    /\ via # <<>>
    /\ phase' = "response"
    /\ resp' \in Answers
    /\ back' = Len(via)
    /\ UNCHANGED <<trust, sender, req, path, authority, version, via>>

(* The answer crosses the chain backwards. *)
Return ==
    /\ phase = "response"
    /\ back > 0
    /\ back' = back - 1
    /\ LET hop == via[back]
           clean == StripHopByHop(resp)
       IN resp' = IF hop.proxy.request_id THEN EchoRequestId(clean, hop.id[1]) ELSE clean
    /\ UNCHANGED <<phase, trust, sender, req, path, authority, version, via>>

ForwardingNext ==
    \/ \E p \in Proxies : Forward(p) \/ Refuse(p)
    \/ Answer
    \/ Return

ForwardingSpec == ForwardingInit /\ [][ForwardingNext]_fvars

---------------------------------------------------------------------------
(***************************************************************************)
(* Properties.  The edge is the last proxy that was reached by an address  *)
(* outside trusted_proxies: what it saw is what the upstream may believe.  *)
(***************************************************************************)
Strangers == {i \in DOMAIN via : ~\E entry \in trust : Covers(entry, via[i].peer)}
Edge == via[Max(Strangers)]
SinceEdge == Max(Strangers)..Len(via)

(* Trust is by range: TrustedProxies::contains, a mask computed in 128     *)
(* bits, holds of exactly the addresses its documentation names, for every *)
(* entry parse accepts: host bits ignored, IPv4-mapped addresses as IPv4,  *)
(* /0 and full-length prefixes included.                                   *)
TrustIsByRange ==
    \A ip \in IPs : TrustContains(Nets, ip) <=> \E entry \in trust : Covers(entry, ip)

(* However long the chain and whatever the client wrote, the upstream      *)
(* reads in x-real-ip the address that connected to the edge and in        *)
(* x-forwarded-proto the scheme it used, under any mix of the append and   *)
(* replace modes; no governed header of the client's survives the edge     *)
(* under another spelling.                                                 *)
OriginIsTheEdges ==
    Strangers # {} =>
        /\ req["x-real-ip"] = Normalise(Edge.peer)
        /\ req["x-forwarded-proto"] = <<Edge.proxy.proto>>
        /\ \A name \in DOMAIN req : name \in TrustGoverned \/ ~IsNoncanonicalSpelling(name)
        /\ DOMAIN req \cap {"x-forwarded-host", "x-forwarded-port"} = {}

(* A hop whose stripped prefix the next one to strip takes for ill-formed. *)
Obscures(i) == Strips(via[i].proxy) /\ ~PlainPrefix(via[i].proxy.prefix)

(* Prefixes stripped along the chain can be put back: x-forwarded-prefix   *)
(* followed by the path is the path the edge was asked for.  If a proxy    *)
(* since stripped a prefix that is not plain, which set_forwarded_prefix   *)
(* does not carry on, it is the path the edge or one behind that proxy was *)
(* asked for.  Host is the host the edge was asked for unless a proxy      *)
(* since was told to rewrite it.                                           *)
TargetIsRecoverable ==
    Strangers # {} =>
        /\ LET lines == Get(req, "x-forwarded-prefix")
           IN \E i \in SinceEdge :
                /\ i = Max(Strangers) \/ \E k \in Max(Strangers)..(i - 1) : Obscures(k)
                /\ IF lines = <<>> THEN path = via[i].path
                   ELSE Len(lines) = 1 /\ lines[1] \o path = via[i].path
        /\ (Edge.host # NoHost /\ \A i \in SinceEdge : ~via[i].proxy.rewrite)
              => req["host"] = <<Edge.host>>

(* The Forwarded list is the journey since the edge: one element for each  *)
(* proxy that writes them, in order, naming its peer, its connection's     *)
(* scheme and the host it was asked for, and nothing before them.          *)
ForwardedIsTheJourney ==
    Strangers # {} =>
        LET told == {i \in SinceEdge : via[i].proxy.forwarded}
            list == Get(req, "forwarded")
        IN \E at \in [1..Len(list) -> told] :
              /\ \A k, l \in DOMAIN at : k < l => at[k] < at[l]
              /\ Range(at) = told
              /\ \A k \in DOMAIN at :
                    LET hop == via[at[k]]
                    IN list[k] = ForwardedElement(hop.peer, hop.proxy.proto, hop.host)

UpstreamIds == {a["x-request-id"] : a \in {b \in Answers : Has(b, "x-request-id")}}

(* One request, one id: the first proxy with request_id settles it, every  *)
(* later one and the upstream see that same id although the client may     *)
(* send several, a malformed one, or name the header in Connection; and    *)
(* the client is answered with it unless the upstream set one of its own.  *)
OneRequestId ==
    LET ids == {i \in DOMAIN via : via[i].proxy.request_id}
        settled == via[Min(ids)].id
    IN ids # {} =>
        /\ Len(settled) = 1
        /\ Get(req, "x-request-id") = settled
        /\ phase = "response" /\ back < Min(ids) =>
              Get(resp, "x-request-id") \in {settled} \cup UpstreamIds
=============================================================================
