--------------------------- MODULE ForwardingProofs ---------------------------
(***************************************************************************)
(* Machine-checked proofs about Forwarding and TrustedProxies, for any     *)
(* requests, proxies and answers, chains of any length and address ranges  *)
(* of any length.                                                          *)
(***************************************************************************)
EXTENDS Forwarding, WellFoundedInduction, TLAPS

-----------------------------------------------------------------------------
(* Header maps *)

\* An insertion sets one header and leaves the others alone.
LEMMA Inserted ==
  \A h, name, v, n :
    /\ Get(Insert(h, name, v), n) = IF n = name THEN v ELSE Get(h, n)
    /\ Has(Insert(h, name, v), n) <=> n = name \/ Has(h, n)
  BY DEF Get, Insert, Has

\* The header inserted is there, with its value.
LEMMA InsertedThere ==
  \A h, name, v : Has(Insert(h, name, v), name) /\ Get(Insert(h, name, v), name) = v
  BY Zenon DEF Get, Insert, Has

\* The others are as before.
LEMMA InsertedElsewhere ==
  \A h, name, v, n : n # name =>
    /\ Get(Insert(h, name, v), n) = Get(h, n)
    /\ Has(Insert(h, name, v), n) <=> Has(h, n)
  BY DEF Get, Insert, Has

\* A removal leaves the headers that it does not name alone.
LEMMA Removed ==
  \A h, names, n :
    /\ Get(Without(h, names), n) = IF n \in names THEN <<>> ELSE Get(h, n)
    /\ Has(Without(h, names), n) <=> n \notin names /\ Has(h, n)
  BY Zenon DEF Get, Without, Has, Restrict

\* Nothing a sender puts into Connection removes its Host or its request id,
\* and without Connection only the hop-by-hop headers go (strip_hop_by_hop).
LEMMA Stripped ==
  \A h, n :
    /\ n \in {"host", "x-request-id"} =>
         /\ Get(StripHopByHop(h), n) = Get(h, n)
         /\ Has(StripHopByHop(h), n) <=> Has(h, n)
    /\ ~Has(h, "connection") /\ n \notin HopByHop =>
         /\ Get(StripHopByHop(h), n) = Get(h, n)
         /\ Has(StripHopByHop(h), n) <=> Has(h, n)
    /\ ~Has(StripHopByHop(h), "connection")
  BY Removed DEF StripHopByHop, HopByHop

\* A canonical name is no other name's spelling.
LEMMA Canonical ==
  \A n : n \in TrustGoverned \cup {"host", "connection", "x-request-id"} => n \notin DOMAIN Folded
<1>1. DOMAIN Folded \cap (TrustGoverned \cup {"host", "connection", "x-request-id"}) = {}
  BY JourneyAssumption, Zenon
<1>2. QED
  BY <1>1, Zenon

\* What the proxy makes of the headers of a trusted peer and of a stranger's
\* (apply_forwarded_headers, the two branches).
LEMMA FromEither ==
  ASSUME NEW h, NEW proto
  PROVE  /\ \A n : n \notin {"x-forwarded-proto", "x-forwarded-port"} =>
              /\ Get(FromTrusted(h, proto), n) = Get(h, n)
              /\ Has(FromTrusted(h, proto), n) <=> Has(h, n)
         /\ \A n : n \notin TrustGoverned =>
              /\ Get(FromStranger(h, proto), n) = Get(h, n)
              /\ Has(FromStranger(h, proto), n) <=> Has(h, n)
         /\ \A n \in UntrustedStripped : Get(FromStranger(h, proto), n) = <<>>
<1>1. PICK v, port : FromTrusted(h, proto) = SetPort(Insert(h, "x-forwarded-proto", v), port)
  BY Zenon DEF FromTrusted
<1>2. \A n : n \notin {"x-forwarded-proto", "x-forwarded-port"} =>
         /\ Get(FromTrusted(h, proto), n) = Get(h, n)
         /\ Has(FromTrusted(h, proto), n) <=> Has(h, n)
  BY <1>1, Inserted, Removed DEF SetPort
<1>3. \A n : n \notin TrustGoverned =>
         /\ Get(FromStranger(h, proto), n) = Get(h, n)
         /\ Has(FromStranger(h, proto), n) <=> Has(h, n)
  BY Inserted, Removed DEF FromStranger, TrustGoverned
<1>4. \A n \in UntrustedStripped : Get(FromStranger(h, proto), n) = <<>>
  BY Removed, Zenon DEF FromStranger
<1>5. QED
  BY <1>2, <1>3, <1>4, Zenon

\* Only other spellings of governed names are dropped for being one
\* (strip_noncanonical_spellings).
LEMMA Unspelled ==
  ASSUME NEW h, NEW n, n \in TrustGoverned \/ n \notin DOMAIN Folded
  PROVE  /\ Get(StripNoncanonicalSpellings(h), n) = Get(h, n)
         /\ Has(StripNoncanonicalSpellings(h), n) <=> Has(h, n)
<1> DEFINE odd == {m \in DOMAIN h : IsNoncanonicalSpelling(m)}
<1>1. n \notin odd
  BY Canonical, Zenon DEF IsNoncanonicalSpelling
<1>2. StripNoncanonicalSpellings(h) = Without(h, odd)
  BY Zenon DEF StripNoncanonicalSpellings
<1> HIDE DEF odd
<1>3. QED
  BY <1>1, <1>2, Removed

\* What a proxy keeps of a header that only trusted peers may set.
Kept(h, nets, peer, name) == IF TrustContains(nets, peer) THEN Get(h, name) ELSE <<>>

\* What the forwarding headers leave alone, and what becomes of the prefix and
\* of the list that an outer proxy wrote (apply_forwarded_headers).
LEMMA Applied ==
  ASSUME NEW h, NEW peer, NEW proto, NEW host, NEW nets, NEW p, NEW out,
         out = ApplyForwardedHeaders(h, peer, proto, host, nets, p)
  PROVE  /\ \A n : n \notin TrustGoverned /\ n \notin DOMAIN Folded =>
              Get(out, n) = Get(h, n) /\ (Has(out, n) <=> Has(h, n))
         /\ Get(out, "x-forwarded-prefix") = Kept(h, nets, peer, "x-forwarded-prefix")
         /\ Get(out, "forwarded") =
              LET list == Kept(h, nets, peer, "forwarded")
              IN IF p.forwarded THEN Append(list, ForwardedElement(peer, proto, host)) ELSE list
<1> DEFINE h0 == StripNoncanonicalSpellings(h)
<1>1. PICK h1, client, h2, h3 :
        /\ h1 = IF TrustContains(nets, peer) THEN FromTrusted(h0, proto)
                                             ELSE FromStranger(h0, proto)
        /\ h2 = SetRealIp(h1, client)
        /\ h3 = IF p.xff = "replace"
                THEN Insert(h2, "x-forwarded-for", Line(<<Normalise(client)>>))
                ELSE AppendForwardedFor(h2, peer)
        /\ out = IF p.forwarded THEN AppendForwarded(h3, peer, proto, host) ELSE h3
  BY Zenon DEF ApplyForwardedHeaders
<1>2. \A n : n \notin TrustGoverned /\ n \notin DOMAIN Folded =>
         Get(h1, n) = Get(h, n) /\ (Has(h1, n) <=> Has(h, n))
  <2>1. \A n : n \notin TrustGoverned => n \notin {"x-forwarded-proto", "x-forwarded-port"}
    BY Zenon DEF TrustGoverned, UntrustedStripped
  <2>2. \A n : n \notin TrustGoverned /\ n \notin DOMAIN Folded =>
           Get(h0, n) = Get(h, n) /\ (Has(h0, n) <=> Has(h, n))
    BY Unspelled, Zenon
  <2> HIDE DEF h0
  <2>3. QED
    BY <1>1, <2>1, <2>2, FromEither, Zenon
<1>3. \A n \in {"forwarded", "x-forwarded-prefix"} :
        Get(h1, n) = Kept(h, nets, peer, n)
  BY <1>1, Unspelled, FromEither DEF Kept, TrustGoverned, UntrustedStripped
<1>4. \A n : n \notin {"x-real-ip", "x-forwarded-for"} =>
        Get(h3, n) = Get(h1, n) /\ (Has(h3, n) <=> Has(h1, n))
  BY <1>1, Inserted DEF SetRealIp, AppendForwardedFor
<1>5. \A n : n \notin TrustGoverned /\ n \notin DOMAIN Folded =>
         Get(out, n) = Get(h, n) /\ (Has(out, n) <=> Has(h, n))
  BY <1>1, <1>2, <1>4, Inserted DEF AppendForwarded, TrustGoverned, UntrustedStripped
<1>6. Get(out, "x-forwarded-prefix") = Get(h1, "x-forwarded-prefix")
  BY <1>1, <1>4, Inserted DEF AppendForwarded
<1>7. Get(out, "forwarded") =
        IF p.forwarded THEN Append(Get(h1, "forwarded"), ForwardedElement(peer, proto, host))
                       ELSE Get(h1, "forwarded")
  BY <1>1, <1>4, Inserted DEF AppendForwarded
<1>8. QED
  BY <1>3, <1>5, <1>6, <1>7, Zenon

-----------------------------------------------------------------------------
(* What a proxy sends on *)

\* The Host header the next hop reads.
HostSent(p) ==
  IF p.rewrite /\ p.upstream # NoHost THEN <<p.upstream>>
  ELSE IF ~p.rewrite /\ authority # NoHost THEN <<authority>>
  ELSE IF Has(Received(p), "host") THEN Get(Received(p), "host") ELSE <<p.upstream>>

\* The headers of the request that leaves a proxy: the id it settled, no
\* Connection, the pinned Host, the prefix and the list (handle_core).
LEMMA Sent ==
  ASSUME NEW p, Forward(p)
  PROVE  /\ Get(req', "x-request-id") = Get(Received(p), "x-request-id")
         /\ ~Has(req', "connection")
         /\ Get(req', "host") = HostSent(p)
         /\ Get(req', "x-forwarded-prefix") =
              LET lines == Kept(StripHopByHop(Received(p)), Nets, sender, "x-forwarded-prefix")
                  outer == IF Len(lines) = 1 /\ PlainPrefix(lines[1]) THEN lines[1] ELSE <<>>
              IN IF Strips(p) THEN <<outer \o p.prefix>> ELSE lines
         /\ Get(req', "forwarded") =
              LET list == Kept(StripHopByHop(Received(p)), Nets, sender, "forwarded")
                  host == ClientHost(Received(p), authority)
              IN IF p.forwarded THEN Append(list, ForwardedElement(sender, p.proto, host))
                                ELSE list
<1> DEFINE host == ClientHost(Received(p), authority)
           base == StripHopByHop(Received(p))
           Plain(n) == n \notin TrustGoverned /\ n \notin DOMAIN Folded
<1>1. PICK clean, pinned, told, sent :
        /\ clean = JoinCookies(base, version)
        /\ pinned = PinHost(clean, IF p.rewrite THEN p.upstream ELSE authority)
        /\ told = ApplyForwardedHeaders(pinned, sender, p.proto, host, Nets, p)
        /\ sent = IF Strips(p) THEN SetForwardedPrefix(told, p.prefix) ELSE told
        /\ req' = IF Has(sent, "host") THEN sent ELSE Insert(sent, "host", <<p.upstream>>)
  BY Zenon DEF Forward
<1>2. \A n : n # "cookie" => Get(clean, n) = Get(base, n) /\ (Has(clean, n) <=> Has(base, n))
  BY <1>1, Inserted DEF JoinCookies
<1>3. \A n : n # "host" => Get(pinned, n) = Get(clean, n) /\ (Has(pinned, n) <=> Has(clean, n))
  BY <1>1, Inserted DEF PinHost
<1>4. \A n \in {"host", "connection", "x-request-id"} : Plain(n)
  BY Canonical, Zenon DEF TrustGoverned, UntrustedStripped
<1>5. \A n \in {"host", "connection", "x-request-id"} :
         Get(told, n) = Get(pinned, n) /\ (Has(told, n) <=> Has(pinned, n))
  BY <1>1, <1>4, Applied
<1>6. \A n : n # "x-forwarded-prefix" =>
         Get(sent, n) = Get(told, n) /\ (Has(sent, n) <=> Has(told, n))
  BY <1>1, Inserted DEF SetForwardedPrefix
<1>7. \A n : n # "host" => Get(req', n) = Get(sent, n) /\ (Has(req', n) <=> Has(sent, n))
  BY <1>1, Inserted
<1> HIDE DEF base, host, Plain
<1>8. Get(req', "x-request-id") = Get(Received(p), "x-request-id") /\ ~Has(req', "connection")
  BY <1>2, <1>3, <1>5, <1>6, <1>7, Stripped DEF base
<1>9. Get(req', "host") = HostSent(p)
  <2>1. /\ Get(base, "host") = Get(Received(p), "host")
        /\ Has(base, "host") <=> Has(Received(p), "host")
    BY Stripped, Zenon DEF base
  <2>2. Get(req', "host") = IF Has(pinned, "host") THEN Get(pinned, "host") ELSE <<p.upstream>>
    BY <1>1, <1>5, <1>6, Inserted
  <2>3. QED
    BY <1>1, <1>2, <2>1, <2>2, Inserted DEF PinHost, HostSent
<1>10. \A n \in {"forwarded", "x-forwarded-prefix"} :
         Kept(pinned, Nets, sender, n) = Kept(base, Nets, sender, n)
  BY <1>2, <1>3, Zenon DEF Kept
<1>11. Get(told, "x-forwarded-prefix") = Kept(base, Nets, sender, "x-forwarded-prefix")
  BY <1>1, <1>10, Applied
<1>12. Get(told, "forwarded") =
         LET list == Kept(base, Nets, sender, "forwarded")
         IN IF p.forwarded THEN Append(list, ForwardedElement(sender, p.proto, host)) ELSE list
  <2>1. \A peer, proto : told = ApplyForwardedHeaders(pinned, peer, proto, host, Nets, p) =>
          Get(told, "forwarded") =
            LET list == Kept(pinned, Nets, peer, "forwarded")
            IN IF p.forwarded THEN Append(list, ForwardedElement(peer, proto, host)) ELSE list
    BY Applied
  <2>2. QED
    BY <1>1, <1>10, <2>1, Zenon
<1>13. Get(sent, "x-forwarded-prefix") =
         LET lines == Get(told, "x-forwarded-prefix")
             outer == IF Len(lines) = 1 /\ PlainPrefix(lines[1]) THEN lines[1] ELSE <<>>
         IN IF Strips(p) THEN <<outer \o p.prefix>> ELSE lines
  BY <1>1, Inserted DEF SetForwardedPrefix
<1>14. QED
  BY <1>6, <1>7, <1>8, <1>9, <1>11, <1>12, <1>13, Zenon DEF host, base

-----------------------------------------------------------------------------
(* One request id *)

IsList(s) == s \in Seq(Range(s))

\* The positions of a list one longer.
LEMMA OneMore == \A n \in Nat : \A i \in 1..n + 1 : i \in 1..n \/ i = n + 1
  OBVIOUS

\* A list stays a list when an element is added at its end.
LEMMA Appended ==
  ASSUME NEW s, IsList(s), NEW e
  PROVE  /\ IsList(Append(s, e))
         /\ Len(s) \in Nat /\ DOMAIN s = 1..Len(s)
         /\ Len(Append(s, e)) = Len(s) + 1 /\ DOMAIN Append(s, e) = 1..Len(s) + 1
         /\ \A k \in 1..Len(s) : Append(s, e)[k] = s[k]
         /\ Append(s, e)[Len(s) + 1] = e
<1> DEFINE T == Range(s) \cup {e}
<1>1. s \in Seq(T) /\ e \in T
  BY DEF IsList
<1>2. /\ Append(s, e) \in Seq(T)
      /\ Len(s) \in Nat /\ DOMAIN s = 1..Len(s)
      /\ Len(Append(s, e)) = Len(s) + 1
      /\ \A k \in 1..Len(s) : Append(s, e)[k] = s[k]
      /\ Append(s, e)[Len(s) + 1] = e
  BY <1>1
<1>3. Append(s, e) \in Seq(Range(Append(s, e)))
  BY <1>2 DEF Range
<1>4. QED
  BY <1>2, <1>3 DEF IsList

\* The hops that settle or keep a request id, and what they leave.
IdHops == {i \in DOMAIN via : via[i].proxy.request_id}

OneLine(ids) == Len(ids) = 1 => ids = <<ids[1]>>
Settled(ids) == ids = <<ids[1]>> /\ ValidRequestId(ids[1])

\* On the way up every such hop saw the id that the request now has.  On the
\* way back the answer has that id once it has crossed one of them, unless
\* the upstream named another one.
IdInv ==
  /\ IsList(via)
  /\ IdHops # {} => \E i \in IdHops : \A j \in IdHops : i <= j
  /\ OneLine(Get(req, "x-request-id"))
  /\ \A i \in IdHops : via[i].id = Get(req, "x-request-id") /\ Settled(via[i].id)
  /\ phase = "response" =>
       /\ back \in 0..Len(via)
       /\ \A i \in IdHops :
            /\ Has(resp, "x-request-id") => resp["x-request-id"] \in {via[i].id} \cup UpstreamIds
            /\ back < i => Has(resp, "x-request-id")

\* A proxy with request_id leaves one valid id, and the one it finds if that
\* is single and valid; no other header is touched (ensure_request_id).
LEMMA IdReceived ==
  ASSUME NEW p, OneLine(Get(req, "x-request-id"))
  PROVE  LET ids == Get(Received(p), "x-request-id")
         IN /\ OneLine(ids)
            /\ p.request_id => Settled(ids) /\ ids = Received(p)["x-request-id"]
            /\ Settled(Get(req, "x-request-id")) => ids = Get(req, "x-request-id")
            /\ \A n : n # "x-request-id" =>
                 Get(Received(p), n) = Get(req, n) /\ (Has(Received(p), n) <=> Has(req, n))
<1> DEFINE old == Get(req, "x-request-id")
           fresh == FreshId(Len(via) + 1)
<1>1. ValidRequestId(fresh)
  BY Zenon DEF ValidRequestId, FreshId
<1>2. CASE ~p.request_id
  BY <1>2, Zenon DEF Received
<1>3. CASE p.request_id /\ Len(old) = 1 /\ ValidRequestId(old[1])
  <2>1. Received(p) = req
    BY <1>3, Zenon DEF Received, EnsureRequestId
  <2>2. Has(req, "x-request-id")
    BY <1>3 DEF Get
  <2>3. QED
    BY <1>3, <2>1, <2>2, Zenon DEF OneLine, Settled, Get
<1>4. CASE p.request_id /\ ~(Len(old) = 1 /\ ValidRequestId(old[1]))
  <2>1. Received(p) = Insert(req, "x-request-id", <<fresh>>)
    BY <1>4, Zenon DEF Received, EnsureRequestId
  <2> HIDE DEF fresh
  <2>2. Get(Received(p), "x-request-id") = <<fresh>> /\ Has(Received(p), "x-request-id")
    BY <2>1, Inserted
  <2>3. \A n : n # "x-request-id" =>
           Get(Received(p), n) = Get(req, n) /\ (Has(Received(p), n) <=> Has(req, n))
    BY <2>1, Inserted
  <2>4. ~Settled(old)
    BY <1>4, Zenon DEF Settled
  <2>5. QED
    BY <1>1, <2>2, <2>3, <2>4 DEF OneLine, Settled, Get
<1>5. QED
  BY <1>2, <1>3, <1>4, Zenon

\* At first no proxy has been crossed.
LEMMA IdInit == ForwardingInit => IdInv
<1> SUFFICES ASSUME ForwardingInit PROVE IdInv
  BY Zenon
<1>1. PICK r \in Requests : req = r.headers
  BY Zenon DEF ForwardingInit
<1>2. via = <<>> /\ phase = "request"
  BY Zenon DEF ForwardingInit
<1>3. Has(req, "x-request-id") => req["x-request-id"] \in Seq(Range(req["x-request-id"]))
  BY <1>1, JourneyAssumption, Zenon
<1>4. OneLine(Get(req, "x-request-id"))
  BY <1>3 DEF OneLine, Get
<1>5. QED
  BY <1>2, <1>4 DEF IdInv, IdHops, IsList

\* A hop on the way up.
LEMMA IdForward == ASSUME NEW p, IdInv, Forward(p) PROVE IdInv'
<1> DEFINE ids == Get(Received(p), "x-request-id")
<1>1. Get(req', "x-request-id") = ids
  BY Sent, Zenon
<1>2. /\ OneLine(ids)
      /\ p.request_id => Settled(ids)
      /\ Settled(Get(req, "x-request-id")) => ids = Get(req, "x-request-id")
  BY IdReceived, Zenon DEF IdInv
<1>3. PICK hop : via' = Append(via, hop) /\ hop.proxy = p /\ hop.id = ids
  BY DEF Forward
<1>4. phase' = "request"
  BY Zenon DEF Forward
<1> HIDE DEF ids
<1>5. /\ IsList(via)'
      /\ \A i \in IdHops' :
           (i \in IdHops /\ via'[i] = via[i]) \/ (p.request_id /\ via'[i] = hop)
      /\ IdHops' # {} => \E i \in IdHops' : \A j \in IdHops' : i <= j
  <2>1. /\ IsList(via') /\ DOMAIN via' = 1..Len(via) + 1 /\ Len(via) \in Nat
        /\ DOMAIN via = 1..Len(via)
        /\ \A k \in 1..Len(via) : via'[k] = via[k]
        /\ via'[Len(via) + 1] = hop
    BY <1>3, Appended DEF IdInv
  <2>2. ASSUME NEW i \in IdHops'
        PROVE  \/ i \in IdHops /\ via'[i] = via[i]
               \/ p.request_id /\ via'[i] = hop
    <3>1. i \in DOMAIN via' /\ via'[i].proxy.request_id
      BY Zenon DEF IdHops
    <3>2. CASE i \in 1..Len(via)
      BY <2>1, <3>1, <3>2, Zenon DEF IdHops
    <3>3. CASE i = Len(via) + 1
      BY <1>3, <2>1, <3>1, <3>3, Zenon
    <3>4. QED
      BY <2>1, <3>1, <3>2, <3>3
  <2>3. IsList(via)'
    BY <2>1, Zenon
  <2>4. \A i \in IdHops' : i \in IdHops \/ i = Len(via) + 1
    BY <2>1 DEF IdHops
  <2>5. IdHops \subseteq IdHops' /\ IdHops \subseteq 1..Len(via)
    BY <2>1 DEF IdHops
  <2>6. IdHops' # {} => \E i \in IdHops' : \A j \in IdHops' : i <= j
    <3>1. CASE IdHops = {}
      BY <2>1, <2>4, <3>1
    <3>2. CASE IdHops # {}
      <4>1. PICK i \in IdHops : \A j \in IdHops : i <= j
        BY <3>2, Zenon DEF IdInv
      <4>2. i \in IdHops' /\ i <= Len(via) + 1
        BY <2>1, <2>5
      <4>3. QED
        BY <2>4, <4>1, <4>2, Zenon
    <3>3. QED
      BY <3>1, <3>2, Zenon
  <2>7. QED
    BY <2>2, <2>3, <2>6, Zenon
<1>6. QED
  BY <1>1, <1>2, <1>3, <1>4, <1>5, ZenonT(40) DEF IdInv

\* A refusal or an answer of the upstream.
LEMMA IdTurn == ASSUME IdInv, Answer \/ (\E p \in Proxies : Refuse(p)) PROVE IdInv'
<1>1. UNCHANGED <<req, via>> /\ back' = Len(via) /\ phase' = "response"
  BY Zenon DEF Answer, Refuse
<1>2. Len(via) \in Nat /\ DOMAIN via = 1..Len(via)
  BY DEF IdInv, IsList
<1>3. CASE Answer
  <2>1. Has(resp', "x-request-id") => resp'["x-request-id"] \in UpstreamIds
    BY <1>3, Zenon DEF Answer, UpstreamIds
  <2>2. QED
    BY <1>1, <1>2, <2>1 DEF IdInv, IdHops, UpstreamIds
<1>4. ASSUME NEW p \in Proxies, Refuse(p) PROVE IdInv'
  <2> DEFINE ids == Get(Received(p), "x-request-id")
  <2>1. /\ p.request_id => Settled(ids) /\ ids = Received(p)["x-request-id"]
        /\ Settled(Get(req, "x-request-id")) => ids = Get(req, "x-request-id")
    BY IdReceived, Zenon DEF IdInv
  <2>2. resp' = IF p.request_id THEN EchoRequestId(<<>>, Received(p)["x-request-id"][1]) ELSE <<>>
    BY <1>4, Zenon DEF Refuse
  <2>3. ~Has(<<>>, "x-request-id")
    BY DEF Has
  <2> HIDE DEF ids
  <2>4. Has(resp', "x-request-id") => p.request_id /\ resp'["x-request-id"] = ids
    BY <2>1, <2>2, <2>3, Zenon DEF EchoRequestId, Insert, Has, Settled
  <2>5. QED
    BY <1>1, <1>2, <2>1, <2>4 DEF IdInv, IdHops, UpstreamIds
<1>5. QED
  BY <1>3, <1>4, Zenon

\* A hop on the way back.
LEMMA IdReturn == ASSUME IdInv, Return PROVE IdInv'
<1> DEFINE hop == via[back]
           clean == StripHopByHop(resp)
<1>1. /\ UNCHANGED <<phase, req, via>> /\ phase = "response" /\ back > 0 /\ back' = back - 1
      /\ resp' = IF hop.proxy.request_id THEN EchoRequestId(clean, hop.id[1]) ELSE clean
  BY Zenon DEF Return
<1>2. Len(via) \in Nat /\ DOMAIN via = 1..Len(via) /\ back \in 0..Len(via)
  BY <1>1 DEF IdInv, IsList
<1>3. /\ Has(clean, "x-request-id") <=> Has(resp, "x-request-id")
      /\ Has(resp, "x-request-id") => clean["x-request-id"] = resp["x-request-id"]
  BY Stripped, Zenon DEF Get
<1> HIDE DEF hop, clean
<1>4. /\ Has(resp, "x-request-id") =>
           Has(resp', "x-request-id") /\ resp'["x-request-id"] = resp["x-request-id"]
      /\ ~Has(resp, "x-request-id") /\ hop.proxy.request_id =>
           Has(resp', "x-request-id") /\ resp'["x-request-id"] = <<hop.id[1]>>
      /\ ~Has(resp, "x-request-id") /\ ~hop.proxy.request_id => ~Has(resp', "x-request-id")
  BY <1>1, <1>3, Zenon DEF EchoRequestId, Insert, Has
<1>5. hop.proxy.request_id => back \in IdHops /\ hop.id = <<hop.id[1]>>
  BY <1>1, <1>2 DEF hop, IdInv, IdHops, Settled
<1>6. \A i \in IdHops : back = i => hop.proxy.request_id
  BY Zenon DEF hop, IdHops
<1>7. ASSUME NEW i \in IdHops
      PROVE  /\ Has(resp', "x-request-id") =>
                  resp'["x-request-id"] \in {via[i].id} \cup UpstreamIds
             /\ back - 1 < i => Has(resp', "x-request-id")
  <2>1. i \in Nat /\ back \in Nat
    BY <1>2 DEF IdHops
  <2>2. hop.proxy.request_id => hop.id = via[i].id
    BY <1>5, Zenon DEF hop, IdInv
  <2>3. /\ Has(resp, "x-request-id") => resp["x-request-id"] \in {via[i].id} \cup UpstreamIds
        /\ back < i => Has(resp, "x-request-id")
    BY <1>1, Zenon DEF IdInv
  <2>4. QED
    BY <1>4, <1>5, <1>6, <2>1, <2>2, <2>3
<1>8. QED
  BY <1>1, <1>2, <1>7 DEF IdInv, IdHops, UpstreamIds

\* Every step keeps the invariant.
LEMMA IdStep == IdInv /\ [ForwardingNext]_fvars => IdInv'
<1> SUFFICES ASSUME IdInv, [ForwardingNext]_fvars PROVE IdInv'
  BY Zenon
<1>1. CASE UNCHANGED fvars
  BY <1>1, Zenon DEF fvars, IdInv, IdHops, UpstreamIds, OneLine, Settled, IsList
<1>2. CASE ForwardingNext
  BY <1>2, IdForward, IdTurn, IdReturn, Zenon DEF ForwardingNext
<1>3. QED
  BY <1>1, <1>2, Zenon

\* One request, one id: whatever ids the client sends or names in Connection,
\* every proxy with request_id, the upstream and the client see the one that
\* the first of them settled, unless the upstream answers with another
\* (ensure_request_id, strip_hop_by_hop, handle_inner).
THEOREM OneId == ForwardingSpec => []OneRequestId
<1>1. IdInv => OneRequestId
  <2> SUFFICES ASSUME IdInv, IdHops # {} PROVE OneRequestId
    BY Zenon DEF OneRequestId, IdHops
  <2>2. \E i \in IdHops : \A j \in IdHops : i <= j
    BY Zenon DEF IdInv
  <2>3. Min(IdHops) \in IdHops
    BY <2>2, Zenon DEF Min
  <2>4. /\ Get(req, "x-request-id") = via[Min(IdHops)].id
        /\ Len(via[Min(IdHops)].id) = 1
    <3>1. \A ids : Settled(ids) => Len(ids) = 1
      BY DEF Settled
    <3>2. QED
      BY <2>3, <3>1, Zenon DEF IdInv
  <2>5. phase = "response" /\ back < Min(IdHops) =>
          Get(resp, "x-request-id") \in {via[Min(IdHops)].id} \cup UpstreamIds
    BY <2>3, Zenon DEF IdInv, Get
  <2>6. QED
    BY <2>4, <2>5, Zenon DEF OneRequestId, IdHops
<1>2. QED
  BY <1>1, IdInit, IdStep, PTL DEF ForwardingSpec

-----------------------------------------------------------------------------
(* The target and the list *)

\* The edge is the last hop whose peer is outside trusted_proxies.
IsEdge(e) == e \in Strangers /\ \A i \in Strangers : i <= e

\* The prefix lines and the path make up a path asked for.
Recovers(lines, rest, asked) ==
  \/ lines = <<>> /\ rest = asked
  \/ /\ lines = <<lines[1]>> /\ lines[1] \in Seq(STRING)
     /\ lines[1] \o rest = asked

\* It is the one hop e was asked for, or one behind a hop since e that stripped
\* a prefix the others do not take for plain.
Plain(lines) == lines = <<>> \/ PlainPrefix(lines[1])
PathBack(e) ==
  /\ Plain(Get(req, "x-forwarded-prefix")) \/ \E k \in e..Len(via) : Obscures(k)
  /\ \E i \in e..Len(via) :
       /\ i = e \/ \E k \in e..(i - 1) : Obscures(k)
       /\ Recovers(Get(req, "x-forwarded-prefix"), path, via[i].path)

\* Host is the one that hop e was asked for, unless rewritten.
HostBack(e) ==
  (via[e].host # NoHost /\ \A i \in e..Len(via) : ~via[i].proxy.rewrite)
    => Get(req, "host") = <<via[e].host>>

\* The list has an element for each hop from e on that writes one.
Told(e) == {i \in e..Len(via) : via[i].proxy.forwarded}
Element(hop) == ForwardedElement(hop.peer, hop.proxy.proto, hop.host)
Tells(list, told, hops) ==
  /\ IsList(list)
  /\ \E at \in [1..Len(list) -> told] :
       /\ \A k, l \in DOMAIN at : k < l => at[k] < at[l]
       /\ Range(at) = told
       /\ \A k \in DOMAIN at : list[k] = Element(hops[at[k]])
ListBack(e) == Tells(Get(req, "forwarded"), Told(e), via)

\* What a proxy reads of a trusted one: lists, no Connection and no authority,
\* and headers from which the edge's view can be recovered.
JourneyInv ==
  /\ sender \in IPs
  /\ path \in Seq(STRING)
  /\ OneLine(Get(req, "host"))
  /\ Has(req, "host") => Len(Get(req, "host")) # 0
  /\ via # <<>> => ~Has(req, "connection") /\ authority = NoHost
  /\ Strangers # {} => \E e \in Strangers : IsEdge(e)
  /\ \A e \in DOMAIN via : IsEdge(e) => PathBack(e) /\ HostBack(e) /\ ListBack(e)

\* Lists of one length with the same elements are the same.
LEMMA SameElements ==
  ASSUME NEW s \in Seq(STRING), NEW t \in Seq(STRING), Len(s) = Len(t),
         \A k \in 1..Len(s) : s[k] = t[k]
  PROVE  s = t
  OBVIOUS

\* Two lists in a row.
LEMMA Joined ==
  \A s, t \in Seq(STRING) : s \o t \in Seq(STRING) /\ Len(s \o t) = Len(s) + Len(t)
  OBVIOUS

\* What was stripped, put back in front of what is left.
LEMMA PutBack ==
  ASSUME NEW outer \in Seq(STRING), NEW prefix \in Seq(STRING), NEW whole \in Seq(STRING),
         Len(prefix) <= Len(whole), SubSeq(whole, 1, Len(prefix)) = prefix
  PROVE  LET rest == SubSeq(whole, Len(prefix) + 1, Len(whole))
         IN rest \in Seq(STRING) /\ (outer \o prefix) \o rest = outer \o whole
<1> DEFINE rest == SubSeq(whole, Len(prefix) + 1, Len(whole))
<1>1. /\ Len(prefix) \in Nat /\ Len(whole) \in Nat /\ Len(prefix) <= Len(whole)
      /\ \A k \in 1..Len(prefix) : prefix[k] = whole[k]
  OBVIOUS
<1>2. /\ rest \in Seq(STRING) /\ Len(rest) = Len(whole) - Len(prefix)
      /\ \A k \in 1..Len(rest) : rest[k] = whole[Len(prefix) + k]
  BY <1>1
<1> HIDE DEF rest
<1>3. prefix \o rest = whole
  <2>1. prefix \o rest \in Seq(STRING) /\ Len(prefix \o rest) = Len(whole)
    BY <1>1, <1>2
  <2>2. ASSUME NEW k \in 1..Len(whole) PROVE (prefix \o rest)[k] = whole[k]
    <3>1. CASE k <= Len(prefix)
      BY <1>1, <1>2, <3>1
    <3>2. CASE k > Len(prefix)
      <4>1. k - Len(prefix) \in 1..Len(rest) /\ Len(prefix) + (k - Len(prefix)) = k
        BY <1>1, <1>2, <3>2
      <4>2. (prefix \o rest)[k] = rest[k - Len(prefix)]
        BY <1>1, <1>2, <3>2
      <4>3. QED
        BY <1>2, <4>1, <4>2, Zenon
    <3>3. k <= Len(prefix) \/ k > Len(prefix)
      BY <1>1
    <3>4. QED
      BY <3>1, <3>2, <3>3, Zenon
  <2>3. QED
    BY <2>1, <2>2, SameElements, Zenon
<1>4. (outer \o prefix) \o rest = outer \o (prefix \o rest)
  <2>1. PICK left, right : left = outer \o prefix /\ right = prefix \o rest
    BY Zenon
  <2>2. /\ left \in Seq(STRING) /\ Len(left) = Len(outer) + Len(prefix)
        /\ right \in Seq(STRING) /\ Len(right) = Len(prefix) + Len(rest)
    BY <1>2, <2>1, Joined, Zenon
  <2>3. /\ left \o rest \in Seq(STRING) /\ Len(left \o rest) = Len(left) + Len(rest)
        /\ outer \o right \in Seq(STRING) /\ Len(outer \o right) = Len(outer) + Len(right)
    BY <1>2, <2>2, Joined, Zenon
  <2>4. Len(outer) \in Nat /\ Len(prefix) \in Nat /\ Len(rest) \in Nat
    BY <1>2
  <2>5. Len(left \o rest) = Len(outer \o right)
    BY <2>2, <2>3, <2>4
  <2>6. \A k \in 1..Len(left \o rest) : (left \o rest)[k] = (outer \o right)[k]
    BY <1>2, <2>1, <2>2, <2>3, <2>4, <2>5
  <2>7. QED
    BY <2>1, <2>3, <2>5, <2>6, SameElements, Zenon
<1>5. QED
  BY <1>2, <1>3, <1>4, Zenon DEF rest

\* A proxy's own prefix behind an outer one.
LEMMA PlainBoth ==
  ASSUME NEW outer \in Seq(STRING), outer = <<>> \/ PlainPrefix(outer),
         NEW prefix \in Seq(STRING), PlainPrefix(prefix)
  PROVE  PlainPrefix(outer \o prefix)
<1>1. \A k \in 1..Len(outer) : outer[k] # "with-comma"
  BY DEF PlainPrefix, Range
<1>2. /\ prefix \in Seq(STRING) /\ Len(prefix) > 0
      /\ \A k \in 1..Len(prefix) : prefix[k] # "with-comma"
  BY DEF PlainPrefix, Range
<1>3. /\ outer \o prefix \in Seq(STRING)
      /\ Len(outer \o prefix) = Len(outer) + Len(prefix)
      /\ \A k \in 1..Len(outer \o prefix) : (outer \o prefix)[k] # "with-comma"
  BY <1>1, <1>2
<1>4. outer \o prefix # <<>>
  BY <1>2, <1>3
<1>5. QED
  BY <1>3, <1>4 DEF PlainPrefix, Range

\* A proxy that strips its prefix adds it to the lines, unless they are not
\* plain: these it replaces (set_forwarded_prefix).
LEMMA PrefixSent ==
  ASSUME NEW p \in Proxies, NEW whole \in Seq(STRING),
         Len(p.prefix) <= Len(whole), SubSeq(whole, 1, Len(p.prefix)) = p.prefix,
         NEW lines, NEW asked, Recovers(lines, whole, asked)
  PROVE  LET outer == IF Len(lines) = 1 /\ PlainPrefix(lines[1]) THEN lines[1] ELSE <<>>
             sent == IF Strips(p) THEN <<outer \o p.prefix>> ELSE lines
             rest == IF p.strip THEN SubSeq(whole, Len(p.prefix) + 1, Len(whole)) ELSE whole
         IN /\ rest \in Seq(STRING)
            /\ Plain(lines) \/ ~Strips(p) => Recovers(sent, rest, asked)
            /\ ~Plain(lines) /\ Strips(p) => Recovers(sent, rest, whole)
            /\ Plain(lines) => Plain(sent) \/ (Strips(p) /\ ~PlainPrefix(p.prefix))
<1> DEFINE outer == IF Len(lines) = 1 /\ PlainPrefix(lines[1]) THEN lines[1] ELSE <<>>
           cut == SubSeq(whole, Len(p.prefix) + 1, Len(whole))
<1>1. PICK prefix : prefix = p.prefix /\ prefix \in Seq(STRING)
  BY JourneyAssumption, Zenon
<1>2. /\ Len(prefix) <= Len(whole) /\ SubSeq(whole, 1, Len(prefix)) = prefix
      /\ <<>> \o whole = whole /\ <<>> \in Seq(STRING)
  BY <1>1
<1>3. /\ outer \in Seq(STRING) /\ (outer = <<>> \/ PlainPrefix(outer))
      /\ Plain(lines) => outer \o whole = asked
      /\ ~Plain(lines) => outer \o whole = whole
  <2>1. CASE lines = <<>> /\ whole = asked
    <3>1. outer = <<>>
      BY <2>1
    <3>2. QED
      BY <1>2, <2>1, <3>1, Zenon DEF Plain
  <2>2. CASE /\ lines = <<lines[1]>> /\ lines[1] \in Seq(STRING)
             /\ lines[1] \o whole = asked
    <3>1. Len(lines) = 1 /\ lines # <<>>
      <4>1. \A x : Len(<<x>>) = 1 /\ <<x>> # <<>>
        OBVIOUS
      <4>2. QED
        BY <2>2, <4>1, Zenon
    <3>2. outer = IF PlainPrefix(lines[1]) THEN lines[1] ELSE <<>>
      BY <3>1, Zenon
    <3> HIDE DEF outer
    <3>3. QED
      BY <1>2, <2>2, <3>1, <3>2, Zenon DEF Plain
  <2>3. QED
    BY <2>1, <2>2, Zenon DEF Recovers
<1> HIDE DEF outer
<1>4. cut \in Seq(STRING) /\ (outer \o prefix) \o cut = outer \o whole
  BY <1>1, <1>2, <1>3, PutBack, ZenonT(40)
<1>5. CASE Strips(p)
  <2>1. outer \o prefix \in Seq(STRING)
    BY <1>1, <1>3, Joined, Zenon
  <2>2. Recovers(<<outer \o prefix>>, cut, outer \o whole)
    BY <1>4, <2>1, Zenon DEF Recovers
  <2>3. PlainPrefix(prefix) => Plain(<<outer \o prefix>>)
    <3>1. PlainPrefix(prefix) => PlainPrefix(outer \o prefix)
      BY <1>1, <1>3, PlainBoth, Zenon
    <3>2. QED
      BY <3>1, Zenon DEF Plain
  <2>4. p.strip
    BY <1>5, Zenon DEF Strips
  <2>5. QED
    BY <1>1, <1>3, <1>4, <1>5, <2>2, <2>3, <2>4, Zenon DEF outer
<1>6. CASE ~Strips(p)
  <2>1. CASE p.strip
    <3>1. prefix = <<>>
      BY <1>1, <1>6, <2>1, Zenon DEF Strips
    <3>2. Len(p.prefix) + 1 = 1
      BY <1>1, <3>1
    <3>3. cut = whole
      <4>1. cut = SubSeq(whole, 1, Len(whole))
        BY <3>2, Zenon
      <4>2. \A k \in 1..Len(whole) : SubSeq(whole, 1, Len(whole))[k] = whole[k]
        OBVIOUS
      <4>3. /\ SubSeq(whole, 1, Len(whole)) \in Seq(STRING)
            /\ Len(SubSeq(whole, 1, Len(whole))) = Len(whole)
        OBVIOUS
      <4>4. QED
        BY <4>1, <4>2, <4>3, SameElements, Zenon
    <3>4. QED
      BY <1>6, <2>1, <3>3, Zenon
  <2>2. CASE ~p.strip
    BY <1>6, <2>2, Zenon
  <2>3. QED
    BY <2>1, <2>2, Zenon
<1>7. QED
  BY <1>5, <1>6, Zenon

\* A proxy that writes an element adds it after the others (append_forwarded).
LEMMA ListSent ==
  ASSUME NEW n \in Nat, NEW told \in SUBSET (1..n), NEW list, NEW hops, NEW more,
         Tells(list, told, hops), \A k \in 1..n : more[k] = hops[k]
  PROVE  /\ Tells(list, told, more)
         /\ Tells(Append(list, Element(more[n + 1])), told \cup {n + 1}, more)
<1>1. PICK at \in [1..Len(list) -> told] :
        /\ \A k, l \in DOMAIN at : k < l => at[k] < at[l]
        /\ Range(at) = told
        /\ \A k \in DOMAIN at : list[k] = Element(hops[at[k]])
  BY Zenon DEF Tells
<1>2. \A k \in 1..Len(list) : at[k] \in told /\ at[k] \in 1..n
  BY Zenon
<1>3. \A k \in DOMAIN at : list[k] = Element(more[at[k]])
  BY <1>1, <1>2, Zenon
<1>4. Tells(list, told, more)
  BY <1>1, <1>3, Zenon DEF Tells
<1>5. PICK e : e = Element(more[n + 1])
  BY Zenon
<1>6. PICK m : m = Len(list)
  OBVIOUS
<1>7. /\ IsList(Append(list, e)) /\ Len(Append(list, e)) = m + 1 /\ m \in Nat
      /\ \A k \in 1..m : Append(list, e)[k] = list[k]
      /\ Append(list, e)[m + 1] = e
  BY <1>6, Appended DEF Tells
<1> DEFINE next == [k \in 1..m + 1 |-> IF k = m + 1 THEN n + 1 ELSE at[k]]
<1>8. /\ next \in [1..m + 1 -> told \cup {n + 1}]
      /\ \A k \in 1..m : next[k] = at[k] /\ at[k] \in 1..n
      /\ next[m + 1] = n + 1
  BY <1>2, <1>6, <1>7
<1> HIDE DEF next
<1>9. \A k \in 1..m + 1 : k \in 1..m \/ k = m + 1
  BY <1>7
<1>10. \A k, l \in DOMAIN next : k < l => next[k] < next[l]
  <2>1. DOMAIN next = 1..m + 1 /\ DOMAIN at = 1..m
    BY <1>6, <1>8, Zenon
  <2>2. \A k, l \in 1..m : k < l => next[k] < next[l]
    BY <1>1, <1>8, <2>1, Zenon
  <2>3. \A k \in 1..m : next[k] < next[m + 1]
    BY <1>8
  <2>4. \A k, l \in 1..m + 1 : k < l => k \in 1..m /\ (l \in 1..m \/ l = m + 1)
    BY <1>7
  <2>5. QED
    BY <2>1, <2>2, <2>3, <2>4, Zenon
<1>11. Range(next) = told \cup {n + 1}
  <2>1. \A i \in told : \E k \in 1..m : at[k] = i
    BY <1>1, <1>6, Zenon DEF Range
  <2>2. \A k \in 1..m : k \in 1..m + 1
    BY <1>7
  <2>3. DOMAIN next = 1..m + 1 /\ m + 1 \in 1..m + 1
    BY <1>7, <1>8
  <2>4. \A i \in told \cup {n + 1} : \E k \in DOMAIN next : next[k] = i
    BY <1>8, <2>1, <2>2, <2>3, Zenon
  <2>5. \A k \in DOMAIN next : next[k] \in told \cup {n + 1}
    BY <1>8, <2>3, Zenon
  <2>6. QED
    BY <2>4, <2>5, Zenon DEF Range
<1>12. \A k \in DOMAIN next : Append(list, e)[k] = Element(more[next[k]])
  BY <1>3, <1>5, <1>6, <1>7, <1>8, <1>9
<1>13. Tells(Append(list, e), told \cup {n + 1}, more)
  BY <1>7, <1>8, <1>10, <1>11, <1>12, Zenon DEF Tells
<1>14. QED
  BY <1>4, <1>5, <1>13, Zenon

\* The hop that Forward(p) adds.  It is a new edge exactly when the code does
\* not trust the peer.
LEMMA HopAdded ==
  ASSUME NEW p \in Proxies, IsList(via), sender \in IPs, TrustIsByRange, Forward(p),
         NEW n, n = Len(via) + 1
  PROVE  /\ Len(via) \in Nat /\ DOMAIN via = 1..Len(via)
         /\ Len(via') = n /\ DOMAIN via' = 1..n
         /\ \A k \in 1..Len(via) : via'[k] = via[k]
         /\ via'[n].proxy = p /\ via'[n].peer = sender /\ via'[n].path = path
         /\ via'[n].host = ClientHost(Received(p), authority)
         /\ Strangers' = IF TrustContains(Nets, sender) THEN Strangers ELSE Strangers \cup {n}
<1>1. PICK hop :
        /\ via' = Append(via, hop) /\ hop.proxy = p /\ hop.peer = sender /\ hop.path = path
        /\ hop.host = ClientHost(Received(p), authority)
  BY DEF Forward
<1>2. /\ Len(via) \in Nat /\ DOMAIN via = 1..Len(via)
      /\ Len(via') = n /\ DOMAIN via' = 1..n
      /\ \A k \in 1..Len(via) : via'[k] = via[k]
      /\ via'[n] = hop
  <2>1. \A e : /\ Len(via) \in Nat /\ DOMAIN via = 1..Len(via)
               /\ Len(Append(via, e)) = n /\ DOMAIN Append(via, e) = 1..n
               /\ \A k \in 1..Len(via) : Append(via, e)[k] = via[k]
               /\ Append(via, e)[n] = e
    <3>1. \A e : IsList(Append(via, e))
      BY Appended, Zenon
    <3>2. \A e : DOMAIN Append(via, e) = 1..Len(via) + 1 /\ Len(Append(via, e)) = Len(via) + 1
      BY Appended, Zenon
    <3>3. QED
      BY <3>2, Appended
  <2>2. QED
    BY <1>1, <2>1, Zenon
<1>3. trust' = trust
  BY Zenon DEF Forward
<1>4. TrustContains(Nets, sender) <=> \E entry \in trust : Covers(entry, sender)
  BY Zenon DEF TrustIsByRange
<1> DEFINE Known(ip) == \E entry \in trust : Covers(entry, ip)
<1>5. /\ Strangers = {i \in DOMAIN via : ~Known(via[i].peer)}
      /\ Strangers' = {i \in DOMAIN via' : ~Known(via'[i].peer)}
  BY <1>3, Zenon DEF Strangers
<1>6. TrustContains(Nets, sender) <=> Known(sender)
  BY <1>4, Zenon
<1> HIDE DEF Known
<1>7. DOMAIN via' = DOMAIN via \cup {n} /\ n \notin DOMAIN via
  BY <1>2
<1>8. \A i \in DOMAIN via : Known(via'[i].peer) <=> Known(via[i].peer)
  BY <1>2, Zenon
<1>9. Known(via'[n].peer) <=> TrustContains(Nets, sender)
  BY <1>1, <1>2, <1>6, Zenon
<1>10. Strangers' = IF TrustContains(Nets, sender) THEN Strangers ELSE Strangers \cup {n}
  BY <1>5, <1>7, <1>8, <1>9, Zenon
<1>11. QED
  BY <1>1, <1>2, <1>10, ZenonT(40)

\* What a proxy reads of the headers that only a trusted peer may set.
LEMMA ReadBack ==
  ASSUME NEW p, IdInv, via # <<>> => ~Has(req, "connection"),
         TrustContains(Nets, sender) => via # <<>>,
         NEW name \in {"forwarded", "x-forwarded-prefix"}
  PROVE  Kept(StripHopByHop(Received(p)), Nets, sender, name) =
           IF TrustContains(Nets, sender) THEN Get(req, name) ELSE <<>>
<1>1. \A m : m # "x-request-id" =>
         Get(Received(p), m) = Get(req, m) /\ (Has(Received(p), m) <=> Has(req, m))
  BY IdReceived, Zenon DEF IdInv
<1>2. name # "x-request-id" /\ name \notin HopByHop
  BY Zenon DEF HopByHop
<1>3. TrustContains(Nets, sender) => ~Has(Received(p), "connection")
  BY <1>1, Zenon
<1>4. QED
  BY <1>1, <1>2, <1>3, Stripped, Zenon DEF Kept

\* Where an edge stands after a hop: at the new one, or where it stood.
LEMMA EdgeAfter ==
  ASSUME NEW p \in Proxies, IsList(via), sender \in IPs, TrustIsByRange, Forward(p),
         NEW e \in DOMAIN via', IsEdge(e)'
  PROVE  \/ ~TrustContains(Nets, sender) /\ e = Len(via) + 1
         \/ TrustContains(Nets, sender) /\ e \in DOMAIN via /\ IsEdge(e) /\ via # <<>>
<1> DEFINE n == Len(via) + 1
<1>1. /\ Len(via) \in Nat /\ DOMAIN via = 1..Len(via) /\ DOMAIN via' = 1..n
      /\ Strangers' = IF TrustContains(Nets, sender) THEN Strangers ELSE Strangers \cup {n}
  BY HopAdded, Zenon
<1>2. e \in Strangers' /\ \A i \in Strangers' : i <= e
  BY Zenon DEF IsEdge
<1>3. CASE ~TrustContains(Nets, sender)
  <2>1. n \in Strangers'
    BY <1>1, <1>3, Zenon
  <2>2. n <= e /\ e \in 1..n
    BY <1>1, <1>2, <2>1, Zenon
  <2>3. QED
    BY <1>1, <1>3, <2>2
<1>4. CASE TrustContains(Nets, sender)
  <2>1. IsEdge(e)
    BY <1>1, <1>2, <1>4, Zenon DEF IsEdge
  <2>2. e \in DOMAIN via
    BY <2>1, Zenon DEF IsEdge, Strangers
  <2>3. QED
    BY <1>1, <1>4, <2>1, <2>2
<1>5. QED
  BY <1>3, <1>4, Zenon

\* After a hop there is an edge if there is a stranger.
LEMMA NewEdge ==
  ASSUME NEW p \in Proxies, IdInv, JourneyInv, TrustIsByRange, Forward(p), Strangers' # {}
  PROVE  \E e \in Strangers' : IsEdge(e)'
<1> DEFINE n == Len(via) + 1
<1>1. /\ Len(via) \in Nat /\ DOMAIN via = 1..Len(via)
      /\ Strangers' = IF TrustContains(Nets, sender) THEN Strangers ELSE Strangers \cup {n}
  BY HopAdded, Zenon DEF IdInv, JourneyInv
<1>2. CASE TrustContains(Nets, sender)
  BY <1>1, <1>2, Zenon DEF JourneyInv, IsEdge
<1>3. CASE ~TrustContains(Nets, sender)
  <2>1. \A i \in Strangers : i <= n
    BY <1>1 DEF Strangers
  <2>2. n \in Strangers' /\ \A i \in Strangers' : i <= n
    BY <1>1, <1>3, <2>1
  <2>3. QED
    BY <2>2, Zenon DEF IsEdge
<1>4. QED
  BY <1>2, <1>3, Zenon

\* The Host that an accepted request is sent on with.
LEMMA HostAfter ==
  ASSUME NEW p \in Proxies, IdInv, JourneyInv, Forward(p)
  PROVE  /\ OneLine(Get(req', "host")) /\ Len(Get(req', "host")) # 0
         /\ LET host == ClientHost(Received(p), authority)
            IN ~p.rewrite /\ host # NoHost => Get(req', "host") = <<host>>
         /\ Get(Received(p), "host") = Get(req, "host")
         /\ Has(Received(p), "host") <=> Has(req, "host")
<1>1. Get(req', "host") = HostSent(p)
  BY Sent, Zenon
<1>2. Get(Received(p), "host") = Get(req, "host") /\ (Has(Received(p), "host") <=> Has(req, "host"))
  BY IdReceived, Zenon DEF IdInv
<1>3. ~BadHost(Received(p), authority, version)
  BY Zenon DEF Forward, Accepts
<1>4. PICK hosts : hosts = Get(Received(p), "host")
  OBVIOUS
<1>5. OneLine(hosts) /\ (Has(Received(p), "host") => Len(hosts) # 0)
  BY <1>2, <1>4, Zenon DEF JourneyInv
<1>6. Len(hosts) = 0 \/ Len(hosts) = 1
  BY <1>3, <1>4, Zenon DEF BadHost
<1>7. Has(Received(p), "host") => hosts = <<hosts[1]>> /\ Received(p)["host"] = hosts
  BY <1>4, <1>5, <1>6, Zenon DEF OneLine, Get
<1>8. \A x : OneLine(<<x>>) /\ Len(<<x>>) # 0
  BY DEF OneLine
<1>9. QED
  BY <1>1, <1>2, <1>4, <1>5, <1>7, <1>8, Zenon DEF HostSent, ClientHost

\* The path can still be recovered after a hop.
LEMMA PathAfter ==
  ASSUME NEW p \in Proxies, IdInv, JourneyInv, TrustIsByRange, Forward(p)
  PROVE  /\ path' \in Seq(STRING)
         /\ \A e \in DOMAIN via' : IsEdge(e)' => PathBack(e)'
<1> DEFINE Kept0 == Kept(StripHopByHop(Received(p)), Nets, sender, "x-forwarded-prefix")
<1>1. /\ path' = IF p.strip THEN SubSeq(path, Len(p.prefix) + 1, Len(path)) ELSE path
      /\ Len(p.prefix) <= Len(path) /\ SubSeq(path, 1, Len(p.prefix)) = p.prefix
      /\ path \in Seq(STRING)
  BY Zenon DEF Forward, Accepts, JourneyInv
<1>2. Get(req', "x-forwarded-prefix") =
        LET outer == IF Len(Kept0) = 1 /\ PlainPrefix(Kept0[1]) THEN Kept0[1] ELSE <<>>
        IN IF Strips(p) THEN <<outer \o p.prefix>> ELSE Kept0
  BY Sent, Zenon
<1> HIDE DEF Kept0
<1>3. ASSUME NEW asked, Recovers(Kept0, path, asked)
      PROVE  LET sent == Get(req', "x-forwarded-prefix")
             IN /\ path' \in Seq(STRING)
                /\ Plain(Kept0) \/ ~Strips(p) => Recovers(sent, path', asked)
                /\ ~Plain(Kept0) /\ Strips(p) => Recovers(sent, path', path)
                /\ Plain(Kept0) => Plain(sent) \/ (Strips(p) /\ ~PlainPrefix(p.prefix))
  <2>1. LET outer == IF Len(Kept0) = 1 /\ PlainPrefix(Kept0[1]) THEN Kept0[1] ELSE <<>>
            sent == IF Strips(p) THEN <<outer \o p.prefix>> ELSE Kept0
            rest == IF p.strip THEN SubSeq(path, Len(p.prefix) + 1, Len(path)) ELSE path
        IN /\ rest \in Seq(STRING)
           /\ Plain(Kept0) \/ ~Strips(p) => Recovers(sent, rest, asked)
           /\ ~Plain(Kept0) /\ Strips(p) => Recovers(sent, rest, path)
           /\ Plain(Kept0) => Plain(sent) \/ (Strips(p) /\ ~PlainPrefix(p.prefix))
    BY <1>1, <1>3, PrefixSent, Zenon
  <2>2. QED
    BY <1>1, <1>2, <2>1, Zenon
<1>4. path' \in Seq(STRING)
  <2>1. Recovers(<<>>, path, path)
    BY Zenon DEF Recovers
  <2>2. (IF p.strip THEN SubSeq(path, Len(p.prefix) + 1, Len(path)) ELSE path) \in Seq(STRING)
    BY <1>1, <2>1, PrefixSent, Zenon
  <2>3. QED
    BY <1>1, <2>2, Zenon
<1>5. ASSUME NEW e \in DOMAIN via', IsEdge(e)' PROVE PathBack(e)'
  <2> DEFINE sent == Get(req', "x-forwarded-prefix")
  <2>0. PICK n : n = Len(via) + 1
    BY Zenon
  <2>1. /\ Len(via) \in Nat /\ DOMAIN via = 1..Len(via) /\ Len(via') = n
        /\ via'[n].path = path /\ via'[n].proxy = p
        /\ \A k \in 1..Len(via) : via'[k] = via[k]
    BY <2>0, HopAdded, Zenon DEF IdInv, JourneyInv
  <2>2. \/ ~TrustContains(Nets, sender) /\ e = n
        \/ TrustContains(Nets, sender) /\ e \in DOMAIN via /\ IsEdge(e) /\ via # <<>>
    BY <1>5, <2>0, EdgeAfter, Zenon DEF IdInv, JourneyInv
  <2>3. Kept0 = IF TrustContains(Nets, sender) THEN Get(req, "x-forwarded-prefix") ELSE <<>>
    <3>1. /\ via # <<>> => ~Has(req, "connection")
          /\ TrustContains(Nets, sender) => via # <<>>
      BY <2>2, Zenon DEF JourneyInv
    <3>2. QED
      BY <3>1, ReadBack, Zenon DEF Kept0
  <2>4. /\ \A i \in 1..Len(via) : i \in 1..n
        /\ n \in n..n
        /\ e \in 1..Len(via) => n \in e..n
        /\ \A i \in e..Len(via) : e \in 1..Len(via) => i \in e..n /\ i \in 1..Len(via)
        /\ e..(n - 1) = e..Len(via)
        /\ \A i \in e..Len(via) : \A k \in e..(i - 1) : e \in 1..Len(via) => k \in 1..Len(via)
    BY <2>0, <2>1
  <2>5. Strips(p) /\ ~PlainPrefix(p.prefix) => Obscures(n)'
    BY <2>1, Zenon DEF Obscures
  <2>6. \A k \in 1..Len(via) : Obscures(k) => Obscures(k)'
    BY <2>1, Zenon DEF Obscures
  <2>7. CASE ~TrustContains(Nets, sender) /\ e = n
    <3>1. Recovers(Kept0, path, path) /\ Plain(Kept0)
      BY <2>3, <2>7, Zenon DEF Recovers, Plain
    <3>2. Recovers(sent, path', path) /\ (Plain(sent) \/ (Strips(p) /\ ~PlainPrefix(p.prefix)))
      BY <1>3, <3>1, Zenon
    <3>3. QED
      BY <2>1, <2>4, <2>5, <2>7, <3>2, Zenon DEF PathBack
  <2>8. CASE TrustContains(Nets, sender) /\ e \in DOMAIN via /\ IsEdge(e) /\ via # <<>>
    <3>1. PathBack(e) /\ e \in 1..Len(via)
      BY <2>1, <2>8, Zenon DEF JourneyInv
    <3>2. /\ Plain(Kept0) \/ \E k \in e..Len(via) : Obscures(k)
          /\ \E i \in e..Len(via) :
               /\ i = e \/ \E k \in e..(i - 1) : Obscures(k)
               /\ Recovers(Kept0, path, via[i].path)
      BY <2>3, <2>8, <3>1, Zenon DEF PathBack
    <3>3. PICK i \in e..Len(via) :
               /\ i = e \/ \E k \in e..(i - 1) : Obscures(k)
               /\ Recovers(Kept0, path, via[i].path)
      BY <3>2, Zenon
    <3>4. Plain(sent) \/ \E k \in e..n : Obscures(k)'
      <4>1. CASE Plain(Kept0)
        BY <1>3, <2>4, <2>5, <3>1, <3>3, <4>1, Zenon
      <4>2. CASE ~Plain(Kept0)
        BY <2>4, <2>6, <3>1, <3>2, <4>2, Zenon
      <4>3. QED
        BY <4>1, <4>2, Zenon
    <3>5. CASE Plain(Kept0) \/ ~Strips(p)
      <4>1. i \in e..n /\ i \in 1..Len(via) /\ via'[i].path = via[i].path
        BY <2>1, <2>4, <3>1, <3>3, Zenon
      <4>2. Recovers(sent, path', via'[i].path)
        BY <1>3, <3>3, <3>5, <4>1, Zenon
      <4>3. i = e \/ \E k \in e..(i - 1) : Obscures(k)'
        BY <2>4, <2>6, <3>1, <3>3, Zenon
      <4>4. QED
        BY <2>1, <3>4, <4>1, <4>2, <4>3, Zenon DEF PathBack
    <3>6. CASE ~Plain(Kept0) /\ Strips(p)
      <4>1. Recovers(sent, path', via'[n].path)
        BY <1>3, <2>1, <3>3, <3>6, Zenon
      <4>2. \E k \in e..(n - 1) : Obscures(k)'
        BY <2>4, <2>6, <3>1, <3>2, <3>6, Zenon
      <4>3. QED
        BY <2>1, <2>4, <3>1, <3>4, <4>1, <4>2, Zenon DEF PathBack
    <3>7. QED
      BY <3>5, <3>6, Zenon
  <2>9. QED
    BY <2>2, <2>7, <2>8, Zenon
<1>6. QED
  BY <1>4, <1>5, Zenon

\* So can the host that the edge was asked for.
LEMMA HostKept ==
  ASSUME NEW p \in Proxies, IdInv, JourneyInv, TrustIsByRange, Forward(p),
         NEW e \in DOMAIN via', IsEdge(e)'
  PROVE  HostBack(e)'
<1> DEFINE n == Len(via) + 1
<1>1. /\ Len(via) \in Nat /\ DOMAIN via = 1..Len(via) /\ Len(via') = n
      /\ \A k \in 1..Len(via) : via'[k] = via[k]
      /\ via'[n].proxy = p /\ via'[n].host = ClientHost(Received(p), authority)
  BY HopAdded, Zenon DEF IdInv, JourneyInv
<1>2. \/ ~TrustContains(Nets, sender) /\ e = n
      \/ TrustContains(Nets, sender) /\ e \in DOMAIN via /\ IsEdge(e) /\ via # <<>>
  BY EdgeAfter, Zenon DEF IdInv, JourneyInv
<1> HIDE DEF n
<1> SUFFICES ASSUME via'[e].host # NoHost, \A i \in e..Len(via') : ~via'[i].proxy.rewrite
             PROVE  Get(req', "host") = <<via'[e].host>>
  BY Zenon DEF HostBack
<1>3. ~p.rewrite
  <2>1. n \in e..Len(via')
    BY <1>1, <1>2 DEF n
  <2>2. QED
    BY <1>1, <2>1, Zenon
<1>4. CASE ~TrustContains(Nets, sender) /\ e = n
  BY <1>1, <1>3, <1>4, HostAfter, Zenon
<1>5. CASE TrustContains(Nets, sender) /\ e \in DOMAIN via /\ IsEdge(e) /\ via # <<>>
  <2>1. HostBack(e) /\ authority = NoHost
    BY <1>5, Zenon DEF JourneyInv
  <2>2. \A i \in e..Len(via) : i \in e..Len(via') /\ via'[i] = via[i]
    BY <1>1, <1>5 DEF n
  <2>3. Get(req, "host") = <<via[e].host>>
    BY <1>1, <1>5, <2>1, <2>2, Zenon DEF HostBack
  <2>4. Has(req, "host")
    BY <2>3, Zenon DEF Get
  <2>5. HostSent(p) = Get(req, "host")
    BY <1>3, <2>1, <2>4, HostAfter, Zenon DEF HostSent
  <2>6. QED
    BY <1>1, <1>5, <2>3, <2>5, Sent, Zenon
<1>6. QED
  BY <1>2, <1>4, <1>5, Zenon

\* And the list grows by the hop's own element, or not at all.
LEMMA ListKept ==
  ASSUME NEW p \in Proxies, IdInv, JourneyInv, TrustIsByRange, Forward(p),
         NEW e \in DOMAIN via', IsEdge(e)'
  PROVE  ListBack(e)'
<1> DEFINE n == Len(via) + 1
           Kept0 == Kept(StripHopByHop(Received(p)), Nets, sender, "forwarded")
           old == {i \in e..Len(via) : via[i].proxy.forwarded}
<1>1. /\ Len(via) \in Nat /\ DOMAIN via = 1..Len(via) /\ Len(via') = n /\ DOMAIN via' = 1..n
      /\ \A k \in 1..Len(via) : via'[k] = via[k]
      /\ via'[n].proxy = p /\ via'[n].peer = sender
      /\ via'[n].host = ClientHost(Received(p), authority)
  BY HopAdded, Zenon DEF IdInv, JourneyInv
<1>2. \/ ~TrustContains(Nets, sender) /\ e = n
      \/ TrustContains(Nets, sender) /\ e \in DOMAIN via /\ IsEdge(e) /\ via # <<>>
  BY EdgeAfter, Zenon DEF IdInv, JourneyInv
<1>3. Get(req', "forwarded") =
        IF p.forwarded THEN Append(Kept0, Element(via'[n])) ELSE Kept0
  <2>1. Element(via'[n]) = ForwardedElement(sender, p.proto, ClientHost(Received(p), authority))
    BY <1>1, Zenon DEF Element
  <2>2. QED
    BY <2>1, Sent, Zenon
<1>4. Kept0 = IF TrustContains(Nets, sender) THEN Get(req, "forwarded") ELSE <<>>
  <2>1. /\ via # <<>> => ~Has(req, "connection")
        /\ TrustContains(Nets, sender) => via # <<>>
    BY <1>2, Zenon DEF JourneyInv
  <2>2. QED
    BY <2>1, ReadBack, Zenon
<1> HIDE DEF Kept0
<1>5. e \in 1..n
  BY <1>1, Zenon
<1>6. old \in SUBSET (1..Len(via))
  BY <1>1, <1>5
<1>7. Told(e)' = IF p.forwarded THEN old \cup {n} ELSE old
  <2>1. e..Len(via') = (e..Len(via)) \cup {n} /\ n \notin e..Len(via)
    BY <1>1, <1>5
  <2>2. \A i \in e..Len(via) : via'[i] = via[i]
    BY <1>1, <1>5
  <2> HIDE DEF n
  <2>3. QED
    BY <1>1, <2>1, <2>2, Zenon DEF Told
<1>8. Tells(Kept0, old, via)
  <2>1. CASE ~TrustContains(Nets, sender) /\ e = n
    <3>1. old = {}
      BY <1>1, <2>1
    <3>2. \A hops : Tells(<<>>, {}, hops)
      <4>1. <<>> \in [1..Len(<<>>) -> {}] /\ DOMAIN <<>> = {} /\ IsList(<<>>)
        BY DEF IsList
      <4>2. Range(<<>>) = {}
        BY <4>1, Zenon DEF Range
      <4>3. QED
        BY <4>1, <4>2, Zenon DEF Tells
    <3>3. QED
      BY <1>4, <2>1, <3>1, <3>2, Zenon
  <2>2. CASE TrustContains(Nets, sender) /\ e \in DOMAIN via /\ IsEdge(e) /\ via # <<>>
    <3>1. ListBack(e)
      BY <2>2, Zenon DEF JourneyInv
    <3>2. QED
      BY <1>4, <2>2, <3>1, Zenon DEF ListBack, Told
  <2>3. QED
    BY <1>2, <2>1, <2>2, Zenon
<1> HIDE DEF old
<1>9. /\ Tells(Kept0, old, via')
      /\ Tells(Append(Kept0, Element(via'[n])), old \cup {n}, via')
  BY <1>1, <1>6, <1>8, ListSent, Zenon
<1> HIDE DEF n
<1>10. QED
  BY <1>3, <1>7, <1>9, Zenon DEF ListBack

\* The invariant at the start.
LEMMA JourneyInit == ForwardingInit => JourneyInv
<1> SUFFICES ASSUME ForwardingInit PROVE JourneyInv
  BY Zenon
<1>1. PICK r \in Requests : req = r.headers /\ sender = r.client /\ path = r.path
  BY Zenon DEF ForwardingInit
<1>2. via = <<>>
  BY Zenon DEF ForwardingInit
<1>3. sender \in IPs /\ path \in Seq(STRING)
  BY <1>1, JourneyAssumption, Zenon
<1>4. Has(req, "host") => req["host"] \in Seq(Range(req["host"])) \ {<<>>}
  BY <1>1, JourneyAssumption, Zenon
<1>5. OneLine(Get(req, "host")) /\ (Has(req, "host") => Len(Get(req, "host")) # 0)
  BY <1>4 DEF OneLine, Get
<1>6. Strangers = {}
  BY <1>2 DEF Strangers
<1>7. QED
  BY <1>2, <1>3, <1>5, <1>6 DEF JourneyInv

\* The invariant over every step, given that trust is by range.
LEMMA JourneyStep ==
  IdInv /\ JourneyInv /\ TrustIsByRange /\ [ForwardingNext]_fvars => JourneyInv'
<1> SUFFICES ASSUME IdInv, JourneyInv, TrustIsByRange, [ForwardingNext]_fvars PROVE JourneyInv'
  BY Zenon
<1>1. ASSUME NEW p \in Proxies, Forward(p) PROVE JourneyInv'
  <2>1. sender' \in IPs /\ authority' = NoHost
    BY <1>1, JourneyAssumption, Zenon DEF Forward
  <2>2. ~Has(req', "connection")
    BY <1>1, Sent, Zenon
  <2>3. OneLine(Get(req', "host")) /\ Len(Get(req', "host")) # 0
    BY <1>1, HostAfter, Zenon
  <2>4. path' \in Seq(STRING) /\ \A e \in DOMAIN via' : IsEdge(e)' => PathBack(e)'
    BY <1>1, PathAfter, Zenon
  <2>5. \A e \in DOMAIN via' : IsEdge(e)' => HostBack(e)'
    BY <1>1, HostKept, Zenon
  <2>6. \A e \in DOMAIN via' : IsEdge(e)' => ListBack(e)'
    BY <1>1, ListKept, Zenon
  <2>7. Strangers' # {} => \E e \in Strangers' : IsEdge(e)'
    BY <1>1, NewEdge, Zenon
  <2>8. QED
    BY <2>1, <2>2, <2>3, <2>4, <2>5, <2>6, <2>7, Zenon DEF JourneyInv
<1>2. CASE UNCHANGED <<trust, sender, req, path, authority, via>>
  BY <1>2, Zenon DEF JourneyInv, IsEdge, Strangers, PathBack, Obscures, HostBack, ListBack, Told
<1>3. CASE ~(\E p \in Proxies : Forward(p))
  BY <1>2, <1>3, Zenon DEF ForwardingNext, Refuse, Answer, Return, fvars
<1>4. QED
  BY <1>1, <1>3, Zenon

\* A list of hops with a stranger among them has an edge.
LEMMA HasEdge ==
  ASSUME IdInv, JourneyInv, Strangers # {}
  PROVE  Max(Strangers) \in DOMAIN via /\ IsEdge(Max(Strangers))
<1>1. PICK e \in Strangers : IsEdge(e)
  BY Zenon DEF JourneyInv
<1>2. \A i \in Strangers : e >= i
  <2>1. \A i \in Strangers : i \in Nat
    <3>1. DOMAIN via = 1..Len(via) /\ Len(via) \in Nat
      BY DEF IdInv, IsList
    <3>2. \A i \in 1..Len(via) : i \in Nat
      OBVIOUS
    <3>3. QED
      BY <3>1, <3>2, Zenon DEF Strangers
  <2>2. QED
    BY <1>1, <2>1, Zenon DEF IsEdge
<1>3. Max(Strangers) \in Strangers /\ \A i \in Strangers : Max(Strangers) >= i
  BY <1>2, Zenon DEF Max
<1>4. \A i, k \in Strangers : k >= i => i <= k
  BY Zenon
<1>5. QED
  BY <1>3, <1>4, Zenon DEF IsEdge, Strangers

\* Where the code trusts exactly the ranges of trusted_proxies, the target the
\* edge was asked for can be recovered: the prefixes stripped along the chain
\* put back give its path, or, behind a prefix that is not plain, the path of a
\* later hop, and Host is its host unless rewritten
\* (set_forwarded_prefix, pin_host, rewrite of the path in handle_core).
LEMMA TargetGivenTrust ==
  ForwardingSpec /\ []TrustIsByRange => []TargetIsRecoverable
<1>1. IdInv /\ JourneyInv => TargetIsRecoverable
  <2> SUFFICES ASSUME IdInv, JourneyInv, Strangers # {} PROVE TargetIsRecoverable
    BY Zenon DEF TargetIsRecoverable
  <2> DEFINE e == Max(Strangers)
  <2>1. PathBack(e) /\ HostBack(e)
    BY HasEdge, Zenon DEF JourneyInv
  <2> HIDE DEF e
  <2>2. LET lines == Get(req, "x-forwarded-prefix")
        IN \E i \in e..Len(via) :
             /\ i = e \/ \E k \in e..(i - 1) : Obscures(k)
             /\ IF lines = <<>> THEN path = via[i].path
                ELSE Len(lines) = 1 /\ lines[1] \o path = via[i].path
    <3>1. \A lines : lines = <<lines[1]>> => Len(lines) = 1 /\ lines # <<>>
      OBVIOUS
    <3>2. QED
      BY <2>1, <3>1, Zenon DEF PathBack, Recovers
  <2>3. (via[e].host # NoHost /\ \A i \in e..Len(via) : ~via[i].proxy.rewrite)
          => req["host"] = <<via[e].host>>
    BY <2>1, Zenon DEF HostBack, Get
  <2>4. QED
    BY <2>2, <2>3, Zenon DEF TargetIsRecoverable, Edge, SinceEdge, e
<1>2. QED
  BY <1>1, IdInit, IdStep, JourneyInit, JourneyStep, PTL DEF ForwardingSpec

\* Where the code trusts exactly the ranges of trusted_proxies, the Forwarded
\* list is the journey since the edge, one element for each proxy that writes
\* them, in order, and nothing that a stranger sent (append_forwarded,
\* apply_forwarded_headers).
LEMMA JourneyGivenTrust ==
  ForwardingSpec /\ []TrustIsByRange => []ForwardedIsTheJourney
<1>1. IdInv /\ JourneyInv => ForwardedIsTheJourney
  <2> SUFFICES ASSUME IdInv, JourneyInv, Strangers # {} PROVE ForwardedIsTheJourney
    BY Zenon DEF ForwardedIsTheJourney
  <2> DEFINE e == Max(Strangers)
  <2>1. ListBack(e)
    BY HasEdge, Zenon DEF JourneyInv
  <2>2. SinceEdge = e..Len(via)
    BY Zenon DEF SinceEdge
  <2> HIDE DEF e
  <2>3. QED
    BY <2>1, <2>2, Zenon DEF ForwardedIsTheJourney, ListBack, Tells, Told, Element
<1>2. QED
  BY <1>1, IdInit, IdStep, JourneyInit, JourneyStep, PTL DEF ForwardingSpec

-----------------------------------------------------------------------------
(* The origin *)

\* The rightmost entry that is not a trusted address is hop e's peer.
WalkFinds(entries, peer) ==
  /\ IsList(entries)
  /\ \E k \in DOMAIN entries :
       /\ IsAddress(entries[k]) /\ ~TrustContains(Nets, entries[k])
       /\ Normalise(entries[k]) = Normalise(peer)
       /\ \A j \in DOMAIN entries :
            j > k => IsAddress(entries[j]) /\ TrustContains(Nets, entries[j])

\* The header is one such list.
Names(xff, peer) == xff = Line(xff.entries) /\ WalkFinds(xff.entries, peer)

\* The headers name hop e's peer and scheme, and claim nothing else.
OriginBack(e) ==
  /\ Names(ForwardedFor(req), via[e].peer)
  /\ Has(req, "x-real-ip") /\ Get(req, "x-real-ip") = Normalise(via[e].peer)
  /\ Has(req, "x-forwarded-proto") /\ Get(req, "x-forwarded-proto") = <<via[e].proxy.proto>>
  /\ ~Has(req, "x-forwarded-host") /\ ~Has(req, "x-forwarded-port")

OriginInv ==
  /\ IsList(ForwardedFor(req).entries)
  /\ \A i \in DOMAIN via : via[i].proxy \in Proxies
  /\ via # <<>> => \A n \in DOMAIN req : n \in TrustGoverned \/ ~IsNoncanonicalSpelling(n)
  /\ \A e \in DOMAIN via : IsEdge(e) => OriginBack(e)

\* An address reads the same in both of its spellings, and is trusted in both
\* or in neither (normalise, TrustedProxies::contains).
LEMMA Normalised ==
  \A ip : /\ Normalise(Normalise(ip)) = Normalise(ip)
          /\ IsAddress(ip) => IsAddress(Normalise(ip))
          /\ \A nets : TrustContains(nets, Normalise(ip)) <=> TrustContains(nets, ip)
<1> SUFFICES ASSUME NEW ip
             PROVE  /\ Normalise(Normalise(ip)) = Normalise(ip)
                    /\ IsAddress(ip) => IsAddress(Normalise(ip))
                    /\ \A nets : TrustContains(nets, Normalise(ip)) <=> TrustContains(nets, ip)
  BY Zenon
<1>1. V4 # V6 /\ V4 # 0
  BY WidthsAssumption
<1>2. \A x : ~IsMapped(<<V4, x>>) /\ IsAddress(<<V4, x>>)
  BY <1>1, Zenon DEF IsMapped, IsAddress, Junk
<1>3. (\E x : Normalise(ip) = <<V4, x>>) \/ (Normalise(ip) = ip /\ ~IsMapped(ip))
  BY Zenon DEF Normalise
<1>4. Normalise(Normalise(ip)) = Normalise(ip) /\ (IsAddress(ip) => IsAddress(Normalise(ip)))
  BY <1>2, <1>3, Zenon DEF Normalise
<1>5. QED
  BY <1>4, Zenon DEF TrustContains

\* Whoever connects has an address.
LEMMA PeersHaveAddresses == \A ip \in IPs : IsAddress(ip)
<1>1. \A ip \in IPs : ip[1] \in {V4, V6}
  BY Zenon DEF IPs
<1>2. V4 # 0 /\ V6 # 0
  BY WidthsAssumption
<1>3. QED
  BY <1>1, <1>2 DEF IsAddress, Junk

\* The walk of a list that names the edge's peer finds that peer.
LEMMA WalkToThePeer ==
  ASSUME NEW h, NEW entries, NEW peer, NEW other,
         ForwardedFor(h) = Line(entries), WalkFinds(entries, peer)
  PROVE  Normalise(WalkForwardedFor(h, Nets, other)) = Normalise(peer)
<1>1. PICK k \in DOMAIN entries :
        /\ IsAddress(entries[k]) /\ ~TrustContains(Nets, entries[k])
        /\ Normalise(entries[k]) = Normalise(peer)
        /\ \A j \in DOMAIN entries :
             j > k => IsAddress(entries[j]) /\ TrustContains(Nets, entries[j])
  BY Zenon DEF WalkFinds
<1>2. Len(entries) \in Nat /\ DOMAIN entries = 1..Len(entries)
  BY DEF WalkFinds, IsList
<1>3. Line(entries).entries = entries /\ Line(entries).hidden = 0
  BY Zenon DEF Line
<1> DEFINE stops == Stops(ForwardedFor(h), Nets)
<1>4. stops = {i \in DOMAIN entries :
                 i > 0 /\ ~(IsAddress(entries[i]) /\ TrustContains(Nets, entries[i]))}
  BY <1>3, Zenon DEF Stops
<1>5. WalkForwardedFor(h, Nets, other) =
        IF stops # {} /\ IsAddress(entries[Max(stops)]) THEN entries[Max(stops)] ELSE other
  BY <1>3, Zenon DEF WalkForwardedFor
<1> HIDE DEF stops
<1>6. k > 0 /\ k \in Int /\ \A j \in DOMAIN entries : j \in Int
  BY <1>2
<1>7. k \in stops /\ \A j \in stops : j \in Int /\ ~(j > k)
  BY <1>1, <1>4, <1>6, Zenon
<1>8. Max(stops) = k
  <2>1. \A j \in stops : k >= j
    BY <1>6, <1>7
  <2>2. Max(stops) \in stops /\ \A j \in stops : Max(stops) >= j
    BY <1>7, <2>1, Zenon DEF Max
  <2>3. Max(stops) \in Int /\ Max(stops) >= k /\ k >= Max(stops)
    BY <1>7, <2>1, <2>2, Zenon
  <2>4. QED
    BY <1>6, <2>3
<1>9. QED
  BY <1>1, <1>5, <1>7, <1>8, Zenon

\* What the lists look like that a proxy writes (append_forwarded_for, or the
\* client alone).
LEMMA ListsNameThePeer ==
  ASSUME NEW entries, IsList(entries), NEW ip \in IPs
  PROVE  /\ ~TrustContains(Nets, ip) => WalkFinds(Append(entries, ip), ip)
         /\ \A peer : WalkFinds(entries, peer) /\ TrustContains(Nets, ip) =>
              WalkFinds(Append(entries, ip), peer)
         /\ \A peer : IsAddress(Normalise(peer)) /\ ~TrustContains(Nets, peer) =>
              WalkFinds(<<Normalise(peer)>>, peer)
<1> DEFINE more == Append(entries, ip)
           n == Len(entries) + 1
<1>1. IsAddress(ip)
  BY PeersHaveAddresses, Zenon
<1>3. /\ IsList(more) /\ DOMAIN more = 1..n /\ Len(entries) \in Nat
      /\ DOMAIN entries = 1..Len(entries)
      /\ \A k \in 1..Len(entries) : more[k] = entries[k]
      /\ more[n] = ip
  BY Appended
<1>4. /\ n \in DOMAIN more /\ n \in Nat
      /\ \A j \in DOMAIN more : j = n \/ (j \in DOMAIN entries /\ ~(j > n))
  BY <1>3
<1> HIDE DEF more, n
<1>6. ASSUME ~TrustContains(Nets, ip) PROVE WalkFinds(more, ip)
  <2>1. \A j \in DOMAIN more : ~(j > n)
    BY <1>4
  <2>2. QED
    BY <1>1, <1>3, <1>4, <1>6, <2>1, Zenon DEF WalkFinds
<1>7. ASSUME NEW peer, WalkFinds(entries, peer), TrustContains(Nets, ip)
      PROVE  WalkFinds(more, peer)
  <2>2. PICK k \in DOMAIN entries :
          /\ IsAddress(entries[k]) /\ ~TrustContains(Nets, entries[k])
          /\ Normalise(entries[k]) = Normalise(peer)
          /\ \A j \in DOMAIN entries :
               j > k => IsAddress(entries[j]) /\ TrustContains(Nets, entries[j])
    BY <1>7, Zenon DEF WalkFinds
  <2>3. k \in DOMAIN more /\ more[k] = entries[k]
    BY <1>3 DEF n
  <2>4. \A j \in DOMAIN more : j > k => IsAddress(more[j]) /\ TrustContains(Nets, more[j])
    BY <1>1, <1>3, <1>4, <1>7, <2>2, Zenon
  <2>5. QED
    BY <1>3, <2>2, <2>3, <2>4, Zenon DEF WalkFinds
<1>8. ASSUME NEW peer, IsAddress(Normalise(peer)), ~TrustContains(Nets, peer)
      PROVE  WalkFinds(<<Normalise(peer)>>, peer)
  <2>1. PICK ip0 : ip0 = Normalise(peer)
    BY Zenon
  <2>2. IsAddress(ip0) /\ ~TrustContains(Nets, ip0) /\ Normalise(ip0) = Normalise(peer)
    BY <1>8, <2>1, Normalised, Zenon
  <2>3. DOMAIN <<ip0>> = {1} /\ <<ip0>>[1] = ip0 /\ IsList(<<ip0>>) /\ ~(1 > 1)
    BY DEF IsList, Range
  <2>4. QED
    BY <2>1, <2>2, <2>3, Zenon DEF WalkFinds
<1>9. QED
  BY <1>6, <1>7, <1>8, Zenon DEF more

\* The list is what the header holds.
LEMMA ListOf ==
  /\ \A g, h : /\ Has(g, "x-forwarded-for") <=> Has(h, "x-forwarded-for")
               /\ Get(g, "x-forwarded-for") = Get(h, "x-forwarded-for")
              => ForwardedFor(g) = ForwardedFor(h)
  /\ \A h : ~Has(h, "x-forwarded-for") => ForwardedFor(h) = Line(<<>>)
  /\ \A h, xff : ForwardedFor(Insert(h, "x-forwarded-for", xff)) = xff
<1>1. \A h, xff : /\ Has(Insert(h, "x-forwarded-for", xff), "x-forwarded-for")
                 /\ Get(Insert(h, "x-forwarded-for", xff), "x-forwarded-for") = xff
  BY InsertedThere
<1>2. QED
  BY <1>1, Zenon DEF ForwardedFor, Get

\* A header of one line holds that line's entries.
LEMMA LineOf == \A entries : Line(entries).entries = entries /\ Line(entries).hidden = 0
  BY Zenon DEF Line

\* The port header is there when the port is valid.
LEMMA PortSet ==
  \A h, port, n : Has(SetPort(h, port), n) =>
    \/ n = "x-forwarded-port" /\ port # <<>>
    \/ n # "x-forwarded-port" /\ Has(h, n)
  BY Inserted, Removed, Zenon DEF SetPort

\* Joining the cookies and pinning the host leave the other headers alone.
LEMMA PinnedElsewhere ==
  \A h, ver, host, n : n # "host" /\ n # "cookie" =>
    /\ Get(PinHost(JoinCookies(h, ver), host), n) = Get(h, n)
    /\ Has(PinHost(JoinCookies(h, ver), host), n) <=> Has(h, n)
<1>1. \A h, ver, n : n # "cookie" =>
        Get(JoinCookies(h, ver), n) = Get(h, n) /\ (Has(JoinCookies(h, ver), n) <=> Has(h, n))
  BY InsertedElsewhere, Zenon DEF JoinCookies
<1>2. \A h, host, n : n # "host" =>
        Get(PinHost(h, host), n) = Get(h, n) /\ (Has(PinHost(h, host), n) <=> Has(h, n))
  BY InsertedElsewhere, Zenon DEF PinHost
<1>3. QED
  BY <1>1, <1>2

\* What the forwarding headers say of the origin (apply_forwarded_headers).
LEMMA AppliedOrigin ==
  ASSUME NEW h, NEW peer, NEW proto, NEW host, NEW nets, NEW p, NEW out,
         out = ApplyForwardedHeaders(h, peer, proto, host, nets, p)
  PROVE  /\ \E client :
              /\ \/ ~TrustContains(nets, peer) /\ client = peer
                 \/ /\ TrustContains(nets, peer)
                    /\ \E g : /\ ForwardedFor(g) = ForwardedFor(h)
                              /\ client = WalkForwardedFor(g, nets, peer)
              /\ Has(out, "x-real-ip") /\ Get(out, "x-real-ip") = Normalise(client)
              /\ ForwardedFor(out) =
                   IF p.xff = "replace" THEN Line(<<Normalise(client)>>)
                   ELSE Line(Append(ForwardedFor(h).entries, peer))
         /\ Has(out, "x-forwarded-proto")
         /\ Get(out, "x-forwarded-proto") =
              LET scheme == Rightmost(h, "x-forwarded-proto", Schemes)
              IN IF TrustContains(nets, peer) /\ scheme # <<>> THEN scheme ELSE <<proto>>
         /\ \A n \in {"x-forwarded-host", "x-forwarded-port"} :
              Has(out, n) => TrustContains(nets, peer) /\ Has(h, n)
         /\ \A n : Has(out, n) => n \in TrustGoverned \/ ~IsNoncanonicalSpelling(n)
<1> DEFINE h0 == StripNoncanonicalSpellings(h)
           trusted == TrustContains(nets, peer)
<1>1. PICK h1, client, h2, h3 :
        /\ h1 = IF trusted THEN FromTrusted(h0, proto) ELSE FromStranger(h0, proto)
        /\ client = IF trusted THEN WalkForwardedFor(h0, nets, peer) ELSE peer
        /\ h2 = SetRealIp(h1, client)
        /\ h3 = IF p.xff = "replace" THEN Insert(h2, "x-forwarded-for", Line(<<Normalise(client)>>))
                ELSE AppendForwardedFor(h2, peer)
        /\ out = IF p.forwarded THEN AppendForwarded(h3, peer, proto, host) ELSE h3
  BY Zenon DEF ApplyForwardedHeaders
<1>2. \A n \in TrustGoverned : Get(h0, n) = Get(h, n) /\ (Has(h0, n) <=> Has(h, n))
  BY Unspelled, Zenon
<1>3. \A n : Has(h0, n) => n \in TrustGoverned \/ ~IsNoncanonicalSpelling(n)
  BY Removed, Zenon DEF StripNoncanonicalSpellings, Has
<1> HIDE DEF h0, trusted
<1>4. \A n \in {"x-forwarded-for", "x-forwarded-proto", "x-forwarded-host", "x-forwarded-port",
                "x-real-ip", "forwarded"} : n \in TrustGoverned
  BY Zenon DEF TrustGoverned, UntrustedStripped
<1>5. PICK scheme, port :
        /\ FromTrusted(h0, proto) =
             SetPort(Insert(h0, "x-forwarded-proto", IF scheme = <<>> THEN <<proto>> ELSE scheme), port)
        /\ scheme = Rightmost(h0, "x-forwarded-proto", Schemes)
        /\ port = Rightmost(h0, "x-forwarded-port", Ports)
  BY Zenon DEF FromTrusted
<1>6. scheme = Rightmost(h, "x-forwarded-proto", Schemes)
  <2>1. Get(h0, "x-forwarded-proto") = Get(h, "x-forwarded-proto")
    BY <1>2, <1>4, Zenon
  <2>2. QED
    BY <1>5, <2>1, Zenon DEF Rightmost
<1>7. port # <<>> => Has(h, "x-forwarded-port")
  <2>1. port # <<>> => Get(h0, "x-forwarded-port") # <<>>
    BY <1>5, Zenon DEF Rightmost
  <2>2. QED
    BY <1>2, <1>4, <2>1, Zenon DEF Get
<1>8. \A n : Has(FromTrusted(h0, proto), n) =>
         \/ n = "x-forwarded-proto"
         \/ n = "x-forwarded-port" /\ port # <<>>
         \/ n # "x-forwarded-port" /\ Has(h0, n)
  <2>1. PICK g : /\ FromTrusted(h0, proto) = SetPort(g, port)
                 /\ \E v : g = Insert(h0, "x-forwarded-proto", v)
    BY <1>5, Zenon
  <2>2. \A n : Has(g, n) => n = "x-forwarded-proto" \/ Has(h0, n)
    BY <2>1, InsertedElsewhere, Zenon
  <2>3. \A n : Has(SetPort(g, port), n) =>
           \/ n = "x-forwarded-port" /\ port # <<>>
           \/ n # "x-forwarded-port" /\ Has(g, n)
    BY PortSet, Zenon
  <2>4. QED
    BY <2>1, <2>2, <2>3, Zenon
<1>9. \A n : Has(FromStranger(h0, proto), n) =>
         \/ n = "x-forwarded-proto"
         \/ n \notin UntrustedStripped /\ Has(h0, n)
  <2>1. \A g, n : Has(Without(g, UntrustedStripped), n) => n \notin UntrustedStripped /\ Has(g, n)
    BY Removed, Zenon
  <2>2. \A v, n : Has(Insert(h0, "x-forwarded-proto", v), n) =>
           n = "x-forwarded-proto" \/ Has(h0, n)
    BY Inserted, Zenon
  <2>3. QED
    BY <2>1, <2>2, Zenon DEF FromStranger
<1>10. /\ Has(h1, "x-forwarded-proto")
       /\ Get(h1, "x-forwarded-proto") = IF trusted /\ scheme # <<>> THEN scheme ELSE <<proto>>
  BY <1>1, <1>5, Inserted, Removed, SMTT(20) DEF SetPort, FromStranger, UntrustedStripped
<1>11. /\ Get(h1, "x-forwarded-for") = Get(h, "x-forwarded-for")
       /\ Has(h1, "x-forwarded-for") <=> Has(h, "x-forwarded-for")
  BY <1>1, <1>2, <1>4, <1>5, Inserted, Removed, SMTT(20) DEF SetPort, FromStranger, UntrustedStripped
<1>12. \A n : n \notin {"x-real-ip", "x-forwarded-for", "forwarded"} =>
         Get(out, n) = Get(h1, n) /\ (Has(out, n) <=> Has(h1, n))
  BY <1>1, Inserted DEF SetRealIp, AppendForwardedFor, AppendForwarded
<1>13. /\ Has(out, "x-real-ip") /\ Get(out, "x-real-ip") = Normalise(client)
       /\ ForwardedFor(out) =
            IF p.xff = "replace" THEN Line(<<Normalise(client)>>)
            ELSE Line(Append(ForwardedFor(h2).entries, peer))
  <2>1. /\ Has(h3, "x-real-ip") /\ Get(h3, "x-real-ip") = Normalise(client)
        /\ Has(out, "x-real-ip") <=> Has(h3, "x-real-ip")
        /\ Get(out, "x-real-ip") = Get(h3, "x-real-ip")
        /\ Has(out, "x-forwarded-for") <=> Has(h3, "x-forwarded-for")
        /\ Get(out, "x-forwarded-for") = Get(h3, "x-forwarded-for")
    BY <1>1, Inserted DEF SetRealIp, AppendForwardedFor, AppendForwarded
  <2>2. ForwardedFor(h3) = IF p.xff = "replace" THEN Line(<<Normalise(client)>>)
                           ELSE Line(Append(ForwardedFor(h2).entries, peer))
    <3>1. CASE p.xff = "replace"
      <4>1. h3 = Insert(h2, "x-forwarded-for", Line(<<Normalise(client)>>))
        BY <1>1, <3>1, Zenon
      <4>2. QED
        BY <3>1, <4>1, ListOf, Zenon
    <3>2. CASE p.xff # "replace"
      <4>1. h3 = Insert(h2, "x-forwarded-for", Line(Append(ForwardedFor(h2).entries, peer)))
        BY <1>1, <3>2, Zenon DEF AppendForwardedFor
      <4>2. QED
        BY <3>2, <4>1, ListOf, Zenon
    <3>3. QED
      BY <3>1, <3>2, Zenon
  <2>3. QED
    BY <2>1, <2>2, ListOf, ZenonT(40)
<1>14. ForwardedFor(h2) = ForwardedFor(h)
  <2>1. /\ Get(h2, "x-forwarded-for") = Get(h1, "x-forwarded-for")
        /\ Has(h2, "x-forwarded-for") <=> Has(h1, "x-forwarded-for")
    BY <1>1, Inserted DEF SetRealIp
  <2>2. QED
    BY <1>11, <2>1, ListOf, Zenon
<1>15. \A n \in {"x-forwarded-host", "x-forwarded-port"} : Has(out, n) => trusted /\ Has(h, n)
  BY <1>1, <1>2, <1>4, <1>7, <1>8, <1>9, <1>12, Zenon DEF UntrustedStripped
<1>16. \A n : Has(out, n) => n \in TrustGoverned \/ ~IsNoncanonicalSpelling(n)
  BY <1>1, <1>3, <1>4, <1>8, <1>9, <1>12, Zenon
<1>17. ForwardedFor(h0) = ForwardedFor(h)
  BY <1>2, <1>4, ListOf, Zenon
<1>18. QED
  BY <1>1, <1>6, <1>10, <1>12, <1>13, <1>14, <1>15, <1>16, <1>17, ZenonT(40) DEF trusted

\* What the request that leaves a proxy says of the origin.
LEMMA SentOrigin ==
  ASSUME NEW p, Forward(p), NEW base, base = StripHopByHop(Received(p))
  PROVE  /\ \E client :
              /\ \/ ~TrustContains(Nets, sender) /\ client = sender
                 \/ /\ TrustContains(Nets, sender)
                    /\ \E g : /\ ForwardedFor(g) = ForwardedFor(base)
                              /\ client = WalkForwardedFor(g, Nets, sender)
              /\ Has(req', "x-real-ip") /\ Get(req', "x-real-ip") = Normalise(client)
              /\ ForwardedFor(req') =
                   IF p.xff = "replace" THEN Line(<<Normalise(client)>>)
                   ELSE Line(Append(ForwardedFor(base).entries, sender))
         /\ Has(req', "x-forwarded-proto")
         /\ Get(req', "x-forwarded-proto") =
              LET scheme == Rightmost(base, "x-forwarded-proto", Schemes)
              IN IF TrustContains(Nets, sender) /\ scheme # <<>> THEN scheme ELSE <<p.proto>>
         /\ \A n \in {"x-forwarded-host", "x-forwarded-port"} :
              Has(req', n) => TrustContains(Nets, sender) /\ Has(base, n)
         /\ \A n \in DOMAIN req' : n \in TrustGoverned \/ ~IsNoncanonicalSpelling(n)
<1>1. PICK host, clean, pinned, told, sent :
        /\ clean = JoinCookies(base, version)
        /\ pinned = PinHost(clean, IF p.rewrite THEN p.upstream ELSE authority)
        /\ told = ApplyForwardedHeaders(pinned, sender, p.proto, host, Nets, p)
        /\ sent = IF Strips(p) THEN SetForwardedPrefix(told, p.prefix) ELSE told
        /\ req' = IF Has(sent, "host") THEN sent ELSE Insert(sent, "host", <<p.upstream>>)
  BY Zenon DEF Forward
<1>2. \A n : n \notin {"host", "cookie"} =>
         Get(pinned, n) = Get(base, n) /\ (Has(pinned, n) <=> Has(base, n))
  <2>1. PICK target : pinned = PinHost(JoinCookies(base, version), target)
    BY <1>1, ZenonT(40)
  <2>2. QED
    BY <2>1, PinnedElsewhere
<1>3. \A n : n \notin {"host", "x-forwarded-prefix"} =>
         Get(req', n) = Get(told, n) /\ (Has(req', n) <=> Has(told, n))
  BY <1>1, Inserted DEF SetForwardedPrefix
<1>4. \A n \in {"host", "x-forwarded-prefix"} : n \in TrustGoverned \/ ~IsNoncanonicalSpelling(n)
  BY Canonical, Zenon DEF IsNoncanonicalSpelling, TrustGoverned, UntrustedStripped
<1>5. Rightmost(pinned, "x-forwarded-proto", Schemes) =
        Rightmost(base, "x-forwarded-proto", Schemes)
  BY <1>2, Zenon DEF Rightmost
<1>6. \A peer, proto : told = ApplyForwardedHeaders(pinned, peer, proto, host, Nets, p) =>
        /\ \E client :
             /\ \/ ~TrustContains(Nets, peer) /\ client = peer
                \/ /\ TrustContains(Nets, peer)
                   /\ \E g : /\ ForwardedFor(g) = ForwardedFor(pinned)
                             /\ client = WalkForwardedFor(g, Nets, peer)
             /\ Has(told, "x-real-ip") /\ Get(told, "x-real-ip") = Normalise(client)
             /\ ForwardedFor(told) =
                  IF p.xff = "replace" THEN Line(<<Normalise(client)>>)
                  ELSE Line(Append(ForwardedFor(pinned).entries, peer))
        /\ Has(told, "x-forwarded-proto")
        /\ Get(told, "x-forwarded-proto") =
             LET scheme == Rightmost(pinned, "x-forwarded-proto", Schemes)
             IN IF TrustContains(Nets, peer) /\ scheme # <<>> THEN scheme ELSE <<proto>>
        /\ \A n \in {"x-forwarded-host", "x-forwarded-port"} :
             Has(told, n) => TrustContains(Nets, peer) /\ Has(pinned, n)
        /\ \A n : Has(told, n) => n \in TrustGoverned \/ ~IsNoncanonicalSpelling(n)
  BY AppliedOrigin, Zenon
<1>7. PICK client :
        /\ \/ ~TrustContains(Nets, sender) /\ client = sender
           \/ /\ TrustContains(Nets, sender)
              /\ \E g : /\ ForwardedFor(g) = ForwardedFor(pinned)
                        /\ client = WalkForwardedFor(g, Nets, sender)
        /\ Has(told, "x-real-ip") /\ Get(told, "x-real-ip") = Normalise(client)
        /\ ForwardedFor(told) =
             IF p.xff = "replace" THEN Line(<<Normalise(client)>>)
             ELSE Line(Append(ForwardedFor(pinned).entries, sender))
  BY <1>1, <1>6, Zenon
<1>8. /\ Has(told, "x-forwarded-proto")
      /\ Get(told, "x-forwarded-proto") =
           LET scheme == Rightmost(pinned, "x-forwarded-proto", Schemes)
           IN IF TrustContains(Nets, sender) /\ scheme # <<>> THEN scheme ELSE <<p.proto>>
      /\ \A n \in {"x-forwarded-host", "x-forwarded-port"} :
           Has(told, n) => TrustContains(Nets, sender) /\ Has(pinned, n)
      /\ \A n : Has(told, n) => n \in TrustGoverned \/ ~IsNoncanonicalSpelling(n)
  BY <1>1, <1>6, Zenon
<1>9. /\ \A n \in {"x-forwarded-host", "x-forwarded-port"} : Has(pinned, n) <=> Has(base, n)
      /\ \A n \in {"x-real-ip", "x-forwarded-proto", "x-forwarded-host", "x-forwarded-port"} :
           Get(req', n) = Get(told, n) /\ (Has(req', n) <=> Has(told, n))
  BY <1>2, <1>3, Zenon
<1>12. ForwardedFor(pinned) = ForwardedFor(base)
  BY <1>2, ListOf, Zenon
<1>13. ForwardedFor(req') = ForwardedFor(told)
  BY <1>3, ListOf, Zenon
<1>10. \A n \in DOMAIN req' : n \in TrustGoverned \/ ~IsNoncanonicalSpelling(n)
  BY <1>3, <1>4, <1>8, Zenon DEF Has
<1>11. QED
  BY <1>5, <1>7, <1>8, <1>9, <1>10, <1>12, <1>13, ZenonT(40)

\* What a proxy goes by: a list of entries and, from a trusted proxy, the
\* headers that this one sent.
LEMMA ReadOrigin ==
  ASSUME NEW p, IdInv, JourneyInv, OriginInv, NEW base, base = StripHopByHop(Received(p))
  PROVE  /\ IsList(ForwardedFor(base).entries)
         /\ \A n : n # "x-request-id" /\ Has(base, n) => Has(req, n)
         /\ via # <<>> => /\ ForwardedFor(base) = ForwardedFor(req)
                           /\ Get(base, "x-forwarded-proto") = Get(req, "x-forwarded-proto")
<1>1. \A n : n # "x-request-id" =>
         Get(Received(p), n) = Get(req, n) /\ (Has(Received(p), n) <=> Has(req, n))
  BY IdReceived, Zenon DEF IdInv
<1>2. \A n : /\ Has(base, n) => Has(Received(p), n)
             /\ Has(base, n) => Get(base, n) = Get(Received(p), n)
  BY Removed DEF StripHopByHop
<1>3. IsList(Line(<<>>).entries)
  BY DEF IsList, Line
<1>4. IsList(ForwardedFor(base).entries)
  <2>1. ForwardedFor(base) = Line(<<>>) \/ ForwardedFor(base) = ForwardedFor(req)
    BY <1>1, <1>2, ListOf, Zenon
  <2>2. QED
    BY <1>3, <2>1, Zenon DEF OriginInv
<1>5. via # <<>> => \A n \in {"x-forwarded-for", "x-forwarded-proto"} :
         Get(base, n) = Get(req, n) /\ (Has(base, n) <=> Has(req, n))
  <2>1. via # <<>> => ~Has(Received(p), "connection")
    BY <1>1, Zenon DEF JourneyInv
  <2>2. \A n \in {"x-forwarded-for", "x-forwarded-proto"} : n \notin HopByHop /\ n # "x-request-id"
    BY Zenon DEF HopByHop
  <2>3. QED
    BY <1>1, <2>1, <2>2, Stripped, Zenon
<1>6. QED
  BY <1>1, <1>2, <1>4, <1>5, ListOf, Zenon

\* A hop leaves headers that tell the edge's peer and scheme.
LEMMA OriginForward ==
  ASSUME NEW p \in Proxies, IdInv, JourneyInv, OriginInv, TrustIsByRange, Forward(p)
  PROVE  OriginInv'
<1>1. PICK base : base = StripHopByHop(Received(p))
  BY Zenon
<1>2. PICK client :
        /\ \/ ~TrustContains(Nets, sender) /\ client = sender
           \/ /\ TrustContains(Nets, sender)
              /\ \E g : /\ ForwardedFor(g) = ForwardedFor(base)
                        /\ client = WalkForwardedFor(g, Nets, sender)
        /\ Has(req', "x-real-ip") /\ Get(req', "x-real-ip") = Normalise(client)
        /\ ForwardedFor(req') =
             IF p.xff = "replace" THEN Line(<<Normalise(client)>>)
             ELSE Line(Append(ForwardedFor(base).entries, sender))
  BY <1>1, SentOrigin
<1>3. /\ Has(req', "x-forwarded-proto")
      /\ Get(req', "x-forwarded-proto") =
           LET scheme == Rightmost(base, "x-forwarded-proto", Schemes)
           IN IF TrustContains(Nets, sender) /\ scheme # <<>> THEN scheme ELSE <<p.proto>>
      /\ \A n \in {"x-forwarded-host", "x-forwarded-port"} :
           Has(req', n) => TrustContains(Nets, sender) /\ Has(base, n)
      /\ \A n \in DOMAIN req' : n \in TrustGoverned \/ ~IsNoncanonicalSpelling(n)
  BY <1>1, SentOrigin, Zenon
<1>4. /\ IsList(ForwardedFor(base).entries)
      /\ \A n : n # "x-request-id" /\ Has(base, n) => Has(req, n)
      /\ via # <<>> => /\ ForwardedFor(base) = ForwardedFor(req)
                        /\ Get(base, "x-forwarded-proto") = Get(req, "x-forwarded-proto")
  BY <1>1, ReadOrigin, Zenon
<1>5. PICK n : n = Len(via) + 1
  BY Zenon
<1>6. /\ Len(via) \in Nat /\ DOMAIN via = 1..Len(via) /\ DOMAIN via' = 1..n
      /\ \A k \in 1..Len(via) : via'[k] = via[k]
      /\ via'[n].proxy = p /\ via'[n].peer = sender
  BY <1>5, HopAdded, Zenon DEF IdInv, JourneyInv
<1>7. \A i \in DOMAIN via' : via'[i].proxy \in Proxies
  <2>1. \A i \in DOMAIN via' : i \in 1..Len(via) \/ i = n
    BY <1>5, <1>6, OneMore, Zenon
  <2>2. QED
    BY <1>6, <2>1, Zenon DEF OriginInv
<1>8. Nets' = Nets
  BY Zenon DEF Forward, Nets
<1>9. sender \in IPs /\ IsAddress(sender)
  BY PeersHaveAddresses, Zenon DEF JourneyInv
<1>14. PICK entries : entries = ForwardedFor(base).entries
  BY Zenon
<1>15. PICK list : /\ ForwardedFor(req') = Line(list)
                   /\ list = IF p.xff = "replace" THEN <<Normalise(client)>>
                             ELSE Append(entries, sender)
  BY <1>2, <1>14, Zenon
<1>10. IsList(ForwardedFor(req').entries)
  <2>1. IsList(<<Normalise(client)>>)
    BY DEF IsList, Range
  <2>2. IsList(Append(entries, sender))
    BY <1>4, <1>14, Appended, Zenon
  <2>3. Line(list).entries = list
    BY LineOf, Zenon
  <2>4. QED
    BY <1>15, <2>1, <2>2, <2>3, Zenon
<1>16. ASSUME NEW peer, WalkFinds(list, peer)
       PROVE  Names(ForwardedFor(req), peer)'
  <2>1. WalkFinds(list, peer)'
    BY <1>8, <1>16, Zenon DEF WalkFinds
  <2>2. Line(list).entries = list
    BY LineOf, Zenon
  <2>3. QED
    BY <1>15, <2>1, <2>2, Zenon DEF Names
<1>11. ASSUME NEW e \in DOMAIN via', IsEdge(e)' PROVE OriginBack(e)'
  <2>1. \/ ~TrustContains(Nets, sender) /\ e = n
        \/ TrustContains(Nets, sender) /\ e \in DOMAIN via /\ IsEdge(e) /\ via # <<>>
    BY <1>5, <1>11, EdgeAfter, Zenon DEF IdInv, JourneyInv
  <2>2. CASE ~TrustContains(Nets, sender) /\ e = n
    <3>1. WalkFinds(list, sender)
      <4>1. WalkFinds(Append(entries, sender), sender)
        BY <1>4, <1>9, <1>14, <2>2, ListsNameThePeer, Zenon
      <4>2. WalkFinds(<<Normalise(sender)>>, sender)
        BY <1>4, <1>9, <2>2, ListsNameThePeer, Normalised, Zenon
      <4>3. QED
        BY <1>2, <1>15, <2>2, <4>1, <4>2, Zenon
    <3>3. PICK peer : peer = sender
      BY Zenon
    <3>4. Names(ForwardedFor(req), peer)'
      BY <1>16, <3>1, <3>3, Zenon
    <3>5. via'[e].peer = peer /\ via'[e].proxy = p /\ Normalise(client) = Normalise(peer)
      BY <1>2, <1>6, <2>2, <3>3, Zenon
    <3>6. /\ Get(req', "x-forwarded-proto") = <<p.proto>>
          /\ ~Has(req', "x-forwarded-host") /\ ~Has(req', "x-forwarded-port")
      BY <1>3, <2>2, Zenon
    <3>2. QED
      BY <1>2, <1>3, <3>4, <3>5, <3>6, Zenon DEF OriginBack
  <2>3. CASE TrustContains(Nets, sender) /\ e \in DOMAIN via /\ IsEdge(e) /\ via # <<>>
    <3>1. OriginBack(e) /\ via'[e] = via[e] /\ via[e].proxy \in Proxies
      BY <1>6, <2>3, Zenon DEF OriginInv
    <3>2. PICK peer, proto : peer = via[e].peer /\ proto = via[e].proxy.proto
      BY Zenon
    <3>3. ForwardedFor(base) = Line(entries) /\ WalkFinds(entries, peer)
      BY <1>4, <1>14, <2>3, <3>1, <3>2, Zenon DEF OriginBack, Names
    <3>4. Normalise(client) = Normalise(peer)
      <4>1. PICK g : /\ ForwardedFor(g) = ForwardedFor(base)
                     /\ client = WalkForwardedFor(g, Nets, sender)
        BY <1>2, <2>3, Zenon
      <4>2. ForwardedFor(g) = Line(entries)
        BY <3>3, <4>1, Zenon
      <4>3. \A other : Normalise(WalkForwardedFor(g, Nets, other)) = Normalise(peer)
        BY <3>3, <4>2, WalkToThePeer, ZenonT(40)
      <4>4. QED
        BY <4>1, <4>3, Zenon
    <3>5. WalkFinds(list, peer)
      <4>1. WalkFinds(Append(entries, sender), peer)
        BY <1>4, <1>9, <1>14, <2>3, <3>3, ListsNameThePeer, Zenon
      <4>2. PICK entry : /\ IsAddress(entry) /\ ~TrustContains(Nets, entry)
                         /\ Normalise(entry) = Normalise(peer)
        BY <3>3, Zenon DEF WalkFinds
      <4>3. IsAddress(Normalise(peer)) /\ ~TrustContains(Nets, peer)
        BY <4>2, Normalised, Zenon
      <4>4. WalkFinds(<<Normalise(peer)>>, peer)
        BY <1>4, <1>9, <4>3, ListsNameThePeer, Zenon
      <4>5. QED
        BY <1>15, <3>4, <4>1, <4>4, Zenon
    <3>9. Names(ForwardedFor(req), peer)'
      BY <1>16, <3>5, Zenon
    <3>6. Get(req', "x-forwarded-proto") = <<proto>>
      <4>1. Get(base, "x-forwarded-proto") = <<proto>>
        BY <1>4, <2>3, <3>1, <3>2, Zenon DEF OriginBack
      <4>2. proto \in Schemes
        BY <3>1, <3>2, JourneyAssumption, Zenon
      <4>3. Len(<<proto>>) = 1 /\ <<proto>>[1] = proto /\ <<proto>> # <<>>
        BY Zenon
      <4>4. Rightmost(base, "x-forwarded-proto", Schemes) = <<proto>>
        BY <4>1, <4>2, <4>3, Zenon DEF Rightmost
      <4>5. QED
        BY <1>3, <2>3, <4>3, <4>4, Zenon
    <3>7. ~Has(req', "x-forwarded-host") /\ ~Has(req', "x-forwarded-port")
      BY <1>3, <1>4, <3>1, Zenon DEF OriginBack
    <3>8. QED
      BY <1>2, <1>3, <3>1, <3>2, <3>4, <3>6, <3>7, <3>9, ZenonT(40) DEF OriginBack
  <2>4. QED
    BY <2>1, <2>2, <2>3, Zenon
<1>12. QED
  BY <1>3, <1>7, <1>10, <1>11, Zenon DEF OriginInv

\* The invariant at the start.
LEMMA OriginInit == ForwardingInit => OriginInv
<1> SUFFICES ASSUME ForwardingInit PROVE OriginInv
  BY Zenon
<1>1. PICK r \in Requests : req = r.headers
  BY Zenon DEF ForwardingInit
<1>2. via = <<>>
  BY Zenon DEF ForwardingInit
<1>3. IsList(ForwardedFor(req).entries)
  BY <1>1, JourneyAssumption, Zenon DEF IsList
<1>4. QED
  BY <1>2, <1>3 DEF OriginInv

\* The invariant over every step, given that trust is by range.
LEMMA OriginStep ==
  IdInv /\ JourneyInv /\ OriginInv /\ TrustIsByRange /\ [ForwardingNext]_fvars => OriginInv'
<1> SUFFICES ASSUME IdInv, JourneyInv, OriginInv, TrustIsByRange, [ForwardingNext]_fvars
             PROVE  OriginInv'
  BY Zenon
<1>1. CASE UNCHANGED <<trust, req, via>>
  BY <1>1, Zenon DEF OriginInv, IsEdge, Strangers, OriginBack, Names, WalkFinds, Nets
<1>2. CASE ~(\E p \in Proxies : Forward(p))
  BY <1>1, <1>2, Zenon DEF ForwardingNext, Refuse, Answer, Return, fvars
<1>3. QED
  BY <1>2, OriginForward, Zenon

\* Where the code trusts exactly the ranges of trusted_proxies, the upstream
\* reads the address and the scheme that reached the edge, under any mix of the
\* append and replace modes, and nothing that a stranger claimed survives
\* (apply_forwarded_headers, strip_noncanonical_spellings).
LEMMA OriginGivenTrust ==
  ForwardingSpec /\ []TrustIsByRange => []OriginIsTheEdges
<1>1. IdInv /\ JourneyInv /\ OriginInv => OriginIsTheEdges
  <2> SUFFICES ASSUME IdInv, JourneyInv, OriginInv, Strangers # {} PROVE OriginIsTheEdges
    BY Zenon DEF OriginIsTheEdges
  <2> DEFINE e == Max(Strangers)
  <2>1. e \in DOMAIN via /\ IsEdge(e)
    BY HasEdge, Zenon
  <2> HIDE DEF e
  <2>2. OriginBack(e)
    BY <2>1, Zenon DEF OriginInv
  <2>3. via # <<>>
    BY <2>1
  <2>4. \A name \in DOMAIN req : name \in TrustGoverned \/ ~IsNoncanonicalSpelling(name)
    BY <2>3, Zenon DEF OriginInv
  <2>5. /\ req["x-real-ip"] = Normalise(via[e].peer)
        /\ req["x-forwarded-proto"] = <<via[e].proxy.proto>>
        /\ DOMAIN req \cap {"x-forwarded-host", "x-forwarded-port"} = {}
    BY <2>2, Zenon DEF OriginBack, Get, Has
  <2>6. QED
    BY <2>4, <2>5, Zenon DEF OriginIsTheEdges, Edge, e
<1>2. QED
  BY <1>1, IdInit, IdStep, JourneyInit, JourneyStep, OriginInit, OriginStep, PTL DEF ForwardingSpec

-----------------------------------------------------------------------------
(* Trusted proxies *)

\* A set of numbers that is not empty has a least element.
LEMMA LeastNatural ==
  ASSUME NEW T \in SUBSET Nat, T # {}
  PROVE  \E m \in T : \A n \in T : m <= n
<1>1. PICK m \in T : ~ (\E y \in T : <<y, m>> \in OpToRel(<, Nat))
  BY NatLessThanWellFounded, WFMin, Zenon
<1>2. \A n \in T : ~ n < m
  BY <1>1, Zenon DEF OpToRel
<1>3. \A n \in T : m <= n
  BY <1>2
<1> QED
  BY <1>3, Zenon

\* Induction over the numbers, stated of a set.
LEMMA SetInduction ==
  ASSUME NEW S, 0 \in S, \A n \in Nat : n \in S => n + 1 \in S
  PROVE  Nat \subseteq S
<1> SUFFICES ASSUME Nat \ S # {} PROVE FALSE
  BY Zenon
<1>1. PICK m \in Nat \ S : \A n \in Nat \ S : m <= n
  BY LeastNatural, Zenon
<1>2. m # 0
  BY <1>1, Zenon
<1>3. m - 1 \in Nat /\ m - 1 \in S
  BY <1>1, <1>2
<1> QED
  BY <1>1, <1>3

\* Up to each bound there is a function that satisfies the recursion.
UpTo(k) == {f \in [Nat -> Nat] : \A n \in 0..k : f[n] = IF n = 0 THEN 1 ELSE 2 * f[n - 1]}

\* The recursion that defines Pow2 has a solution.
LEMMA Pow2Exists ==
  \E f : f = [n \in Nat |-> IF n = 0 THEN 1 ELSE 2 * f[n - 1]]
<1> DEFINE S == {k \in Nat : UpTo(k) # {}}
<1>1. 0 \in S
  <2>1. [n \in Nat |-> 1] \in UpTo(0)
    BY DEF UpTo
  <2> QED BY <2>1, Zenon
<1>2. ASSUME NEW k \in Nat, k \in S PROVE k + 1 \in S
  <2>1. PICK f \in [Nat -> Nat] : \A n \in 0..k : f[n] = IF n = 0 THEN 1 ELSE 2 * f[n - 1]
    BY <1>2, Zenon DEF UpTo
  <2> DEFINE g == [f EXCEPT ![k + 1] = 2 * f[k]]
  <2>2. g \in [Nat -> Nat]
    BY <2>1
  <2>3. ASSUME NEW n \in 0..(k + 1) PROVE g[n] = IF n = 0 THEN 1 ELSE 2 * g[n - 1]
    <3>1. CASE n = k + 1
      BY <2>1, <3>1
    <3>2. CASE n # k + 1
      <4>1. n \in 0..k
        BY <3>2
      <4> QED BY <2>1, <4>1
    <3> QED BY <3>1, <3>2, Zenon
  <2> HIDE DEF g
  <2>4. g \in UpTo(k + 1)
    BY <2>2, <2>3, Zenon DEF UpTo
  <2> QED BY <2>4
<1>3. Nat \subseteq S
  <2> HIDE DEF S
  <2> QED BY <1>1, <1>2, SetInduction, Zenon
<1>4. ASSUME NEW k \in Nat PROVE UpTo(k) # {}
  BY <1>3, Zenon
<1>5. ASSUME NEW f, NEW g, NEW j \in Nat, NEW k \in Nat, f \in UpTo(j), g \in UpTo(k)
      PROVE  \A n \in Nat : n <= j /\ n <= k => f[n] = g[n]
  <2> DEFINE T == {n \in Nat : n <= j /\ n <= k => f[n] = g[n]}
  <2>1. 0 \in T
    BY <1>5 DEF UpTo
  <2>2. ASSUME NEW n \in Nat, n \in T PROVE n + 1 \in T
    BY <1>5, <2>2 DEF UpTo
  <2>3. Nat \subseteq T
    <3> HIDE DEF T
    <3> QED BY <2>1, <2>2, SetInduction, Zenon
  <2> QED BY <2>3, Zenon
<1> DEFINE at(k) == CHOOSE f : f \in UpTo(k)
           h == [n \in Nat |-> at(n)[n]]
<1>6. ASSUME NEW k \in Nat PROVE at(k) \in UpTo(k)
  BY <1>4, Zenon
<1> HIDE DEF at
<1>7. ASSUME NEW n \in Nat PROVE h[n] = IF n = 0 THEN 1 ELSE 2 * h[n - 1]
  <2>1. at(n)[n] = IF n = 0 THEN 1 ELSE 2 * at(n)[n - 1]
    BY <1>6 DEF UpTo
  <2>2. n # 0 => at(n)[n - 1] = at(n - 1)[n - 1]
    <3> SUFFICES ASSUME n # 0 PROVE at(n)[n - 1] = at(n - 1)[n - 1]
      BY Zenon
    <3>1. n - 1 \in Nat
      OBVIOUS
    <3> QED BY <1>5, <1>6, <3>1
  <2> QED BY <2>1, <2>2
<1>8. h = [n \in Nat |-> IF n = 0 THEN 1 ELSE 2 * h[n - 1]]
  <2> DEFINE e == [n \in Nat |-> IF n = 0 THEN 1 ELSE 2 * h[n - 1]]
  <2>1. \A n \in Nat : h[n] = e[n]
    BY <1>7, Zenon
  <2>2. DOMAIN h = Nat /\ DOMAIN e = Nat
    BY Zenon
  <2>3. h = [n \in Nat |-> h[n]] /\ e = [n \in Nat |-> e[n]]
    OBVIOUS
  <2> HIDE DEF h, e
  <2>4. h = e
    BY <2>1, <2>3, Zenon
  <2> QED BY <2>4, Zenon DEF e
<1> HIDE DEF h
<1> QED BY <1>8, Zenon

\* Pow2 follows its recursion.
LEMMA Pow2Def ==
  \A n \in Nat : Pow2[n] = IF n = 0 THEN 1 ELSE 2 * Pow2[n - 1]
BY Pow2Exists, Zenon DEF Pow2

\* A power of two is a positive number.
LEMMA Pow2Type == \A n \in Nat : Pow2[n] \in Nat \ {0}
<1> DEFINE S == {n \in Nat : Pow2[n] \in Nat \ {0}}
<1>1. 0 \in S
  BY Pow2Def
<1>2. ASSUME NEW n \in Nat, n \in S PROVE n + 1 \in S
  BY <1>2, Pow2Def
<1>3. Nat \subseteq S
  <2> HIDE DEF S
  <2> QED BY <1>1, <1>2, SetInduction, Zenon
<1> QED BY <1>3, Zenon

\* The next power of two is twice this one.
LEMMA Pow2Next == \A n \in Nat : Pow2[n + 1] = 2 * Pow2[n]
BY Pow2Def

\* The power of a sum is the product of the powers.
LEMMA Pow2Sum == \A m, n \in Nat : Pow2[m + n] = Pow2[m] * Pow2[n]
<1> TAKE m \in Nat
<1> DEFINE S == {n \in Nat : Pow2[m + n] = Pow2[m] * Pow2[n]}
<1>1. 0 \in S
  BY Pow2Def, Pow2Type
<1>2. ASSUME NEW n \in Nat, n \in S PROVE n + 1 \in S
  <2>1. Pow2[m + (n + 1)] = 2 * Pow2[m + n]
    <3>1. m + (n + 1) = (m + n) + 1 /\ m + n \in Nat
      OBVIOUS
    <3> QED BY <3>1, Pow2Next, Zenon
  <2>2. Pow2[n + 1] = 2 * Pow2[n]
    BY Pow2Next, Zenon
  <2>3. Pow2[m] \in Nat /\ Pow2[n] \in Nat
    BY Pow2Type, Zenon
  <2>4. \A a, b \in Nat : 2 * (a * b) = a * (2 * b)
    OBVIOUS
  <2>5. Pow2[m + (n + 1)] = Pow2[m] * Pow2[n + 1]
    BY <1>2, <2>1, <2>2, <2>3, <2>4
  <2> QED BY <2>5
<1>3. Nat \subseteq S
  <2> HIDE DEF S
  <2> QED BY <1>1, <1>2, SetInduction, Zenon
<1> QED BY <1>3, Zenon

\* Powers of two grow.
LEMMA Pow2Grows == \A m, n \in Nat : m <= n => Pow2[m] <= Pow2[n]
<1> TAKE m, n \in Nat
<1> HAVE m <= n
<1>1. n - m \in Nat /\ n = m + (n - m)
  OBVIOUS
<1>2. Pow2[n] = Pow2[m] * Pow2[n - m]
  BY <1>1, Pow2Sum
<1>3. Pow2[m] \in Nat /\ Pow2[n - m] \in Nat \ {0}
  BY <1>1, Pow2Type, Zenon
<1>4. \A a \in Nat, b \in Nat \ {0} : a <= a * b
  OBVIOUS
<1> QED BY <1>2, <1>3, <1>4, Zenon

\* Quotient and remainder are unique.
LEMMA Quotient ==
  ASSUME NEW d \in Nat \ {0}, NEW q \in Int, NEW r \in 0..(d - 1)
  PROVE  (d * q + r) \div d = q /\ (d * q + r) % d = r
OBVIOUS

\* A number is its quotient times the divisor, and the remainder.
LEMMA Division ==
  ASSUME NEW d \in Nat \ {0}, NEW n \in Nat
  PROVE  /\ n \div d \in Nat
         /\ n % d \in 0..(d - 1)
         /\ n = d * (n \div d) + (n % d)
<1>1. n \div d \in Int /\ n % d \in 0..(d - 1)
  OBVIOUS
<1>2. n = d * (n \div d) + (n % d)
  OBVIOUS
<1>3. n \div d \in Nat
  <2> SUFFICES ASSUME n \div d < 0 PROVE FALSE
    BY <1>1
  <2>1. \A q \in Int : q < 0 => d * q <= -d
    OBVIOUS
  <2>2. d * (n \div d) <= -d
    BY <1>1, <2>1, Zenon
  <2> QED BY <1>1, <1>2, <2>2
<1> QED BY <1>1, <1>2, <1>3, Zenon

\* One more bit: the quotient by a power of two from the next one.
LEMMA Halving ==
  ASSUME NEW n \in Nat, NEW i \in Nat
  PROVE  /\ Bit(n, i) \in 0..1
         /\ n \div Pow2[i] = 2 * (n \div Pow2[i + 1]) + Bit(n, i)
         /\ n \div Pow2[i + 1] = (n \div Pow2[i]) \div 2
<1> DEFINE d == Pow2[i]
           q == n \div d
<1>1. d \in Nat \ {0} /\ Pow2[i + 1] = 2 * d
  BY Pow2Type, Pow2Next, Zenon
<1> HIDE DEF d
<1>2. /\ q \in Nat
      /\ n % d \in 0..(d - 1)
      /\ n = d * q + (n % d)
  BY <1>1, Division, Zenon
<1>3. /\ q \div 2 \in Nat
      /\ q % 2 \in 0..1
      /\ q = 2 * (q \div 2) + (q % 2)
  BY <1>2
<1> HIDE DEF q
<1>4. n = (2 * d) * (q \div 2) + (d * (q % 2) + (n % d))
  <2>1. \A x, h, b, r \in Int : x * (2 * h + b) + r = (2 * x) * h + (x * b + r)
    OBVIOUS
  <2>2. n % d \in Int /\ q \div 2 \in Int /\ q % 2 \in Int /\ d \in Int
    BY <1>1, <1>2, <1>3
  <2>3. d * (2 * (q \div 2) + (q % 2)) + (n % d) = (2 * d) * (q \div 2) + (d * (q % 2) + (n % d))
    BY <2>1, <2>2
  <2> QED BY <1>2, <1>3, <2>3, Zenon
<1>5. d * (q % 2) + (n % d) \in 0..(2 * d - 1)
  <2>1. CASE q % 2 = 0
    BY <1>1, <1>2, <2>1
  <2>2. CASE q % 2 = 1
    BY <1>1, <1>2, <2>2
  <2> QED BY <1>3, <2>1, <2>2
<1>6. n \div (2 * d) = q \div 2
  <2>1. 2 * d \in Nat \ {0}
    BY <1>1
  <2> QED BY <1>3, <1>4, <1>5, <2>1, Quotient
<1>7. Bit(n, i) = q % 2
  BY Zenon DEF Bit, q, d
<1>8. n \div Pow2[i] = q
  BY Zenon DEF q, d
<1> QED BY <1>1, <1>3, <1>6, <1>7, <1>8, Zenon

\* Numbers below 2^w have equal leading bits, down to k, if and only if their
\* quotients by 2^k are equal.
LEMMA EqualBits ==
  ASSUME NEW w \in Nat, NEW a \in 0..(Pow2[w] - 1), NEW b \in 0..(Pow2[w] - 1),
         NEW k \in 0..w
  PROVE  (\A i \in k..(w - 1) : Bit(a, i) = Bit(b, i)) <=> a \div Pow2[k] = b \div Pow2[k]
<1>0. Pow2[w] \in Nat \ {0} /\ a \in Nat /\ b \in Nat
  BY Pow2Type
<1>1. ASSUME \A i \in k..(w - 1) : Bit(a, i) = Bit(b, i)
      PROVE  a \div Pow2[k] = b \div Pow2[k]
  <2> DEFINE S == {n \in Nat : n <= w - k => a \div Pow2[w - n] = b \div Pow2[w - n]}
  <2>1. 0 \in S
    <3>1. a \div Pow2[w] = 0 /\ b \div Pow2[w] = 0
      <4>1. Pow2[w] * 0 + a = a /\ Pow2[w] * 0 + b = b
        BY <1>0
      <4> QED BY <1>0, <4>1, Quotient
    <3> QED BY <3>1
  <2>2. ASSUME NEW n \in Nat, n \in S PROVE n + 1 \in S
    <3> SUFFICES ASSUME n + 1 <= w - k
                 PROVE  a \div Pow2[w - (n + 1)] = b \div Pow2[w - (n + 1)]
      OBVIOUS
    <3> DEFINE i == w - (n + 1)
    <3>1. i \in k..(w - 1) /\ i \in Nat /\ i + 1 = w - n
      OBVIOUS
    <3>2. a \div Pow2[i + 1] = b \div Pow2[i + 1]
      BY <2>2, <3>1
    <3>3. Bit(a, i) = Bit(b, i)
      BY <1>1, <3>1, Zenon
    <3> HIDE DEF i
    <3>4. a \div Pow2[i] = b \div Pow2[i]
      BY <1>0, <3>1, <3>2, <3>3, Halving
    <3> QED BY <3>4, Zenon DEF i
  <2>3. Nat \subseteq S
    <3> HIDE DEF S
    <3> QED BY <2>1, <2>2, SetInduction, Zenon
  <2>4. w - k \in S
    BY <2>3
  <2>5. w - (w - k) = k
    OBVIOUS
  <2> QED BY <2>4, <2>5
<1>2. ASSUME a \div Pow2[k] = b \div Pow2[k]
      PROVE  \A i \in k..(w - 1) : Bit(a, i) = Bit(b, i)
  <2> DEFINE S == {n \in Nat : a \div Pow2[k + n] = b \div Pow2[k + n]}
  <2>1. 0 \in S
    BY <1>2
  <2>2. ASSUME NEW n \in Nat, n \in S PROVE n + 1 \in S
    <3>1. k + n \in Nat /\ k + (n + 1) = (k + n) + 1
      OBVIOUS
    <3>2. a \div Pow2[k + n] = b \div Pow2[k + n]
      BY <2>2, Zenon
    <3>3. /\ a \div Pow2[(k + n) + 1] = (a \div Pow2[k + n]) \div 2
          /\ b \div Pow2[(k + n) + 1] = (b \div Pow2[k + n]) \div 2
      BY <1>0, <3>1, Halving
    <3>4. a \div Pow2[(k + n) + 1] = b \div Pow2[(k + n) + 1]
      BY <3>2, <3>3, Zenon
    <3> QED BY <3>1, <3>4
  <2>3. Nat \subseteq S
    <3> HIDE DEF S
    <3> QED BY <2>1, <2>2, SetInduction, Zenon
  <2> SUFFICES ASSUME NEW i \in k..(w - 1) PROVE Bit(a, i) = Bit(b, i)
    BY Zenon
  <2>4. i - k \in S /\ k + (i - k) = i
    BY <2>3
  <2>5. a \div Pow2[i] = b \div Pow2[i]
    BY <2>4, Zenon
  <2> QED BY <2>5, Zenon DEF Bit
<1> QED BY <1>1, <1>2, Zenon

\* The mask of a range of len bits, len not zero, is 2^V6 - 2^(width - len).
LEMMA MaskIs ==
  ASSUME NEW width \in 0..V6, NEW len \in 1..width
  PROVE  Mask(width, len) = Pow2[V6] - Pow2[width - len]
<1> DEFINE k == width - len
           M == Pow2[V6]
           d == Pow2[k]
<1>1. V6 \in Nat /\ k \in Nat /\ k <= V6
  BY WidthsAssumption
<1>2. M \in Nat \ {0} /\ d \in Nat \ {0} /\ d <= M
  BY <1>1, Pow2Type, Pow2Grows, Zenon
<1>3. Mask(width, len) = ((M - 1) * d) % M
  BY DEF Mask
<1> HIDE DEF M, d, k
<1>4. (M - 1) * d = M * (d - 1) + (M - d)
  BY <1>2
<1>5. M - d \in 0..(M - 1) /\ d - 1 \in Int
  BY <1>2
<1>6. (M * (d - 1) + (M - d)) % M = M - d
  BY <1>2, <1>5, Quotient, Zenon
<1> QED BY <1>3, <1>4, <1>6, Zenon DEF M, d, k

\* The bits of the mask: the leading len bits of the width, and none for /0.
LEMMA MaskBits ==
  ASSUME NEW width \in 0..V6, NEW len \in 0..width, NEW i \in 0..(width - 1)
  PROVE  Bit(Mask(width, len), i) = 1 <=> i >= width - len
<1>1. CASE len = 0
  <2>1. Mask(width, len) = 0
    BY <1>1, Zenon DEF Mask
  <2>2. Pow2[i] \in Nat \ {0}
    BY Pow2Type
  <2>3. 0 \div Pow2[i] = 0
    <3>1. Pow2[i] * 0 + 0 = 0
      BY <2>2
    <3> QED BY <2>2, <3>1, Quotient
  <2>4. Bit(0, i) = 0
    BY <2>3 DEF Bit
  <2> QED BY <1>1, <2>1, <2>4
<1>2. CASE len # 0
  <2> DEFINE k == width - len
  <2>1. /\ V6 \in Nat /\ k \in Nat /\ k < V6 /\ i \in Nat /\ i < V6
        /\ Mask(width, len) = Pow2[V6] - Pow2[k]
    BY <1>2, WidthsAssumption, MaskIs
  <2>2. /\ Pow2[V6] \in Nat \ {0} /\ Pow2[k] \in Nat \ {0} /\ Pow2[i] \in Nat \ {0}
        /\ Pow2[k] <= Pow2[V6]
    BY <2>1, Pow2Type, Pow2Grows
  <2> HIDE DEF k
  <2>3. CASE i < k
    <3> DEFINE a == Pow2[V6 - (i + 1)]
               b == Pow2[k - (i + 1)]
    <3>1. V6 - (i + 1) \in Nat /\ k - (i + 1) \in Nat /\ i + 1 \in Nat
      BY <2>1, <2>3
    <3>2. a \in Nat /\ b \in Nat
      BY <3>1, Pow2Type, Zenon
    <3>3. Pow2[V6] = (2 * Pow2[i]) * a /\ Pow2[k] = (2 * Pow2[i]) * b
      <4>1. V6 = (i + 1) + (V6 - (i + 1)) /\ k = (i + 1) + (k - (i + 1))
        BY <2>1
      <4>2. Pow2[V6] = Pow2[i + 1] * a /\ Pow2[k] = Pow2[i + 1] * b
        BY <3>1, <4>1, Pow2Sum, Zenon
      <4>3. Pow2[i + 1] = 2 * Pow2[i]
        BY <2>1, Pow2Next, Zenon
      <4> QED BY <4>2, <4>3, Zenon
    <3> HIDE DEF a, b
    <3>4. Pow2[V6] - Pow2[k] = Pow2[i] * (2 * (a - b)) + 0
      <4>1. \A x, y, z \in Int : (2 * x) * y - (2 * x) * z = x * (2 * (y - z)) + 0
        OBVIOUS
      <4>2. (2 * Pow2[i]) * a - (2 * Pow2[i]) * b = Pow2[i] * (2 * (a - b)) + 0
        BY <2>2, <3>2, <4>1
      <4> QED BY <3>3, <4>2, Zenon
    <3>5. (Pow2[V6] - Pow2[k]) \div Pow2[i] = 2 * (a - b)
      <4>1. 2 * (a - b) \in Int /\ 0 \in 0..(Pow2[i] - 1)
        BY <2>2, <3>2
      <4>2. (Pow2[i] * (2 * (a - b)) + 0) \div Pow2[i] = 2 * (a - b)
        BY <2>2, <4>1, Quotient, Zenon
      <4> QED BY <3>4, <4>2, Zenon
    <3>6. (2 * (a - b)) % 2 = 0
      BY <3>2
    <3> QED BY <2>1, <2>3, <3>5, <3>6 DEF Bit, k
  <2>4. CASE i >= k
    <3> DEFINE a == Pow2[V6 - i]
    <3>1. V6 - i \in Nat /\ V6 - (i + 1) \in Nat /\ V6 - i = (V6 - (i + 1)) + 1
      BY <2>1
    <3>2. a = 2 * Pow2[V6 - (i + 1)] /\ Pow2[V6 - (i + 1)] \in Nat \ {0}
      BY <3>1, Pow2Next, Pow2Type, Zenon
    <3>3. Pow2[V6] = Pow2[i] * a
      <4>1. V6 = i + (V6 - i)
        BY <2>1
      <4> QED BY <2>1, <3>1, <4>1, Pow2Sum
    <3>4. Pow2[k] <= Pow2[i]
      BY <2>1, <2>4, Pow2Grows, ZenonT(40)
    <3> HIDE DEF a
    <3>5. Pow2[V6] - Pow2[k] = Pow2[i] * (a - 1) + (Pow2[i] - Pow2[k])
      BY <2>2, <3>2, <3>3
    <3>6. (Pow2[V6] - Pow2[k]) \div Pow2[i] = a - 1
      <4>1. a - 1 \in Int /\ Pow2[i] - Pow2[k] \in 0..(Pow2[i] - 1)
        BY <2>2, <3>2, <3>4
      <4>2. (Pow2[i] * (a - 1) + (Pow2[i] - Pow2[k])) \div Pow2[i] = a - 1
        BY <2>2, <4>1, Quotient, Zenon
      <4> QED BY <3>5, <4>2, Zenon
    <3>7. (a - 1) % 2 = 1
      BY <3>2
    <3> QED BY <2>1, <2>4, <3>6, <3>7, Zenon DEF Bit, k
  <2> QED BY <2>1, <2>3, <2>4
<1> QED BY <1>1, <1>2, Zenon

\* No bit of the mask differs: the leading bits are the same.
LEMMA RangeTest ==
  ASSUME NEW width \in {V4, V6}, NEW len \in 0..width,
         NEW a \in 0..(Pow2[width] - 1), NEW b \in 0..(Pow2[width] - 1)
  PROVE  (\A i \in 0..(width - 1) : Bit(Mask(width, len), i) = 1 => Bit(a, i) = Bit(b, i))
           <=> a \div Pow2[width - len] = b \div Pow2[width - len]
<1>1. width \in Nat /\ width \in 0..V6 /\ width - len \in 0..width
  BY WidthsAssumption
<1>2. \A i \in 0..(width - 1) : Bit(Mask(width, len), i) = 1 <=> i >= width - len
  BY <1>1, MaskBits, Zenon
<1>3. (\A i \in 0..(width - 1) : Bit(Mask(width, len), i) = 1 => Bit(a, i) = Bit(b, i))
        <=> \A i \in (width - len)..(width - 1) : Bit(a, i) = Bit(b, i)
  BY <1>1, <1>2
<1> QED BY <1>1, <1>3, EqualBits, Zenon

\* A multiple of the divisor is divided apart.
LEMMA SumQuotient ==
  ASSUME NEW d \in Nat \ {0}, NEW m \in Nat, NEW h \in Nat, NEW q \in Nat, NEW r \in 0..(d - 1)
  PROVE  (m * (h * d) + (d * q + r)) \div d = m * h + q
<1>1. \A x, y, z, t, u \in Int : x * (y * z) + (z * t + u) = z * (x * y + t) + u
  OBVIOUS
<1>2. m * (h * d) + (d * q + r) = d * (m * h + q) + r
  BY <1>1
<1>3. m * h + q \in Int
  OBVIOUS
<1> QED BY <1>2, <1>3, Quotient, Zenon

\* An address as an IPv6 one is the mapped high part and the IPv4 one.
LEMMA MappedLeading ==
  ASSUME NEW v \in 0..(Pow2[V4] - 1), NEW k \in 0..V4
  PROVE  /\ (MappedHigh * Pow2[V4] + v) \div Pow2[k] = MappedHigh * Pow2[V4 - k] + (v \div Pow2[k])
         /\ v \div Pow2[k] \in Nat /\ MappedHigh * Pow2[V4 - k] \in Nat
<1>1. V4 \in Nat /\ V4 - k \in Nat /\ k \in Nat /\ V4 = (V4 - k) + k
  BY WidthsAssumption
<1>2. Pow2[V4] = Pow2[V4 - k] * Pow2[k]
  BY <1>1, Pow2Sum, Zenon
<1> DEFINE h == Pow2[V4 - k]
           d == Pow2[k]
<1>3. h \in Nat \ {0} /\ d \in Nat \ {0} /\ Pow2[V4] \in Nat \ {0}
  BY <1>1, Pow2Type, Zenon
<1>4. MappedHigh \in Nat
  BY WidthsAssumption
<1>5. v \in Nat
  BY <1>3
<1> HIDE DEF h, d
<1>6. v \div d \in Nat /\ v % d \in 0..(d - 1) /\ v = d * (v \div d) + (v % d)
  BY <1>3, <1>5, Division, Zenon
<1>7. (MappedHigh * (h * d) + v) \div d = MappedHigh * h + (v \div d)
  BY <1>3, <1>4, <1>6, SumQuotient
<1>8. MappedHigh * h \in Nat
  BY <1>3, <1>4
<1> QED BY <1>2, <1>6, <1>7, <1>8, Zenon DEF h, d

\* An address and the same address read as IPv4 where it is a mapped one.
LEMMA NormaliseKeeps ==
  ASSUME NEW ip \in IPs
  PROVE  /\ Normalise(ip) \in IPs
         /\ Normalise(ip)[1] = V4 <=> IsMapped(AsV6(ip))
         /\ AsV6(Normalise(ip))[2] = AsV6(ip)[2]
         /\ ~ IsMapped(Normalise(ip))
<1>1. V4 \in Nat /\ V6 \in Nat /\ V4 # V6 /\ MappedHigh \in Nat
  BY WidthsAssumption
<1>2. Pow2[V4] \in Nat \ {0} /\ Pow2[V6] \in Nat \ {0}
  BY <1>1, Pow2Type, Zenon
<1>3. CASE ip[1] = V4
  <2>1. ip \in {V4} \X (0..(Pow2[V4] - 1))
    BY <1>1, <1>3, Zenon DEF IPs
  <2>2. Normalise(ip) = ip /\ ~ IsMapped(ip)
    BY <1>1, <1>3, Zenon DEF Normalise, IsMapped
  <2>3. AsV6(ip) = <<V6, MappedHigh * Pow2[V4] + ip[2]>>
    BY <1>3, Zenon DEF AsV6
  <2>4. MappedHigh * Pow2[V4] = Pow2[V4] * MappedHigh
    BY <1>1, <1>2
  <2>5. (Pow2[V4] * MappedHigh + ip[2]) \div Pow2[V4] = MappedHigh
    <3>1. ip[2] \in 0..(Pow2[V4] - 1)
      BY <2>1
    <3>2. MappedHigh \in Int
      BY <1>1
    <3> QED BY <1>2, <3>1, <3>2, Quotient, Zenon
  <2>6. IsMapped(AsV6(ip))
    BY <2>3, <2>4, <2>5 DEF IsMapped
  <2> QED BY <1>3, <2>2, <2>6, Zenon
<1>4. CASE ip[1] # V4 /\ IsMapped(ip)
  <2>1. ip \in {V6} \X (0..(Pow2[V6] - 1)) /\ ip[1] = V6 /\ ip[2] \div Pow2[V4] = MappedHigh
    BY <1>4, Zenon DEF IPs, IsMapped
  <2>2. Normalise(ip) = <<V4, ip[2] % Pow2[V4]>>
    BY <1>4, Zenon DEF Normalise
  <2>3. AsV6(ip) = ip
    BY <1>4, Zenon DEF AsV6
  <2>4. /\ ip[2] % Pow2[V4] \in 0..(Pow2[V4] - 1)
        /\ ip[2] = Pow2[V4] * MappedHigh + (ip[2] % Pow2[V4])
    <3>1. ip[2] \in Nat
      BY <1>2, <2>1
    <3> QED BY <1>2, <2>1, <3>1, Division, Zenon
  <2>5. AsV6(Normalise(ip))[2] = MappedHigh * Pow2[V4] + (ip[2] % Pow2[V4])
    BY <2>2 DEF AsV6
  <2>6. MappedHigh * Pow2[V4] = Pow2[V4] * MappedHigh
    BY <1>1, <1>2
  <2>7. Normalise(ip) \in IPs
    BY <2>2, <2>4 DEF IPs
  <2>8. ~ IsMapped(Normalise(ip))
    BY <1>1, <2>2 DEF IsMapped
  <2>9. Normalise(ip)[1] = V4
    BY <2>2
  <2>10. AsV6(Normalise(ip))[2] = AsV6(ip)[2]
    BY <2>3, <2>4, <2>5, <2>6, Zenon
  <2> QED BY <1>4, <2>3, <2>7, <2>8, <2>9, <2>10, Zenon
<1>5. CASE ip[1] # V4 /\ ~ IsMapped(ip)
  BY <1>5, Zenon DEF Normalise, AsV6
<1> QED BY <1>3, <1>4, <1>5, Zenon

\* The range that is kept begins where the entry says.
LEMMA ParseKeeps ==
  ASSUME NEW entry, entry.ip \in IPs, Parses(entry)
  PROVE  /\ Parse(entry).ip = Normalise(entry.ip)
         /\ Parse(entry).len \in 0..Normalise(entry.ip)[1]
         /\ V6 - (PrefixLen(entry) + V6 - entry.ip[1]) = Normalise(entry.ip)[1] - Parse(entry).len
<1>1. V4 \in Nat /\ V6 \in Nat /\ V4 < V6
  BY WidthsAssumption, Zenon
<1>2. entry.ip[1] \in {V4, V6} /\ PrefixLen(entry) \in 0..entry.ip[1]
  BY ZenonT(40) DEF IPs, Parses
<1>3. CASE IsMapped(entry.ip)
  <2>1. entry.ip[1] = V6 /\ PrefixLen(entry) >= V6 - V4
    BY <1>3, Zenon DEF IsMapped, Parses
  <2>2. Normalise(entry.ip)[1] = V4
    BY <1>3, Zenon DEF Normalise
  <2>3. Parse(entry) = [ip |-> Normalise(entry.ip), len |-> PrefixLen(entry) - (V6 - V4)]
    BY <1>3, Zenon DEF Parse
  <2> QED BY <1>1, <1>2, <2>1, <2>2, <2>3
<1>4. CASE ~ IsMapped(entry.ip)
  <2>1. Normalise(entry.ip) = entry.ip
    BY <1>4, Zenon DEF Normalise
  <2>2. Parse(entry) = [ip |-> entry.ip, len |-> PrefixLen(entry) - 0]
    BY <1>4, <2>1, Zenon DEF Parse
  <2> QED BY <1>1, <1>2, <2>1, <2>2
<1> QED BY <1>3, <1>4, Zenon

\* What an entry is kept as contains the addresses that the entry covers.
LEMMA EntryContains ==
  ASSUME NEW entry, entry.ip \in IPs, Parses(entry), NEW ip \in IPs
  PROVE  ContainsRaw({Parse(entry)}, Normalise(ip)) <=> Covers(entry, ip)
<1> DEFINE n == Normalise(ip)
           m == Normalise(entry.ip)
           len == Parse(entry).len
           k == m[1] - len
<1>1. V4 \in Nat /\ V6 \in Nat /\ V4 # V6
  BY WidthsAssumption
<1>2. n \in IPs /\ (n[1] = V4 <=> IsMapped(AsV6(ip))) /\ AsV6(n)[2] = AsV6(ip)[2]
  BY NormaliseKeeps, Zenon
<1>3. m \in IPs /\ (m[1] = V4 <=> IsMapped(AsV6(entry.ip))) /\ AsV6(m)[2] = AsV6(entry.ip)[2]
  BY NormaliseKeeps, Zenon
<1>4. /\ Parse(entry).ip = m
      /\ len \in 0..m[1]
      /\ V6 - (PrefixLen(entry) + V6 - entry.ip[1]) = k
  BY ParseKeeps, Zenon
<1>5. Covers(entry, ip) <=>
        /\ m[1] = V4 <=> n[1] = V4
        /\ AsV6(n)[2] \div Pow2[k] = AsV6(m)[2] \div Pow2[k]
  BY <1>2, <1>3, <1>4, Zenon DEF Covers
<1>6. ContainsRaw({Parse(entry)}, n) <=>
        /\ m[1] = n[1]
        /\ \A i \in 0..(n[1] - 1) : Bit(Mask(n[1], len), i) = 1 => Bit(n[2], i) = Bit(m[2], i)
  BY <1>4, Zenon DEF ContainsRaw
<1> HIDE DEF n, m, len
<1>7. n[1] \in {V4, V6} /\ m[1] \in {V4, V6} /\ n[2] \in 0..(Pow2[n[1]] - 1) /\ m[2] \in 0..(Pow2[m[1]] - 1)
  BY <1>2, <1>3, ZenonT(40) DEF IPs
<1>8. CASE m[1] # n[1]
  BY <1>1, <1>5, <1>6, <1>7, <1>8 DEF n
<1>9. CASE m[1] = n[1]
  <2>1. ContainsRaw({Parse(entry)}, n) <=> n[2] \div Pow2[k] = m[2] \div Pow2[k]
    <3>1. m[2] \in 0..(Pow2[n[1]] - 1) /\ len \in 0..n[1] /\ k = n[1] - len
      BY <1>4, <1>7, <1>9, Zenon
    <3>2. (\A i \in 0..(n[1] - 1) : Bit(Mask(n[1], len), i) = 1 => Bit(n[2], i) = Bit(m[2], i))
            <=> n[2] \div Pow2[n[1] - len] = m[2] \div Pow2[n[1] - len]
      BY <1>7, <3>1, RangeTest, Zenon
    <3> QED BY <1>6, <1>9, <3>1, <3>2, Zenon
  <2>2. CASE n[1] = V4
    <3>1. AsV6(n)[2] = MappedHigh * Pow2[V4] + n[2] /\ AsV6(m)[2] = MappedHigh * Pow2[V4] + m[2]
      BY <1>9, <2>2, ZenonT(40) DEF AsV6
    <3>2. k \in 0..V4
      <4>1. \A x \in 0..V4 : V4 - x \in 0..V4
        BY <1>1
      <4> QED BY <1>4, <1>9, <2>2, <4>1, Zenon
    <3>3. AsV6(n)[2] \div Pow2[k] = AsV6(m)[2] \div Pow2[k] <=> n[2] \div Pow2[k] = m[2] \div Pow2[k]
      <4>1. /\ (MappedHigh * Pow2[V4] + n[2]) \div Pow2[k] = MappedHigh * Pow2[V4 - k] + (n[2] \div Pow2[k])
            /\ n[2] \div Pow2[k] \in Nat /\ MappedHigh * Pow2[V4 - k] \in Nat
        BY <1>7, <2>2, <3>2, MappedLeading, Zenon
      <4>2. /\ (MappedHigh * Pow2[V4] + m[2]) \div Pow2[k] = MappedHigh * Pow2[V4 - k] + (m[2] \div Pow2[k])
            /\ m[2] \div Pow2[k] \in Nat
        BY <1>7, <1>9, <2>2, <3>2, MappedLeading, ZenonT(40)
      <4> HIDE DEF k
      <4>3. \A x, y, z \in Nat : x + y = x + z <=> y = z
        OBVIOUS
      <4> QED BY <3>1, <4>1, <4>2, <4>3
    <3> QED BY <1>5, <1>9, <2>1, <3>3, Zenon DEF n
  <2>3. CASE n[1] # V4
    <3>1. AsV6(n)[2] = n[2] /\ AsV6(m)[2] = m[2]
      BY <1>9, <2>3, Zenon DEF AsV6
    <3> QED BY <1>5, <1>9, <2>1, <3>1, Zenon DEF n
  <2> QED BY <2>2, <2>3, Zenon
<1> QED BY <1>8, <1>9, Zenon

\* An address is in the list exactly if some entry of the list covers it.
THEOREM TrustContainsIsCovers ==
  ASSUME NEW entries, \A entry \in entries : entry.ip \in IPs /\ Parses(entry),
         NEW ip \in IPs
  PROVE  TrustContains({Parse(entry) : entry \in entries}, ip)
           <=> \E entry \in entries : Covers(entry, ip)
<1>1. TrustContains({Parse(entry) : entry \in entries}, ip)
        <=> \E entry \in entries : ContainsRaw({Parse(entry)}, Normalise(ip))
  BY Zenon DEF TrustContains, ContainsRaw
<1> QED BY <1>1, EntryContains, Zenon

\* The entries of the list are the ones that were parsed at the start.
TrustInv == \A entry \in trust : entry.ip \in IPs /\ Parses(entry)

\* The trusted peers are exactly the addresses inside the ranges that
\* trusted_proxies writes, IPv4-mapped spellings and /0 included, for every
\* width of the addresses and every list (TrustedProxies::contains).
THEOREM TrustByRange == ForwardingSpec => []TrustIsByRange
<1>1. ForwardingInit => TrustInv
  BY JourneyAssumption, Zenon DEF ForwardingInit, TrustInv
<1>2. TrustInv /\ [ForwardingNext]_fvars => TrustInv'
  BY Zenon DEF TrustInv, ForwardingNext, Forward, Refuse, Answer, Return, fvars
<1>3. TrustInv => TrustIsByRange
  BY TrustContainsIsCovers, Zenon DEF TrustInv, TrustIsByRange, Nets
<1>4. QED
  BY <1>1, <1>2, <1>3, PTL DEF ForwardingSpec

\* The target the edge was asked for can be recovered: the prefixes stripped
\* along the chain put back give its path, and Host is its host unless
\* rewritten (set_forwarded_prefix, pin_host, rewrite of the path in
\* handle_core).
THEOREM TargetRecoverable == ForwardingSpec => []TargetIsRecoverable
BY TargetGivenTrust, TrustByRange, PTL

\* The Forwarded list is the journey since the edge, one element for each proxy
\* that writes them, in order, and nothing that a stranger sent
\* (append_forwarded, apply_forwarded_headers).
THEOREM ForwardedTellsTheJourney == ForwardingSpec => []ForwardedIsTheJourney
BY JourneyGivenTrust, TrustByRange, PTL

\* The upstream reads the address and the scheme that reached the edge, under
\* any mix of the append and replace modes, and nothing that a stranger claimed
\* survives (apply_forwarded_headers, strip_noncanonical_spellings).
THEOREM OriginTold == ForwardingSpec => []OriginIsTheEdges
BY OriginGivenTrust, TrustByRange, PTL

=============================================================================
