------------------------------ MODULE MCRouting ------------------------------
(***************************************************************************)
(* Instances of Routing and Forwarding for TLC: what becomes of a request's *)
(* path, and of its headers along a chain of proxies.  Neither depends on   *)
(* the other, so that a behaviour is about one of the two.                  *)
(***************************************************************************)
EXTENDS Routing, Forwarding, TLC

\* Nested prefixes, with and without a trailing slash, and no catch-all.
MCPrefixes == << <<"/", "b", "/", "b", "/">>, <<"/", "a", "/", "b">>, <<"/", "a">> >>

-----------------------------------------------------------------------------
MCFolded == [x_real_ip |-> "x-real-ip", x_custom |-> "x-custom"]
MCPlainHosts == {"site", "inner", "other"}

c6 == <<V6, 0>>
A(n) == <<V4, n>>
Mapped(n) == <<V6, MappedHigh * Pow2[V4] + n>>
E(ip, len) == [ip |-> ip, prefix |-> len]

Base == [trust |-> {E(A(2), 1)}, client |-> A(0), headers |-> [host |-> <<"site">>],
         authority |-> NoHost, version |-> 11, path |-> <<"x", "with-comma", "y", "z">>]

(* Every entry that parses, asked about every address. *)
EveryEntry ==
    {[Base EXCEPT !.trust = {E(ip, len)}] : ip \in IPs, len \in -1..V6}
Settings ==
    {"x-forwarded-for" :> Line(<<A(1)>>), "x-forwarded-for" :> Line(<<A(1), A(2), Mapped(2), A(3)>>),
     "x-forwarded-for" :> Line(<<A(1), Junk, A(2)>>),
     "x-forwarded-for" :> [entries |-> <<A(1)>>, hidden |-> 1],
     "x-forwarded-for" :> [entries |-> <<A(1), A(2)>>, hidden |-> 1],
     "x-forwarded-proto" :> <<"https", "http">>, "x-forwarded-proto" :> <<"https", "?">>,
     "x-forwarded-port" :> <<443>>, "x-forwarded-port" :> <<0>>,
     "x-forwarded-prefix" :> << <<"out">> >>, "x-forwarded-prefix" :> << <<"out">>, <<"out">> >>,
     "forwarded" :> <<ForwardedElement(A(1), "https", "other")>>,
     "x-real-ip" :> A(1), "x_real_ip" :> A(1), "x-forwarded-host" :> "other",
     "x-request-id" :> << <<"mine">> >>, "x-request-id" :> << <<"mine">>, <<"yours">> >>, "x-request-id" :> << <<"malformed">> >>,
     "connection" :> {"x-request-id", "host", "te"}, "connection" :> {"x-forwarded-for"},
     "host" :> <<"site", "site">>, "host" :> <<"a/b">>,
     "upgrade" :> "h2c", "upgrade" :> "websocket", "cookie" :> <<"c", "d">>}

EveryHeader ==
    {[Base EXCEPT !.headers = s @@ t @@ @, !.client = c] :
        s \in Settings, t \in Settings, c \in {A(0), A(2), Mapped(3), c6}}
Targets ==
    {[Base EXCEPT !.authority = "other", !.version = 20,
                  !.headers = "cookie" :> <<"c", "d">>],
     [Base EXCEPT !.version = 10, !.headers = <<>>],
     [Base EXCEPT !.headers = <<>>],
     [Base EXCEPT !.trust = {}, !.client = A(2)],
     [Base EXCEPT !.trust = {E(A(2), 1), E(c6, 0)}, !.client = c6]}
MCRequests == {r \in EveryEntry : \A e \in r.trust : Parses(e)} \cup EveryHeader \cup Targets

P(n, proto, prefix, strip, rewrite, xff, fwd, id) ==
    [addr |-> n, proto |-> proto, prefix |-> prefix, strip |-> strip, rewrite |-> rewrite,
     upstream |-> "inner", xff |-> xff, forwarded |-> fwd, request_id |-> id]
MCProxies ==
    {P(A(2), "https", <<>>, FALSE, FALSE, "append", FALSE, TRUE),
     P(Mapped(3), "http", <<"x">>, TRUE, FALSE, "append", TRUE, FALSE),
     P(A(3), "http", <<>>, TRUE, TRUE, "replace", TRUE, TRUE),
     P(A(2), "http", <<"with-comma">>, TRUE, FALSE, "append", FALSE, FALSE),
     P(A(1), "https", <<"y">>, TRUE, FALSE, "replace", FALSE, FALSE)}
MCAnswers == {<<>>, "x-request-id" :> << <<"theirs">> >>, "connection" :> {"x-request-id"}}

-----------------------------------------------------------------------------

\* A path that cannot grow, and a request whose answer is home.
NoPath ==
  /\ units = MaxUnits
  /\ raw = <<"/">> /\ canon = <<"/">> /\ flat = <<"/">> /\ lazy = <<"/">>
  /\ params = [flat |-> FALSE, lazy |-> FALSE]
NoRequest ==
  /\ phase = "response" /\ back = 0 /\ via = <<>> /\ trust = {}
  /\ sender = A(0) /\ req = <<>> /\ resp = <<>> /\ path = <<>>
  /\ authority = NoHost /\ version = 11

RequestSpec ==
  /\ (RoutingInit /\ NoRequest) \/ (NoPath /\ ForwardingInit)
  /\ [][\/ RoutingNext /\ UNCHANGED fvars
        \/ ForwardingNext /\ UNCHANGED pvars]_<<pvars, fvars>>
=============================================================================
