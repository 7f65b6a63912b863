---------------------------- MODULE MCBuildTable ----------------------------
(***************************************************************************)
(* Instances of BuildTable and Upstreams for TLC: how a table is built, and *)
(* what goes on between its upstreams once it is live.  A behaviour is      *)
(* about one of the two.                                                    *)
(***************************************************************************)
EXTENDS BuildTable, Upstreams, TLC

Uri(n, t) == [ok |-> TRUE, name |-> n, text |-> t]
Route(p, u, c) == [prefix |-> p, uri |-> u, cooldown |-> c, health |-> Unset, disabled |-> FALSE]

Root == <<"/">>
Api  == <<"/", "a">>
Deep == <<"/", "a", "/", "b">>

MCPrevious ==
  {[name |-> "x", text |-> "x", health |-> <<Api, FALSE>>, breaker |-> 1],
   [name |-> "y", text |-> "y", health |-> <<Api, FALSE>>, breaker |-> 2]}

MCOldTuning == [cooldown |-> 3, threshold |-> 9]

\* Sound routes to a known and to two new upstreams, some in conflict with
\* each other, and one route for every way to be unsound.
SoundRoutes ==
  {Route(p, Uri(n, "X"), c) : p \in {Root, Api, Deep}, n \in {"x", "z"}, c \in {Unset, 2}}
UnsoundRoutes ==
  {Route(<<"a">>, Uri("x", "x"), 2),
   Route(<<"/", "/">>, Uri("x", "x"), 2),
   Route(<<"/", ";">>, Uri("x", "x"), 2),
   Route(Root, [ok |-> FALSE, name |-> "x", text |-> "bad"], 2),
   Route(Root, Uri("x", "x"), 0),
   Route(Root, Uri("x", "x"), 4),
   [Route(Root, Uri("x", "x"), 2) EXCEPT !.health = <<"h">>],
   [Route(Deep, Uri("x", "x"), 2) EXCEPT !.disabled = TRUE]}
MCRoutes == SoundRoutes \cup UnsoundRoutes

Config(rs) == [threshold |-> 1, durations |-> {1}, shutdownDelay |-> 0, localHealth |-> Unset,
               cidrsOk |-> TRUE, defaultCooldown |-> 1, routes |-> rs]
BadGlobals ==
  {[Config(<<>>) EXCEPT !.threshold = 0], [Config(<<>>) EXCEPT !.durations = {0}],
   [Config(<<>>) EXCEPT !.defaultCooldown = 4], [Config(<<>>) EXCEPT !.shutdownDelay = 4],
   [Config(<<>>) EXCEPT !.cidrsOk = FALSE], [Config(<<>>) EXCEPT !.localHealth = <<"h">>],
   [Config(<<>>) EXCEPT !.localHealth = <<"/", "space">>],
   [Config(<<Route(Api, Uri("x", "x"), 2)>>) EXCEPT !.localHealth = Api]}

\* Routes with characters out of the ordinary.
OddRoutes ==
  {Route(<<"/", "utf8">>, Uri("x", "x"), 2), Route(<<"/", "space">>, Uri("x", "x"), 2),
   [Route(Root, Uri("x", "x"), 2) EXCEPT !.health = <<"/", "space">>]}

\* All sequences of up to three routes.
MCConfigs ==
  BadGlobals \cup {Config(<<r>>) : r \in OddRoutes}
    \cup {Config(rs) : rs \in UNION {[1..n -> MCRoutes] : n \in 0..3}}

-----------------------------------------------------------------------------

\* Two upstreams, the second of which comes and goes, or is not probed.
MCTables == {("a" :> TRUE), ("a" :> TRUE) @@ ("b" :> TRUE), ("a" :> TRUE) @@ ("b" :> FALSE)}
MCMoods == [a |-> {"up", "hung"}, b |-> {"up", "failing"}]

VARIABLE about

TablesSpec ==
  /\ \/ about = "building" /\ BuildInit /\ UpstreamsInit /\ live = "a" :> TRUE
     \/ about = "upstreams" /\ BuildInit /\ cfg = Config(<<>>) /\ UpstreamsInit
  /\ [][\/ about = "building" /\ BuildNext /\ UNCHANGED <<about, uvars>>
        \/ about = "upstreams" /\ UpstreamsNext /\ UNCHANGED <<about, bvars>>]_<<about, bvars, uvars>>
  /\ about = "upstreams" => UpstreamsFairness

=============================================================================
