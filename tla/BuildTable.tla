------------------------------ MODULE BuildTable ------------------------------
(***************************************************************************)
(* build_table of crates/core/src/config.rs: a parsed config is checked,   *)
(* route by route, before the first breaker of the previous table is       *)
(* touched; then the upstreams are built, sharing breakers by name within  *)
(* the new table and with the previous one.                                *)
(*                                                                         *)
(* A config is a record [threshold, durations, shutdownDelay, localHealth, *)
(* cidrsOk, defaultCooldown, routes].  A route is a record [prefix, uri,   *)
(* cooldown, health, disabled], an upstream URI a record [ok, name, text]: *)
(* its parsed form, the host:port it is known by, and its spelling.        *)
(***************************************************************************)
EXTENDS Paths, FiniteSets, FiniteSetsExt

CONSTANTS
  Configs,     \* the configs that may be built
  Previous,    \* the upstreams of the previous table, at most one by name
  OldTuning,   \* how the breakers of the previous table are tuned
  MaxSecs,     \* MAX_SECS
  Unset        \* an optional key that is absent

ASSUME PreviousAssumption ==
  /\ IsFiniteSet(Previous)
  /\ \A u \in Previous :
       u = [name |-> u.name, text |-> u.text, health |-> u.health, breaker |-> u.breaker]
  /\ \A u, v \in Previous : u.name = v.name \/ u.breaker = v.breaker => u = v
  /\ {u.breaker : u \in Previous} = 1..Cardinality(Previous)

ASSUME RoutesAssumption ==
  \A c \in Configs : /\ c.routes \in Seq(Range(c.routes))
                     /\ \A k \in DOMAIN c.routes : Len(c.routes[k].prefix) \in Nat

VARIABLES
  cfg,             \* the config, parsed
  phase,           \* "globals", "validate", "construct" or "done"
  next,            \* the route at hand
  seenPrefixes,
  cooldownByName,
  healthByName,
  verdict,         \* "Ok" or the error returned
  upstreams,       \* upstreams_by_name
  routes,          \* the routes of the new table
  tuning           \* cooldown and threshold of every breaker

checks == <<seenPrefixes, cooldownByName, healthByName>>
built  == <<upstreams, routes, tuning>>
bvars  == <<cfg, phase, next, checks, verdict, built>>

EmptyMap == [x \in {} |-> x]

\* f with x mapped to v
Put(f, x, v) == [y \in DOMAIN f \cup {x} |-> IF y = x THEN v ELSE f[y]]

BuildInit ==
  /\ cfg \in Configs
  /\ phase = "globals"
  /\ next = 1
  /\ seenPrefixes = {} /\ cooldownByName = EmptyMap /\ healthByName = EmptyMap
  /\ verdict = "Ok"
  /\ upstreams = EmptyMap /\ routes = <<>>
  /\ tuning = [b \in 1..Cardinality(Previous) |-> OldTuning]

-----------------------------------------------------------------------------
(* Validation: a check is a pair of a condition and the error it raises    *)

FirstError(list) ==
  LET raised == {k \in DOMAIN list : list[k][1]}
  IN IF raised = {} THEN "Ok" ELSE list[Min(raised)][2]

\* "space" stands for what a PathAndQuery does not parse with, "utf8" for a
\* character that is not ASCII.
PlainPath(p) == StartsWith(p, <<"/">>) /\ ~In(p, "?") /\ ~In(p, "#") /\ ~In(p, "space")

Canonical(p) == ~In(p, "utf8") /\ Normalize(p) = p

GlobalChecks(c) ==
  << <<c.threshold < 1, "InvalidConfig">>,
     <<\E d \in c.durations \cup {c.defaultCooldown} : d \notin 1..MaxSecs, "InvalidConfig">>,
     <<c.shutdownDelay > MaxSecs, "InvalidConfig">>,
     << /\ c.localHealth # Unset
        /\ \/ ~PlainPath(c.localHealth)
           \/ BadPath(c.localHealth)
           \/ \E k \in DOMAIN c.routes : c.routes[k].prefix = c.localHealth,
        "InvalidConfig">>,
     <<~c.cidrsOk, "InvalidCidr">> >>

Cooldown(c, r) == IF r.cooldown = Unset THEN c.defaultCooldown ELSE r.cooldown

Health(r) == <<IF r.health = Unset THEN <<"/", "h">> ELSE r.health, r.disabled>>

AmbiguousPrefix(p) ==
  In(p, ";") \/ In(p, "\\") \/ ContainsAny(p, EncodedSeparators)

\* The checks of one route, given what the routes before it said.
RouteChecks(c, r, prefixes, cooldowns, healths) ==
  << <<~StartsWith(r.prefix, <<"/">>), "InvalidPrefix">>,
     <<~Canonical(r.prefix) \/ AmbiguousPrefix(r.prefix), "NonCanonicalPrefix">>,
     <<r.prefix \in prefixes, "DuplicatePrefix">>,
     <<~r.uri.ok, "InvalidUpstream">>,
     <<Cooldown(c, r) \notin 1..MaxSecs, "InvalidCooldown">>,
     << /\ r.uri.name \in DOMAIN cooldowns
        /\ cooldowns[r.uri.name] # Cooldown(c, r), "ConflictingCooldown">>,
     <<r.health # Unset /\ ~PlainPath(r.health), "InvalidHealthPath">>,
     << /\ r.uri.name \in DOMAIN healths
        /\ healths[r.uri.name] # Health(r), "ConflictingHealth">> >>

Reject(error) ==
  /\ phase' = "done"
  /\ verdict' = error
  /\ UNCHANGED <<cfg, next, checks, built>>

ValidateGlobals ==
  /\ phase = "globals"
  /\ LET error == FirstError(GlobalChecks(cfg)) IN
     \/ error # "Ok" /\ Reject(error)
     \/ /\ error = "Ok"
        /\ phase' = "validate"
        /\ UNCHANGED <<cfg, next, checks, verdict, built>>

\* Mutant: duplicate prefixes are not remembered.
ValidateForgetsPrefix ==
  /\ phase = "validate"
  /\ next \in DOMAIN cfg.routes
  /\ LET r == cfg.routes[next]
         error == FirstError(RouteChecks(cfg, r, seenPrefixes, cooldownByName, healthByName))
     IN \/ error # "Ok" /\ Reject(error)
        \/ /\ error = "Ok"
           /\ cooldownByName' = Put(cooldownByName, r.uri.name, Cooldown(cfg, r))
           /\ healthByName' = Put(healthByName, r.uri.name, Health(r))
           /\ next' = next + 1
           /\ UNCHANGED <<seenPrefixes, cfg, phase, verdict, built>>

\* Mutant: a known upstream is tuned as soon as its route is checked.
ValidateTunes ==
  /\ phase = "validate"
  /\ next \in DOMAIN cfg.routes
  /\ LET r == cfg.routes[next]
         error == FirstError(RouteChecks(cfg, r, seenPrefixes, cooldownByName, healthByName))
     IN \/ error # "Ok" /\ Reject(error)
        \/ /\ error = "Ok"
           /\ seenPrefixes' = seenPrefixes \cup {r.prefix}
           /\ cooldownByName' = Put(cooldownByName, r.uri.name, Cooldown(cfg, r))
           /\ healthByName' = Put(healthByName, r.uri.name, Health(r))
           /\ tuning' = [b \in DOMAIN tuning |->
                           IF \E u \in Previous : u.breaker = b /\ u.name = r.uri.name
                             THEN [cooldown |-> Cooldown(cfg, r), threshold |-> cfg.threshold]
                             ELSE tuning[b]]
           /\ next' = next + 1
           /\ UNCHANGED <<cfg, phase, verdict, upstreams, routes>>

ValidateRoute ==
  /\ phase = "validate"
  /\ next \in DOMAIN cfg.routes
  /\ LET r == cfg.routes[next]
         error == FirstError(RouteChecks(cfg, r, seenPrefixes, cooldownByName, healthByName))
     IN \/ error # "Ok" /\ Reject(error)
        \/ /\ error = "Ok"
           /\ seenPrefixes' = seenPrefixes \cup {r.prefix}
           /\ cooldownByName' = Put(cooldownByName, r.uri.name, Cooldown(cfg, r))
           /\ healthByName' = Put(healthByName, r.uri.name, Health(r))
           /\ next' = next + 1
           /\ UNCHANGED <<cfg, phase, verdict, built>>

ValidateEnd ==
  /\ phase = "validate"
  /\ next \notin DOMAIN cfg.routes
  /\ phase' = "construct"
  /\ next' = 1
  /\ UNCHANGED <<cfg, checks, verdict, built>>

-----------------------------------------------------------------------------
(* Construction *)

NewTuning(r) == [cooldown |-> Cooldown(cfg, r), threshold |-> cfg.threshold]

\* Upstream::reuse: the previous upstream, URI and breaker included.
Reuse(u, r) == [u EXCEPT !.health = Health(r)]

\* Upstream::new
NewUpstream(r) ==
  [name |-> r.uri.name, text |-> r.uri.text, health |-> Health(r),
   breaker |-> Cardinality(DOMAIN tuning) + 1]

Install(r, u) ==
  /\ upstreams' = Put(upstreams, u.name, u)
  /\ tuning' = Put(tuning, u.breaker, NewTuning(r))
  /\ routes' = Append(routes, [prefix |-> r.prefix, upstream |-> u])

\* Mutant: every route gets an upstream of its own unless the old table had it.
ConstructUnshared ==
  /\ phase = "construct"
  /\ next \in DOMAIN cfg.routes
  /\ LET r == cfg.routes[next] IN
     \/ \E u \in Previous : u.name = r.uri.name /\ Install(r, Reuse(u, r))
     \/ /\ \A u \in Previous : u.name # r.uri.name
        /\ Install(r, NewUpstream(r))
  /\ next' = next + 1
  /\ UNCHANGED <<cfg, phase, checks, verdict>>

ConstructRoute ==
  /\ phase = "construct"
  /\ next \in DOMAIN cfg.routes
  /\ LET r == cfg.routes[next] IN
     \/ /\ r.uri.name \in DOMAIN upstreams
        /\ routes' = Append(routes, [prefix |-> r.prefix, upstream |-> upstreams[r.uri.name]])
        /\ UNCHANGED <<upstreams, tuning>>
     \/ /\ r.uri.name \notin DOMAIN upstreams
        /\ \E u \in Previous : u.name = r.uri.name /\ Install(r, Reuse(u, r))
     \/ /\ r.uri.name \notin DOMAIN upstreams
        /\ \A u \in Previous : u.name # r.uri.name
        /\ Install(r, NewUpstream(r))
  /\ next' = next + 1
  /\ UNCHANGED <<cfg, phase, checks, verdict>>

\* sort_by_key(Reverse(prefix.len())), a stable sort
ByPrefixLength(s) ==
  LET len(k) == Len(s[k].prefix)
      rank(k) == Cardinality({j \in DOMAIN s : len(j) > len(k) \/ (len(j) = len(k) /\ j <= k)})
  IN [n \in DOMAIN s |-> s[CHOOSE k \in DOMAIN s : rank(k) = n]]

\* RouteTable::new
Finish ==
  /\ phase = "construct"
  /\ next \notin DOMAIN cfg.routes
  /\ phase' = "done"
  /\ routes' = ByPrefixLength(routes)
  /\ UNCHANGED <<cfg, next, checks, verdict, upstreams, tuning>>

BuildNext == ValidateGlobals \/ ValidateRoute \/ ValidateEnd \/ ConstructRoute \/ Finish

BuildSpec == BuildInit /\ [][BuildNext]_bvars

-----------------------------------------------------------------------------
(* What build_table promises, said of the whole config at once             *)

\* A route is sound by itself.
SoundRoute(c, r) ==
  /\ StartsWith(r.prefix, <<"/">>) /\ Canonical(r.prefix)
  /\ ~AmbiguousPrefix(r.prefix)
  /\ r.uri.ok
  /\ Cooldown(c, r) \in 1..MaxSecs
  /\ r.health # Unset => PlainPath(r.health)

\* Two routes of one table agree.
Compatible(c, r, s) ==
  /\ r.prefix # s.prefix
  /\ r.uri.name = s.uri.name => Cooldown(c, r) = Cooldown(c, s) /\ Health(r) = Health(s)

Accepts(c) ==
  /\ FirstError(GlobalChecks(c)) = "Ok"
  /\ \A j \in DOMAIN c.routes : SoundRoute(c, c.routes[j])
  /\ \A j, k \in DOMAIN c.routes : j # k => Compatible(c, c.routes[j], c.routes[k])

\* A config is accepted exactly if its routes are sound and agree pairwise:
\* the checks against what earlier routes said lose nothing (build_table).
AcceptsExactlyTheSound == phase = "done" => (verdict = "Ok" <=> Accepts(cfg))

\* A rejected config leaves the breakers of the live table as they were
\* (build_table: "Fails without side effects").
RejectionHasNoEffect ==
  ~Accepts(cfg) => tuning = [b \in 1..Cardinality(Previous) |-> OldTuning]

\* In the new table an upstream has one breaker, whatever routes lead to it;
\* it is the one of the previous table if that knew the upstream, it is
\* nobody else's, and it is tuned as the config says (reuse, Upstream::new).
BreakersAreShared ==
  phase = "done" /\ verdict = "Ok" =>
    /\ Len(routes) = Len(cfg.routes)
    /\ \A j, k \in DOMAIN routes :
         LET u == routes[j].upstream  v == routes[k].upstream
         IN u.name = v.name <=> u.breaker = v.breaker
    /\ \A j \in DOMAIN routes, p \in Previous :
         LET u == routes[j].upstream
         IN u.name = p.name <=> u.breaker = p.breaker
    /\ \A j \in DOMAIN cfg.routes : \E k \in DOMAIN routes :
         /\ routes[k].prefix = cfg.routes[j].prefix
         /\ routes[k].upstream.name = cfg.routes[j].uri.name
         /\ routes[k].upstream.health = Health(cfg.routes[j])
         /\ tuning[routes[k].upstream.breaker] = NewTuning(cfg.routes[j])

=============================================================================
