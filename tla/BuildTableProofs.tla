--------------------------- MODULE BuildTableProofs ---------------------------
(***************************************************************************)
(* Machine-checked proofs about BuildTable, for any set of configs of any  *)
(* length and any previous table.                                          *)
(***************************************************************************)
EXTENDS BuildTable, FiniteSetTheorems, TLAPS

-----------------------------------------------------------------------------
(* The checks *)

\* A set of positions that is not empty has a first one (the first check
\* that fails is the one whose error build_table returns).
LEMMA MinIsFirst ==
  ASSUME NEW S \in SUBSET Nat, S # {}
  PROVE  Min(S) \in S /\ \A k \in S : Min(S) <= k
<1>1. PICK m \in S : \A k \in S : ~(<<k, m>> \in OpToRel(<, Nat))
  BY NatLessThanWellFounded, WFMin, Zenon
<1>2. \A k \in S : m <= k
  <2>1. \A k \in S : k \in Nat /\ m \in Nat /\ (k < m => <<k, m>> \in OpToRel(<, Nat))
    BY Zenon DEF OpToRel
  <2>2. \A k \in S : ~(k < m)
    BY <1>1, <2>1, Zenon
  <2>3. QED
    BY <2>2
<1>3. QED
  BY <1>2, Zenon DEF Min

\* No error is returned exactly if no check fails.
LEMMA FirstErrorOk ==
  ASSUME NEW list, DOMAIN list \in SUBSET Nat,
         \A k \in DOMAIN list : list[k][2] # "Ok"
  PROVE  FirstError(list) = "Ok" <=> \A k \in DOMAIN list : ~list[k][1]
<1> DEFINE raised == {k \in DOMAIN list : list[k][1]}
<1>1. CASE raised = {}
  BY <1>1, Zenon DEF FirstError
<1>2. CASE raised # {}
  <2>1. raised \in SUBSET Nat
    BY Zenon
  <2>2. Min(raised) \in raised
    BY <1>2, <2>1, MinIsFirst, Zenon
  <2>3. FirstError(list) = list[Min(raised)][2]
    BY <1>2, Zenon DEF FirstError
  <2>4. QED
    BY <2>2, <2>3, Zenon
<1>3. QED
  BY <1>1, <1>2, Zenon

\* The checks of a route pass exactly if the route is sound and agrees with
\* what the routes before it said (build_table, first loop).
LEMMA RouteChecksOk ==
  ASSUME NEW c, NEW r, NEW prefixes, NEW cooldowns, NEW healths
  PROVE  FirstError(RouteChecks(c, r, prefixes, cooldowns, healths)) = "Ok" <=>
           /\ SoundRoute(c, r)
           /\ r.prefix \notin prefixes
           /\ r.uri.name \in DOMAIN cooldowns => cooldowns[r.uri.name] = Cooldown(c, r)
           /\ r.uri.name \in DOMAIN healths => healths[r.uri.name] = Health(r)
<1> DEFINE list == RouteChecks(c, r, prefixes, cooldowns, healths)
<1>1. DOMAIN list = 1..8
  BY DEF RouteChecks
<1>2. \A k \in DOMAIN list : list[k][2] # "Ok"
  BY <1>1 DEF RouteChecks
<1>3. FirstError(list) = "Ok" <=> \A k \in 1..8 : ~list[k][1]
  BY <1>1, <1>2, FirstErrorOk
<1>4. (\A k \in 1..8 : ~list[k][1]) <=>
        /\ ~list[1][1] /\ ~list[2][1] /\ ~list[3][1] /\ ~list[4][1]
        /\ ~list[5][1] /\ ~list[6][1] /\ ~list[7][1] /\ ~list[8][1]
  OBVIOUS
<1>5. QED
  BY <1>3, <1>4, Zenon DEF RouteChecks, SoundRoute

-----------------------------------------------------------------------------
(* The sort *)

\* Route j comes no later than route k.
NoLater(s, j, k) ==
  Len(s[j].prefix) > Len(s[k].prefix) \/ (Len(s[j].prefix) = Len(s[k].prefix) /\ j <= k)

Rank(s) == [k \in DOMAIN s |-> Cardinality({j \in DOMAIN s : NoLater(s, j, k)})]

\* The ranks of the routes are a permutation of their positions that puts
\* longer prefixes first (sort_by_key(Reverse(prefix.len()))).
LEMMA RankIsAPermutation ==
  ASSUME NEW s, NEW n \in Nat, DOMAIN s = 1..n,
         \A k \in DOMAIN s : Len(s[k].prefix) \in Nat
  PROVE  /\ Rank(s) \in [1..n -> 1..n]
         /\ \A j, k \in 1..n : Rank(s)[j] = Rank(s)[k] => j = k
         /\ \A m \in 1..n : \E k \in 1..n : Rank(s)[k] = m
         /\ \A j, k \in 1..n : Rank(s)[j] < Rank(s)[k] => NoLater(s, j, k)
<1> DEFINE upTo(k) == {j \in 1..n : NoLater(s, j, k)}
<1>1. IsFiniteSet(1..n) /\ Cardinality(1..n) = n
  BY FS_Interval
<1>2. \A k \in 1..n : upTo(k) \in SUBSET (1..n)
  BY Zenon
<1>3. \A k \in 1..n : /\ IsFiniteSet(upTo(k))
                      /\ Cardinality(upTo(k)) \in Nat
                      /\ Cardinality(upTo(k)) <= n
  BY <1>1, <1>2, FS_Subset, FS_CardinalityType
<1>4. \A k \in 1..n : k \in upTo(k)
  BY DEF NoLater
<1>5. \A k \in 1..n : Cardinality(upTo(k)) # 0
  BY <1>3, <1>4, FS_EmptySet, Zenon
<1>6. Rank(s) = [k \in 1..n |-> Cardinality(upTo(k))]
  BY Zenon DEF Rank
<1> HIDE DEF upTo
<1>7. Rank(s) \in [1..n -> 1..n]
  BY <1>3, <1>5, <1>6
<1>8. ASSUME NEW j \in 1..n, NEW k \in 1..n, j # k, NoLater(s, j, k)
      PROVE  Rank(s)[j] < Rank(s)[k]
  <2>1. upTo(j) \subseteq upTo(k)
    BY <1>8 DEF NoLater, upTo
  <2>2. k \notin upTo(j)
    BY <1>8 DEF NoLater, upTo
  <2>3. Cardinality(upTo(j)) <= Cardinality(upTo(k)) /\ Cardinality(upTo(j)) # Cardinality(upTo(k))
    BY <2>1, <2>2, <1>3, <1>4, FS_Subset, Zenon
  <2>4. QED
    BY <2>3, <1>3, <1>6
<1>9. \A j, k \in 1..n : j # k => NoLater(s, j, k) \/ NoLater(s, k, j)
  BY DEF NoLater
<1>10. \A j, k \in 1..n : Rank(s)[j] = Rank(s)[k] => j = k
  BY <1>7, <1>8, <1>9
<1>11. Rank(s) \in Injection(1..n, 1..n)
  BY <1>7, <1>10, Zenon DEF Injection, IsInjective
<1>12. Rank(s) \in Surjection(1..n, 1..n)
  BY <1>1, <1>11, FS_Injection, Zenon
<1>13. ASSUME NEW j \in 1..n, NEW k \in 1..n, Rank(s)[j] < Rank(s)[k]
       PROVE  NoLater(s, j, k)
  <2>1. Rank(s)[j] \in Int /\ Rank(s)[k] \in Int /\ j # k
    BY <1>7, <1>13
  <2>2. ~NoLater(s, k, j)
    BY <1>8, <1>13, <2>1
  <2>3. QED
    BY <1>9, <2>1, <2>2, Zenon
<1>14. \A m \in 1..n : \E k \in 1..n : Rank(s)[k] = m
  BY <1>12, Zenon DEF Surjection
<1>15. QED
  BY <1>7, <1>10, <1>13, <1>14, Zenon

\* The route at m of the sorted table was the one at f[m]; f is one to one
\* and onto, and leaves no route behind one that should come later.
Sorts(s, n, f) ==
  /\ f \in [1..n -> 1..n]
  /\ \A l, m \in 1..n : f[l] = f[m] => l = m
  /\ \A k \in 1..n : \E m \in 1..n : f[m] = k
  /\ \A m \in 1..n : ByPrefixLength(s)[m] = s[f[m]]
  /\ \A l, m \in 1..n : l < m => NoLater(s, f[l], f[m])

\* RouteTable::new keeps every route, adds none, and sorts longer prefixes
\* to the front.
LEMMA SortIsAPermutation ==
  ASSUME NEW s, NEW n \in Nat, DOMAIN s = 1..n,
         \A k \in DOMAIN s : Len(s[k].prefix) \in Nat
  PROVE  /\ DOMAIN ByPrefixLength(s) = 1..n
         /\ \E f : Sorts(s, n, f)
<1> DEFINE R == Rank(s)
           f == [m \in 1..n |-> CHOOSE k \in 1..n : R[k] = m]
<1>1. DOMAIN ByPrefixLength(s) = 1..n /\ \A m \in 1..n : ByPrefixLength(s)[m] = s[f[m]]
  <2>1. \A k \in 1..n : R[k] = Cardinality({j \in DOMAIN s : NoLater(s, j, k)})
    BY Zenon DEF Rank
  <2>2. ByPrefixLength(s) =
          [m \in DOMAIN s |->
             s[CHOOSE k \in DOMAIN s : Cardinality({j \in DOMAIN s : NoLater(s, j, k)}) = m]]
    BY Zenon DEF ByPrefixLength, NoLater
  <2>3. \A m \in DOMAIN s :
          (CHOOSE k \in DOMAIN s : Cardinality({j \in DOMAIN s : NoLater(s, j, k)}) = m)
            = (CHOOSE k \in 1..n : R[k] = m)
    BY <2>1, Zenon
  <2>4. \A m \in DOMAIN s : f[m] = (CHOOSE k \in 1..n : R[k] = m)
    BY Zenon
  <2> HIDE DEF R, f
  <2>5. DOMAIN ByPrefixLength(s) = DOMAIN s
    BY <2>2, Zenon
  <2>6. \A m \in DOMAIN s : ByPrefixLength(s)[m] =
          s[CHOOSE k \in DOMAIN s : Cardinality({j \in DOMAIN s : NoLater(s, j, k)}) = m]
    BY <2>2, Zenon
  <2>7. \A m \in DOMAIN s : ByPrefixLength(s)[m] = s[f[m]]
    BY <2>3, <2>4, <2>6, Zenon
  <2>8. QED
    BY <2>5, <2>7, Zenon
<1>2. \A j, k \in 1..n : R[j] < R[k] => NoLater(s, j, k)
  BY RankIsAPermutation, Zenon
<1>3. /\ R \in [1..n -> 1..n]
      /\ \A j, k \in 1..n : R[j] = R[k] => j = k
      /\ \A m \in 1..n : \E k \in 1..n : R[k] = m
  BY RankIsAPermutation, Zenon
<1> HIDE DEF R
<1>4. \A m \in 1..n : f[m] \in 1..n /\ R[f[m]] = m
  BY <1>3, Zenon
<1>5. f \in [1..n -> 1..n]
  BY <1>4, Zenon
<1> HIDE DEF f
<1>6. \A l, m \in 1..n : f[l] = f[m] => l = m
  BY <1>4, Zenon
<1>7. \A k \in 1..n : R[k] \in 1..n /\ f[R[k]] = k
  <2> TAKE k \in 1..n
  <2>1. R[k] \in 1..n
    BY <1>3, Zenon
  <2>2. f[R[k]] \in 1..n /\ R[f[R[k]]] = R[k]
    BY <1>4, <2>1, Zenon
  <2>3. QED
    BY <1>3, <2>1, <2>2, Zenon
<1>8. \A k \in 1..n : \E m \in 1..n : f[m] = k
  BY <1>7, Zenon
<1>9. \A l, m \in 1..n : l < m => NoLater(s, f[l], f[m])
  BY <1>2, <1>4, Zenon
<1>10. Sorts(s, n, f)
  BY <1>1, <1>5, <1>6, <1>8, <1>9, Zenon DEF Sorts
<1>11. QED
  BY <1>1, <1>10, Zenon

-----------------------------------------------------------------------------
(* The inductive invariant *)

\* Of two routes of the new table the one with the longer prefix comes first,
\* and every prefix is canonical and there once.
InLookupOrder ==
  /\ \A k \in DOMAIN routes : Normalize(routes[k].prefix) = routes[k].prefix
  /\ \A j, k \in DOMAIN routes :
       j < k => /\ Len(routes[j].prefix) >= Len(routes[k].prefix)
                /\ routes[j].prefix # routes[k].prefix

Handled == {j \in DOMAIN cfg.routes : j < next}

Name(j) == cfg.routes[j].uri.name

\* What the first loop has established about the routes it has seen.
Checked ==
  /\ FirstError(GlobalChecks(cfg)) = "Ok"
  /\ seenPrefixes = {cfg.routes[j].prefix : j \in Handled}
  /\ DOMAIN cooldownByName = {Name(j) : j \in Handled}
  /\ DOMAIN healthByName = {Name(j) : j \in Handled}
  /\ \A j \in Handled :
       /\ SoundRoute(cfg, cfg.routes[j])
       /\ cooldownByName[Name(j)] = Cooldown(cfg, cfg.routes[j])
       /\ healthByName[Name(j)] = Health(cfg.routes[j])
  /\ \A j, k \in Handled : j # k => Compatible(cfg, cfg.routes[j], cfg.routes[k])

\* No breaker of the previous table has been touched.
Untouched ==
  /\ tuning = [b \in 1..Cardinality(Previous) |-> OldTuning]
  /\ upstreams = EmptyMap
  /\ routes = <<>>

\* Breakers are numbered as they are made, those of the previous table first.
Numbered ==
  /\ Cardinality(DOMAIN tuning) \in Nat
  /\ Cardinality(DOMAIN tuning) >= Cardinality(Previous)
  /\ DOMAIN tuning = 1..Cardinality(DOMAIN tuning)

\* The upstreams built so far: one breaker each, the previous one if there
\* was one, and nobody else's.
Separate ==
  /\ DOMAIN upstreams = {Name(j) : j \in Handled}
  /\ \A m \in DOMAIN upstreams :
       /\ upstreams[m].name = m
       /\ upstreams[m].breaker \in DOMAIN tuning
       /\ \A n \in DOMAIN upstreams : upstreams[m].breaker = upstreams[n].breaker => m = n
       /\ \A p \in Previous : m = p.name <=> upstreams[m].breaker = p.breaker

\* The routes built so far, and how their breakers are tuned.
Led ==
  /\ routes \in Seq(Range(routes)) /\ Len(routes) = next - 1
  /\ \A j \in Handled :
       /\ routes[j].prefix = cfg.routes[j].prefix
       /\ routes[j].upstream = upstreams[Name(j)]
       /\ upstreams[Name(j)].health = Health(cfg.routes[j])
       /\ tuning[upstreams[Name(j)].breaker] = NewTuning(cfg.routes[j])

BuildInv ==
  /\ cfg \in Configs
  /\ next \in 1..Len(cfg.routes) + 1
  /\ phase \in {"globals", "validate", "construct", "done"}
  /\ phase = "globals" => next = 1 /\ seenPrefixes = {} /\ Untouched
                          /\ cooldownByName = EmptyMap /\ healthByName = EmptyMap
  /\ phase = "validate" => Checked /\ Untouched
  /\ phase = "construct" => Accepts(cfg) /\ Numbered /\ Separate /\ Led
  /\ phase # "done" => verdict = "Ok"
  /\ phase = "done" /\ verdict # "Ok" => ~Accepts(cfg) /\ Untouched
  /\ phase = "done" /\ verdict = "Ok" => Accepts(cfg) /\ BreakersAreShared /\ InLookupOrder

\* A config is a list of routes.
LEMMA RoutesAreAList ==
  ASSUME NEW c \in Configs
  PROVE  /\ Len(c.routes) \in Nat
         /\ DOMAIN c.routes = 1..Len(c.routes)
         /\ \A k \in DOMAIN c.routes : Len(c.routes[k].prefix) \in Nat
BY RoutesAssumption

\* The number of breakers of the previous table is a number.
LEMMA PreviousIsFinite == Cardinality(Previous) \in Nat
BY PreviousAssumption, FS_CardinalityType, Zenon

\* build_table starts with nothing checked and nothing built.
LEMMA BuildInitInv == BuildInit => BuildInv
<1> SUFFICES ASSUME BuildInit PROVE BuildInv
  BY Zenon
<1>1. next \in 1..Len(cfg.routes) + 1
  BY RoutesAreAList DEF BuildInit
<1>2. QED
  BY <1>1, Zenon DEF BuildInit, BuildInv, Untouched

\* The checks of the settings that concern no single route.
LEMMA ValidateGlobalsInv == BuildInv /\ ValidateGlobals => BuildInv'
<1> SUFFICES ASSUME BuildInv, ValidateGlobals PROVE BuildInv'
  BY Zenon
<1> USE DEF Reject, checks, built
<1>1. CASE FirstError(GlobalChecks(cfg)) # "Ok"
  <2>1. ~Accepts(cfg)
    BY <1>1, Zenon DEF Accepts
  <2>2. /\ phase' = "done" /\ verdict' # "Ok"
        /\ UNCHANGED <<cfg, next, checks, built>>
    BY <1>1, Zenon DEF ValidateGlobals
  <2>3. ~Accepts(cfg)' /\ Untouched'
    BY <2>1, <2>2, Zenon DEF BuildInv, ValidateGlobals, Untouched
  <2>4. QED
    BY <2>2, <2>3, Zenon DEF BuildInv
<1>2. CASE FirstError(GlobalChecks(cfg)) = "Ok"
  <2>1. phase' = "validate" /\ UNCHANGED <<cfg, next, checks, verdict, built>>
    BY <1>2, Zenon DEF ValidateGlobals
  <2>2. next = 1 /\ Untouched /\ seenPrefixes = {}
        /\ cooldownByName = EmptyMap /\ healthByName = EmptyMap
    BY Zenon DEF BuildInv, ValidateGlobals
  <2>3. Handled = {}
    BY <2>2, RoutesAreAList DEF Handled, BuildInv
  <2>4. Checked
    BY <1>2, <2>2, <2>3, SMTT(30) DEF Checked, EmptyMap
  <2>5. Checked' /\ Untouched'
    BY <2>1, <2>2, <2>4, ZenonT(40) DEF Checked, Handled, Untouched, Name
  <2>6. QED
    BY <2>1, <2>5, Zenon DEF BuildInv, ValidateGlobals
<1>3. QED
  BY <1>1, <1>2, Zenon

\* A route that fails a check makes the config unsound: what it is checked
\* against was said by an earlier route.
LEMMA RejectedIsUnsound ==
  ASSUME BuildInv, phase = "validate", next \in DOMAIN cfg.routes,
         FirstError(RouteChecks(cfg, cfg.routes[next], seenPrefixes, cooldownByName, healthByName))
           # "Ok"
  PROVE  ~Accepts(cfg)
<1> DEFINE r == cfg.routes[next]
<1>1. Checked
  BY Zenon DEF BuildInv
<1>2. \A j \in Handled : j \in DOMAIN cfg.routes /\ j # next
  BY RoutesAreAList DEF Handled, BuildInv
<1>3. \/ ~SoundRoute(cfg, r)
      \/ r.prefix \in seenPrefixes
      \/ Name(next) \in DOMAIN cooldownByName /\ cooldownByName[Name(next)] # Cooldown(cfg, r)
      \/ Name(next) \in DOMAIN healthByName /\ healthByName[Name(next)] # Health(r)
  BY RouteChecksOk DEF Name
<1>4. CASE ~SoundRoute(cfg, r)
  BY <1>4, Zenon DEF Accepts
<1>5. CASE r.prefix \in seenPrefixes
  <2>1. PICK j \in Handled : cfg.routes[j].prefix = r.prefix
    BY <1>1, <1>5, Zenon DEF Checked
  <2>2. QED
    BY <1>2, <2>1, Zenon DEF Accepts, Compatible
<1>6. CASE Name(next) \in DOMAIN cooldownByName /\ cooldownByName[Name(next)] # Cooldown(cfg, r)
  <2>1. PICK j \in Handled : Name(j) = Name(next)
    BY <1>1, <1>6, Zenon DEF Checked
  <2>2. cooldownByName[Name(j)] = Cooldown(cfg, cfg.routes[j])
    BY <1>1, Zenon DEF Checked
  <2>3. ~Compatible(cfg, cfg.routes[j], cfg.routes[next])
    BY <1>6, <2>1, <2>2, Zenon DEF Compatible, Name
  <2>4. QED
    BY <1>2, <2>3, Zenon DEF Accepts
<1>7. CASE Name(next) \in DOMAIN healthByName /\ healthByName[Name(next)] # Health(r)
  <2>1. PICK j \in Handled : Name(j) = Name(next)
    BY <1>1, <1>7, Zenon DEF Checked
  <2>2. healthByName[Name(j)] = Health(cfg.routes[j])
    BY <1>1, Zenon DEF Checked
  <2>3. ~Compatible(cfg, cfg.routes[j], cfg.routes[next])
    BY <1>7, <2>1, <2>2, Zenon DEF Compatible, Name
  <2>4. QED
    BY <1>2, <2>3, Zenon DEF Accepts
<1>8. QED
  BY <1>3, <1>4, <1>5, <1>6, <1>7, Zenon

\* One round of the first loop.
LEMMA ValidateRouteInv == BuildInv /\ ValidateRoute => BuildInv'
<1> SUFFICES ASSUME BuildInv, ValidateRoute PROVE BuildInv'
  BY Zenon
<1> DEFINE r == cfg.routes[next]
           error == FirstError(RouteChecks(cfg, r, seenPrefixes, cooldownByName, healthByName))
<1>1. phase = "validate" /\ next \in DOMAIN cfg.routes /\ Checked /\ Untouched
  BY Zenon DEF BuildInv, ValidateRoute
<1>2. CASE error # "Ok"
  <2>1. ~Accepts(cfg)
    BY <1>1, <1>2, RejectedIsUnsound, Zenon
  <2>2. phase' = "done" /\ verdict' # "Ok" /\ UNCHANGED <<cfg, next, built>>
    BY <1>2, Zenon DEF ValidateRoute, Reject
  <2>3. ~Accepts(cfg)' /\ Untouched'
    BY <1>1, <2>1, <2>2, Zenon DEF Untouched, built
  <2>4. QED
    BY <2>2, <2>3, Zenon DEF BuildInv
<1>3. CASE error = "Ok"
  <2>1. /\ seenPrefixes' = seenPrefixes \cup {r.prefix}
        /\ cooldownByName' = Put(cooldownByName, Name(next), Cooldown(cfg, r))
        /\ healthByName' = Put(healthByName, Name(next), Health(r))
        /\ next' = next + 1
        /\ UNCHANGED <<cfg, phase, verdict, built>>
    BY <1>3, Zenon DEF ValidateRoute, Name
  <2>2. /\ SoundRoute(cfg, r)
        /\ r.prefix \notin seenPrefixes
        /\ Name(next) \in DOMAIN cooldownByName => cooldownByName[Name(next)] = Cooldown(cfg, r)
        /\ Name(next) \in DOMAIN healthByName => healthByName[Name(next)] = Health(r)
    BY <1>3, RouteChecksOk DEF Name
  <2>3. Handled' = Handled \cup {next}
    BY <1>1, <2>1, RoutesAreAList DEF Handled, BuildInv
  <2>4. Untouched'
    BY <1>1, <2>1, Zenon DEF Untouched, built
  <2>5. Checked'
    <3>1. \A j : Name(j)' = Name(j)
      BY <2>1, Zenon DEF Name
    <3>2. seenPrefixes' = {cfg.routes[j].prefix : j \in Handled}'
      BY <1>1, <2>1, <2>3, Zenon DEF Checked
    <3>3. DOMAIN cooldownByName' = {Name(j) : j \in Handled}'
      BY <1>1, <2>1, <2>3, <3>1, Zenon DEF Checked, Put
    <3>4. DOMAIN healthByName' = {Name(j) : j \in Handled}'
      BY <1>1, <2>1, <2>3, <3>1, Zenon DEF Checked, Put
    <3>5. \A j \in Handled' :
            /\ SoundRoute(cfg, cfg.routes[j])'
            /\ cooldownByName'[Name(j)] = Cooldown(cfg, cfg.routes[j])
            /\ healthByName'[Name(j)] = Health(cfg.routes[j])
      <4>1. \A j \in Handled : /\ SoundRoute(cfg, cfg.routes[j])
                               /\ Name(j) \in DOMAIN cooldownByName
                               /\ Name(j) \in DOMAIN healthByName
                               /\ cooldownByName[Name(j)] = Cooldown(cfg, cfg.routes[j])
                               /\ healthByName[Name(j)] = Health(cfg.routes[j])
        BY <1>1, SMTT(30) DEF Checked
      <4>2. QED
        BY <4>1, <2>1, <2>2, <2>3, Zenon DEF Put
    <3>6. \A j \in Handled : /\ Compatible(cfg, cfg.routes[j], r)
                             /\ Compatible(cfg, r, cfg.routes[j])
      BY <1>1, <2>2, ZenonT(40) DEF Checked, Compatible, Name
    <3>7. \A j, k \in Handled' : j # k => Compatible(cfg, cfg.routes[j], cfg.routes[k])
      BY <1>1, <2>3, <3>6, Zenon DEF Checked
    <3>8. QED
      BY <1>1, <2>1, <3>1, <3>2, <3>3, <3>4, <3>5, <3>7, Zenon DEF Checked
  <2>6. next' \in 1..Len(cfg'.routes) + 1
    BY <1>1, <2>1, RoutesAreAList DEF BuildInv
  <2>7. QED
    BY <1>1, <2>1, <2>4, <2>5, <2>6, Zenon DEF BuildInv
<1>4. QED
  BY <1>2, <1>3, Zenon

\* The first loop is over: the config is sound, and nothing is built yet.
LEMMA ValidateEndInv == BuildInv /\ ValidateEnd => BuildInv'
<1> SUFFICES ASSUME BuildInv, ValidateEnd PROVE BuildInv'
  BY Zenon
<1>1. /\ phase' = "construct" /\ next' = 1 /\ verdict' = "Ok"
      /\ UNCHANGED <<cfg, upstreams, routes, tuning>>
  BY Zenon DEF BuildInv, ValidateEnd, built
<1>2. Checked /\ Untouched
  BY Zenon DEF BuildInv, ValidateEnd
<1>3. Handled = DOMAIN cfg.routes
  BY RoutesAreAList DEF Handled, BuildInv, ValidateEnd
<1>4. Accepts(cfg)'
  BY <1>1, <1>2, <1>3, Zenon DEF Accepts, Checked
<1>5. Handled' = {} /\ next' \in 1..Len(cfg'.routes) + 1
  BY <1>1, RoutesAreAList DEF Handled, BuildInv
<1>6. Numbered'
  <2>1. DOMAIN tuning' = 1..Cardinality(Previous)
    BY <1>1, <1>2, Zenon DEF Untouched
  <2>2. Cardinality(1..Cardinality(Previous)) = Cardinality(Previous)
    BY PreviousIsFinite, FS_Interval
  <2>3. QED
    BY <2>1, <2>2, PreviousIsFinite DEF Numbered
<1>7. Separate'
  BY <1>1, <1>2, <1>5, Zenon DEF Separate, Untouched, EmptyMap
<1>8. Led'
  BY <1>1, <1>2, <1>5 DEF Led, Untouched
<1>9. QED
  BY <1>1, <1>4, <1>5, <1>6, <1>7, <1>8, Zenon DEF BuildInv

\* A list stays a list when an element is added at its end.
LEMMA AppendToList ==
  ASSUME NEW s, s \in Seq(Range(s)), NEW e
  PROVE  /\ Append(s, e) \in Seq(Range(Append(s, e)))
         /\ Len(Append(s, e)) = Len(s) + 1
         /\ \A k \in 1..Len(s) : Append(s, e)[k] = s[k]
         /\ Append(s, e)[Len(s) + 1] = e
<1> DEFINE T == Range(s) \cup {e}
<1>1. s \in Seq(T) /\ e \in T
  OBVIOUS
<1>2. /\ Append(s, e) \in Seq(T)
      /\ Len(Append(s, e)) = Len(s) + 1
      /\ \A k \in 1..Len(s) : Append(s, e)[k] = s[k]
      /\ Append(s, e)[Len(s) + 1] = e
  BY <1>1
<1>3. Append(s, e) \in Seq(Range(Append(s, e)))
  BY <1>2 DEF Range
<1>4. QED
  BY <1>2, <1>3, Zenon

\* A route is built that leads to upstream u, which is the one the new table
\* knows by that name and is tuned and probed as the route says.
LEMMA RouteIsBuilt ==
  ASSUME BuildInv, phase = "construct", next \in DOMAIN cfg.routes, NEW u,
         u = upstreams'[Name(next)],
         u.health = Health(cfg.routes[next]),
         tuning'[u.breaker] = NewTuning(cfg.routes[next]),
         \A j \in Handled : /\ upstreams'[Name(j)] = upstreams[Name(j)]
                            /\ tuning'[upstreams[Name(j)].breaker] = tuning[upstreams[Name(j)].breaker],
         routes' = Append(routes, [prefix |-> cfg.routes[next].prefix, upstream |-> u]),
         next' = next + 1,
         UNCHANGED <<cfg, phase, verdict>>,
         Numbered', Separate'
  PROVE  BuildInv'
<1> DEFINE e == [prefix |-> cfg.routes[next].prefix, upstream |-> u]
<1>1. Accepts(cfg) /\ Led /\ next \in Nat
  BY RoutesAreAList DEF BuildInv
<1>2. Handled' = Handled \cup {next} /\ next' \in 1..Len(cfg'.routes) + 1
  BY RoutesAreAList DEF Handled, BuildInv
<1>3. \A j \in Handled : j \in 1..(next - 1)
  BY <1>1, RoutesAreAList DEF Handled, BuildInv
<1>4. /\ routes' \in Seq(Range(routes')) /\ Len(routes') = next
      /\ \A j \in Handled : routes'[j] = routes[j]
      /\ routes'[next] = e
  <2>1. routes \in Seq(Range(routes)) /\ Len(routes) = next - 1
    BY <1>1, Zenon DEF Led
  <2>2. routes' = Append(routes, e)
    BY SMTT(30)
  <2> HIDE DEF e
  <2>3. QED
    BY <1>1, <1>3, <2>1, <2>2, AppendToList
<1>5. \A j : Name(j)' = Name(j) /\ NewTuning(cfg.routes[j])' = NewTuning(cfg.routes[j])
  BY Zenon DEF Name, NewTuning
<1>6. \A j \in Handled :
        /\ routes'[j].prefix = cfg.routes[j].prefix
        /\ routes'[j].upstream = upstreams'[Name(j)]
        /\ upstreams'[Name(j)].health = Health(cfg.routes[j])
        /\ tuning'[upstreams'[Name(j)].breaker] = NewTuning(cfg.routes[j])
  BY <1>1, <1>4, ZenonT(40) DEF Led
<1>7. Led'
  <2>1. \A j \in Handled' :
          /\ routes'[j].prefix = cfg.routes[j].prefix
          /\ routes'[j].upstream = upstreams'[Name(j)]
          /\ upstreams'[Name(j)].health = Health(cfg.routes[j])
          /\ tuning'[upstreams'[Name(j)].breaker] = NewTuning(cfg.routes[j])
    <3>1. routes'[next].prefix = cfg.routes[next].prefix /\ routes'[next].upstream = u
      BY <1>4
    <3>2. QED
      BY <1>2, <1>6, <3>1, Zenon
  <2>2. \A j \in Handled' :
          /\ routes'[j].prefix = cfg'.routes[j].prefix
          /\ routes'[j].upstream = upstreams'[Name(j)']
          /\ upstreams'[Name(j)'].health = Health(cfg'.routes[j])
          /\ tuning'[upstreams'[Name(j)'].breaker] = NewTuning(cfg.routes[j])'
    BY <1>5, <2>1, Zenon
  <2>3. routes' \in Seq(Range(routes')) /\ Len(routes') = next' - 1
    BY <1>1, <1>4
  <2>4. QED
    BY <2>2, <2>3, Zenon DEF Led
<1>8. QED
  BY <1>1, <1>2, <1>7, Zenon DEF BuildInv

\* The upstream of the route is not in the new table yet: it goes in, with a
\* breaker that is the previous one of that name, or nobody's so far.
LEMMA InstallInv ==
  ASSUME BuildInv, phase = "construct", next \in DOMAIN cfg.routes, NEW u,
         Name(next) \notin DOMAIN upstreams,
         u.name = Name(next), u.health = Health(cfg.routes[next]),
         \A m \in DOMAIN upstreams : upstreams[m].breaker # u.breaker,
         \A p \in Previous : u.name = p.name <=> u.breaker = p.breaker,
         Install(cfg.routes[next], u),
         next' = next + 1,
         UNCHANGED <<cfg, phase, verdict>>,
         Numbered'
  PROVE  BuildInv'
<1>1. Separate /\ Led
  BY Zenon DEF BuildInv
<1>2. /\ upstreams' = Put(upstreams, Name(next), u)
      /\ tuning' = Put(tuning, u.breaker, NewTuning(cfg.routes[next]))
      /\ routes' = Append(routes, [prefix |-> cfg.routes[next].prefix, upstream |-> u])
  BY Zenon DEF Install
<1>3. Handled' = Handled \cup {next} /\ \A j : Name(j)' = Name(j)
  BY RoutesAreAList DEF Handled, BuildInv, Name
<1>4. /\ DOMAIN upstreams' = DOMAIN upstreams \cup {Name(next)}
      /\ upstreams'[Name(next)] = u
      /\ \A m \in DOMAIN upstreams : upstreams'[m] = upstreams[m]
  BY <1>2, Zenon DEF Put
<1>5. /\ DOMAIN tuning' = DOMAIN tuning \cup {u.breaker}
      /\ tuning'[u.breaker] = NewTuning(cfg.routes[next])
      /\ \A b \in DOMAIN tuning : b # u.breaker => tuning'[b] = tuning[b]
  BY <1>2, Zenon DEF Put
<1>6. \A j \in Handled : Name(j) \in DOMAIN upstreams
  BY <1>1, Zenon DEF Separate
<1>7. \A j \in Handled : /\ upstreams'[Name(j)] = upstreams[Name(j)]
                         /\ tuning'[upstreams[Name(j)].breaker] = tuning[upstreams[Name(j)].breaker]
  BY <1>1, <1>4, <1>5, <1>6 DEF Separate
<1>8. Separate'
  <2>1. DOMAIN upstreams' = {Name(j) : j \in Handled}'
    BY <1>1, <1>3, <1>4 DEF Separate
  <2>2. ASSUME NEW m \in DOMAIN upstreams'
        PROVE  /\ upstreams'[m].name = m
               /\ upstreams'[m].breaker \in DOMAIN tuning'
               /\ \A n \in DOMAIN upstreams' : upstreams'[m].breaker = upstreams'[n].breaker => m = n
               /\ \A p \in Previous : m = p.name <=> upstreams'[m].breaker = p.breaker
    BY <1>1, <1>4, <1>5, SMTT(30) DEF Separate
  <2>3. QED
    BY <2>1, <2>2, Zenon DEF Separate
<1>9. QED
  BY <1>2, <1>4, <1>5, <1>7, <1>8, RouteIsBuilt, Zenon

\* The upstream of the route is in the new table: an earlier route led to it,
\* and agreed on its tuning and its health checks.
LEMMA SharedInv ==
  ASSUME BuildInv, phase = "construct", next \in DOMAIN cfg.routes,
         Name(next) \in DOMAIN upstreams,
         routes' = Append(routes, [prefix |-> cfg.routes[next].prefix,
                                   upstream |-> upstreams[Name(next)]]),
         next' = next + 1,
         UNCHANGED <<cfg, phase, verdict, upstreams, tuning>>
  PROVE  BuildInv'
<1>1. Accepts(cfg) /\ Numbered /\ Separate /\ Led
  BY Zenon DEF BuildInv
<1>2. PICK j \in Handled : Name(j) = Name(next)
  BY <1>1 DEF Separate
<1>3. j # next /\ j \in DOMAIN cfg.routes
  BY RoutesAreAList DEF Handled, BuildInv
<1>4. Compatible(cfg, cfg.routes[j], cfg.routes[next])
  BY <1>1, <1>3, Zenon DEF Accepts
<1>5. /\ Health(cfg.routes[j]) = Health(cfg.routes[next])
      /\ NewTuning(cfg.routes[j]) = NewTuning(cfg.routes[next])
  BY <1>2, <1>4, Zenon DEF Compatible, Name, NewTuning
<1>6. /\ upstreams[Name(next)].health = Health(cfg.routes[next])
      /\ tuning[upstreams[Name(next)].breaker] = NewTuning(cfg.routes[next])
  BY <1>1, <1>2, <1>5, Zenon DEF Led
<1>7. Handled' = Handled \cup {next} /\ \A k : Name(k)' = Name(k)
  BY RoutesAreAList DEF Handled, BuildInv, Name
<1>8. Separate'
  <2> DEFINE names(S) == {Name(k) : k \in S}
  <2>1. names(Handled)' = names(Handled \cup {next})
    BY <1>7, Zenon DEF Name
  <2>2. Name(next) \in names(Handled)
    BY <1>2, Zenon
  <2>3. ASSUME NEW S, NEW N, N = names(S), Name(next) \in N
        PROVE  names(S \cup {next}) = N
    BY <2>3, Zenon
  <2>4. QED
    BY <1>1, <2>1, <2>2, <2>3, Zenon DEF Separate
<1>9. Numbered'
  BY <1>1, Zenon DEF Numbered
<1>10. QED
  BY <1>6, <1>8, <1>9, RouteIsBuilt, Zenon

\* The previous table knew the upstream: its breaker is kept.
LEMMA ReuseInv ==
  ASSUME BuildInv, phase = "construct", next \in DOMAIN cfg.routes,
         Name(next) \notin DOMAIN upstreams,
         NEW p \in Previous, p.name = Name(next),
         Install(cfg.routes[next], Reuse(p, cfg.routes[next])),
         next' = next + 1,
         UNCHANGED <<cfg, phase, verdict>>
  PROVE  BuildInv'
<1> DEFINE u == Reuse(p, cfg.routes[next])
<1>1. Numbered /\ Separate
  BY Zenon DEF BuildInv
<1>2. u.name = p.name /\ u.breaker = p.breaker /\ u.health = Health(cfg.routes[next])
  BY PreviousAssumption DEF Reuse
<1>3. p.breaker \in 1..Cardinality(Previous)
  BY PreviousAssumption, Zenon
<1> HIDE DEF u
<1>4. \A m \in DOMAIN upstreams : upstreams[m].breaker # u.breaker
  BY <1>1, <1>2 DEF Separate
<1>5. \A q \in Previous : u.name = q.name <=> u.breaker = q.breaker
  BY <1>2, PreviousAssumption, Zenon
<1>6. Numbered'
  <2>1. u.breaker \in DOMAIN tuning
    BY <1>1, <1>2, <1>3, PreviousIsFinite DEF Numbered
  <2>2. DOMAIN tuning' = DOMAIN tuning
    BY <2>1, Zenon DEF Install, Put, u
  <2>3. QED
    BY <1>1, <2>2, Zenon DEF Numbered
<1>7. Install(cfg.routes[next], u)
  BY Zenon DEF u
<1>8. QED
  BY <1>2, <1>4, <1>5, <1>6, <1>7, InstallInv

\* Nobody knew the upstream: it gets a breaker of its own.
LEMMA NewUpstreamInv ==
  ASSUME BuildInv, phase = "construct", next \in DOMAIN cfg.routes,
         Name(next) \notin DOMAIN upstreams,
         \A p \in Previous : p.name # Name(next),
         Install(cfg.routes[next], NewUpstream(cfg.routes[next])),
         next' = next + 1,
         UNCHANGED <<cfg, phase, verdict>>
  PROVE  BuildInv'
<1> DEFINE u == NewUpstream(cfg.routes[next])
           n == Cardinality(DOMAIN tuning)
<1>1. Numbered /\ Separate
  BY Zenon DEF BuildInv
<1>2. u.name = Name(next) /\ u.breaker = n + 1 /\ u.health = Health(cfg.routes[next])
  BY Zenon DEF NewUpstream, Name
<1>3. \A p \in Previous : p.breaker \in 1..Cardinality(Previous)
  BY PreviousAssumption, Zenon
<1>4. Install(cfg.routes[next], u)
  BY Zenon
<1>5. n \in Nat /\ n >= Cardinality(Previous) /\ DOMAIN tuning = 1..n
  BY <1>1, Zenon DEF Numbered
<1> HIDE DEF u, n
<1>6. \A m \in DOMAIN upstreams : upstreams[m].breaker # u.breaker
  BY <1>1, <1>2, <1>5 DEF Separate
<1>7. \A p \in Previous : u.name = p.name <=> u.breaker = p.breaker
  BY <1>2, <1>3, <1>5, PreviousIsFinite
<1>8. Numbered'
  <2>1. DOMAIN tuning' = DOMAIN tuning \cup {u.breaker}
    BY <1>4, Zenon DEF Install, Put
  <2>2. DOMAIN tuning' = 1..(n + 1)
    BY <1>2, <1>5, <2>1
  <2>3. Cardinality(1..(n + 1)) = n + 1
    BY <1>5, FS_Interval
  <2>4. QED
    BY <1>5, <2>2, <2>3, PreviousIsFinite DEF Numbered
<1>9. QED
  BY <1>2, <1>4, <1>6, <1>7, <1>8, InstallInv, Zenon

\* One round of the second loop.
LEMMA ConstructRouteInv == BuildInv /\ ConstructRoute => BuildInv'
<1> SUFFICES ASSUME BuildInv, ConstructRoute PROVE BuildInv'
  BY Zenon
<1> DEFINE r == cfg.routes[next]
<1>1. /\ phase = "construct" /\ next \in DOMAIN cfg.routes
      /\ next' = next + 1 /\ UNCHANGED <<cfg, phase, verdict>>
  BY Zenon DEF ConstructRoute
<1>2. CASE /\ Name(next) \in DOMAIN upstreams
           /\ routes' = Append(routes, [prefix |-> r.prefix, upstream |-> upstreams[Name(next)]])
           /\ UNCHANGED <<upstreams, tuning>>
  BY <1>1, <1>2, SharedInv, Zenon
<1>3. CASE /\ Name(next) \notin DOMAIN upstreams
           /\ \E p \in Previous : p.name = Name(next) /\ Install(r, Reuse(p, r))
  BY <1>1, <1>3, ReuseInv, Zenon
<1>4. CASE /\ Name(next) \notin DOMAIN upstreams
           /\ \A p \in Previous : p.name # Name(next)
           /\ Install(r, NewUpstream(r))
  BY <1>1, <1>4, NewUpstreamInv, Zenon
<1>5. QED
  BY <1>2, <1>3, <1>4, Zenon DEF ConstructRoute, Name

\* A sort loses no route and invents none; it puts longer prefixes first.
LEMMA FinishInv == BuildInv /\ Finish => BuildInv'
<1> SUFFICES ASSUME BuildInv, Finish PROVE BuildInv'
  BY Zenon
<1> DEFINE n == Len(cfg.routes)
<1>1. /\ phase = "construct" /\ next \notin DOMAIN cfg.routes /\ phase' = "done"
      /\ routes' = ByPrefixLength(routes)
      /\ UNCHANGED <<cfg, next, checks, verdict, upstreams, tuning>>
  BY Zenon DEF Finish
<1>2. /\ Accepts(cfg) /\ Numbered /\ Separate /\ Led
      /\ verdict = "Ok" /\ cfg \in Configs /\ next \in 1..n + 1
  BY <1>1, Zenon DEF BuildInv
<1>3. n \in Nat /\ DOMAIN cfg.routes = 1..n
  BY <1>2, RoutesAreAList, Zenon
<1>4. next = n + 1 /\ Handled = 1..n
  BY <1>1, <1>2, <1>3 DEF Handled
<1>5. DOMAIN routes = 1..n /\ Len(routes) = n
  BY <1>2, <1>3, <1>4 DEF Led
<1>6. \A j \in 1..n :
         /\ routes[j].prefix = cfg.routes[j].prefix
         /\ routes[j].upstream = upstreams[Name(j)]
         /\ upstreams[Name(j)].health = Health(cfg.routes[j])
         /\ tuning[upstreams[Name(j)].breaker] = NewTuning(cfg.routes[j])
  BY <1>2, <1>4, Zenon DEF Led
<1>7. \A j \in DOMAIN routes : Len(routes[j].prefix) \in Nat
  BY <1>2, <1>3, <1>5, <1>6, RoutesAssumption, Zenon
<1> HIDE DEF n
<1>8. PICK f : Sorts(routes, n, f)
  <2>1. \E f : Sorts(routes, n, f)
    BY <1>3, <1>5, <1>7, SortIsAPermutation, Zenon
  <2>2. QED
    BY <2>1, Zenon
<1>9. DOMAIN routes' = 1..n
  BY <1>1, <1>3, <1>5, <1>7, SortIsAPermutation, Zenon
<1>10. /\ \A m \in 1..n : f[m] \in 1..n /\ routes'[m] = routes[f[m]]
       /\ \A l, m \in 1..n : f[l] = f[m] => l = m
       /\ \A k \in 1..n : \E m \in 1..n : f[m] = k
       /\ \A l, m \in 1..n : l < m => NoLater(routes, f[l], f[m])
  BY <1>1, <1>8, Zenon DEF Sorts
<1>11. \A m \in 1..n :
         /\ routes'[m].prefix = cfg.routes[f[m]].prefix
         /\ routes'[m].upstream = upstreams[Name(f[m])]
         /\ Name(f[m]) \in DOMAIN upstreams
         /\ routes'[m].upstream.name = Name(f[m])
  <2> TAKE m \in 1..n
  <2>1. f[m] \in 1..n /\ routes'[m] = routes[f[m]]
    BY <1>10, Zenon
  <2>2. Name(f[m]) \in DOMAIN upstreams
    BY <1>2, <1>4, <2>1 DEF Separate
  <2>3. upstreams[Name(f[m])].name = Name(f[m])
    BY <1>2, <2>2, Zenon DEF Separate
  <2>4. QED
    BY <1>6, <2>1, <2>2, <2>3, Zenon
<1>12. Len(routes') = n
  BY <1>1, <1>3, <1>9 DEF ByPrefixLength
<1>13. BreakersAreShared'
  <2>1. ASSUME NEW j \in 1..n, NEW k \in 1..n
        PROVE  routes'[j].upstream.name = routes'[k].upstream.name
                 <=> routes'[j].upstream.breaker = routes'[k].upstream.breaker
    <3>1. \A a, b \in DOMAIN upstreams : upstreams[a].breaker = upstreams[b].breaker => a = b
      BY <1>2, Zenon DEF Separate
    <3>2. QED
      BY <1>11, <3>1
  <2>2. ASSUME NEW j \in 1..n, NEW p \in Previous
        PROVE  routes'[j].upstream.name = p.name <=> routes'[j].upstream.breaker = p.breaker
    <3>1. \A a \in DOMAIN upstreams : a = p.name <=> upstreams[a].breaker = p.breaker
      BY <1>2, Zenon DEF Separate
    <3>2. QED
      BY <1>11, <3>1
  <2>3. ASSUME NEW j \in 1..n
        PROVE  \E k \in 1..n :
                 /\ routes'[k].prefix = cfg.routes[j].prefix
                 /\ routes'[k].upstream.name = cfg.routes[j].uri.name
                 /\ routes'[k].upstream.health = Health(cfg.routes[j])
                 /\ tuning[routes'[k].upstream.breaker] = NewTuning(cfg.routes[j])
    <3>1. PICK k \in 1..n : f[k] = j
      BY <1>10, Zenon
    <3>2. QED
      BY <1>6, <1>11, <3>1 DEF Name
  <2>4. Len(routes') = Len(cfg.routes)
    BY <1>12, Zenon DEF n
  <2>5. /\ DOMAIN routes' = 1..n /\ DOMAIN cfg.routes = 1..n
        /\ tuning' = tuning /\ cfg' = cfg /\ \A r : NewTuning(r)' = NewTuning(r)
    BY <1>1, <1>3, <1>9, Zenon DEF NewTuning
  <2>6. QED
    BY <2>1, <2>2, <2>3, <2>4, <2>5, ZenonT(40) DEF BreakersAreShared
<1>14. InLookupOrder'
  <2>1. ASSUME NEW k \in 1..n PROVE Normalize(routes'[k].prefix) = routes'[k].prefix
    <3>1. SoundRoute(cfg, cfg.routes[f[k]])
      BY <1>2, <1>3, <1>10, Zenon DEF Accepts
    <3>2. QED
      BY <1>11, <3>1, Zenon DEF SoundRoute, Canonical
  <2>2. ASSUME NEW j \in 1..n, NEW k \in 1..n, j < k
        PROVE  /\ Len(routes'[j].prefix) >= Len(routes'[k].prefix)
               /\ routes'[j].prefix # routes'[k].prefix
    <3>1. f[j] \in 1..n /\ f[k] \in 1..n /\ f[j] # f[k]
      <4>1. j # k
        BY <1>3, <2>2
      <4>2. QED
        BY <1>10, <4>1, Zenon
    <3>2. Compatible(cfg, cfg.routes[f[j]], cfg.routes[f[k]])
      BY <1>2, <1>3, <3>1, Zenon DEF Accepts
    <3>3. NoLater(routes, f[j], f[k])
      BY <1>10, <2>2, Zenon
    <3>4. routes'[j] = routes[f[j]] /\ routes'[k] = routes[f[k]]
      BY <1>10, Zenon
    <3>5. Len(routes[f[j]].prefix) \in Nat /\ Len(routes[f[k]].prefix) \in Nat
      BY <1>5, <1>7, <3>1, Zenon
    <3>6. Len(routes'[j].prefix) >= Len(routes'[k].prefix)
      <4>1. \A x, y \in Nat : x > y \/ x = y => x >= y
        OBVIOUS
      <4>2. Len(routes[f[j]].prefix) >= Len(routes[f[k]].prefix)
        BY <3>3, <3>5, <4>1, Zenon DEF NoLater
      <4>3. QED
        BY <3>4, <4>2, Zenon
    <3>7. QED
      BY <1>11, <3>2, <3>6, Zenon DEF Compatible
  <2>3. QED
    BY <1>9, <2>1, <2>2, Zenon DEF InLookupOrder
<1>15. QED
  BY <1>1, <1>2, <1>13, <1>14, Zenon DEF BuildInv

\* A step that changes nothing.
LEMMA BuildStutter == BuildInv /\ UNCHANGED bvars => BuildInv'
<1> SUFFICES ASSUME BuildInv, UNCHANGED bvars PROVE BuildInv'
  BY Zenon
<1>1. UNCHANGED <<cfg, phase, next, verdict, seenPrefixes, cooldownByName, healthByName,
                  upstreams, tuning, routes>>
  BY Zenon DEF bvars, checks, built
<1>2. /\ Untouched => Untouched'
      /\ Checked => Checked'
      /\ Numbered => Numbered'
      /\ Separate => Separate'
      /\ Led => Led'
      /\ BreakersAreShared => BreakersAreShared'
      /\ InLookupOrder => InLookupOrder'
  <2>1. /\ Handled' = Handled
        /\ \A j : Name(j)' = Name(j)
        /\ \A r : NewTuning(r)' = NewTuning(r)
    BY <1>1, Zenon DEF Handled, Name, NewTuning
  <2>2. (Untouched => Untouched') /\ (Numbered => Numbered') /\ (InLookupOrder => InLookupOrder')
    BY <1>1, SMTT(30) DEF Untouched, Numbered, InLookupOrder
  <2>3. Checked => Checked'
    BY <1>1, <2>1, Zenon DEF Checked
  <2>4. Separate => Separate'
    BY <1>1, <2>1 DEF Separate
  <2>5. Led => Led'
    BY <1>1, <2>1, Zenon DEF Led
  <2>6. BreakersAreShared => BreakersAreShared'
    BY <1>1, <2>1, ZenonT(40) DEF BreakersAreShared
  <2>7. QED
    BY <2>2, <2>3, <2>4, <2>5, <2>6, Zenon
<1>3. QED
  BY <1>1, <1>2, Zenon DEF BuildInv

\* The inductive invariant, for every set of configs and every previous table.
LEMMA BuildInvariant == BuildSpec => []BuildInv
<1>1. BuildInv /\ [BuildNext]_bvars => BuildInv'
  BY ValidateGlobalsInv, ValidateRouteInv, ValidateEndInv, ConstructRouteInv, FinishInv,
     BuildStutter, Zenon DEF BuildNext
<1>2. QED
  BY <1>1, BuildInitInv, PTL DEF BuildSpec

\* build_table accepts a config exactly if its routes are sound and agree
\* pairwise, however many routes it has and in whatever order they come.
THEOREM SoundConfigsAreAccepted == BuildSpec => []AcceptsExactlyTheSound
<1>1. BuildInv => AcceptsExactlyTheSound
  BY Zenon DEF BuildInv, AcceptsExactlyTheSound
<1>2. QED
  BY <1>1, BuildInvariant, PTL

\* A config that build_table rejects leaves every breaker of the live table as
\* it was, at every moment of the call ("Fails without side effects").
THEOREM RejectionIsHarmless == BuildSpec => []RejectionHasNoEffect
<1>1. BuildInv => RejectionHasNoEffect
  BY Zenon DEF BuildInv, RejectionHasNoEffect, Untouched
<1>2. QED
  BY <1>1, BuildInvariant, PTL

\* In a finished table every route of the config is there, upstreams and
\* breakers are one to one, the breakers of the previous table are kept, and
\* each is tuned as its routes say (reuse, Upstream::new).
THEOREM OneBreakerPerUpstream == BuildSpec => []BreakersAreShared
<1>1. BuildInv => BreakersAreShared
  BY Zenon DEF BuildInv, BreakersAreShared
<1>2. QED
  BY <1>1, BuildInvariant, PTL

\* RouteTable::new leaves canonical, distinct prefixes, longest first: what
\* select relies on when it takes the first route that matches.
THEOREM TableIsInLookupOrder ==
  BuildSpec => [](phase = "done" /\ verdict = "Ok" => InLookupOrder)
<1>1. BuildInv => (phase = "done" /\ verdict = "Ok" => InLookupOrder)
  BY Zenon DEF BuildInv
<1>2. QED
  BY <1>1, BuildInvariant, PTL

===============================================================================
