------------------------------- MODULE Routing -------------------------------
(***************************************************************************)
(* Which route a request path takes: RouteTable::lookup and                *)
(* Route::stripped_path of crates/core/src/route.rs, and ambiguous_route   *)
(* of crates/core/src/path.rs.                                             *)
(*                                                                         *)
(* A path grows by one unit at a time.  A unit is a character in one of    *)
(* its spellings; with the path as the client spells it grow the path in   *)
(* canonical spelling and what two kinds of upstream make of it, so that   *)
(* the algorithms can be held against what they are about.                 *)
(***************************************************************************)
EXTENDS Paths, FiniteSets, FiniteSetsExt

CONSTANTS
  RoutePrefixes,   \* the prefixes of the table, in lookup order
  MaxUnits    \* units of a path after the leading slash (bound)

ASSUME RoutingAssumption ==
  /\ MaxUnits \in Nat
  /\ RoutePrefixes \in Seq(Seq(STRING))
  /\ \A i \in DOMAIN RoutePrefixes : StartsWith(RoutePrefixes[i], <<"/">>)
  /\ \A i, j \in DOMAIN RoutePrefixes :
       /\ Normalize(RoutePrefixes[i]) = RoutePrefixes[i]
       /\ i < j => Len(RoutePrefixes[i]) >= Len(RoutePrefixes[j]) /\ RoutePrefixes[i] # RoutePrefixes[j]

VARIABLES
  units,    \* how many units the path has
  raw,      \* the path as spelled by the client
  canon,    \* the path in canonical spelling
  flat,     \* for an upstream that decodes separators, then drops ;params
  lazy,     \* for one that drops ;params up to a literal slash, then decodes
  params    \* which of these two are inside ;params

pvars == <<units, raw, canon, flat, lazy, params>>

\* Spellings of a character: raw as sent, canon as normalised, text as an
\* upstream reads it.
Plain(c) == [raw |-> <<c>>, canon |-> <<c>>, text |-> c]
Escaped(h, l, c) == [raw |-> <<"%", h, l>>, canon |-> <<c>>, text |-> c]

Units ==
  {Plain("/"), Plain("a"), Plain("b"), Plain("."), Plain(Semicolon),
   Escaped("6", "1", "a"), Escaped("2", "e", "."),
   [raw |-> <<"\\">>, canon |-> <<"\\">>, text |-> "/"],
   [raw |-> <<"%", "2", "f">>, canon |-> <<"%", "2", "F">>, text |-> "/"],
   [raw |-> <<"%", "5", "C">>, canon |-> <<"%", "5", "C">>, text |-> "/"]}

\* Slashes in a row are one.
Joined(s, t) == IF t = <<"/">> /\ EndsWith(s, "/") THEN s ELSE s \o t

-----------------------------------------------------------------------------
(* route.rs *)

None == <<>>

\* Mutant: the path is matched as it is spelled.
LookupRaw(path) ==
  LET hits == {i \in DOMAIN RoutePrefixes : PrefixMatches(RoutePrefixes[i], path)}
  IN IF hits = {} THEN None ELSE RoutePrefixes[Min(hits)]

\* lookup: the prefix of the first route that matches.
Lookup(path) ==
  LET norm == Normalize(path)
      hits == {i \in DOMAIN RoutePrefixes : PrefixMatches(RoutePrefixes[i], norm)}
  IN IF hits = {} THEN None ELSE RoutePrefixes[Min(hits)]

\* stripped_prefix: no trailing slashes.
StrippedPrefix(prefix) ==
  SubSeq(prefix, 1, Max({0} \cup {i \in DOMAIN prefix : prefix[i] # "/"}))

\* Mutant: the raw path is stripped.
StrippedRaw(prefix, path) ==
  SubSeq(path, Len(StrippedPrefix(prefix)) + 1, Len(path))

StrippedPath(prefix, path) ==
  LET cut  == StrippedPrefix(prefix)
      norm == Normalize(path)
      rest == SubSeq(norm, Len(cut) + 1, Len(norm))
      out  == IF rest = <<>> THEN <<"/">> ELSE rest
  IN IF cut = <<>> THEN path
     ELSE IF StartsWith(norm, cut) /\ out[1] = "/" /\ ~BadPath(out) THEN out ELSE None

-----------------------------------------------------------------------------
(* path.rs *)

DoubleSeparators ==
  {<<"%", "2", "5">> \o SubSeq(e, 2, 3) : e \in EncodedSeparators}

Suspicious(s) ==
  ContainsAny(s, {<<"\\">>, <<Semicolon>>} \cup EncodedSeparators \cup DoubleSeparators)

Flatten(s) ==
  LET from[i \in 1..Len(s) + 5] ==
        CASE i > Len(s)                         -> <<>>
          [] HasOneAt(s, i, DoubleSeparators)   -> <<"/">> \o from[i + 5]
          [] HasOneAt(s, i, EncodedSeparators)  -> <<"/">> \o from[i + 3]
          [] HasAt(s, i, <<"\\">>)              -> <<"/">> \o from[i + 1]
          [] OTHER                              -> <<s[i]>> \o from[i + 1]
  IN from[1]

\* Every character but those between a ";" and the next "/".
StripParams(s) ==
  LET from[i \in 1..Len(s) + 1] == [inside \in BOOLEAN |->
        IF i > Len(s) THEN <<>>
        ELSE LET drop == s[i] # "/" /\ (inside \/ s[i] = Semicolon)
             IN (IF drop THEN <<>> ELSE <<s[i]>>) \o from[i + 1][drop]]
  IN from[1][FALSE]

\* Mutant: parameters are dropped after the separators are decoded, only.
ReadingsOneOrder(s) ==
  {Flatten(s), StripParams(Flatten(s))}

Readings(s) ==
  {Flatten(s), StripParams(Flatten(s)), StripParams(s), Flatten(StripParams(s))}

AmbiguousRoute(path) ==
  LET norm == Normalize(path)
  IN /\ Suspicious(path) \/ Suspicious(norm)
     /\ \E s \in {path, norm} : \E r \in Readings(s) : Lookup(r) # Lookup(path)

\* handle_core goes on to look the path up.
Admitted(path) == ~BadPathNormalized(path) /\ ~AmbiguousRoute(path)

-----------------------------------------------------------------------------

RoutingInit ==
  /\ units = 0
  /\ raw = <<"/">> /\ canon = <<"/">> /\ flat = <<"/">> /\ lazy = <<"/">>
  /\ params = [flat |-> FALSE, lazy |-> FALSE]

Extend(u) ==
  /\ units < MaxUnits
  /\ units' = units + 1
  /\ raw' = raw \o u.raw
  /\ canon' = Joined(canon, u.canon)
  /\ LET flatIn == u.text # "/" /\ (params.flat \/ u.text = Semicolon)
         lazyIn == u.raw # <<"/">> /\ (params.lazy \/ u.text = Semicolon)
     IN /\ params' = [flat |-> flatIn, lazy |-> lazyIn]
        /\ flat' = IF flatIn THEN flat ELSE Joined(flat, <<u.text>>)
        /\ lazy' = IF lazyIn THEN lazy ELSE Joined(lazy, <<u.text>>)

RoutingNext == \E u \in Units : Extend(u)

RoutingSpec == RoutingInit /\ [][RoutingNext]_pvars

-----------------------------------------------------------------------------

\* The most specific prefix that covers a path in canonical spelling, segment
\* by segment, without regard to the order of the table.
MostSpecific(path) ==
  LET covers(p) == \E rest \in {SubSeq(path, k, Len(path)) : k \in 1..Len(path) + 1} :
                     path = p \o rest /\ (p[Len(p)] = "/" \/ rest = <<>> \/ rest[1] = "/")
      hits == {p \in {RoutePrefixes[i] : i \in DOMAIN RoutePrefixes} : covers(p)}
  IN IF hits = {} THEN None ELSE CHOOSE p \in hits : \A q \in hits : Len(q) <= Len(p)

\* A path is routed by what it says, not by how it is spelled: to the most
\* specific route of its canonical spelling (normalize and lookup).
RoutedByMeaning ==
  Lookup(raw) = MostSpecific(canon)

\* A path that is let through is read by ferryman and by upstreams that decode
\* separators and drop parameters, in either order, as one of the same route
\* (ambiguous_route), and without dot segments (bad_path_normalized).
UpstreamsAgree ==
  Admitted(raw) =>
    \A reading \in {flat, lazy} :
      /\ MostSpecific(reading) = Lookup(raw)
      /\ ~BadPath(reading)

\* Stripping a prefix forwards exactly what follows it in the canonical
\* spelling, and never fails for a path that was let through (stripped_path).
StripLeavesTheRest ==
  LET prefix == Lookup(raw)
      out == StrippedPath(prefix, raw)
      cut == StrippedPrefix(prefix)
  IN Admitted(raw) /\ prefix # None /\ cut # <<>> =>
       \/ canon = cut \o out
       \/ canon = cut /\ out = <<"/">>

=============================================================================
