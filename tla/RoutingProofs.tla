---------------------------- MODULE RoutingProofs ----------------------------
(***************************************************************************)
(* Machine-checked proofs about Routing, for every table of routes and     *)
(* paths of any length: lookup finds the route of what a path says,        *)
(* stripped_path forwards what follows the prefix, and upstreams read a    *)
(* path that was let through as one of the same route.                     *)
(***************************************************************************)
EXTENDS Routing, PathsProofs

-----------------------------------------------------------------------------
(* The path and its canonical spelling *)

\* Each unit of a path is a word, and normalize makes of it what it spells.
LEMMA UnitWords ==
  ASSUME NEW u \in Units
  PROVE  Word(u.raw, u.canon) /\ Complete(u.raw)
<1>1. Semicolon # "%"
  BY Zenon DEF Semicolon
<1>2. ASSUME NEW c \in {"/", "a", "b", ".", Semicolon}, u = Plain(c)
      PROVE  Word(u.raw, u.canon) /\ Complete(u.raw)
  <2>1. c \in Chars /\ c # "%"
    BY <1>1, <1>2, CharsAre
  <2>2. u.raw = <<c>> /\ u.canon = <<c>>
    BY <1>2 DEF Plain
  <2>3. QED
    BY <2>1, <2>2, LetterWord
<1>3. CASE u = [raw |-> <<"\\">>, canon |-> <<"\\">>, text |-> "/"]
  <2>1. "\\" \in Chars /\ "\\" # "%"
    BY CharsAre
  <2>2. u.raw = <<"\\">> /\ u.canon = <<"\\">>
    BY <1>3
  <2>3. QED
    BY <2>1, <2>2, LetterWord
<1>4. CASE u = Escaped("6", "1", "a")
  <2>1. "6" \in Chars /\ "1" \in Chars /\ "a" \in Chars
    BY CharsAre
  <2>2. HexVal("6") = 6 /\ HexVal("1") = 1 /\ 16 * HexVal("6") + HexVal("1") = 97
    BY HexValues
  <2>3. 97 \in DOMAIN Unreserved /\ Unreserved[97] = "a"
    BY UnreservedCodes
  <2>4. Word(<<"%", "6", "1">>, <<"a">>) /\ Complete(<<"%", "6", "1">>)
    <3>0. <<"a">> \in Seq(Chars)
      BY <2>1
    <3>1. PICK w : w = <<"a">> /\ w \in Seq(Chars)
      BY <3>0, Zenon
    <3>2. \/ 97 \in DOMAIN Unreserved /\ w = <<Unreserved[97]>>
          \/ 97 \notin DOMAIN Unreserved /\ w = <<"%", Upcase("6"), Upcase("1")>>
      BY <2>3, <3>1
    <3>3. 97 = 16 * HexVal("6") + HexVal("1") /\ HexVal("6") >= 0 /\ HexVal("1") >= 0 /\ "6" # "%" /\ "1" # "%"
      BY <2>2
    <3>4. Word(<<"%", "6", "1">>, w) /\ Complete(<<"%", "6", "1">>)
      BY <2>1, <3>1, <3>2, <3>3, EscapeWord, Zenon
    <3>5. QED
      BY <3>1, <3>4
  <2>5. u.raw = <<"%", "6", "1">> /\ u.canon = <<"a">>
    BY <1>4 DEF Escaped
  <2>6. QED
    BY <2>4, <2>5
<1>5. CASE u = Escaped("2", "e", ".")
  <2>1. "2" \in Chars /\ "e" \in Chars /\ "." \in Chars
    BY CharsAre
  <2>2. HexVal("2") = 2 /\ HexVal("e") = 14 /\ 16 * HexVal("2") + HexVal("e") = 46
    BY HexValues
  <2>3. 46 \in DOMAIN Unreserved /\ Unreserved[46] = "."
    BY UnreservedCodes
  <2>4. Word(<<"%", "2", "e">>, <<".">>) /\ Complete(<<"%", "2", "e">>)
    <3>0. <<".">> \in Seq(Chars)
      BY <2>1
    <3>1. PICK w : w = <<".">> /\ w \in Seq(Chars)
      BY <3>0, Zenon
    <3>2. \/ 46 \in DOMAIN Unreserved /\ w = <<Unreserved[46]>>
          \/ 46 \notin DOMAIN Unreserved /\ w = <<"%", Upcase("2"), Upcase("e")>>
      BY <2>3, <3>1
    <3>3. 46 = 16 * HexVal("2") + HexVal("e") /\ HexVal("2") >= 0 /\ HexVal("e") >= 0 /\ "2" # "%" /\ "e" # "%"
      BY <2>2
    <3>4. Word(<<"%", "2", "e">>, w) /\ Complete(<<"%", "2", "e">>)
      BY <2>1, <3>1, <3>2, <3>3, EscapeWord, Zenon
    <3>5. QED
      BY <3>1, <3>4
  <2>5. u.raw = <<"%", "2", "e">> /\ u.canon = <<".">>
    BY <1>5 DEF Escaped
  <2>6. QED
    BY <2>4, <2>5
<1>6. CASE u = [raw |-> <<"%", "2", "f">>, canon |-> <<"%", "2", "F">>, text |-> "/"]
  <2>1. "2" \in Chars /\ "f" \in Chars /\ "F" \in Chars /\ "%" \in Chars
    BY CharsAre
  <2>2. HexVal("2") = 2 /\ HexVal("f") = 15 /\ 16 * HexVal("2") + HexVal("f") = 47
    BY HexValues
  <2>3. 47 \notin DOMAIN Unreserved
    BY UnreservedCodes
  <2>4. Upcase("2") = "2" /\ Upcase("f") = "F"
    BY Upcased
  <2>5. Word(<<"%", "2", "f">>, <<"%", "2", "F">>) /\ Complete(<<"%", "2", "f">>)
    <3>0. <<"%", "2", "F">> \in Seq(Chars)
      BY <2>1
    <3>1. PICK w : w = <<"%", "2", "F">> /\ w \in Seq(Chars)
      BY <3>0, Zenon
    <3>2. \/ 47 \in DOMAIN Unreserved /\ w = <<Unreserved[47]>>
          \/ 47 \notin DOMAIN Unreserved /\ w = <<"%", Upcase("2"), Upcase("f")>>
      BY <2>3, <2>4, <3>1
    <3>3. 47 = 16 * HexVal("2") + HexVal("f") /\ HexVal("2") >= 0 /\ HexVal("f") >= 0 /\ "2" # "%" /\ "f" # "%"
      BY <2>2
    <3>4. Word(<<"%", "2", "f">>, w) /\ Complete(<<"%", "2", "f">>)
      BY <2>1, <3>1, <3>2, <3>3, EscapeWord, Zenon
    <3>5. QED
      BY <3>1, <3>4
  <2>6. u.raw = <<"%", "2", "f">> /\ u.canon = <<"%", "2", "F">>
    BY <1>6
  <2>7. QED
    BY <2>5, <2>6
<1>7. CASE u = [raw |-> <<"%", "5", "C">>, canon |-> <<"%", "5", "C">>, text |-> "/"]
  <2>1. "5" \in Chars /\ "C" \in Chars /\ "%" \in Chars
    BY CharsAre
  <2>2. HexVal("5") = 5 /\ HexVal("C") = 12 /\ 16 * HexVal("5") + HexVal("C") = 92
    BY HexValues
  <2>3. 92 \notin DOMAIN Unreserved
    BY UnreservedCodes
  <2>4. Upcase("5") = "5" /\ Upcase("C") = "C"
    BY Upcased
  <2>5. Word(<<"%", "5", "C">>, <<"%", "5", "C">>) /\ Complete(<<"%", "5", "C">>)
    <3>0. <<"%", "5", "C">> \in Seq(Chars)
      BY <2>1
    <3>1. PICK w : w = <<"%", "5", "C">> /\ w \in Seq(Chars)
      BY <3>0, Zenon
    <3>2. \/ 92 \in DOMAIN Unreserved /\ w = <<Unreserved[92]>>
          \/ 92 \notin DOMAIN Unreserved /\ w = <<"%", Upcase("5"), Upcase("C")>>
      BY <2>3, <2>4, <3>1
    <3>3. 92 = 16 * HexVal("5") + HexVal("C") /\ HexVal("5") >= 0 /\ HexVal("C") >= 0 /\ "5" # "%" /\ "C" # "%"
      BY <2>2
    <3>4. Word(<<"%", "5", "C">>, w) /\ Complete(<<"%", "5", "C">>)
      BY <2>1, <3>1, <3>2, <3>3, EscapeWord, Zenon
    <3>5. QED
      BY <3>1, <3>4
  <2>6. u.raw = <<"%", "5", "C">> /\ u.canon = <<"%", "5", "C">>
    BY <1>7
  <2>7. QED
    BY <2>5, <2>6
<1>8. QED
  BY <1>2, <1>3, <1>4, <1>5, <1>6, <1>7, Zenon DEF Units

\* The spellings of a unit end with a slash exactly if they are one.
LEMMA UnitEnds ==
  ASSUME NEW u \in Units
  PROVE  /\ u.raw \in Seq(Chars) /\ u.raw # <<>> /\ u.canon \in Seq(Chars) /\ u.canon # <<>>
         /\ EndsWith(u.raw, "/") <=> u.raw = <<"/">>
         /\ EndsWith(u.canon, "/") <=> u.canon = <<"/">>
         /\ u.raw = <<"/">> <=> u.canon = <<"/">>
<1>1. Semicolon # "/"
  BY Zenon DEF Semicolon
<1>2. ASSUME NEW c \in {"/", "a", "b", ".", Semicolon, "\\"}, u.raw = <<c>>, u.canon = <<c>>
      PROVE  /\ u.raw # <<>> /\ u.canon # <<>>
             /\ EndsWith(u.raw, "/") <=> u.raw = <<"/">>
             /\ EndsWith(u.canon, "/") <=> u.canon = <<"/">>
             /\ u.raw = <<"/">> <=> u.canon = <<"/">>
  BY <1>2 DEF EndsWith
<1>3. ASSUME NEW h, NEW l, NEW c, l # "/", c # "/", u.raw = <<"%", h, l>>,
             u.canon = <<c>> \/ u.canon = <<"%", h, c>>
      PROVE  /\ u.raw # <<>> /\ u.canon # <<>>
             /\ EndsWith(u.raw, "/") <=> u.raw = <<"/">>
             /\ EndsWith(u.canon, "/") <=> u.canon = <<"/">>
             /\ u.raw = <<"/">> <=> u.canon = <<"/">>
  <2>1. u.raw # <<"/">> /\ u.canon # <<"/">> /\ u.raw # <<>> /\ u.canon # <<>>
    <3>1. Len(u.raw) = 3 /\ (u.canon[1] = c \/ Len(u.canon) = 3) /\ Len(u.canon) \in {1, 3}
      BY <1>3
    <3>2. Len(<<"/">>) = 1 /\ <<"/">>[1] = "/" /\ Len(<<>>) = 0
      OBVIOUS
    <3>3. u.raw # <<"/">> /\ u.raw # <<>> /\ u.canon # <<>>
      BY <3>1, <3>2
    <3>4. c # "/" /\ 3 # 1
      BY <1>3
    <3>5. u.canon # <<"/">>
      BY <3>1, <3>2, <3>4, Zenon
    <3>6. QED
      BY <3>3, <3>5
  <2>2. ~EndsWith(u.raw, "/") /\ ~EndsWith(u.canon, "/")
    BY <1>3 DEF EndsWith
  <2>3. QED
    BY <2>1, <2>2
<1>4. u.raw \in Seq(Chars) /\ u.canon \in Seq(Chars)
  BY UnitWords DEF Word
<1>5. \/ \E c \in {"/", "a", "b", ".", Semicolon, "\\"} : u.raw = <<c>> /\ u.canon = <<c>>
      \/ u.raw = <<"%", "6", "1">> /\ u.canon = <<"a">>
      \/ u.raw = <<"%", "2", "e">> /\ u.canon = <<".">>
      \/ u.raw = <<"%", "2", "f">> /\ u.canon = <<"%", "2", "F">>
      \/ u.raw = <<"%", "5", "C">> /\ u.canon = <<"%", "5", "C">>
  BY DEF Units, Plain, Escaped
<1>6. QED
  BY <1>2, <1>3, <1>4, <1>5, Zenon

\* What holds of the path as it grows: no escape is cut short, and it
\* normalises to its canonical spelling, slash by slash.
SpellingInv ==
  /\ raw \in Seq(Chars) /\ canon \in Seq(Chars)
  /\ Complete(raw)
  /\ Normalize(raw) = canon
  /\ EndsWith(raw, "/") <=> EndsWith(canon, "/")

\* At first both spellings are the root path.
LEMMA SpellingInit == RoutingInit => SpellingInv
<1>1. "/" \in Chars /\ "/" # "%" /\ <<"/">> \in Seq(Chars)
  BY CharsAre
<1>2. Complete(<<"/">>)
  BY <1>1, LetterWord
<1>3. QED
  BY <1>1, <1>2, NormalizeSlash DEF RoutingInit, SpellingInv

\* Every unit keeps the canonical spelling what normalize makes of the path.
LEMMA SpellingExtend ==
  ASSUME SpellingInv, NEW u \in Units, Extend(u)
  PROVE  SpellingInv'
<1>1. /\ u.raw \in Seq(Chars) /\ u.raw # <<>> /\ u.canon \in Seq(Chars) /\ u.canon # <<>>
      /\ EndsWith(u.raw, "/") <=> u.raw = <<"/">>
      /\ EndsWith(u.canon, "/") <=> u.canon = <<"/">>
      /\ u.raw = <<"/">> <=> u.canon = <<"/">>
  BY UnitEnds
<1>2. Word(u.raw, u.canon) /\ Complete(u.raw)
  BY UnitWords
<1>3. raw' = raw \o u.raw /\ canon' = Joined(canon, u.canon)
  BY DEF Extend
<1>4. raw \in Seq(Chars) /\ canon \in Seq(Chars) /\ Complete(raw) /\ Normalize(raw) = canon
  BY DEF SpellingInv
<1>5. Normalize(raw') = canon'
  <2>1. Normalize(raw \o u.raw) =
           IF u.raw = <<"/">> /\ EndsWith(raw, "/") THEN Normalize(raw) ELSE Normalize(raw) \o u.canon
    BY <1>2, <1>4, NormalizeAppend, Zenon
  <2>2. EndsWith(raw, "/") <=> EndsWith(canon, "/")
    BY DEF SpellingInv
  <2>3. QED
    BY <1>1, <1>3, <1>4, <2>1, <2>2, Zenon DEF Joined
<1>6. Complete(raw')
  BY <1>1, <1>2, <1>3, <1>4, CompleteAppend, Zenon
<1>7. EndsWith(raw', "/") <=> EndsWith(canon', "/")
  <2>1. EndsWith(raw', "/") <=> EndsWith(u.raw, "/")
    BY <1>1, <1>3, <1>4, EndsAppend, Zenon
  <2>2. CASE u.canon = <<"/">> /\ EndsWith(canon, "/")
    BY <1>1, <1>3, <2>1, <2>2 DEF Joined
  <2>3. CASE ~(u.canon = <<"/">> /\ EndsWith(canon, "/"))
    <3>1. canon' = canon \o u.canon
      BY <1>3, <2>3 DEF Joined
    <3>2. EndsWith(canon', "/") <=> EndsWith(u.canon, "/")
      BY <1>1, <1>4, <3>1, EndsAppend, Zenon
    <3>3. QED
      BY <1>1, <2>1, <3>2
  <2>4. QED
    BY <2>2, <2>3
<1>8. raw' \in Seq(Chars) /\ canon' \in Seq(Chars)
  BY <1>1, <1>3, <1>4 DEF Joined
<1>9. QED
  BY <1>5, <1>6, <1>7, <1>8 DEF SpellingInv

\* However a path is spelled, normalize brings it to its canonical spelling.
THEOREM Spelling == RoutingSpec => []SpellingInv
<1>1. RoutingInit => SpellingInv
  BY SpellingInit
<1>2. SpellingInv /\ [RoutingNext]_pvars => SpellingInv'
  <2> SUFFICES ASSUME SpellingInv, [RoutingNext]_pvars PROVE SpellingInv'
    OBVIOUS
  <2>1. CASE RoutingNext
    BY <2>1, SpellingExtend DEF RoutingNext
  <2>2. CASE UNCHANGED pvars
    BY <2>2 DEF SpellingInv, pvars
  <2>3. QED
    BY <2>1, <2>2
<1>3. QED
  BY <1>1, <1>2, PTL DEF RoutingSpec

-----------------------------------------------------------------------------
(* lookup *)

\* The prefixes of the table, in no order.
Prefixes == {RoutePrefixes[i] : i \in DOMAIN RoutePrefixes}

\* The prefixes of the table are texts that begin with a slash.
LEMMA PrefixType ==
  ASSUME NEW i \in DOMAIN RoutePrefixes
  PROVE  /\ RoutePrefixes[i] \in Seq(Chars) /\ RoutePrefixes[i] # <<>>
         /\ Len(RoutePrefixes[i]) \in Nat /\ Len(RoutePrefixes[i]) > 0
         /\ RoutePrefixes[i][1] = "/" /\ i \in Nat
<1>0. RoutePrefixes \in Seq(Seq(STRING)) /\ StartsWith(RoutePrefixes[i], <<"/">>)
  BY RoutingAssumption, Zenon
<1>1. RoutePrefixes[i] \in Seq(STRING) /\ StartsWith(RoutePrefixes[i], <<"/">>) /\ i \in 1..Len(RoutePrefixes)
  BY <1>0
<1>2. PICK p : p = RoutePrefixes[i]
  OBVIOUS
<1>3. p \in Seq(Chars)
  BY <1>1, <1>2, StringsAreText
<1>4. HasAt(p, 1, <<"/">>) <=> 1 <= Len(p) /\ p[1] = "/"
  BY <1>3, HasWord1
<1>5. 1 <= Len(p) /\ p[1] = "/"
  BY <1>1, <1>2, <1>4 DEF StartsWith
<1>6. p # <<>> /\ Len(p) \in Nat /\ Len(p) > 0 /\ i \in Nat
  BY <1>1, <1>3, <1>5
<1>7. QED
  BY <1>2, <1>3, <1>5, <1>6

\* prefix_matches: the prefix is the path's, up to a segment's end.
LEMMA CoversIs ==
  ASSUME NEW path \in Seq(Chars), NEW p \in Seq(Chars), p # <<>>
  PROVE  PrefixMatches(p, path) <=>
           \E rest \in {SubSeq(path, k, Len(path)) : k \in 1..Len(path) + 1} :
             path = p \o rest /\ (p[Len(p)] = "/" \/ rest = <<>> \/ rest[1] = "/")
<1>0. Len(p) \in Nat /\ Len(path) \in Nat /\ (EndsWith(p, "/") <=> p[Len(p)] = "/")
  BY DEF EndsWith
<1>1. ASSUME PrefixMatches(p, path)
      PROVE  \E rest \in {SubSeq(path, k, Len(path)) : k \in 1..Len(path) + 1} :
               path = p \o rest /\ (p[Len(p)] = "/" \/ rest = <<>> \/ rest[1] = "/")
  <2>1. StartsWith(path, p) /\ (EndsWith(p, "/") \/ Len(path) = Len(p) \/ path[Len(p) + 1] = "/")
    BY <1>1 DEF PrefixMatches
  <2>2. PICK rest : rest = SubSeq(path, Len(p) + 1, Len(path))
    BY Zenon
  <2>3. /\ Len(p) + 1 \in 1..(Len(path) + 1)
        /\ rest \in Seq(Chars)
        /\ Len(rest) = Len(path) - Len(p)
        /\ \A i \in 1..(Len(path) - Len(p)) : rest[i] = path[Len(p) + i]
        /\ path = p \o rest
    BY <2>1, <2>2, StartsWithSplit, Zenon
  <2>4. p[Len(p)] = "/" \/ rest = <<>> \/ rest[1] = "/"
    <3>1. CASE Len(path) = Len(p)
      BY <1>0, <2>3, <3>1
    <3>2. CASE path[Len(p) + 1] = "/" /\ Len(path) # Len(p)
      <4>1. 1 \in 1..(Len(path) - Len(p))
        BY <1>0, <2>3, <3>2
      <4>2. QED
        BY <2>3, <3>2, <4>1
    <3>3. QED
      BY <1>0, <2>1, <3>1, <3>2
  <2>5. QED
    BY <2>2, <2>3, <2>4, Zenon
<1>2. ASSUME NEW rest, rest \in {SubSeq(path, k, Len(path)) : k \in 1..Len(path) + 1},
             path = p \o rest, p[Len(p)] = "/" \/ rest = <<>> \/ rest[1] = "/"
      PROVE  PrefixMatches(p, path)
  <2>1. rest \in Seq(Chars)
    BY <1>0, <1>2
  <2>2. StartsWith(path, p)
    BY <1>2, <2>1, StartsWithConcat
  <2>3. Len(path) = Len(p) + Len(rest) /\ Len(rest) \in Nat
    BY <1>2, <2>1
  <2>4. CASE Len(rest) = 0
    BY <1>0, <2>2, <2>3, <2>4 DEF PrefixMatches
  <2>5. CASE p[Len(p)] = "/"
    BY <1>0, <2>2, <2>5 DEF PrefixMatches
  <2>6. CASE rest[1] = "/" /\ Len(rest) # 0
    <3>1. path[Len(p) + 1] = rest[1]
      BY <1>2, <2>1, <2>3, <2>6
    <3>2. QED
      BY <2>2, <2>6, <3>1 DEF PrefixMatches
  <2>7. QED
    BY <1>2, <2>1, <2>4, <2>5, <2>6
<1>3. QED
  BY <1>1, <1>2, Zenon

\* The least of a set of numbers (Min of FiniteSetsExt).
LEMMA MinIs ==
  ASSUME NEW T \in SUBSET Nat, T # {}
  PROVE  Min(T) \in T /\ \A n \in T : Min(T) <= n
<1>1. \E m \in T : \A n \in T : m <= n
  BY LeastNatural
<1>2. QED
  BY <1>1, Zenon DEF Min

\* Two prefixes of a path that are equally long are the same.
LEMMA PrefixesOfPath ==
  ASSUME NEW path \in Seq(Chars), NEW p \in Seq(Chars), NEW q \in Seq(Chars),
         StartsWith(path, p), StartsWith(path, q), Len(p) = Len(q)
  PROVE  p = q
<1>1. (\A k \in 1..Len(p) : path[k] = p[k]) /\ (\A k \in 1..Len(q) : path[k] = q[k])
  BY StartsWithIs
<1>2. \A k \in 1..Len(p) : p[k] = q[k]
  BY <1>1
<1>3. QED
  BY <1>2, SameElements

\* The first route that matches is the most specific of those that cover the
\* path, for the table is sorted by length.
LEMMA FirstIsMostSpecific ==
  ASSUME NEW norm \in Seq(Chars), NEW hits,
         hits = {i \in DOMAIN RoutePrefixes : PrefixMatches(RoutePrefixes[i], norm)}
  PROVE  (IF hits = {} THEN None ELSE RoutePrefixes[Min(hits)]) = MostSpecific(norm)
<1> DEFINE covers(p) == \E rest \in {SubSeq(norm, k, Len(norm)) : k \in 1..Len(norm) + 1} :
                          norm = p \o rest /\ (p[Len(p)] = "/" \/ rest = <<>> \/ rest[1] = "/")
           found == {p \in {RoutePrefixes[i] : i \in DOMAIN RoutePrefixes} : covers(p)}
<1>1. MostSpecific(norm) = IF found = {} THEN None ELSE CHOOSE p \in found : \A q \in found : Len(q) <= Len(p)
  BY Zenon DEF MostSpecific
<1>2. \A i \in DOMAIN RoutePrefixes : PrefixMatches(RoutePrefixes[i], norm) <=> covers(RoutePrefixes[i])
  BY PrefixType, CoversIs, Zenon
<1>3. found = {RoutePrefixes[i] : i \in hits}
  <2> HIDE DEF covers
  <2>1. QED
    BY <1>2, Zenon
<1> HIDE DEF found, covers
<1>4. CASE hits = {}
  BY <1>1, <1>3, <1>4
<1>5. CASE hits # {}
  <2>1. hits \in SUBSET Nat
    BY PrefixType, Zenon
  <2>2. PICK m : m = Min(hits)
    BY Zenon
  <2>3. m \in hits /\ \A i \in hits : m <= i
    BY <1>5, <2>1, <2>2, MinIs, Zenon
  <2>4. PICK p : p = RoutePrefixes[m]
    OBVIOUS
  <2>5. p \in found /\ \A q \in found : Len(q) <= Len(p)
    <3>1. ASSUME NEW i \in hits PROVE Len(RoutePrefixes[i]) <= Len(p)
      <4>1. m <= i /\ m \in Nat /\ i \in Nat /\ m \in DOMAIN RoutePrefixes /\ i \in DOMAIN RoutePrefixes
        BY <2>1, <2>3
      <4>2. CASE m = i
        BY <2>4, <4>1, <4>2, PrefixType
      <4>3. CASE m < i
        <5>1. Len(RoutePrefixes[m]) >= Len(RoutePrefixes[i])
          BY <4>1, <4>3, RoutingAssumption, Zenon
        <5>2. Len(RoutePrefixes[m]) \in Nat /\ Len(RoutePrefixes[i]) \in Nat
          BY <4>1, PrefixType
        <5>3. QED
          BY <2>4, <5>1, <5>2
      <4>4. QED
        BY <4>1, <4>2, <4>3
    <3>2. QED
      BY <1>3, <2>3, <2>4, <3>1, Zenon
  <2>6. \A q \in found : q \in Seq(Chars) /\ StartsWith(norm, q) /\ Len(q) \in Nat
    BY <1>3, PrefixType, Zenon DEF PrefixMatches
  <2>7. ASSUME NEW q \in found, \A r \in found : Len(r) <= Len(q)
        PROVE  q = p
    <3>1. Len(q) = Len(p)
      BY <2>5, <2>6, <2>7
    <3>2. QED
      BY <2>5, <2>6, <3>1, PrefixesOfPath
  <2>8. (CHOOSE q \in found : \A r \in found : Len(r) <= Len(q)) = p
    BY <2>5, <2>7, Zenon
  <2>9. found # {}
    BY <2>5
  <2>10. QED
    BY <1>1, <1>5, <2>2, <2>4, <2>8, <2>9, Zenon
<1>6. QED
  BY <1>4, <1>5

\* lookup finds the most specific route of what the path normalises to.
LEMMA LookupIs ==
  ASSUME NEW path \in Seq(Chars)
  PROVE  Lookup(path) = MostSpecific(Normalize(path))
<1>1. Normalize(path) \in Seq(Chars)
  BY NormalizeType
<1>2. PICK norm : norm = Normalize(path)
  OBVIOUS
<1>3. PICK hits : hits = {i \in DOMAIN RoutePrefixes : PrefixMatches(RoutePrefixes[i], norm)}
  BY Zenon
<1>4. Lookup(path) = IF hits = {} THEN None ELSE RoutePrefixes[Min(hits)]
  BY <1>2, <1>3, Zenon DEF Lookup
<1>5. QED
  BY <1>1, <1>2, <1>3, <1>4, FirstIsMostSpecific, Zenon

\* A path is routed by its meaning (RouteTable::lookup): for every table and
\* every path that can be spelled, lookup finds the most specific route of the
\* canonical spelling.
THEOREM RoutedByItsMeaning == RoutingSpec => []RoutedByMeaning
<1>1. SpellingInv => RoutedByMeaning
  BY LookupIs DEF SpellingInv, RoutedByMeaning
<1>2. QED
  BY <1>1, Spelling, PTL

-----------------------------------------------------------------------------
(* The path and its readings, piece by piece *)

\* What a reader's last piece l is of the last piece lc: what is before the
\* parameters, when it is inside them.
LastOf(inside, l, lc) ==
  IF inside THEN \E x \in Seq(Chars) : lc = (l \o <<Semicolon>>) \o x ELSE l = lc

\* What a reader has made of a path whose pieces are tc and, the last, lc: no
\* piece is a dot segment that was none of the path.  A loose reader may have
\* dropped a separator with the parameters.
Reads(s, inside, loose, tc, lc) ==
  \E t, l : /\ Parsed(s, t, l, <<"/">>)
            /\ BadPath(t) => BadPath(tc)
            /\ \/ LastOf(inside, l, lc)
               \/ loose /\ inside /\ (DotPiece(l) => BadPath(tc))

\* If a reading is bad then so is the path it is a reading of.
LEMMA ReadsBad ==
  ASSUME NEW s, NEW inside, NEW loose, NEW tc, NEW lc, Reads(s, inside, loose, tc, lc), BadPath(s)
  PROVE  BadPath(tc) \/ DotPiece(lc)
<1>1. PICK t, l : /\ Parsed(s, t, l, <<"/">>)
                  /\ BadPath(t) => BadPath(tc)
                  /\ \/ LastOf(inside, l, lc)
                     \/ loose /\ inside /\ (DotPiece(l) => BadPath(tc))
  BY Zenon DEF Reads
<1>2. l \in Seq(Chars) /\ (BadPath(t) \/ DotPiece(l))
  BY <1>1, ParsedType, Zenon
<1>3. LastOf(inside, l, lc) => (DotPiece(l) => DotPiece(lc))
  <2>1. CASE inside
    BY <1>2, <2>1, DotPieceParams, Zenon DEF LastOf
  <2>2. CASE ~inside
    BY <2>2, Zenon DEF LastOf
  <2>3. QED
    BY <2>1, <2>2
<1>4. QED
  BY <1>1, <1>2, <1>3, Zenon

\* A character inside parameters, or the semicolon that begins them, is not
\* read; any other is.
LEMMA ReadLetter ==
  ASSUME NEW s, NEW inside \in BOOLEAN, NEW loose, NEW tc, NEW lc \in Seq(Chars), Reads(s, inside, loose, tc, lc),
         NEW c \in Chars, c \notin {"/", "\\", "%"}
  PROVE  /\ inside \/ c = Semicolon => Reads(s, TRUE, loose, tc, lc \o <<c>>)
         /\ ~(inside \/ c = Semicolon) => Reads(s \o <<c>>, FALSE, loose, tc, lc \o <<c>>)
<1>1. PICK t, l : /\ Parsed(s, t, l, <<"/">>)
                  /\ BadPath(t) => BadPath(tc)
                  /\ \/ LastOf(inside, l, lc)
                     \/ loose /\ inside /\ (DotPiece(l) => BadPath(tc))
  BY Zenon DEF Reads
<1>2. l \in Seq(Chars) /\ <<c>> \in Seq(Chars) /\ <<Semicolon>> \in Seq(Chars)
  BY <1>1, ParsedType, CharsAre
<1>3. CASE inside
  <2>1. ASSUME LastOf(inside, l, lc) PROVE LastOf(TRUE, l, lc \o <<c>>)
    <3>1. PICK x \in Seq(Chars) : lc = (l \o <<Semicolon>>) \o x
      BY <1>3, <2>1, Zenon DEF LastOf
    <3>2. lc \o <<c>> = (l \o <<Semicolon>>) \o (x \o <<c>>) /\ x \o <<c>> \in Seq(Chars)
      BY <1>2, <3>1
    <3>3. QED
      BY <3>2, Zenon DEF LastOf
  <2>2. Reads(s, TRUE, loose, tc, lc \o <<c>>)
    BY <1>1, <2>1, Zenon DEF Reads
  <2>3. QED
    BY <1>3, <2>2, Zenon
<1>4. CASE ~inside /\ c = Semicolon
  <2>1. l = lc
    BY <1>1, <1>4, Zenon DEF LastOf
  <2>2. lc \o <<c>> = (l \o <<Semicolon>>) \o <<>> /\ <<>> \in Seq(Chars)
    BY <1>2, <1>4, <2>1
  <2>3. LastOf(TRUE, l, lc \o <<c>>)
    BY <2>2, Zenon DEF LastOf
  <2>4. Reads(s, TRUE, loose, tc, lc \o <<c>>)
    BY <1>1, <2>3, Zenon DEF Reads
  <2>5. QED
    BY <1>4, <2>4, Zenon
<1>5. CASE ~inside /\ c # Semicolon
  <2>1. l = lc
    BY <1>1, <1>5, Zenon DEF LastOf
  <2>2. Parsed(s \o <<c>>, t, l \o <<c>>, <<"/">>)
    BY <1>1, ParsedLetter, Zenon
  <2>3. LastOf(FALSE, l \o <<c>>, lc \o <<c>>)
    BY <2>1, Zenon DEF LastOf
  <2>4. Reads(s \o <<c>>, FALSE, loose, tc, lc \o <<c>>)
    BY <1>1, <2>2, <2>3, Zenon DEF Reads
  <2>5. QED
    BY <1>5, <2>4, Zenon
<1>6. QED
  BY <1>3, <1>4, <1>5, Zenon

\* A separator that the reader sees: the last piece ends, in the path as well
\* (tc2 is all that is before the next piece).
LEMMA ReadSep ==
  ASSUME NEW s, NEW inside, NEW loose, NEW tc, NEW lc, NEW tc2, Reads(s, inside, loose, tc, lc),
         BadPath(tc2) <=> BadPath(tc) \/ DotPiece(lc)
  PROVE  Reads(Joined(s, <<"/">>), FALSE, loose, tc2, <<>>)
<1>1. PICK t, l : /\ Parsed(s, t, l, <<"/">>)
                  /\ BadPath(t) => BadPath(tc)
                  /\ \/ LastOf(inside, l, lc)
                     \/ loose /\ inside /\ (DotPiece(l) => BadPath(tc))
  BY Zenon DEF Reads
<1>2. LastOf(FALSE, <<>>, <<>>)
  BY Zenon DEF LastOf
<1>3. CASE EndsWith(s, "/")
  <2>1. l = <<>>
    BY <1>1, <1>3, ParsedEnds, Zenon
  <2>2. Joined(s, <<"/">>) = s
    BY <1>3 DEF Joined
  <2>3. BadPath(t) => BadPath(tc2)
    BY <1>1, Zenon
  <2>4. Reads(s, FALSE, loose, tc2, <<>>)
    BY <1>1, <1>2, <2>1, <2>3, Zenon DEF Reads
  <2>5. QED
    BY <2>2, <2>4, Zenon
<1>4. CASE ~EndsWith(s, "/")
  <2>1. Joined(s, <<"/">>) = s \o <<"/">>
    BY <1>4 DEF Joined
  <2>2. <<"/">> \in Seps
    BY DEF Seps
  <2>3. /\ Parsed(s \o <<"/">>, s \o <<"/">>, <<>>, <<"/">>)
        /\ BadPath(s \o <<"/">>) <=> BadPath(s)
    BY <1>1, <2>2, ParsedSep, Zenon
  <2>4. BadPath(s \o <<"/">>) => BadPath(tc2)
    BY <2>3, ReadsBad, Zenon
  <2>5. Reads(s \o <<"/">>, FALSE, loose, tc2, <<>>)
    BY <1>2, <2>3, <2>4, Zenon DEF Reads
  <2>6. QED
    BY <2>1, <2>5, Zenon
<1>5. QED
  BY <1>3, <1>4, Zenon

\* A separator that the reader drops with the parameters it is in.
LEMMA ReadDropped ==
  ASSUME NEW s, NEW tc, NEW lc, NEW tc2, Reads(s, TRUE, TRUE, tc, lc),
         BadPath(tc2) <=> BadPath(tc) \/ DotPiece(lc)
  PROVE  Reads(s, TRUE, TRUE, tc2, <<>>)
<1>1. PICK t, l : /\ Parsed(s, t, l, <<"/">>)
                  /\ BadPath(t) => BadPath(tc)
                  /\ \/ LastOf(TRUE, l, lc)
                     \/ TRUE /\ TRUE /\ (DotPiece(l) => BadPath(tc))
  BY Zenon DEF Reads
<1>2. l \in Seq(Chars)
  BY <1>1, ParsedType, Zenon
<1>3. LastOf(TRUE, l, lc) => (DotPiece(l) => DotPiece(lc))
  BY <1>2, DotPieceParams, Zenon DEF LastOf
<1>4. DotPiece(l) => BadPath(tc2)
  BY <1>1, <1>3, Zenon
<1>5. BadPath(t) => BadPath(tc2)
  BY <1>1, Zenon
<1>6. QED
  BY <1>1, <1>4, <1>5, Zenon DEF Reads

\* A slash after a slash.
LEMMA ReadSame ==
  ASSUME NEW s, NEW inside \in BOOLEAN, NEW loose, NEW tc, Reads(s, inside, loose, tc, <<>>),
         ~(loose /\ inside)
  PROVE  Joined(s, <<"/">>) = s /\ ~inside
<1>1. PICK t, l : /\ Parsed(s, t, l, <<"/">>)
                  /\ LastOf(inside, l, <<>>)
  BY Zenon DEF Reads
<1>2. l \in Seq(Chars) /\ <<Semicolon>> \in Seq(Chars)
  BY <1>1, ParsedType, CharsAre
<1>3. \A x \in Seq(Chars) : <<>> # (l \o <<Semicolon>>) \o x
  <2> TAKE x \in Seq(Chars)
  <2>1. Len((l \o <<Semicolon>>) \o x) = Len(l) + 1 + Len(x) /\ Len(l) \in Nat /\ Len(x) \in Nat /\ Len(<<>>) = 0
    BY <1>2
  <2>2. QED
    BY <2>1
<1>4. ~inside /\ l = <<>>
  BY <1>1, <1>3, Zenon DEF LastOf
<1>5. EndsWith(s, "/")
  BY <1>1, <1>4, ParsedEnds, Zenon
<1>6. QED
  BY <1>4, <1>5 DEF Joined

\* The kinds of units: a letter, the slash, and any other separator.
IsLetter(u) ==
  /\ u.text \in Chars \ {"/", "\\", "%"}
  /\ u.canon = <<u.text>>
  /\ u.raw # <<"/">>
  /\ u.raw \in Seq(Chars) /\ (u.raw = u.canon \/ In(u.raw, "%"))

IsSlash(u) ==
  u.text = "/" /\ u.canon = <<"/">> /\ u.raw = <<"/">>

IsOther(u) ==
  /\ u.text = "/"
  /\ u.canon \in Seps /\ u.canon # <<"/">>
  /\ u.raw # <<"/">>
  /\ u.raw \in Seq(Chars) /\ (u.raw = u.canon \/ In(u.raw, "%"))

\* Every unit is a character, the slash or another separator.
LEMMA UnitKinds ==
  ASSUME NEW u \in Units
  PROVE  IsLetter(u) \/ IsSlash(u) \/ IsOther(u)
<1>0. Semicolon \notin {"/", "\\", "%"}
  BY Zenon DEF Semicolon
<1>1. ASSUME NEW c \in {"a", "b", ".", Semicolon}, u = Plain(c)
      PROVE  IsLetter(u)
  <2>1. c \in Chars /\ c \notin {"/", "\\", "%"} /\ <<c>> \in Seq(Chars) /\ <<c>> # <<"/">>
    BY <1>0, <1>1, CharsAre
  <2>2. u.raw = <<c>> /\ u.canon = <<c>> /\ u.text = c
    BY <1>1 DEF Plain
  <2>3. QED
    BY <2>1, <2>2 DEF IsLetter
<1>2. CASE u = Plain("/")
  <2>1. u.raw = <<"/">> /\ u.canon = <<"/">> /\ u.text = "/"
    BY <1>2 DEF Plain
  <2>2. QED
    BY <2>1 DEF IsSlash
<1>3. ASSUME NEW h \in {"6", "2"}, NEW l \in {"1", "e"}, NEW c \in {"a", "."}, u = Escaped(h, l, c)
      PROVE  IsLetter(u)
  <2>1. c \in Chars /\ c \notin {"/", "\\", "%"} /\ <<"%", h, l>> \in Seq(Chars) /\ <<"%", h, l>> # <<"/">>
    BY CharsAre
  <2>2. u.raw = <<"%", h, l>> /\ u.canon = <<c>> /\ u.text = c
    BY <1>3 DEF Escaped
  <2>3. In(<<"%", h, l>>, "%")
    BY DEF In
  <2>4. QED
    BY <2>1, <2>2, <2>3, Zenon DEF IsLetter
<1>4. CASE u = [raw |-> <<"\\">>, canon |-> <<"\\">>, text |-> "/"]
  <2>1. u.raw = <<"\\">> /\ u.canon = <<"\\">> /\ u.text = "/"
    BY <1>4
  <2>2. <<"\\">> \in Seq(Chars) /\ <<"\\">> # <<"/">> /\ <<"\\">> \in Seps
    BY CharsAre DEF Seps
  <2>3. QED
    BY <2>1, <2>2, Zenon DEF IsOther
<1>5. CASE u = [raw |-> <<"%", "2", "f">>, canon |-> <<"%", "2", "F">>, text |-> "/"]
  <2>1. u.raw = <<"%", "2", "f">> /\ u.canon = <<"%", "2", "F">> /\ u.text = "/"
    BY <1>5
  <2>2. /\ <<"%", "2", "f">> \in Seq(Chars) /\ <<"%", "2", "f">> # <<"/">> /\ <<"%", "2", "F">> # <<"/">>
        /\ <<"%", "2", "F">> \in Seps /\ In(<<"%", "2", "f">>, "%")
    BY CharsAre DEF Seps, EncodedSeparators, In
  <2>3. QED
    BY <2>1, <2>2, Zenon DEF IsOther
<1>6. CASE u = [raw |-> <<"%", "5", "C">>, canon |-> <<"%", "5", "C">>, text |-> "/"]
  <2>1. u.raw = <<"%", "5", "C">> /\ u.canon = <<"%", "5", "C">> /\ u.text = "/"
    BY <1>6
  <2>2. /\ <<"%", "5", "C">> \in Seq(Chars) /\ <<"%", "5", "C">> # <<"/">>
        /\ <<"%", "5", "C">> \in Seps
    BY CharsAre DEF Seps, EncodedSeparators
  <2>3. QED
    BY <2>1, <2>2, Zenon DEF IsOther
<1>7. QED
  BY <1>1, <1>2, <1>3, <1>4, <1>5, <1>6, Zenon DEF Units

\* The path as the client spells it, without escapes, has the last piece of
\* its canonical spelling, and every dot segment.
Spells(r, tc, lc) ==
  \E t, sep : Parsed(r, t, lc, sep) /\ (BadPath(tc) => BadPath(t))

\* The path in its four spellings, piece by piece.
PiecesInv ==
  /\ params \in [flat : BOOLEAN, lazy : BOOLEAN] /\ raw \in Seq(Chars)
  /\ \E tc, lc, sc :
       /\ Parsed(canon, tc, lc, sc)
       /\ In(raw, "%") \/ Spells(raw, tc, lc)
       /\ Reads(flat, params.flat, FALSE, tc, lc)
       /\ Reads(lazy, params.lazy, TRUE, tc, lc)
  /\ EndsWith(canon, "/") => ~params.lazy

\* At first the path is its leading slash, in every reading.
LEMMA PiecesInit == RoutingInit => PiecesInv
<1> SUFFICES ASSUME RoutingInit PROVE PiecesInv
  OBVIOUS
<1>1. /\ raw = <<"/">> /\ canon = <<"/">> /\ flat = <<"/">> /\ lazy = <<"/">>
      /\ params = [flat |-> FALSE, lazy |-> FALSE]
  BY DEF RoutingInit
<1>2. params \in [flat : BOOLEAN, lazy : BOOLEAN] /\ ~params.flat /\ ~params.lazy
  BY <1>1
<1>3. Parsed(<<"/">>, <<"/">>, <<>>, <<"/">>)
  <2>1. <<"/">> \in Seq(Chars) /\ <<>> \in Seq(Chars) /\ <<"/">> \in Seps
    BY CharsAre DEF Seps
  <2>2. Piece(<<>>) /\ Esc(<<>>)
    BY DEF Piece, Esc
  <2>3. <<"/">> = <<"/">> \o <<>> /\ <<"/">> = <<>> \o <<"/">>
    BY <2>1
  <2>4. QED
    BY <2>1, <2>2, <2>3, Zenon DEF Parsed
<1>4. LastOf(FALSE, <<>>, <<>>)
  BY Zenon DEF LastOf
<1>5. Spells(<<"/">>, <<"/">>, <<>>)
  BY <1>3, Zenon DEF Spells
<1>6. \A loose : Reads(<<"/">>, FALSE, loose, <<"/">>, <<>>)
  BY <1>3, <1>4, Zenon DEF Reads
<1>7. raw \in Seq(Chars)
  BY <1>1, CharsAre
<1>8. params.flat = FALSE /\ params.lazy = FALSE
  BY <1>1
<1>9. \E tc, lc, sc :
       /\ Parsed(canon, tc, lc, sc)
       /\ In(raw, "%") \/ Spells(raw, tc, lc)
       /\ Reads(flat, params.flat, FALSE, tc, lc)
       /\ Reads(lazy, params.lazy, TRUE, tc, lc)
  BY <1>1, <1>3, <1>5, <1>6, <1>8, Zenon
<1>10. QED
  BY <1>2, <1>7, <1>9, Zenon DEF PiecesInv

\* Every unit keeps the last pieces of the path and of its readings together.
LEMMA PiecesExtend ==
  ASSUME PiecesInv, NEW u \in Units, Extend(u)
  PROVE  PiecesInv'
<1>1. params \in [flat : BOOLEAN, lazy : BOOLEAN] /\ raw \in Seq(Chars) /\ (EndsWith(canon, "/") => ~params.lazy)
  BY DEF PiecesInv
<1>2. PICK tc, lc, sc :
       /\ Parsed(canon, tc, lc, sc)
       /\ In(raw, "%") \/ Spells(raw, tc, lc)
       /\ Reads(flat, params.flat, FALSE, tc, lc)
       /\ Reads(lazy, params.lazy, TRUE, tc, lc)
  BY Zenon DEF PiecesInv
<1>3. params.flat \in BOOLEAN /\ params.lazy \in BOOLEAN
  BY <1>1
<1> DEFINE flatIn == u.text # "/" /\ (params.flat \/ u.text = Semicolon)
           lazyIn == u.raw # <<"/">> /\ (params.lazy \/ u.text = Semicolon)
<1>4. /\ raw' = raw \o u.raw
      /\ canon' = Joined(canon, u.canon)
      /\ params' = [flat |-> flatIn, lazy |-> lazyIn]
      /\ flat' = IF flatIn THEN flat ELSE Joined(flat, <<u.text>>)
      /\ lazy' = IF lazyIn THEN lazy ELSE Joined(lazy, <<u.text>>)
  BY Zenon DEF Extend
<1>5. flatIn \in BOOLEAN /\ lazyIn \in BOOLEAN
  OBVIOUS
<1>6. params' \in [flat : BOOLEAN, lazy : BOOLEAN] /\ params'.flat = flatIn /\ params'.lazy = lazyIn
  <2> HIDE DEF flatIn, lazyIn
  <2> QED
    BY <1>4, <1>5
<1>7. /\ canon \in Seq(Chars) /\ tc \in Seq(Chars) /\ lc \in Seq(Chars)
      /\ BadPath(canon) <=> BadPath(tc) \/ DotPiece(lc)
  BY <1>2, ParsedType, Zenon
<1>8. Semicolon # "/"
  BY Zenon DEF Semicolon
<1>9. SUFFICES /\ raw' \in Seq(Chars)
               /\ \E tc2, lc2, sc2 :
                    /\ Parsed(canon', tc2, lc2, sc2)
                    /\ In(raw', "%") \/ Spells(raw', tc2, lc2)
                    /\ Reads(flat', flatIn, FALSE, tc2, lc2)
                    /\ Reads(lazy', lazyIn, TRUE, tc2, lc2)
               /\ EndsWith(canon', "/") => ~lazyIn
  <2> HIDE DEF flatIn, lazyIn
  <2> QED
    BY <1>6, Zenon DEF PiecesInv
<1>10. CASE IsLetter(u)
  <2>1. PICK c \in Chars : /\ c = u.text /\ c \notin {"/", "\\", "%"} /\ u.canon = <<c>> /\ u.raw # <<"/">>
                           /\ u.raw \in Seq(Chars) /\ (u.raw = <<c>> \/ In(u.raw, "%"))
    BY <1>10, Zenon DEF IsLetter
  <2>2. /\ flatIn <=> (params.flat \/ c = Semicolon)
        /\ lazyIn <=> (params.lazy \/ c = Semicolon)
        /\ <<c>> # <<"/">>
    BY <2>1
  <2>3. \A s : Joined(s, <<c>>) = s \o <<c>>
    BY <2>2 DEF Joined
  <2>4. canon' = canon \o <<c>>
    BY <1>4, <2>1, <2>3, Zenon
  <2>5. Parsed(canon', tc, lc \o <<c>>, sc)
    BY <1>2, <2>1, <2>4, ParsedLetter, Zenon
  <2>6. raw' \in Seq(Chars)
    BY <1>1, <1>4, <2>1
  <2>7. In(raw', "%") \/ Spells(raw', tc, lc \o <<c>>)
    <3>1. CASE In(raw, "%") \/ In(u.raw, "%")
      BY <1>1, <1>4, <2>1, <3>1, InAppend, Zenon
    <3>2. CASE ~In(raw, "%") /\ ~In(u.raw, "%")
      <4>1. raw' = raw \o <<c>>
        BY <1>4, <2>1, <3>2, Zenon
      <4>2. PICK t, sep : Parsed(raw, t, lc, sep) /\ (BadPath(tc) => BadPath(t))
        BY <1>2, <3>2, Zenon DEF Spells
      <4>3. Parsed(raw', t, lc \o <<c>>, sep)
        BY <2>1, <4>1, <4>2, ParsedLetter, Zenon
      <4>4. QED
        BY <4>2, <4>3, Zenon DEF Spells
    <3>3. QED
      BY <3>1, <3>2, Zenon
  <2>8. Reads(flat', flatIn, FALSE, tc, lc \o <<c>>)
    <3>1. /\ params.flat \/ c = Semicolon => Reads(flat, TRUE, FALSE, tc, lc \o <<c>>)
          /\ ~(params.flat \/ c = Semicolon) => Reads(flat \o <<c>>, FALSE, FALSE, tc, lc \o <<c>>)
      BY <1>2, <1>3, <1>7, <2>1, ReadLetter, Zenon
    <3>2. flat' = IF flatIn THEN flat ELSE flat \o <<c>>
      BY <1>4, <2>1, <2>3, Zenon
    <3>3. CASE flatIn
      <4>1. flat' = flat /\ flatIn = TRUE
        BY <1>5, <3>2, <3>3
      <4>2. Reads(flat, TRUE, FALSE, tc, lc \o <<c>>)
        BY <2>2, <3>1, <3>3, Zenon
      <4> HIDE DEF flatIn
      <4>3. QED
        BY <4>1, <4>2, Zenon
    <3>4. CASE ~flatIn
      <4>1. flat' = flat \o <<c>> /\ flatIn = FALSE
        BY <1>5, <3>2, <3>4
      <4>2. Reads(flat \o <<c>>, FALSE, FALSE, tc, lc \o <<c>>)
        BY <2>2, <3>1, <3>4, Zenon
      <4> HIDE DEF flatIn
      <4>3. QED
        BY <4>1, <4>2, Zenon
    <3>5. QED
      BY <3>3, <3>4, Zenon
  <2>9. Reads(lazy', lazyIn, TRUE, tc, lc \o <<c>>)
    <3>1. /\ params.lazy \/ c = Semicolon => Reads(lazy, TRUE, TRUE, tc, lc \o <<c>>)
          /\ ~(params.lazy \/ c = Semicolon) => Reads(lazy \o <<c>>, FALSE, TRUE, tc, lc \o <<c>>)
      BY <1>2, <1>3, <1>7, <2>1, ReadLetter, Zenon
    <3>2. lazy' = IF lazyIn THEN lazy ELSE lazy \o <<c>>
      BY <1>4, <2>1, <2>3, Zenon
    <3>3. CASE lazyIn
      <4>1. lazy' = lazy /\ lazyIn = TRUE
        BY <1>5, <3>2, <3>3
      <4>2. Reads(lazy, TRUE, TRUE, tc, lc \o <<c>>)
        BY <2>2, <3>1, <3>3, Zenon
      <4> HIDE DEF lazyIn
      <4>3. QED
        BY <4>1, <4>2, Zenon
    <3>4. CASE ~lazyIn
      <4>1. lazy' = lazy \o <<c>> /\ lazyIn = FALSE
        BY <1>5, <3>2, <3>4
      <4>2. Reads(lazy \o <<c>>, FALSE, TRUE, tc, lc \o <<c>>)
        BY <2>2, <3>1, <3>4, Zenon
      <4> HIDE DEF lazyIn
      <4>3. QED
        BY <4>1, <4>2, Zenon
    <3>5. QED
      BY <3>3, <3>4, Zenon
  <2>10. ~EndsWith(canon', "/")
    <3>1. <<c>> \in Seq(Chars) /\ <<c>> # <<>> /\ ~EndsWith(<<c>>, "/")
      BY <2>1 DEF EndsWith
    <3>2. QED
      BY <1>7, <2>4, <3>1, EndsAppend, Zenon
  <2> HIDE DEF flatIn, lazyIn
  <2>11. QED
    BY <2>5, <2>6, <2>7, <2>8, <2>9, <2>10, Zenon
<1>11. CASE IsSlash(u)
  <2>1. u.text = "/" /\ u.canon = <<"/">> /\ u.raw = <<"/">>
    BY <1>11 DEF IsSlash
  <2>2. flatIn = FALSE /\ lazyIn = FALSE
    BY <2>1
  <2>3. /\ raw' = raw \o <<"/">> /\ canon' = Joined(canon, <<"/">>)
        /\ flat' = Joined(flat, <<"/">>) /\ lazy' = Joined(lazy, <<"/">>)
    BY <1>4, <2>1, <2>2
  <2>4. <<"/">> \in Seps /\ <<"/">> \in Seq(Chars)
    BY CharsAre DEF Seps
  <2>5. raw' \in Seq(Chars)
    BY <1>1, <2>3, <2>4
  <2>6. CASE EndsWith(canon, "/")
    <3>1. canon' = canon
      BY <2>3, <2>6 DEF Joined
    <3>2. lc = <<>>
      BY <1>2, <2>6, ParsedEnds, Zenon
    <3>3. flat' = flat /\ ~params.flat
      BY <1>2, <1>3, <2>3, <3>2, ReadSame, Zenon
    <3>4. lazy' = lazy /\ ~params.lazy
      BY <1>1, <1>2, <1>3, <2>3, <2>6, <3>2, ReadSame, Zenon
    <3>5. flatIn = params.flat /\ lazyIn = params.lazy
      BY <1>3, <2>2, <3>3, <3>4
    <3>6. In(raw', "%") \/ Spells(raw', tc, lc)
      <4>1. CASE In(raw, "%")
        BY <1>1, <2>3, <2>4, <4>1, InAppend, Zenon
      <4>2. CASE ~In(raw, "%")
        <5>1. PICK t, sep : Parsed(raw, t, lc, sep) /\ (BadPath(tc) => BadPath(t))
          BY <1>2, <4>2, Zenon DEF Spells
        <5>2. Parsed(raw', raw', <<>>, <<"/">>) /\ (BadPath(raw') <=> BadPath(raw))
          BY <2>3, <2>4, <5>1, ParsedSep, Zenon
        <5>3. BadPath(t) => BadPath(raw)
          BY <5>1, ParsedType, Zenon
        <5>4. QED
          BY <3>2, <5>1, <5>2, <5>3, Zenon DEF Spells
      <4>3. QED
        BY <4>1, <4>2, Zenon
    <3> HIDE DEF flatIn, lazyIn
    <3>7. Parsed(canon', tc, lc, sc) /\ Reads(flat', flatIn, FALSE, tc, lc) /\ Reads(lazy', lazyIn, TRUE, tc, lc)
      BY <1>2, <3>1, <3>3, <3>4, <3>5, Zenon
    <3>8. QED
      BY <2>2, <2>5, <3>6, <3>7, Zenon
  <2>7. CASE ~EndsWith(canon, "/")
    <3>1. canon' = canon \o <<"/">>
      BY <2>3, <2>7 DEF Joined
    <3>2. Parsed(canon', canon', <<>>, <<"/">>) /\ (BadPath(canon') <=> BadPath(canon))
      BY <1>2, <2>4, <3>1, ParsedSep, Zenon
    <3>3. BadPath(canon') <=> BadPath(tc) \/ DotPiece(lc)
      BY <1>7, <3>2, Zenon
    <3>4. Reads(flat', FALSE, FALSE, canon', <<>>) /\ Reads(lazy', FALSE, TRUE, canon', <<>>)
      BY <1>2, <2>3, <3>3, ReadSep, Zenon
    <3>5. In(raw', "%") \/ Spells(raw', canon', <<>>)
      <4>1. CASE In(raw, "%")
        BY <1>1, <2>3, <2>4, <4>1, InAppend, Zenon
      <4>2. CASE ~In(raw, "%")
        <5>1. PICK t, sep : Parsed(raw, t, lc, sep) /\ (BadPath(tc) => BadPath(t))
          BY <1>2, <4>2, Zenon DEF Spells
        <5>2. Parsed(raw', raw', <<>>, <<"/">>) /\ (BadPath(raw') <=> BadPath(raw))
          BY <2>3, <2>4, <5>1, ParsedSep, Zenon
        <5>3. BadPath(raw) <=> BadPath(t) \/ DotPiece(lc)
          BY <5>1, ParsedType, Zenon
        <5>4. QED
          BY <3>3, <5>1, <5>2, <5>3, Zenon DEF Spells
      <4>3. QED
        BY <4>1, <4>2, Zenon
    <3> HIDE DEF flatIn, lazyIn
    <3>6. Reads(flat', flatIn, FALSE, canon', <<>>) /\ Reads(lazy', lazyIn, TRUE, canon', <<>>)
      BY <2>2, <3>4, Zenon
    <3>7. QED
      BY <2>2, <2>5, <3>2, <3>5, <3>6, Zenon
  <2>8. QED
    BY <2>6, <2>7, Zenon
<1>12. CASE IsOther(u)
  <2>1. PICK sep2 \in Seps : /\ u.text = "/" /\ u.canon = sep2 /\ sep2 # <<"/">> /\ u.raw # <<"/">>
                             /\ u.raw \in Seq(Chars) /\ (u.raw = sep2 \/ In(u.raw, "%"))
    BY <1>12, Zenon DEF IsOther
  <2>2. flatIn = FALSE /\ lazyIn = params.lazy
    BY <1>3, <1>8, <2>1
  <2>3. /\ raw' = raw \o u.raw /\ canon' = canon \o sep2
        /\ flat' = Joined(flat, <<"/">>)
        /\ lazy' = IF params.lazy THEN lazy ELSE Joined(lazy, <<"/">>)
    <3>1. canon' = canon \o sep2
      BY <1>4, <2>1 DEF Joined
    <3>2. QED
      BY <1>4, <2>1, <2>2, <3>1, Zenon
  <2>4. raw' \in Seq(Chars)
    BY <1>1, <2>1, <2>3
  <2>5. Parsed(canon', canon', <<>>, sep2) /\ (BadPath(canon') <=> BadPath(canon))
    BY <1>2, <2>3, ParsedSep, Zenon
  <2>6. BadPath(canon') <=> BadPath(tc) \/ DotPiece(lc)
    BY <1>7, <2>5, Zenon
  <2>7. Reads(flat', FALSE, FALSE, canon', <<>>)
    BY <1>2, <2>3, <2>6, ReadSep, Zenon
  <2>8. Reads(lazy', params.lazy, TRUE, canon', <<>>)
    <3>1. CASE params.lazy
      <4>1. params.lazy = TRUE /\ lazy' = lazy
        BY <1>3, <2>3, <3>1
      <4>2. Reads(lazy, TRUE, TRUE, tc, lc)
        BY <1>2, <4>1, Zenon
      <4>3. Reads(lazy, TRUE, TRUE, canon', <<>>)
        BY <2>6, <4>2, ReadDropped, Zenon
      <4>4. QED
        BY <4>1, <4>3, Zenon
    <3>2. CASE ~params.lazy
      <4>1. params.lazy = FALSE /\ lazy' = Joined(lazy, <<"/">>)
        BY <1>3, <2>3, <3>2
      <4>2. Reads(Joined(lazy, <<"/">>), FALSE, TRUE, canon', <<>>)
        BY <1>2, <2>6, ReadSep, Zenon
      <4>3. QED
        BY <4>1, <4>2, Zenon
    <3>3. QED
      BY <3>1, <3>2, Zenon
  <2>9. In(raw', "%") \/ Spells(raw', canon', <<>>)
    <3>1. CASE In(raw, "%") \/ In(u.raw, "%")
      BY <1>1, <2>1, <2>3, <3>1, InAppend, Zenon
    <3>2. CASE ~In(raw, "%") /\ ~In(u.raw, "%")
      <4>1. PICK t, sep : Parsed(raw, t, lc, sep) /\ (BadPath(tc) => BadPath(t))
        BY <1>2, <3>2, Zenon DEF Spells
      <4>2. raw' = raw \o sep2
        BY <2>1, <2>3, <3>2, Zenon
      <4>3. Parsed(raw', raw', <<>>, sep2) /\ (BadPath(raw') <=> BadPath(raw))
        BY <4>1, <4>2, ParsedSep, Zenon
      <4>4. BadPath(raw) <=> BadPath(t) \/ DotPiece(lc)
        BY <4>1, ParsedType, Zenon
      <4>5. QED
        BY <2>6, <4>1, <4>3, <4>4, Zenon DEF Spells
    <3>3. QED
      BY <3>1, <3>2, Zenon
  <2>10. ~EndsWith(canon', "/")
    BY <2>1, <2>5, ParsedEnds, Zenon
  <2> HIDE DEF flatIn, lazyIn
  <2>11. Reads(flat', flatIn, FALSE, canon', <<>>) /\ Reads(lazy', lazyIn, TRUE, canon', <<>>)
    BY <2>2, <2>7, <2>8, Zenon
  <2>12. QED
    BY <2>4, <2>5, <2>9, <2>10, <2>11, Zenon
<1>13. QED
  BY <1>10, <1>11, <1>12, UnitKinds, Zenon

\* In every state the four spellings of the path correspond piece by piece.
THEOREM Pieces == RoutingSpec => []PiecesInv
<1>1. PiecesInv /\ [RoutingNext]_pvars => PiecesInv'
  <2> SUFFICES ASSUME PiecesInv, [RoutingNext]_pvars PROVE PiecesInv'
    OBVIOUS
  <2>1. CASE RoutingNext
    BY <2>1, PiecesExtend DEF RoutingNext
  <2>2. CASE UNCHANGED pvars
    <3>1. raw' = raw /\ canon' = canon /\ flat' = flat /\ lazy' = lazy /\ params' = params
      BY <2>2 DEF pvars
    <3>2. QED
      BY <3>1, Zenon DEF PiecesInv
  <2>3. QED
    BY <2>1, <2>2
<1>2. QED
  BY PiecesInit, <1>1, PTL DEF RoutingSpec

\* No reader finds a dot segment that is not in the canonical spelling, and
\* a spelling without escapes has all that are.
LEMMA PiecesBad ==
  ASSUME PiecesInv
  PROVE  /\ canon \in Seq(Chars) /\ Esc(canon)
         /\ BadPath(flat) => BadPath(canon)
         /\ BadPath(lazy) => BadPath(canon)
         /\ BadPath(canon) => BadPath(raw) \/ In(raw, "%")
<1>1. PICK tc, lc, sc :
       /\ Parsed(canon, tc, lc, sc)
       /\ In(raw, "%") \/ Spells(raw, tc, lc)
       /\ Reads(flat, params.flat, FALSE, tc, lc)
       /\ Reads(lazy, params.lazy, TRUE, tc, lc)
  BY Zenon DEF PiecesInv
<1>2. canon \in Seq(Chars) /\ Esc(canon) /\ (BadPath(canon) <=> BadPath(tc) \/ DotPiece(lc))
  BY <1>1, ParsedType, Zenon
<1>3. /\ BadPath(flat) => BadPath(canon)
      /\ BadPath(lazy) => BadPath(canon)
  BY <1>1, <1>2, ReadsBad, Zenon
<1>4. ASSUME Spells(raw, tc, lc), BadPath(canon) PROVE BadPath(raw)
  <2>1. PICK t, sep : Parsed(raw, t, lc, sep) /\ (BadPath(tc) => BadPath(t))
    BY <1>4, Zenon DEF Spells
  <2>2. BadPath(raw) <=> BadPath(t) \/ DotPiece(lc)
    BY <2>1, ParsedType, Zenon
  <2>3. QED
    BY <1>2, <1>4, <2>1, <2>2, Zenon
<1>5. QED
  BY <1>1, <1>2, <1>3, <1>4, Zenon

-----------------------------------------------------------------------------
(* stripped_path *)

\* A set of numbers with a bound, not empty, has a greatest element.
LEMMA MaxIs ==
  ASSUME NEW N \in Nat, NEW T \in SUBSET (0..N), T # {}
  PROVE  Max(T) \in T /\ \A n \in T : Max(T) >= n
<1> DEFINE U == {k \in Nat : N - k \in T}
<1>1. U \in SUBSET Nat /\ U # {}
  <2>1. PICK n \in T : TRUE
    BY Zenon
  <2>2. n \in 0..N /\ N - n \in Nat /\ N - (N - n) = n
    OBVIOUS
  <2>3. N - n \in U
    BY <2>2
  <2>4. QED
    BY <2>3, Zenon
<1>2. PICK k \in U : \A j \in U : k <= j
  <2> HIDE DEF U
  <2> QED
    BY <1>1, LeastNatural
<1>3. k \in Nat /\ N - k \in T
  BY <1>2
<1>4. ASSUME NEW n \in T PROVE N - k >= n
  <2>1. n \in 0..N /\ N - n \in Nat /\ N - (N - n) = n
    OBVIOUS
  <2>2. N - n \in U
    BY <2>1
  <2>3. k <= N - n
    BY <1>2, <2>2
  <2>4. QED
    BY <1>3, <2>1, <2>3
<1>5. \E m \in T : \A n \in T : m >= n
  BY <1>3, <1>4, Zenon
<1>6. QED
  BY <1>5, Zenon DEF Max

\* stripped_prefix cuts the slashes at the end and nothing else.
LEMMA StrippedPrefixIs ==
  ASSUME NEW p \in Seq(Chars)
  PROVE  \E m \in 0..Len(p) :
           /\ StrippedPrefix(p) = SubSeq(p, 1, m)
           /\ m = 0 \/ p[m] # "/"
           /\ \A i \in (m + 1)..Len(p) : p[i] = "/"
<1>1. Len(p) \in Nat /\ DOMAIN p = 1..Len(p)
  OBVIOUS
<1> DEFINE T == {0} \cup {i \in DOMAIN p : p[i] # "/"}
<1>2. T \in SUBSET (0..Len(p)) /\ T # {}
  BY <1>1
<1>3. PICK m : m = Max(T)
  BY Zenon
<1>4. m \in T /\ \A n \in T : m >= n
  <2> HIDE DEF T
  <2> QED
    BY <1>1, <1>2, <1>3, MaxIs, Zenon
<1>5. m \in 0..Len(p) /\ (m = 0 \/ p[m] # "/")
  BY <1>1, <1>4
<1>6. ASSUME NEW i \in (m + 1)..Len(p) PROVE p[i] = "/"
  <2>1. i \in 1..Len(p) /\ ~(m >= i)
    BY <1>1, <1>5
  <2>2. i \notin T
    BY <1>4, <2>1
  <2>3. QED
    BY <1>1, <2>1, <2>2
<1>7. StrippedPrefix(p) = SubSeq(p, 1, m)
  BY <1>3, Zenon DEF StrippedPrefix
<1>8. QED
  BY <1>5, <1>6, <1>7, Zenon

\* The route that is found is one of the table's, and matches.
LEMMA LookupMatches ==
  ASSUME NEW path \in Seq(Chars), Lookup(path) # None
  PROVE  \E i \in DOMAIN RoutePrefixes :
           Lookup(path) = RoutePrefixes[i] /\ PrefixMatches(RoutePrefixes[i], Normalize(path))
<1>1. PICK hits : hits = {i \in DOMAIN RoutePrefixes : PrefixMatches(RoutePrefixes[i], Normalize(path))}
  BY Zenon
<1>2. Lookup(path) = IF hits = {} THEN None ELSE RoutePrefixes[Min(hits)]
  BY <1>1, Zenon DEF Lookup
<1>3. hits # {}
  BY <1>2
<1>4. hits \in SUBSET Nat
  BY <1>1, PrefixType
<1>5. Min(hits) \in hits
  BY <1>3, <1>4, MinIs, Zenon
<1>6. QED
  BY <1>1, <1>2, <1>3, <1>5, Zenon

\* What follows the stripped prefix of a path's route is empty or begins with
\* a slash.
LEMMA CutAtSlash ==
  ASSUME NEW path \in Seq(Chars), NEW p \in Seq(Chars), p # <<>>, PrefixMatches(p, path)
  PROVE  \E rest \in Seq(Chars) :
           /\ StrippedPrefix(p) \in Seq(Chars)
           /\ StartsWith(path, StrippedPrefix(p))
           /\ rest = SubSeq(path, Len(StrippedPrefix(p)) + 1, Len(path))
           /\ path = StrippedPrefix(p) \o rest
           /\ rest = <<>> \/ rest[1] = "/"
<1>1. PICK m \in 0..Len(p) : /\ StrippedPrefix(p) = SubSeq(p, 1, m)
                             /\ m = 0 \/ p[m] # "/"
                             /\ \A i \in (m + 1)..Len(p) : p[i] = "/"
  BY StrippedPrefixIs
<1>2. PICK cut : cut = SubSeq(p, 1, m)
  BY Zenon
<1>3. cut \in Seq(Chars) /\ Len(cut) = m /\ \A i \in 1..m : cut[i] = p[i]
  BY <1>1, <1>2, Split
<1>4. StartsWith(path, p) /\ (EndsWith(p, "/") \/ Len(path) = Len(p) \/ path[Len(p) + 1] = "/")
  BY DEF PrefixMatches
<1>5. Len(p) <= Len(path) /\ (\A k \in 1..Len(p) : path[k] = p[k]) /\ Len(p) \in Nat /\ Len(path) \in Nat /\ Len(p) > 0
  BY <1>4, StartsWithIs
<1>6. StartsWith(path, cut)
  <2>1. Len(cut) <= Len(path)
    BY <1>1, <1>3, <1>5
  <2>2. ASSUME NEW k \in 1..Len(cut) PROVE path[k] = cut[k]
    <3>1. k \in 1..m /\ k \in 1..Len(p)
      BY <1>1, <1>3, <1>5
    <3>2. QED
      BY <1>3, <1>5, <3>1, Zenon
  <2>3. QED
    BY <1>3, <2>1, <2>2, StartsWithIs, Zenon
<1>7. PICK rest : rest = SubSeq(path, Len(cut) + 1, Len(path))
  BY Zenon
<1>8. /\ rest \in Seq(Chars) /\ Len(rest) = Len(path) - Len(cut)
      /\ \A i \in 1..(Len(path) - Len(cut)) : rest[i] = path[Len(cut) + i]
      /\ path = cut \o rest
  BY <1>3, <1>6, <1>7, StartsWithSplit, Zenon
<1>9. rest = <<>> \/ rest[1] = "/"
  <2>1. CASE m = Len(path)
    BY <1>3, <1>8, <2>1
  <2>2. CASE m < Len(path)
    <3>1. rest[1] = path[m + 1]
      BY <1>3, <1>5, <1>8, <2>2
    <3>2. path[m + 1] = "/"
      <4>1. CASE m < Len(p)
        <5>1. m + 1 \in (m + 1)..Len(p) /\ m + 1 \in 1..Len(p)
          BY <1>1, <1>5, <4>1
        <5>2. QED
          BY <1>1, <1>5, <5>1, Zenon
      <4>2. CASE m = Len(p)
        <5>1. ~EndsWith(p, "/")
          BY <1>1, <1>5, <4>2 DEF EndsWith
        <5>2. QED
          BY <1>4, <1>5, <2>2, <4>2, <5>1
      <4>3. QED
        BY <1>1, <1>5, <4>1, <4>2
    <3>3. QED
      BY <3>1, <3>2
  <2>3. QED
    BY <1>1, <1>5, <2>1, <2>2
<1>10. QED
  BY <1>1, <1>2, <1>3, <1>6, <1>7, <1>8, <1>9, Zenon

\* A path that is let through has no dot segment in its canonical spelling.
LEMMA AdmittedNotBad ==
  ASSUME SpellingInv, PiecesInv, Admitted(raw)
  PROVE  ~BadPath(canon)
<1>1. Normalize(raw) = canon
  BY DEF SpellingInv
<1>2. ~BadPath(raw) /\ ~(In(raw, "%") /\ BadPath(canon))
  BY <1>1, Zenon DEF Admitted, BadPathNormalized
<1>3. QED
  BY <1>2, PiecesBad, Zenon

\* What stripped_path returns for a path that was let through.
LEMMA StripsExactly ==
  ASSUME SpellingInv, PiecesInv
  PROVE  StripLeavesTheRest
<1>1. raw \in Seq(Chars) /\ Normalize(raw) = canon /\ canon \in Seq(Chars) /\ Esc(canon)
  BY PiecesBad DEF SpellingInv
<1>2. PICK prefix, out, cut : prefix = Lookup(raw) /\ out = StrippedPath(prefix, raw) /\ cut = StrippedPrefix(prefix)
  OBVIOUS
<1>3. ASSUME Admitted(raw), prefix # None, cut # <<>>
      PROVE  canon = cut \o out \/ (canon = cut /\ out = <<"/">>)
  <2>1. PICK i \in DOMAIN RoutePrefixes : prefix = RoutePrefixes[i] /\ PrefixMatches(RoutePrefixes[i], canon)
    BY <1>1, <1>2, <1>3, LookupMatches, Zenon
  <2>2. prefix \in Seq(Chars) /\ prefix # <<>> /\ PrefixMatches(prefix, canon)
    BY <2>1, PrefixType, Zenon
  <2>3. PICK rest \in Seq(Chars) :
           /\ cut \in Seq(Chars)
           /\ StartsWith(canon, cut)
           /\ rest = SubSeq(canon, Len(cut) + 1, Len(canon))
           /\ canon = cut \o rest
           /\ rest = <<>> \/ rest[1] = "/"
    BY <1>1, <1>2, <2>2, CutAtSlash, ZenonT(40)
  <2>4. PICK o : o = IF rest = <<>> THEN <<"/">> ELSE rest
    BY Zenon
  <2>5. out = IF StartsWith(canon, cut) /\ o[1] = "/" /\ ~BadPath(o) THEN o ELSE None
    BY <1>1, <1>2, <1>3, <2>3, <2>4, Zenon DEF StrippedPath
  <2>6. ~BadPath(canon)
    BY <1>3, AdmittedNotBad
  <2>7. o[1] = "/"
    BY <2>3, <2>4, Zenon
  <2>8. ~BadPath(o)
    <3>1. CASE rest = <<>>
      BY <2>4, <3>1, SlashNotBad
    <3>2. CASE rest # <<>>
      <4>1. Esc(cut)
        BY <1>1, <2>3, EscPrefix, Zenon
      <4>2. 1 \in 1..Len(rest) /\ rest[1] = "/"
        BY <2>3, <3>2
      <4>3. HasOneAt(rest, 1, {<<"/">>, <<"\\">>})
        BY <4>2, SlashesAt
      <4>4. SeparatorAt(rest, 1) = 1
        <5>1. ~HasOneAt(rest, 1, EncodedSeparators)
          BY <4>2, EncodedAt
        <5>2. QED
          BY <4>3, <5>1, Zenon DEF SeparatorAt
      <4>5. SeparatorAt(rest, 1) > 0
        BY <4>4
      <4>6. BadPath(canon) <=> BadPath(cut) \/ BadPath(rest)
        <5>1. cut \in Seq(Chars) /\ canon = cut \o rest
          BY <2>3, Zenon
        <5>2. BadPath(cut \o rest) <=> BadPath(cut) \/ BadPath(rest)
          BY <3>2, <4>1, <4>5, <5>1, BadPathSplit
        <5>3. QED
          BY <5>1, <5>2, Zenon
      <4>7. QED
        BY <2>4, <2>6, <3>2, <4>6, Zenon
    <3>3. QED
      BY <3>1, <3>2
  <2>9. out = o
    BY <2>3, <2>5, <2>7, <2>8, Zenon
  <2>10. CASE rest = <<>>
    <3>1. canon = cut
      BY <2>3, <2>10
    <3>2. QED
      BY <2>4, <2>9, <2>10, <3>1
  <2>11. CASE rest # <<>>
    BY <2>3, <2>4, <2>9, <2>11, Zenon
  <2>12. QED
    BY <2>10, <2>11
<1>4. QED
  BY <1>2, <1>3, Zenon DEF StripLeavesTheRest

\* Stripping a route's prefix forwards exactly what follows it in the
\* canonical spelling, for every path that is let through (stripped_path).
THEOREM StripsTheRest == RoutingSpec => []StripLeavesTheRest
BY Spelling, Pieces, StripsExactly, PTL

-----------------------------------------------------------------------------
(* flatten *)

\* Doubly encoded separators, in text.
LEMMA DoubleWords ==
  ASSUME NEW w \in DoubleSeparators
  PROVE  w \in Seq(Chars) /\ Len(w) = 5 /\ w[1] = "%" /\ w[2] = "2" /\ w[3] = "5"
<1>1. PICK e \in EncodedSeparators : w = <<"%", "2", "5">> \o SubSeq(e, 2, 3)
  BY DEF DoubleSeparators
<1>2. e \in Seq(Chars) /\ Len(e) = 3
  <2>1. e \in Seq(Chars)
    BY WordsAreText, Zenon
  <2>2. Len(e) = 3
    BY DEF EncodedSeparators
  <2>3. QED
    BY <2>1, <2>2
<1>3. PICK a, b : a = <<"%", "2", "5">> /\ b = SubSeq(e, 2, 3)
  BY Zenon
<1>4. a \in Seq(Chars) /\ Len(a) = 3 /\ a[1] = "%" /\ a[2] = "2" /\ a[3] = "5"
  BY <1>3, CharsAre
<1>5. b \in Seq(Chars) /\ Len(b) = 2
  <2>1. PICK n : n = 1
    OBVIOUS
  <2>2. n \in 0..Len(e) /\ n + 1 = 2 /\ Len(e) - n = 2
    BY <1>2, <2>1
  <2>3. SubSeq(e, n + 1, Len(e)) \in Seq(Chars) /\ Len(SubSeq(e, n + 1, Len(e))) = Len(e) - n
    BY <1>2, <2>2, Split, Zenon
  <2>4. QED
    BY <1>2, <1>3, <2>2, <2>3, Zenon
<1>6. w = a \o b
  BY <1>1, <1>3
<1>7. /\ w \in Seq(Chars) /\ Len(w) = Len(a) + Len(b) /\ \A i \in 1..Len(a) : w[i] = a[i]
  <2>1. a \in Seq(Chars) /\ b \in Seq(Chars)
    BY <1>4, <1>5
  <2>2. QED
    BY <1>6, <2>1, Concat, Zenon
<1>8. QED
  BY <1>4, <1>5, <1>7

\* A twice-encoded separator is five characters that begin with an encoded
\* percent sign.
LEMMA DoubleAt ==
  ASSUME NEW s \in Seq(Chars), NEW i \in Nat, HasOneAt(s, i, DoubleSeparators)
  PROVE  i + 4 <= Len(s) /\ s[i] = "%" /\ s[i + 1] = "2" /\ s[i + 2] = "5"
<1>1. PICK w \in DoubleSeparators : HasAt(s, i, w)
  BY DEF HasOneAt
<1>2. w \in Seq(Chars) /\ Len(w) = 5 /\ w[1] = "%" /\ w[2] = "2" /\ w[3] = "5"
  BY DoubleWords
<1>3. QED
  BY <1>1, <1>2 DEF HasAt

\* An encoded separator is three characters.
LEMMA EncodedThere ==
  ASSUME NEW s \in Seq(Chars), NEW i \in Nat, HasOneAt(s, i, EncodedSeparators)
  PROVE  i + 2 <= Len(s) /\ s[i] = "%" /\ s[i + 2] \in {"f", "F", "c", "C"}
BY HasWord3 DEF HasOneAt, EncodedSeparators

\* How many characters flatten takes at a place, and what it makes of them.
FlatTake(s, i) ==
  IF HasOneAt(s, i, DoubleSeparators) THEN 5
  ELSE IF HasOneAt(s, i, EncodedSeparators) THEN 3 ELSE 1

FlatEmit(s, i) ==
  IF \/ HasOneAt(s, i, DoubleSeparators)
     \/ HasOneAt(s, i, EncodedSeparators)
     \/ HasAt(s, i, <<"\\">>)
  THEN <<"/">> ELSE <<s[i]>>

\* At each place one alternative of flatten applies.
LEMMA FlatArms ==
  ASSUME NEW s \in Seq(Chars), NEW i \in Nat
  PROVE  /\ HasOneAt(s, i, DoubleSeparators) => ~(i > Len(s)) /\ ~HasOneAt(s, i, EncodedSeparators)
         /\ HasOneAt(s, i, DoubleSeparators) => ~HasAt(s, i, <<"\\">>)
         /\ HasOneAt(s, i, EncodedSeparators) => ~(i > Len(s)) /\ ~HasAt(s, i, <<"\\">>)
         /\ HasAt(s, i, <<"\\">>) => ~(i > Len(s))
<1>0. Len(s) \in Nat
  OBVIOUS
<1>1. HasAt(s, i, <<"\\">>) <=> i <= Len(s) /\ s[i] = "\\"
  BY HasWord1
<1>2. ASSUME HasOneAt(s, i, DoubleSeparators)
      PROVE  i + 4 <= Len(s) /\ s[i] = "%" /\ s[i + 2] = "5"
  BY <1>2, DoubleAt
<1>3. ASSUME HasOneAt(s, i, EncodedSeparators)
      PROVE  i + 2 <= Len(s) /\ s[i] = "%" /\ s[i + 2] \in {"f", "F", "c", "C"}
  BY <1>3, EncodedThere
<1>4. QED
  BY <1>0, <1>1, <1>2, <1>3

\* flatten consumes what is there and emits a text.
LEMMA FlatType ==
  ASSUME NEW s \in Seq(Chars), NEW i \in 1..Len(s)
  PROVE  /\ FlatTake(s, i) \in 1..5
         /\ i + FlatTake(s, i) <= Len(s) + 1
         /\ FlatEmit(s, i) \in Seq(Chars)
<1>1. s[i] \in Chars /\ "/" \in Chars /\ i \in Nat /\ Len(s) \in Nat
  BY CharsAre
<1>2. FlatEmit(s, i) \in Seq(Chars)
  BY <1>1 DEF FlatEmit
<1>3. CASE HasOneAt(s, i, DoubleSeparators)
  <2>1. FlatTake(s, i) = 5
    BY <1>3 DEF FlatTake
  <2>2. i + 4 <= Len(s)
    BY <1>1, <1>3, DoubleAt
  <2>3. QED
    BY <1>1, <1>2, <2>1, <2>2
<1>4. CASE ~HasOneAt(s, i, DoubleSeparators) /\ HasOneAt(s, i, EncodedSeparators)
  <2>1. FlatTake(s, i) = 3
    BY <1>4 DEF FlatTake
  <2>2. i + 2 <= Len(s)
    BY <1>1, <1>4, EncodedThere
  <2>3. QED
    BY <1>1, <1>2, <2>1, <2>2
<1>5. CASE ~HasOneAt(s, i, DoubleSeparators) /\ ~HasOneAt(s, i, EncodedSeparators)
  <2>1. FlatTake(s, i) = 1
    BY <1>5 DEF FlatTake
  <2>2. QED
    BY <1>1, <1>2, <2>1
<1>6. QED
  BY <1>3, <1>4, <1>5

\* The text from each place on, flattened.
Flattens(s, from) ==
  /\ from \in [1..(Len(s) + 5) -> Seq(Chars)]
  /\ \A i \in 1..(Len(s) + 5) :
       from[i] = IF i > Len(s) THEN <<>>
                 ELSE FlatEmit(s, i) \o from[i + FlatTake(s, i)]

\* The recursion of flatten has a solution, and its value at the first
\* character is what flatten returns.
LEMMA FlattenIs ==
  ASSUME NEW s \in Seq(Chars)
  PROVE  \E from : Flattens(s, from) /\ Flatten(s) = from[1]
<1> DEFINE D == 1..(Len(s) + 5)
           V == Seq(Chars)
           next == [i \in D |-> IF i > Len(s) THEN i ELSE i + FlatTake(s, i)]
           rank == [i \in D |-> Len(s) + 5 - i]
           step == [i \in D |-> [v \in V |-> IF i > Len(s) THEN <<>> ELSE FlatEmit(s, i) \o v]]
           arms(f, i) == CASE i > Len(s)                         -> <<>>
                           [] HasOneAt(s, i, DoubleSeparators)   -> <<"/">> \o f[i + 5]
                           [] HasOneAt(s, i, EncodedSeparators)  -> <<"/">> \o f[i + 3]
                           [] HasAt(s, i, <<"\\">>)              -> <<"/">> \o f[i + 1]
                           [] OTHER                              -> <<s[i]>> \o f[i + 1]
           body(f) == [i \in D |-> arms(f, i)]
           from == CHOOSE g : g = body(g)
<1>1. Len(s) \in Nat /\ <<>> \in V /\ Len(s) + 5 \in Nat
  OBVIOUS
<1>2. \A i \in D : i > Len(s) \/ i \in 1..Len(s)
  BY <1>1
<1>3. ASSUME NEW i \in 1..Len(s)
      PROVE  i + FlatTake(s, i) \in D /\ i + FlatTake(s, i) > i
  <2>1. PICK t : t = FlatTake(s, i)
    OBVIOUS
  <2>2. t \in 1..5 /\ i + t <= Len(s) + 1
    BY <2>1, FlatType, Zenon
  <2>3. i + t \in D /\ i + t > i
    BY <1>1, <2>2
  <2>4. QED
    BY <2>1, <2>3, Zenon
<1>4. next \in [D -> D] /\ rank \in [D -> Nat]
  BY <1>1, <1>2, <1>3
<1>5. step \in [D -> [V -> V]]
  <2> SUFFICES ASSUME NEW i \in D, NEW v \in V
               PROVE (IF i > Len(s) THEN <<>> ELSE FlatEmit(s, i) \o v) \in V
    OBVIOUS
  <2>1. CASE i > Len(s)
    BY <1>1, <2>1
  <2>2. CASE i \in 1..Len(s)
    BY <1>1, <2>2, FlatType
  <2>3. QED
    BY <1>2, <2>1, <2>2
<1>6. \A i \in D : rank[i] < Len(s) + 5
  BY <1>1
<1>7. ASSUME NEW i \in 1..Len(s)
      PROVE  rank[next[i]] < rank[i]
  <2>1. i \in D /\ next[i] = i + FlatTake(s, i)
    BY <1>1
  <2>2. QED
    BY <1>1, <1>3, <2>1
<1>8. ASSUME NEW i \in D
      PROVE  rank[next[i]] < rank[i] \/ \A v, w \in V : step[i][v] = step[i][w]
  <2>1. CASE i > Len(s)
    BY <2>1
  <2>2. QED
    BY <1>2, <1>7, <2>1, Zenon
<1>9. PICK f : f \in [D -> V] /\ \A i \in D : f[i] = step[i][f[next[i]]]
  <2> HIDE DEF D, V, next, rank, step
  <2>1. V # {} /\ \E M \in Nat : \A i \in D : rank[i] < M
    BY <1>1, <1>6
  <2>2. Descends(D, V, next, rank, step)
    BY <1>4, <1>5, <1>8, <2>1, Zenon DEF Descends
  <2>3. \E f : Solves(D, V, next, step, f)
    BY <2>2, Recursion, Zenon
  <2>4. QED
    BY <2>3, Zenon DEF Solves
<1>10. ASSUME NEW f1, NEW i \in D
       PROVE  arms(f1, i) = IF i > Len(s) THEN <<>> ELSE FlatEmit(s, i) \o f1[i + FlatTake(s, i)]
  <2>0. i \in Nat
    OBVIOUS
  <2>1. /\ HasOneAt(s, i, DoubleSeparators) => ~(i > Len(s)) /\ ~HasOneAt(s, i, EncodedSeparators)
        /\ HasOneAt(s, i, DoubleSeparators) => ~HasAt(s, i, <<"\\">>)
        /\ HasOneAt(s, i, EncodedSeparators) => ~(i > Len(s)) /\ ~HasAt(s, i, <<"\\">>)
        /\ HasAt(s, i, <<"\\">>) => ~(i > Len(s))
    BY <2>0, FlatArms
  <2>2. CASE i > Len(s)
    BY <2>1, <2>2, Zenon
  <2>3. CASE HasOneAt(s, i, DoubleSeparators)
    BY <2>1, <2>3, Zenon DEF FlatTake, FlatEmit
  <2>4. CASE HasOneAt(s, i, EncodedSeparators)
    BY <2>1, <2>4, Zenon DEF FlatTake, FlatEmit
  <2>5. CASE HasAt(s, i, <<"\\">>)
    BY <2>1, <2>5, Zenon DEF FlatTake, FlatEmit
  <2>6. CASE ~(i > Len(s)) /\ ~HasOneAt(s, i, DoubleSeparators) /\ ~HasOneAt(s, i, EncodedSeparators) /\ ~HasAt(s, i, <<"\\">>)
    BY <2>6, Zenon DEF FlatTake, FlatEmit
  <2>7. QED
    BY <2>2, <2>3, <2>4, <2>5, <2>6, Zenon
<1> HIDE DEF arms
<1>11. \A i \in D : f[i] = IF i > Len(s) THEN <<>> ELSE FlatEmit(s, i) \o f[i + FlatTake(s, i)]
  BY <1>2, <1>4, <1>9, Zenon
<1>12. f = body(f)
  <2>1. \A i \in D : f[i] = arms(f, i)
    BY <1>10, <1>11, Zenon
  <2>2. f = [i \in D |-> f[i]]
    BY <1>9
  <2> HIDE DEF D, V
  <2>3. QED
    BY <2>1, <2>2, Zenon
<1>13. from = body(from)
  <2> HIDE DEF body
  <2>1. QED
    BY <1>12, Zenon
<1>14. Flatten(s) = from[1]
  BY Zenon DEF Flatten, arms
<1> HIDE DEF from
<1>15. \A i \in D : from[i] = IF i > Len(s) THEN <<>> ELSE FlatEmit(s, i) \o from[i + FlatTake(s, i)]
  <2>1. \A i \in D : from[i] = arms(from, i)
    <3> HIDE DEF D
    <3> QED
      BY <1>13, Zenon
  <2>2. QED
    BY <1>10, <2>1, Zenon
<1>16. \A i \in D : f[i] = from[i] \/ (rank[next[i]] < rank[i] /\ (f[next[i]] = from[next[i]] => f[i] = from[i]))
  <2> TAKE i \in D
  <2>1. CASE i > Len(s)
    BY <1>11, <1>15, <2>1
  <2>2. CASE i \in 1..Len(s)
    <3>1. next[i] = i + FlatTake(s, i) /\ ~(i > Len(s))
      BY <1>1, <2>2
    <3>2. f[i] = FlatEmit(s, i) \o f[next[i]] /\ from[i] = FlatEmit(s, i) \o from[next[i]]
      BY <1>11, <1>15, <3>1, Zenon
    <3>3. QED
      BY <1>7, <2>2, <3>2, Zenon
  <2>3. QED
    BY <1>2, <2>1, <2>2, Zenon
<1>17. \A i \in D : f[i] = from[i]
  <2> HIDE DEF D, V, next, rank
  <2>1. Agree(D, next, rank, f, from)
    BY <1>4, <1>16, Zenon DEF Agree
  <2>2. Same(D, f, from)
    BY <2>1, SameRecursion, Zenon
  <2>3. QED
    BY <2>2, Zenon DEF Same
<1>18. Flattens(s, f)
  BY <1>9, <1>11, Zenon DEF Flattens
<1>19. 1 \in D
  BY <1>1
<1>20. QED
  BY <1>14, <1>17, <1>18, <1>19, Zenon

\* What flatten does at a place that is no doubly encoded separator.
LEMMA FlatAt ==
  ASSUME NEW s \in Seq(Chars), NEW i \in 1..Len(s)
  PROVE  /\ s[i] # "%" => FlatTake(s, i) = 1 /\ FlatEmit(s, i) = (IF s[i] = "\\" THEN <<"/">> ELSE <<s[i]>>)
         /\ HasOneAt(s, i, EncodedSeparators) => FlatTake(s, i) = 3 /\ FlatEmit(s, i) = <<"/">>
<1>1. i \in Nat /\ i <= Len(s)
  OBVIOUS
<1>2. HasAt(s, i, <<"\\">>) <=> s[i] = "\\"
  BY <1>1, HasWord1
<1>3. ASSUME s[i] # "%"
      PROVE  FlatTake(s, i) = 1 /\ FlatEmit(s, i) = (IF s[i] = "\\" THEN <<"/">> ELSE <<s[i]>>)
  <2>1. ~HasOneAt(s, i, DoubleSeparators) /\ ~HasOneAt(s, i, EncodedSeparators)
    BY <1>1, <1>3, DoubleAt, EncodedThere
  <2>2. QED
    BY <1>2, <2>1, Zenon DEF FlatTake, FlatEmit
<1>4. ASSUME HasOneAt(s, i, EncodedSeparators)
      PROVE  FlatTake(s, i) = 3 /\ FlatEmit(s, i) = <<"/">>
  <2>1. ~HasOneAt(s, i, DoubleSeparators)
    BY <1>1, <1>4, FlatArms
  <2>2. QED
    BY <1>4, <2>1, Zenon DEF FlatTake, FlatEmit
<1>5. QED
  BY <1>3, <1>4

\* What is flattened in s does not depend on what comes after it.
LEMMA FlatPrefix ==
  ASSUME NEW s \in Seq(Chars), NEW t \in Seq(Chars), NEW i \in 1..Len(s), Esc(s)
  PROVE  FlatTake(s \o t, i) = FlatTake(s, i) /\ FlatEmit(s \o t, i) = FlatEmit(s, i)
<1>1. PICK st : st = s \o t
  BY Zenon
<1>2. /\ st \in Seq(Chars) /\ Len(s) \in Nat /\ Len(t) \in Nat /\ Len(st) = Len(s) + Len(t)
      /\ \A j \in 1..Len(s) : st[j] = s[j]
  BY <1>1, Concat
<1>3. st[i] = s[i] /\ i \in 1..Len(st)
  BY <1>2
<1>4. CASE s[i] # "%"
  <2>1. st[i] # "%"
    BY <1>3, <1>4
  <2>2. /\ FlatTake(st, i) = 1 /\ FlatEmit(st, i) = (IF st[i] = "\\" THEN <<"/">> ELSE <<st[i]>>)
        /\ FlatTake(s, i) = 1 /\ FlatEmit(s, i) = (IF s[i] = "\\" THEN <<"/">> ELSE <<s[i]>>)
    BY <1>2, <1>3, <1>4, <2>1, FlatAt, Zenon
  <2>3. QED
    BY <1>1, <1>3, <2>2, Zenon
<1>5. CASE s[i] = "%"
  <2>1. HasOneAt(s, i, EncodedSeparators)
    BY <1>5, Zenon DEF Esc
  <2>2. /\ i + 2 <= Len(s)
        /\ \/ s[i + 1] = "2" /\ s[i + 2] \in {"f", "F"}
           \/ s[i + 1] = "5" /\ s[i + 2] \in {"c", "C"}
    BY <2>1, EncodedAt
  <2>3. st[i + 1] = s[i + 1] /\ st[i + 2] = s[i + 2] /\ i + 2 <= Len(st)
    BY <1>2, <2>2
  <2>4. HasOneAt(st, i, EncodedSeparators)
    <3>1. /\ i + 2 <= Len(st) /\ st[i] = "%"
          /\ \/ st[i + 1] = "2" /\ st[i + 2] \in {"f", "F"}
             \/ st[i + 1] = "5" /\ st[i + 2] \in {"c", "C"}
      BY <1>3, <1>5, <2>2, <2>3, Zenon
    <3>2. QED
      BY <1>2, <1>3, <3>1, EncodedAt, Zenon
  <2>5. /\ FlatTake(st, i) = 3 /\ FlatEmit(st, i) = <<"/">>
        /\ FlatTake(s, i) = 3 /\ FlatEmit(s, i) = <<"/">>
    BY <1>2, <1>3, <2>1, <2>4, FlatAt, Zenon
  <2>6. QED
    BY <1>1, <2>5, Zenon
<1>6. QED
  BY <1>4, <1>5

\* One step of flatten.
LEMMA FlatNext ==
  ASSUME NEW s \in Seq(Chars), NEW from, Flattens(s, from), NEW i \in 1..Len(s)
  PROVE  /\ i + FlatTake(s, i) \in (i + 1)..(Len(s) + 1)
         /\ from[i] = FlatEmit(s, i) \o from[i + FlatTake(s, i)]
         /\ FlatEmit(s, i) \in Seq(Chars)
         /\ from[i + FlatTake(s, i)] \in Seq(Chars)
<1>1. Len(s) \in Nat
  OBVIOUS
<1>2. PICK k : k = FlatTake(s, i)
  OBVIOUS
<1>3. k \in 1..5 /\ i + k <= Len(s) + 1 /\ FlatEmit(s, i) \in Seq(Chars)
  BY <1>2, FlatType, Zenon
<1>4. i + k \in (i + 1)..(Len(s) + 1) /\ i \in 1..(Len(s) + 5) /\ ~(i > Len(s)) /\ i + k \in 1..(Len(s) + 5)
  BY <1>1, <1>3
<1>5. from[i] = FlatEmit(s, i) \o from[i + k] /\ from[i + k] \in Seq(Chars)
  BY <1>2, <1>4, Zenon DEF Flattens
<1>6. QED
  BY <1>2, <1>3, <1>4, <1>5, Zenon

\* The end of flatten.
LEMMA FlatEnd ==
  ASSUME NEW s \in Seq(Chars), NEW from, Flattens(s, from)
  PROVE  /\ from[Len(s) + 1] = <<>>
         /\ \A i \in 1..(Len(s) + 1) : from[i] \in Seq(Chars)
<1>1. Len(s) + 1 \in 1..(Len(s) + 5) /\ Len(s) + 1 > Len(s)
  OBVIOUS
<1>2. from[Len(s) + 1] = <<>>
  BY <1>1, Zenon DEF Flattens
<1>3. 1..(Len(s) + 1) \subseteq 1..(Len(s) + 5)
  OBVIOUS
<1>4. QED
  BY <1>2, <1>3, Zenon DEF Flattens

\* flatten goes on into what is appended, unless an escape crosses the seam.
LEMMA FlattensApart ==
  ASSUME NEW s \in Seq(Chars), NEW t \in Seq(Chars), NEW f, NEW g,
         Esc(s), Flattens(s, f), Flattens(s \o t, g)
  PROVE  Apart(f, g, Len(s))
<1>1. Len(s) \in Nat /\ Len(t) \in Nat /\ s \o t \in Seq(Chars) /\ Len(s \o t) = Len(s) + Len(t)
  BY Concat
<1>2. PICK n \in Nat : n = Len(s)
  BY <1>1
<1>3. PICK st : st = s \o t
  BY Zenon
<1>4. st \in Seq(Chars) /\ Len(st) \in Nat /\ n <= Len(st) /\ Flattens(st, g)
  BY <1>1, <1>2, <1>3
<1>5. f[n + 1] = <<>> /\ \A i \in 1..(n + 1) : f[i] \in Seq(Chars)
  BY <1>2, FlatEnd, Zenon
<1>6. \A i \in 1..(n + 1) : g[i] \in Seq(Chars)
  <2>1. \A i \in 1..(Len(st) + 1) : g[i] \in Seq(Chars)
    BY <1>4, FlatEnd, Zenon
  <2>2. 1..(n + 1) \subseteq 1..(Len(st) + 1)
    BY <1>4
  <2>3. QED
    BY <2>1, <2>2, Zenon
<1>7. PICK tail : tail = g[n + 1] /\ tail \in Seq(Chars)
  BY <1>6
<1> DEFINE D == 1..(n + 1)
           P == {i \in D : g[i] = f[i] \o tail}
<1>8. n + 1 \in P
  <2>1. <<>> \o tail = tail
    BY <1>7, ConcatEmpty
  <2>2. n + 1 \in D
    OBVIOUS
  <2>3. QED
    BY <1>5, <1>7, <2>1, <2>2, Zenon
<1>9. ASSUME NEW i \in 1..n, \A j \in (i + 1)..(n + 1) : j \in P
      PROVE  i \in P
  <2>1. i \in 1..Len(s) /\ i \in 1..Len(st) /\ i \in D
    BY <1>1, <1>2, <1>4
  <2>2. PICK e, j : e = FlatEmit(s, i) /\ j = i + FlatTake(s, i)
    OBVIOUS
  <2>3. FlatEmit(st, i) = e /\ i + FlatTake(st, i) = j
    BY <1>3, <2>1, <2>2, FlatPrefix, Zenon
  <2>4. j \in (i + 1)..(n + 1) /\ f[i] = e \o f[j] /\ e \in Seq(Chars) /\ f[j] \in Seq(Chars)
    BY <1>2, <2>1, <2>2, FlatNext, Zenon
  <2>5. g[i] = e \o g[j]
    BY <1>4, <2>1, <2>3, FlatNext, Zenon
  <2>6. g[j] = f[j] \o tail
    BY <1>9, <2>4, Zenon
  <2>7. e \o (f[j] \o tail) = (e \o f[j]) \o tail
    <3>1. PICK w : w = f[j]
      OBVIOUS
    <3>2. e \in Seq(Chars) /\ w \in Seq(Chars) /\ tail \in Seq(Chars)
      BY <1>7, <2>4, <3>1, Zenon
    <3>3. e \o (w \o tail) = (e \o w) \o tail
      BY <3>2, CharsAssoc, ZenonT(40)
    <3>4. QED
      BY <3>1, <3>3
  <2>8. QED
    BY <2>1, <2>4, <2>5, <2>6, <2>7, Zenon
<1>10. \A i \in 1..(n + 1) : i \in P
  <2> HIDE DEF P
  <2>1. QED
    BY <1>8, <1>9, DownInduction, Zenon
<1>11. 1 \in P
  BY <1>10
<1>12. QED
  BY <1>2, <1>7, <1>11, Zenon DEF Apart

\* A word that is flattened to the letter c.
FlatWord(t, c) ==
  /\ t \in Seq(Chars) /\ t # <<>>
  /\ FlatTake(t, 1) = Len(t) /\ FlatEmit(t, 1) = <<c>>
  /\ t[1] = "%" => HasOneAt(t, 1, EncodedSeparators)

\* flatten of a text and a word is what it makes of each.
LEMMA FlattenAppend ==
  ASSUME NEW s \in Seq(Chars), Esc(s), NEW t, NEW c \in Chars, FlatWord(t, c)
  PROVE  Flatten(s \o t) = Flatten(s) \o <<c>>
<1>1. t \in Seq(Chars) /\ Len(t) \in Nat /\ Len(t) > 0 /\ 1 \in 1..Len(t) /\ Len(s) \in Nat
  BY DEF FlatWord
<1>2. PICK st : st = s \o t
  BY Zenon
<1>3. st \in Seq(Chars) /\ Len(st) = Len(s) + Len(t) /\ st[Len(s) + 1] = t[1]
  BY <1>1, <1>2
<1>4. PICK f : Flattens(s, f) /\ Flatten(s) = f[1]
  BY FlattenIs
<1>5. PICK g : Flattens(st, g) /\ Flatten(st) = g[1]
  BY <1>3, FlattenIs, Zenon
<1>6. g[1] = f[1] \o g[Len(s) + 1]
  <2>1. Flattens(s \o t, g)
    BY <1>2, <1>5
  <2>2. Apart(f, g, Len(s))
    BY <1>1, <1>4, <2>1, FlattensApart, Zenon
  <2>3. QED
    BY <2>2 DEF Apart
<1>7. PICK k : k = Len(s) + 1
  OBVIOUS
<1>8. k \in 1..Len(st) /\ k + Len(t) = Len(st) + 1
  BY <1>1, <1>3, <1>7
<1>9. FlatTake(st, k) = Len(t) /\ FlatEmit(st, k) = <<c>>
  <2>1. CASE t[1] # "%"
    <3>1. st[k] # "%" /\ st[k] = t[1]
      BY <1>3, <1>7, <2>1
    <3>2. /\ FlatTake(st, k) = 1 /\ FlatEmit(st, k) = (IF st[k] = "\\" THEN <<"/">> ELSE <<st[k]>>)
          /\ FlatTake(t, 1) = 1 /\ FlatEmit(t, 1) = (IF t[1] = "\\" THEN <<"/">> ELSE <<t[1]>>)
      BY <1>1, <1>3, <1>8, <2>1, <3>1, FlatAt, Zenon
    <3>3. QED
      BY <3>1, <3>2, Zenon DEF FlatWord
  <2>2. CASE t[1] = "%"
    <3>1. HasOneAt(t, 1, EncodedSeparators)
      BY <2>2 DEF FlatWord
    <3>2. EncodedSeparators \in SUBSET Seq(Chars) /\ 1 \in 1..(Len(t) + 1)
      <4>1. EncodedSeparators \in SUBSET Seq(Chars)
        BY WordsAreText, Zenon
      <4>2. 1 \in 1..(Len(t) + 1)
        BY <1>1
      <4>3. QED
        BY <4>1, <4>2
    <3>3. HasOneAt(st, k, EncodedSeparators)
      BY <1>1, <1>2, <1>7, <3>1, <3>2, HasOneShift, Zenon
    <3>4. /\ FlatTake(st, k) = 3 /\ FlatEmit(st, k) = <<"/">>
          /\ FlatTake(t, 1) = 3 /\ FlatEmit(t, 1) = <<"/">>
      BY <1>1, <1>3, <1>8, <3>1, <3>3, FlatAt, Zenon
    <3>5. QED
      BY <3>4, Zenon DEF FlatWord
  <2>3. QED
    BY <2>1, <2>2
<1>10. g[k] = <<c>> \o g[Len(st) + 1]
  BY <1>3, <1>5, <1>8, <1>9, FlatNext, Zenon
<1>11. g[Len(st) + 1] = <<>>
  BY <1>3, <1>5, FlatEnd, Zenon
<1>12. <<c>> \o <<>> = <<c>>
  OBVIOUS
<1>13. QED
  BY <1>2, <1>4, <1>5, <1>6, <1>7, <1>10, <1>11, <1>12, Zenon

\* flatten leaves a character that is neither a backslash nor a percent sign.
LEMMA FlatLetter ==
  ASSUME NEW c \in Chars, c \notin {"%", "\\"}
  PROVE  FlatWord(<<c>>, c)
<1>1. PICK t : t = <<c>>
  BY Zenon
<1>2. t \in Seq(Chars) /\ Len(t) = 1 /\ t[1] = c /\ t # <<>> /\ 1 \in 1..Len(t)
  BY <1>1
<1>3. FlatTake(t, 1) = 1 /\ FlatEmit(t, 1) = (IF t[1] = "\\" THEN <<"/">> ELSE <<t[1]>>)
  BY <1>2, FlatAt
<1>4. FlatWord(t, c)
  BY <1>2, <1>3 DEF FlatWord
<1>5. QED
  BY <1>1, <1>4

\* flatten makes a slash of every separator.
LEMMA FlatSeparator ==
  ASSUME NEW sep \in Seps
  PROVE  FlatWord(sep, "/")
<1>1. sep \in Seq(Chars) /\ sep # <<>>
  <2>1. <<>> \in Seq(Chars)
    OBVIOUS
  <2>2. QED
    BY <2>1, SepsAre, Zenon
<1>2. CASE sep \in {<<"/">>, <<"\\">>}
  <2>1. Len(sep) = 1 /\ 1 \in 1..Len(sep) /\ sep[1] \in {"/", "\\"}
    BY <1>2
  <2>2. FlatTake(sep, 1) = 1 /\ FlatEmit(sep, 1) = (IF sep[1] = "\\" THEN <<"/">> ELSE <<sep[1]>>)
    BY <1>1, <2>1, FlatAt, Zenon
  <2>3. QED
    BY <1>1, <2>1, <2>2 DEF FlatWord
<1>3. CASE sep \in EncodedSeparators
  <2>1. Len(sep) = 3 /\ 1 \in 1..Len(sep)
    BY <1>3 DEF EncodedSeparators
  <2>2. HasAt(sep, 1, sep)
    BY <1>1 DEF HasAt
  <2>3. HasOneAt(sep, 1, EncodedSeparators)
    BY <1>3, <2>2, Zenon DEF HasOneAt
  <2>4. FlatTake(sep, 1) = 3 /\ FlatEmit(sep, 1) = <<"/">>
    BY <1>1, <2>1, <2>3, FlatAt
  <2>5. QED
    BY <1>1, <2>1, <2>3, <2>4, Zenon DEF FlatWord
<1>4. QED
  BY <1>2, <1>3, Zenon DEF Seps

-----------------------------------------------------------------------------
(* strip_params *)

\* Is the character at i dropped, inside parameters or not?
Drop(s, i, inside) == s[i] # "/" /\ (inside \/ s[i] = Semicolon)

Kept(s, i, inside) == IF Drop(s, i, inside) THEN <<>> ELSE <<s[i]>>

\* The text from each place on, inside parameters or not, stripped of them.
StripsAt(s, from, i, inside) ==
  from[i][inside] = IF i > Len(s) THEN <<>>
                    ELSE Kept(s, i, inside) \o from[i + 1][Drop(s, i, inside)]

Strips(s, from) ==
  /\ from \in [1..(Len(s) + 1) -> [BOOLEAN -> Seq(Chars)]]
  /\ \A i \in 1..(Len(s) + 1), inside \in BOOLEAN : StripsAt(s, from, i, inside)

\* What strip_params keeps of a character is a text.
LEMMA KeptType ==
  ASSUME NEW s \in Seq(Chars), NEW i \in 1..Len(s), NEW inside
  PROVE  Kept(s, i, inside) \in Seq(Chars)
BY DEF Kept

\* The recursion of strip_params has a solution, and its value at the first
\* character is what strip_params returns.
LEMMA StripParamsIs ==
  ASSUME NEW s \in Seq(Chars)
  PROVE  \E from : Strips(s, from) /\ StripParams(s) = from[1][FALSE]
<1> DEFINE D == 1..(Len(s) + 1)
           V == [BOOLEAN -> Seq(Chars)]
           next == [i \in D |-> IF i > Len(s) THEN i ELSE i + 1]
           rank == [i \in D |-> Len(s) + 1 - i]
           at(v, i, inside) == IF i > Len(s) THEN <<>>
                               ELSE Kept(s, i, inside) \o v[Drop(s, i, inside)]
           step == [i \in D |-> [v \in V |-> [inside \in BOOLEAN |-> at(v, i, inside)]]]
           body(f) == [i \in D |-> [inside \in BOOLEAN |-> at(f[i + 1], i, inside)]]
           from == CHOOSE g : g = body(g)
<1>1. Len(s) \in Nat /\ Len(s) + 1 \in Nat
  OBVIOUS
<1>2. \A i \in D : i > Len(s) \/ i \in 1..Len(s)
  BY <1>1
<1>3. next \in [D -> D] /\ rank \in [D -> Nat]
  BY <1>1, <1>2
<1>4. \A i, inside : Drop(s, i, inside) \in BOOLEAN
  BY DEF Drop
<1>5. step \in [D -> [V -> V]]
  <2> SUFFICES ASSUME NEW i \in D, NEW v \in V, NEW inside \in BOOLEAN
               PROVE at(v, i, inside) \in Seq(Chars)
    BY Zenon
  <2>1. CASE i > Len(s)
    BY <2>1
  <2>2. CASE i \in 1..Len(s)
    <3>1. PICK a, b : a = Kept(s, i, inside) /\ b = v[Drop(s, i, inside)]
      OBVIOUS
    <3>2. a \in Seq(Chars)
      BY <2>2, <3>1, KeptType
    <3>3. b \in Seq(Chars)
      BY <1>4, <3>1, Zenon
    <3>4. a \o b \in Seq(Chars)
      BY <3>2, <3>3
    <3>5. ~(i > Len(s))
      BY <1>1, <2>2
    <3>6. QED
      BY <3>1, <3>4, <3>5, Zenon
  <2>3. QED
    BY <1>2, <2>1, <2>2
<1>6. \E N \in Nat : \A i \in D : rank[i] < N
  <2>1. \A i \in D : rank[i] < Len(s) + 1
    BY <1>1
  <2>2. QED
    BY <1>1, <2>1
<1>7. ASSUME NEW i \in 1..Len(s)
      PROVE  rank[next[i]] < rank[i] /\ next[i] = i + 1
  BY <1>1
<1>8. ASSUME NEW i \in D
      PROVE  rank[next[i]] < rank[i] \/ \A v, w \in V : step[i][v] = step[i][w]
  <2>1. CASE i > Len(s)
    <3>1. ASSUME NEW v \in V PROVE step[i][v] = [inside \in BOOLEAN |-> <<>>]
      BY <2>1, Zenon
    <3> HIDE DEF V, step
    <3>2. QED
      BY <3>1, Zenon
  <2>2. QED
    BY <1>2, <1>7, <2>1
<1>9. PICK f : f \in [D -> V] /\ \A i \in D : f[i] = step[i][f[next[i]]]
  <2>0. V # {}
    <3>1. <<>> \in Seq(Chars)
      OBVIOUS
    <3>2. [i \in BOOLEAN |-> <<>>] \in V
      BY <3>1, Zenon
    <3>3. QED
      BY <3>2, Zenon
  <2> HIDE DEF D, V, next, rank, step
  <2>1. Descends(D, V, next, rank, step)
    BY <1>3, <1>5, <1>6, <1>8, <2>0, Zenon DEF Descends
  <2>2. \E f : Solves(D, V, next, step, f)
    BY <2>1, Recursion, Zenon
  <2>3. QED
    BY <2>2, Zenon DEF Solves
<1>10. ASSUME NEW i \in D PROVE f[i] = body(f)[i]
  <2>1. next[i] \in D /\ f[next[i]] \in V
    BY <1>3, <1>9, Zenon
  <2>2. f[i] = [inside \in BOOLEAN |-> at(f[next[i]], i, inside)]
    BY <1>9, <2>1, Zenon
  <2>3. ASSUME NEW inside \in BOOLEAN
        PROVE  at(f[next[i]], i, inside) = at(f[i + 1], i, inside)
    <3>1. CASE i > Len(s)
      BY <3>1, Zenon
    <3>2. CASE ~(i > Len(s))
      <4>1. next[i] = i + 1
        BY <3>2, Zenon
      <4>2. QED
        BY <4>1, Zenon
    <3>3. QED
      BY <3>1, <3>2
  <2>4. body(f)[i] = [inside \in BOOLEAN |-> at(f[i + 1], i, inside)]
    BY Zenon
  <2> HIDE DEF D, V, next, at
  <2>5. QED
    BY <2>2, <2>3, <2>4, Zenon
<1>11. f = body(f)
  <2>1. f = [i \in D |-> f[i]] /\ body(f) = [i \in D |-> body(f)[i]]
    BY <1>9, Zenon
  <2> HIDE DEF D, V, body
  <2>2. QED
    BY <1>10, <2>1, Zenon
<1>12. from = body(from)
  <2> HIDE DEF body
  <2>1. QED
    BY <1>11, Zenon
<1>13. StripParams(s) = from[1][FALSE]
  BY Zenon DEF StripParams, Kept, Drop
<1> HIDE DEF from
<1>14. ASSUME NEW i \in D
       PROVE  f[i] = from[i] \/ (rank[next[i]] < rank[i] /\ (f[next[i]] = from[next[i]] => f[i] = from[i]))
  <2>1. /\ f[i] = [inside \in BOOLEAN |-> at(f[i + 1], i, inside)]
        /\ from[i] = [inside \in BOOLEAN |-> at(from[i + 1], i, inside)]
    <3>1. body(f)[i] = [inside \in BOOLEAN |-> at(f[i + 1], i, inside)]
      BY Zenon
    <3>2. body(from)[i] = [inside \in BOOLEAN |-> at(from[i + 1], i, inside)]
      BY Zenon
    <3> HIDE DEF body
    <3>3. QED
      BY <1>11, <1>12, <3>1, <3>2, Zenon
  <2>2. CASE i > Len(s)
    <3>1. \A inside \in BOOLEAN : at(f[i + 1], i, inside) = at(from[i + 1], i, inside)
      BY <2>2, Zenon
    <3> HIDE DEF D, at
    <3>2. QED
      BY <2>1, <3>1, Zenon
  <2>3. CASE ~(i > Len(s))
    <3>1. rank[next[i]] < rank[i] /\ next[i] = i + 1
      BY <1>2, <1>7, <2>3, Zenon
    <3>2. ASSUME f[next[i]] = from[next[i]] PROVE f[i] = from[i]
      <4>1. \A inside \in BOOLEAN : at(f[i + 1], i, inside) = at(from[i + 1], i, inside)
        BY <3>1, <3>2, Zenon
      <4> HIDE DEF D, at
      <4>2. QED
        BY <2>1, <4>1, Zenon
    <3>3. QED
      BY <3>1, <3>2
  <2>4. QED
    BY <2>2, <2>3
<1>15. \A i \in D : f[i] = from[i]
  <2> HIDE DEF D, V, next, rank
  <2>1. Agree(D, next, rank, f, from)
    BY <1>3, <1>14, Zenon DEF Agree
  <2>2. Same(D, f, from)
    BY <2>1, SameRecursion, Zenon
  <2>3. QED
    BY <2>2, Zenon DEF Same
<1>16. Strips(s, f)
  <2>1. \A i \in D, inside \in BOOLEAN : f[i][inside] = at(f[i + 1], i, inside)
    BY <1>10, Zenon
  <2>2. \A i \in D, inside \in BOOLEAN : StripsAt(s, f, i, inside)
    BY <2>1, Zenon DEF StripsAt
  <2>3. QED
    BY <1>9, <2>2, Zenon DEF Strips
<1>17. 1 \in D
  BY <1>1
<1>18. QED
  BY <1>13, <1>15, <1>16, <1>17, Zenon

\* Does s end inside parameters, read from i on?
InsideFrom(s, i, inside) ==
  \/ \E j \in i..Len(s) : s[j] = Semicolon /\ \A k \in j..Len(s) : s[k] # "/"
  \/ inside /\ \A k \in i..Len(s) : s[k] # "/"

Inside(s) == InsideFrom(s, 1, FALSE)

\* Whether a text ends inside parameters, one character on.
LEMMA InsideNext ==
  ASSUME NEW s \in Seq(Chars), NEW i \in 1..Len(s), NEW inside \in BOOLEAN
  PROVE  InsideFrom(s, i, inside) <=> InsideFrom(s, i + 1, Drop(s, i, inside))
<1>1. Len(s) \in Nat
  OBVIOUS
<1>2. i..Len(s) = {i} \cup (i + 1)..Len(s)
  BY <1>1
<1>3. (\E j \in i..Len(s) : s[j] = Semicolon /\ \A k \in j..Len(s) : s[k] # "/")
        <=> \/ s[i] = Semicolon /\ \A k \in i..Len(s) : s[k] # "/"
            \/ \E j \in (i + 1)..Len(s) : s[j] = Semicolon /\ \A k \in j..Len(s) : s[k] # "/"
  BY <1>2, Zenon
<1>4. (\A k \in i..Len(s) : s[k] # "/") <=> s[i] # "/" /\ \A k \in (i + 1)..Len(s) : s[k] # "/"
  BY <1>2, Zenon
<1>5. QED
  BY <1>3, <1>4, Zenon DEF InsideFrom, Drop

\* One step of strip_params.
LEMMA StripNext ==
  ASSUME NEW s \in Seq(Chars), NEW from, Strips(s, from), NEW i \in 1..Len(s), NEW inside \in BOOLEAN
  PROVE  /\ from[i][inside] = Kept(s, i, inside) \o from[i + 1][Drop(s, i, inside)]
         /\ from[i + 1][Drop(s, i, inside)] \in Seq(Chars)
<1>1. i \in 1..(Len(s) + 1) /\ i + 1 \in 1..(Len(s) + 1) /\ ~(i > Len(s))
  OBVIOUS
<1>2. Drop(s, i, inside) \in BOOLEAN
  BY DEF Drop
<1>3. StripsAt(s, from, i, inside)
  BY <1>1, Zenon DEF Strips
<1>4. from[i][inside] = Kept(s, i, inside) \o from[i + 1][Drop(s, i, inside)]
  BY <1>1, <1>3, Zenon DEF StripsAt
<1>5. from[i + 1][Drop(s, i, inside)] \in Seq(Chars)
  BY <1>1, <1>2, Zenon DEF Strips
<1>6. QED
  BY <1>4, <1>5, Zenon

\* The end of strip_params.
LEMMA StripEnd ==
  ASSUME NEW s \in Seq(Chars), NEW from, Strips(s, from)
  PROVE  /\ \A inside \in BOOLEAN : from[Len(s) + 1][inside] = <<>>
         /\ \A i \in 1..(Len(s) + 1), inside \in BOOLEAN : from[i][inside] \in Seq(Chars)
<1>1. Len(s) + 1 \in 1..(Len(s) + 1) /\ Len(s) + 1 > Len(s)
  OBVIOUS
<1>2. QED
  BY <1>1, Zenon DEF Strips, StripsAt

\* What one more character adds, inside parameters or not.
Added(c, inside) == IF c # "/" /\ (inside \/ c = Semicolon) THEN <<>> ELSE <<c>>

\* strip_params returns a text.
LEMMA StripParamsType ==
  ASSUME NEW s \in Seq(Chars)
  PROVE  StripParams(s) \in Seq(Chars)
<1>1. PICK f : Strips(s, f) /\ StripParams(s) = f[1][FALSE]
  BY StripParamsIs, Zenon
<1>2. 1 \in 1..(Len(s) + 1)
  OBVIOUS
<1>3. QED
  BY <1>1, <1>2, StripEnd, Zenon

\* The text is stripped the same whatever character follows it.
StripsTo(f, g, n, s, c) ==
  \A i \in 1..(n + 1) : \A b \in BOOLEAN : g[i][b] = f[i][b] \o Added(c, InsideFrom(s, i, b))

\* What strip_params makes of the last character.
LEMMA StripLast ==
  ASSUME NEW s \in Seq(Chars), NEW c \in Chars, NEW st, st = s \o <<c>>, NEW g, Strips(st, g), NEW b \in BOOLEAN
  PROVE  g[Len(s) + 1][b] = Added(c, b)
<1>1. st \in Seq(Chars) /\ Len(st) = Len(s) + 1 /\ Len(s) \in Nat /\ st[Len(s) + 1] = c
  OBVIOUS
<1>2. PICK k : k = Len(s) + 1
  OBVIOUS
<1>3. k \in 1..Len(st) /\ k + 1 = Len(st) + 1 /\ st[k] = c
  BY <1>1, <1>2
<1>4. g[k][b] = Kept(st, k, b) \o g[k + 1][Drop(st, k, b)]
  BY <1>1, <1>3, StripNext, Zenon
<1>5. Drop(st, k, b) \in BOOLEAN
  BY DEF Drop
<1>6. g[k + 1][Drop(st, k, b)] = <<>>
  BY <1>1, <1>3, <1>5, StripEnd, Zenon
<1>7. Kept(st, k, b) = Added(c, b)
  BY <1>3, Zenon DEF Kept, Drop, Added
<1>8. Added(c, b) \in Seq(Chars)
  BY DEF Added
<1>9. Added(c, b) \o <<>> = Added(c, b)
  BY <1>8
<1>10. QED
  BY <1>2, <1>4, <1>6, <1>7, <1>9, Zenon

\* strip_params goes on into a character that is appended.
LEMMA StripsApart ==
  ASSUME NEW s \in Seq(Chars), NEW c \in Chars, NEW st, st = s \o <<c>>, NEW f, NEW g,
         Strips(s, f), Strips(st, g)
  PROVE  StripsTo(f, g, Len(s), s, c)
<1>1. /\ st \in Seq(Chars) /\ Len(st) = Len(s) + 1 /\ Len(s) \in Nat
      /\ \A i \in 1..Len(s) : st[i] = s[i]
  OBVIOUS
<1>2. PICK n \in Nat : n = Len(s)
  BY <1>1
<1>3. \A x : Added(c, x) \in Seq(Chars)
  BY DEF Added
<1>4. \A i, b : InsideFrom(s, i, b) \in BOOLEAN
  BY DEF InsideFrom
<1> DEFINE D == 1..(n + 1)
           P == {i \in D : \A b \in BOOLEAN : g[i][b] = f[i][b] \o Added(c, InsideFrom(s, i, b))}
<1>5. n + 1 \in P
  <2>1. n + 1 \in D
    OBVIOUS
  <2>2. ASSUME NEW b \in BOOLEAN PROVE g[n + 1][b] = f[n + 1][b] \o Added(c, InsideFrom(s, n + 1, b))
    <3>1. g[n + 1][b] = Added(c, b)
      BY <1>2, StripLast, Zenon
    <3>2. f[n + 1][b] = <<>>
      BY <1>2, StripEnd, Zenon
    <3>3. InsideFrom(s, n + 1, b) <=> b
      <4>1. (n + 1)..Len(s) = {}
        BY <1>2
      <4>2. QED
        BY <4>1, Zenon DEF InsideFrom
    <3>4. Added(c, InsideFrom(s, n + 1, b)) = Added(c, b)
      BY <3>3, Zenon DEF Added
    <3>5. <<>> \o Added(c, b) = Added(c, b)
      BY <1>3, ConcatEmpty
    <3>6. QED
      BY <3>1, <3>2, <3>4, <3>5, Zenon
  <2>3. QED
    BY <2>1, <2>2, Zenon
<1>6. ASSUME NEW i \in 1..n, \A j \in (i + 1)..(n + 1) : j \in P
      PROVE  i \in P
  <2>1. i \in 1..Len(s) /\ i \in 1..Len(st) /\ i \in D /\ i + 1 \in (i + 1)..(n + 1)
    BY <1>1, <1>2
  <2>2. i + 1 \in P
    BY <1>6, <2>1, Zenon
  <2>3. ASSUME NEW b \in BOOLEAN PROVE g[i][b] = f[i][b] \o Added(c, InsideFrom(s, i, b))
    <3>1. PICK d : d = Drop(s, i, b)
      OBVIOUS
    <3>2. st[i] = s[i]
      BY <1>1, <2>1, Zenon
    <3>3. d \in BOOLEAN /\ Drop(st, i, b) = d /\ Kept(st, i, b) = Kept(s, i, b)
      <4>1. Drop(st, i, b) = d
        BY <3>1, <3>2, Zenon DEF Drop
      <4>2. Kept(st, i, b) = Kept(s, i, b)
        BY <3>1, <3>2, <4>1, Zenon DEF Kept
      <4>3. d \in BOOLEAN
        BY <3>1 DEF Drop
      <4>4. QED
        BY <4>1, <4>2, <4>3, Zenon
    <3>4. PICK e, w, x : e = Kept(s, i, b) /\ w = f[i + 1][d] /\ x = Added(c, InsideFrom(s, i + 1, d))
      OBVIOUS
    <3>5. f[i][b] = e \o w /\ w \in Seq(Chars)
      BY <2>1, <3>1, <3>4, StripNext, Zenon
    <3>6. g[i][b] = e \o g[i + 1][d]
      <4>1. g[i][b] = Kept(st, i, b) \o g[i + 1][Drop(st, i, b)]
        BY <1>1, <2>1, StripNext, Zenon
      <4>2. QED
        BY <3>3, <3>4, <4>1, Zenon
    <3>7. g[i + 1][d] = w \o x
      BY <2>2, <3>3, <3>4, Zenon
    <3>8. e \in Seq(Chars) /\ x \in Seq(Chars)
      BY <1>3, <2>1, <3>4, KeptType, Zenon
    <3>9. e \o (w \o x) = (e \o w) \o x
      BY <3>5, <3>8, CharsAssoc, Zenon
    <3>10. Added(c, InsideFrom(s, i, b)) = x
      <4>1. InsideFrom(s, i, b) <=> InsideFrom(s, i + 1, d)
        BY <2>1, <3>1, InsideNext, Zenon
      <4>2. QED
        BY <3>4, <4>1, Zenon DEF Added
    <3>11. QED
      BY <3>5, <3>6, <3>7, <3>9, <3>10, Zenon
  <2>4. QED
    BY <2>1, <2>3, Zenon
<1>7. \A i \in 1..(n + 1) : i \in P
  <2> HIDE DEF P
  <2>1. QED
    BY <1>5, <1>6, DownInduction, Zenon
<1>8. QED
  BY <1>2, <1>7, Zenon DEF StripsTo

\* How strip_params takes one more character.
LEMMA StripLetter ==
  ASSUME NEW s \in Seq(Chars), NEW c \in Chars
  PROVE  StripParams(s \o <<c>>) =
           IF c # "/" /\ (Inside(s) \/ c = Semicolon) THEN StripParams(s) ELSE StripParams(s) \o <<c>>
<1>1. PICK st : st = s \o <<c>>
  BY Zenon
<1>2. st \in Seq(Chars)
  BY <1>1
<1>3. PICK f : Strips(s, f) /\ StripParams(s) = f[1][FALSE]
  BY StripParamsIs, Zenon
<1>4. PICK g : Strips(st, g) /\ StripParams(st) = g[1][FALSE]
  BY <1>2, StripParamsIs, Zenon
<1>5. StripsTo(f, g, Len(s), s, c)
  BY <1>1, <1>3, <1>4, StripsApart, Zenon
<1>6. 1 \in 1..(Len(s) + 1)
  OBVIOUS
<1>7. StripParams(st) = StripParams(s) \o Added(c, Inside(s))
  BY <1>3, <1>4, <1>5, <1>6, Zenon DEF StripsTo, Inside
<1>8. StripParams(s) \in Seq(Chars)
  BY StripParamsType
<1>9. StripParams(s) \o <<>> = StripParams(s)
  BY <1>8
<1>10. QED
  BY <1>1, <1>7, <1>9, Zenon DEF Added

\* Whether a text ends inside parameters, when a character is appended.
LEMMA InsideLetter ==
  ASSUME NEW s \in Seq(Chars), NEW c \in Chars
  PROVE  Inside(s \o <<c>>) <=> c # "/" /\ (Inside(s) \/ c = Semicolon)
<1>1. PICK st, n : st = s \o <<c>> /\ n = Len(s)
  BY Zenon
<1>2. st \in Seq(Chars) /\ Len(st) = n + 1 /\ n \in Nat /\ st[n + 1] = c /\ \A i \in 1..n : st[i] = s[i]
  BY <1>1
<1>3. Inside(s) <=> \E j \in 1..n : s[j] = Semicolon /\ \A k \in j..n : s[k] # "/"
  BY <1>1, Zenon DEF Inside, InsideFrom
<1>4. Inside(st) <=> \E j \in 1..(n + 1) : st[j] = Semicolon /\ \A k \in j..(n + 1) : st[k] # "/"
  BY <1>2, Zenon DEF Inside, InsideFrom
<1>5. ASSUME c # "/", Inside(s) PROVE Inside(st)
  <2>1. PICK j \in 1..n : s[j] = Semicolon /\ \A k \in j..n : s[k] # "/"
    BY <1>3, <1>5
  <2>2. j \in 1..(n + 1) /\ st[j] = Semicolon
    BY <1>2, <2>1
  <2>3. ASSUME NEW k \in j..(n + 1) PROVE st[k] # "/"
    <3>1. k = n + 1 \/ (k \in j..n /\ k \in 1..n)
      BY <1>2
    <3>2. QED
      BY <1>2, <1>5, <2>1, <3>1, Zenon
  <2>4. QED
    BY <1>4, <2>2, <2>3, ZenonT(40)
<1>6. ASSUME c # "/", c = Semicolon PROVE Inside(st)
  <2>1. n + 1 \in 1..(n + 1) /\ \A k \in (n + 1)..(n + 1) : k = n + 1
    BY <1>2
  <2>2. QED
    BY <1>2, <1>4, <1>6, <2>1, Zenon
<1>7. ASSUME Inside(st) PROVE c # "/" /\ (Inside(s) \/ c = Semicolon)
  <2>1. PICK j \in 1..(n + 1) : st[j] = Semicolon /\ \A k \in j..(n + 1) : st[k] # "/"
    BY <1>4, <1>7
  <2>2. n + 1 \in j..(n + 1)
    BY <1>2
  <2>3. c # "/"
    BY <1>2, <2>1, <2>2, Zenon
  <2>4. CASE j = n + 1
    BY <1>2, <2>1, <2>3, <2>4, Zenon
  <2>5. CASE j # n + 1
    <3>1. j \in 1..n
      BY <1>2, <2>5
    <3>2. ASSUME NEW k \in j..n PROVE s[k] # "/"
      <4>1. k \in j..(n + 1) /\ k \in 1..n
        BY <1>2, <3>1
      <4>2. QED
        BY <1>2, <2>1, <4>1, Zenon
    <3>3. s[j] = Semicolon
      BY <1>2, <2>1, <3>1, Zenon
    <3>4. Inside(s)
      BY <1>3, <3>1, <3>2, <3>3, Zenon
    <3>5. QED
      BY <2>3, <3>4
  <2>6. QED
    BY <2>4, <2>5
<1>8. QED
  BY <1>1, <1>5, <1>6, <1>7, Zenon

\* And how it takes a separator other than the slash.
LEMMA StripSeparator ==
  ASSUME NEW s \in Seq(Chars), NEW sep \in Seps, sep # <<"/">>
  PROVE  /\ StripParams(s \o sep) = IF Inside(s) THEN StripParams(s) ELSE StripParams(s) \o sep
         /\ Inside(s \o sep) <=> Inside(s)
<1>0. Semicolon \notin {"\\", "%", "2", "5", "f", "F", "c", "C"}
  BY Zenon DEF Semicolon
<1>1. ASSUME NEW c \in Chars \ {"/", Semicolon}, NEW t \in Seq(Chars)
      PROVE  /\ StripParams(t \o <<c>>) = IF Inside(t) THEN StripParams(t) ELSE StripParams(t) \o <<c>>
             /\ Inside(t \o <<c>>) <=> Inside(t)
             /\ t \o <<c>> \in Seq(Chars)
  <2>1. c \in Chars /\ c # "/" /\ c # Semicolon
    BY <1>1
  <2>2. /\ StripParams(t \o <<c>>) = IF c # "/" /\ (Inside(t) \/ c = Semicolon) THEN StripParams(t) ELSE StripParams(t) \o <<c>>
        /\ Inside(t \o <<c>>) <=> c # "/" /\ (Inside(t) \/ c = Semicolon)
    BY <2>1, StripLetter, InsideLetter, Zenon
  <2>3. t \o <<c>> \in Seq(Chars)
    BY <2>1
  <2>4. QED
    BY <2>1, <2>2, <2>3, Zenon
<1>2. CASE sep = <<"\\">>
  <2>1. "\\" \in Chars \ {"/", Semicolon}
    BY <1>0, CharsAre, Zenon
  <2>2. QED
    BY <1>1, <1>2, <2>1, Zenon
<1>3. CASE sep \in EncodedSeparators
  <2>1. PICK a, b : a \in {"2", "5"} /\ b \in {"f", "F", "c", "C"} /\ sep = <<"%", a, b>>
    BY <1>3 DEF EncodedSeparators
  <2>2. "%" \in Chars \ {"/", Semicolon} /\ a \in Chars \ {"/", Semicolon} /\ b \in Chars \ {"/", Semicolon}
    BY <1>0, <2>1, CharsAre, WordLetters, Zenon
  <2>3. PICK t1, t2, t3 : t1 = s \o <<"%">> /\ t2 = t1 \o <<a>> /\ t3 = t2 \o <<b>>
    BY Zenon
  <2>4. /\ StripParams(t1) = IF Inside(s) THEN StripParams(s) ELSE StripParams(s) \o <<"%">>
        /\ Inside(t1) <=> Inside(s)
        /\ t1 \in Seq(Chars)
    BY <1>1, <2>2, <2>3, Zenon
  <2>5. /\ StripParams(t2) = IF Inside(t1) THEN StripParams(t1) ELSE StripParams(t1) \o <<a>>
        /\ Inside(t2) <=> Inside(t1)
        /\ t2 \in Seq(Chars)
    BY <1>1, <2>2, <2>3, <2>4, Zenon
  <2>6. /\ StripParams(t3) = IF Inside(t2) THEN StripParams(t2) ELSE StripParams(t2) \o <<b>>
        /\ Inside(t3) <=> Inside(t2)
    BY <1>1, <2>2, <2>3, <2>5, Zenon
  <2>7. ASSUME NEW r \in Seq(Chars) PROVE ((r \o <<"%">>) \o <<a>>) \o <<b>> = r \o sep
    <3>1. PICK x, y, z : x = <<"%">> /\ y = <<a>> /\ z = <<b>>
      BY Zenon
    <3>2. x \in Seq(Chars) /\ y \in Seq(Chars) /\ z \in Seq(Chars)
      BY <2>2, <3>1
    <3>3. ((r \o x) \o y) \o z = r \o ((x \o y) \o z)
      <4>1. (r \o x) \o y = r \o (x \o y) /\ x \o y \in Seq(Chars)
        BY <3>2, CharsAssoc, Concat, Zenon
      <4>2. PICK xy : xy = x \o y
        BY Zenon
      <4>3. xy \in Seq(Chars)
        BY <4>1, <4>2
      <4>4. (r \o xy) \o z = r \o (xy \o z)
        BY <3>2, <4>3, CharsAssoc, ZenonT(40)
      <4>5. QED
        BY <4>1, <4>2, <4>4, Zenon
    <3>4. (x \o y) \o z = sep
      BY <2>1, <2>2, <3>1, ThreeChars, Zenon
    <3>5. QED
      BY <3>1, <3>3, <3>4, Zenon
  <2>8. t3 = s \o sep
    BY <2>3, <2>7, Zenon
  <2>9. StripParams(s) \in Seq(Chars)
    BY StripParamsType
  <2>10. CASE Inside(s)
    BY <2>4, <2>5, <2>6, <2>8, <2>10, Zenon
  <2>11. CASE ~Inside(s)
    <3>1. StripParams(t3) = ((StripParams(s) \o <<"%">>) \o <<a>>) \o <<b>>
      BY <2>4, <2>5, <2>6, <2>11, Zenon
    <3>2. StripParams(t3) = StripParams(s) \o sep
      BY <2>7, <2>9, <3>1, Zenon
    <3>3. QED
      BY <2>4, <2>5, <2>6, <2>8, <2>11, <3>2, Zenon
  <2>12. QED
    BY <2>10, <2>11, Zenon
<1>4. QED
  BY <1>2, <1>3, Zenon DEF Seps

-----------------------------------------------------------------------------
(* ambiguous_route *)

\* flatten returns a text.
LEMMA FlattenType ==
  ASSUME NEW s \in Seq(Chars)
  PROVE  Flatten(s) \in Seq(Chars)
<1>1. PICK f : Flattens(s, f) /\ Flatten(s) = f[1]
  BY FlattenIs, Zenon
<1>2. 1 \in 1..(Len(s) + 1)
  OBVIOUS
<1>3. QED
  BY <1>1, <1>2, FlatEnd, ZenonT(40)

\* flatten of nothing is nothing.
LEMMA FlattenEmpty == Flatten(<<>>) = <<>>
<1>1. <<>> \in Seq(Chars) /\ Len(<<>>) + 1 = 1
  OBVIOUS
<1>2. PICK from : Flattens(<<>>, from) /\ Flatten(<<>>) = from[1]
  BY <1>1, FlattenIs, Zenon
<1>3. from[Len(<<>>) + 1] = <<>>
  BY <1>1, <1>2, FlatEnd, Zenon
<1>4. QED
  BY <1>1, <1>2, <1>3, Zenon

\* strip_params of nothing is nothing.
LEMMA StripParamsEmpty == StripParams(<<>>) = <<>>
<1>1. <<>> \in Seq(Chars) /\ Len(<<>>) + 1 = 1
  OBVIOUS
<1>2. PICK from : Strips(<<>>, from) /\ StripParams(<<>>) = from[1][FALSE]
  BY <1>1, StripParamsIs, Zenon
<1>3. from[Len(<<>>) + 1][FALSE] = <<>>
  BY <1>1, <1>2, StripEnd, Zenon
<1>4. QED
  BY <1>1, <1>2, <1>3, Zenon

\* S, a text without escapes, is normalised to s.
ReadAs(S, s) ==
  /\ S \in Seq(Chars) /\ s \in Seq(Chars) /\ ~In(S, "%")
  /\ Normalize(S) = s
  /\ EndsWith(S, "/") <=> EndsWith(s, "/")

\* A reading goes on with a character of its own.
LEMMA ReadAsLetter ==
  ASSUME NEW S, NEW s, ReadAs(S, s), NEW c \in Chars, c # "%"
  PROVE  ReadAs(S \o <<c>>, Joined(s, <<c>>))
<1>1. S \in Seq(Chars) /\ s \in Seq(Chars) /\ ~In(S, "%") /\ Normalize(S) = s /\ (EndsWith(S, "/") <=> EndsWith(s, "/"))
  BY DEF ReadAs
<1>2. <<c>> \in Seq(Chars) /\ <<c>> # <<>> /\ (EndsWith(<<c>>, "/") <=> c = "/") /\ (<<c>> = <<"/">> <=> c = "/")
  BY DEF EndsWith
<1>3. ~In(<<c>>, "%")
  BY DEF In
<1>4. Word(<<c>>, <<c>>)
  BY LetterWord
<1>5. Complete(S)
  BY <1>1 DEF Complete, In
<1>6. Normalize(S \o <<c>>) = IF <<c>> = <<"/">> /\ EndsWith(S, "/") THEN Normalize(S) ELSE Normalize(S) \o <<c>>
  BY <1>1, <1>4, <1>5, NormalizeAppend, Zenon
<1>7. Normalize(S \o <<c>>) = Joined(s, <<c>>)
  BY <1>1, <1>6, Zenon DEF Joined
<1>8. S \o <<c>> \in Seq(Chars) /\ s \o <<c>> \in Seq(Chars)
  BY <1>1, <1>2
<1>9. Joined(s, <<c>>) \in Seq(Chars)
  BY <1>1, <1>8, Zenon DEF Joined
<1>10. ~In(S \o <<c>>, "%")
  BY <1>1, <1>2, <1>3, InAppend, Zenon
<1>11. EndsWith(S \o <<c>>, "/") <=> c = "/"
  BY <1>1, <1>2, EndsAppend, Zenon
<1>12. EndsWith(Joined(s, <<c>>), "/") <=> c = "/"
  <2>1. EndsWith(s \o <<c>>, "/") <=> c = "/"
    BY <1>1, <1>2, EndsAppend, Zenon
  <2>2. QED
    BY <1>2, <2>1, Zenon DEF Joined
<1>13. QED
  BY <1>7, <1>8, <1>9, <1>10, <1>11, <1>12, Zenon DEF ReadAs

\* What strip_params makes of F, a text without escapes, is read as s.
ReadFlat(F, s, inside) ==
  F \in Seq(Chars) /\ ReadAs(StripParams(F), s) /\ (inside <=> Inside(F))

\* The upstream that decodes first reads on.
LEMMA ReadFlatLetter ==
  ASSUME NEW F, NEW s, NEW inside, ReadFlat(F, s, inside), NEW c \in Chars, c # "%",
         NEW in2, in2 <=> c # "/" /\ (inside \/ c = Semicolon)
  PROVE  ReadFlat(F \o <<c>>, IF in2 THEN s ELSE Joined(s, <<c>>), in2)
<1>1. F \in Seq(Chars) /\ ReadAs(StripParams(F), s) /\ (inside <=> Inside(F))
  BY DEF ReadFlat
<1>2. F \o <<c>> \in Seq(Chars)
  BY <1>1
<1>3. /\ StripParams(F \o <<c>>) =
           IF c # "/" /\ (Inside(F) \/ c = Semicolon) THEN StripParams(F) ELSE StripParams(F) \o <<c>>
      /\ Inside(F \o <<c>>) <=> c # "/" /\ (Inside(F) \/ c = Semicolon)
  BY <1>1, StripLetter, InsideLetter, Zenon
<1>4. ReadAs(StripParams(F) \o <<c>>, Joined(s, <<c>>))
  BY <1>1, ReadAsLetter, Zenon
<1>5. QED
  BY <1>1, <1>2, <1>3, <1>4, Zenon DEF ReadFlat

\* What strip_params, then flatten, makes of C is read as s.
ReadLazy(C, s, inside) ==
  /\ C \in Seq(Chars) /\ Esc(StripParams(C))
  /\ ReadAs(Flatten(StripParams(C)), s)
  /\ inside <=> Inside(C)

\* The upstream that drops parameters first reads on.
LEMMA ReadLazyLetter ==
  ASSUME NEW C, NEW s, NEW inside, ReadLazy(C, s, inside), NEW c \in Chars, c \notin {"%", "\\"},
         NEW in2, in2 <=> c # "/" /\ (inside \/ c = Semicolon)
  PROVE  ReadLazy(C \o <<c>>, IF in2 THEN s ELSE Joined(s, <<c>>), in2)
<1>1. C \in Seq(Chars) /\ Esc(StripParams(C)) /\ ReadAs(Flatten(StripParams(C)), s) /\ (inside <=> Inside(C))
  BY DEF ReadLazy
<1>2. C \o <<c>> \in Seq(Chars) /\ <<c>> \in Seq(Chars) /\ c # "%"
  BY <1>1
<1>3. /\ StripParams(C \o <<c>>) =
           IF c # "/" /\ (Inside(C) \/ c = Semicolon) THEN StripParams(C) ELSE StripParams(C) \o <<c>>
      /\ Inside(C \o <<c>>) <=> c # "/" /\ (Inside(C) \/ c = Semicolon)
  BY <1>1, StripLetter, InsideLetter, Zenon
<1>4. StripParams(C) \in Seq(Chars)
  BY <1>1, StripParamsType
<1>5. Esc(<<c>>)
  BY DEF Esc
<1>6. Esc(StripParams(C) \o <<c>>)
  BY <1>1, <1>2, <1>4, <1>5, EscAppend, Zenon
<1>7. Flatten(StripParams(C) \o <<c>>) = Flatten(StripParams(C)) \o <<c>>
  <2>1. FlatWord(<<c>>, c)
    BY FlatLetter
  <2>2. QED
    BY <1>1, <1>4, <2>1, FlattenAppend, Zenon
<1>8. ReadAs(Flatten(StripParams(C) \o <<c>>), Joined(s, <<c>>))
  BY <1>1, <1>2, <1>7, ReadAsLetter, Zenon
<1>9. QED
  BY <1>1, <1>2, <1>3, <1>6, <1>8, Zenon DEF ReadLazy

\* For the upstream that drops parameters first, a separator other than the
\* slash is part of the parameters.
LEMMA ReadLazySeparator ==
  ASSUME NEW C, NEW s, NEW inside, ReadLazy(C, s, inside), NEW sep \in Seps, sep # <<"/">>
  PROVE  ReadLazy(C \o sep, IF inside THEN s ELSE Joined(s, <<"/">>), inside)
<1>1. C \in Seq(Chars) /\ Esc(StripParams(C)) /\ ReadAs(Flatten(StripParams(C)), s) /\ (inside <=> Inside(C))
  BY DEF ReadLazy
<1>2. sep \in Seq(Chars) /\ Esc(sep)
  <2>1. <<>> \in Seq(Chars)
    OBVIOUS
  <2>2. QED
    BY <2>1, SepsAre, Zenon
<1>3. C \o sep \in Seq(Chars)
  BY <1>1, <1>2
<1>4. /\ StripParams(C \o sep) = IF Inside(C) THEN StripParams(C) ELSE StripParams(C) \o sep
      /\ Inside(C \o sep) <=> Inside(C)
  BY <1>1, StripSeparator, Zenon
<1>5. StripParams(C) \in Seq(Chars)
  BY <1>1, StripParamsType
<1>6. Esc(StripParams(C) \o sep)
  BY <1>1, <1>2, <1>5, EscAppend, ZenonT(40)
<1>7. "/" \in Chars /\ "/" # "%"
  BY CharsAre
<1>8. Flatten(StripParams(C) \o sep) = Flatten(StripParams(C)) \o <<"/">>
  <2>1. FlatWord(sep, "/")
    BY FlatSeparator
  <2>2. QED
    BY <1>1, <1>5, <1>7, <2>1, FlattenAppend, Zenon
<1>9. ReadAs(Flatten(StripParams(C) \o sep), Joined(s, <<"/">>))
  BY <1>1, <1>7, <1>8, ReadAsLetter, Zenon
<1>10. QED
  BY <1>1, <1>3, <1>4, <1>6, <1>9, Zenon DEF ReadLazy

\* Two of ambiguous_route's readings of the canonical path are what the two
\* kinds of upstream make of it.
ReadersInv ==
  ReadFlat(Flatten(canon), flat, params.flat) /\ ReadLazy(canon, lazy, params.lazy)

\* At first every upstream reads the root path.
LEMMA ReadersInit == RoutingInit => ReadersInv
<1> SUFFICES ASSUME RoutingInit PROVE ReadersInv
  OBVIOUS
<1>1. canon = <<"/">> /\ flat = <<"/">> /\ lazy = <<"/">> /\ params.flat = FALSE /\ params.lazy = FALSE
  BY DEF RoutingInit
<1>2. "/" \in Chars /\ "/" # "%" /\ <<"/">> \in Seq(Chars) /\ <<>> \in Seq(Chars) /\ <<"/">> \in Seps
  BY CharsAre DEF Seps
<1>3. Esc(<<>>)
  BY DEF Esc
<1>4. <<>> \o <<"/">> = <<"/">> /\ <<"/">> # <<>>
  BY <1>2
<1>5. Flatten(<<"/">>) = <<"/">>
  <2>1. FlatWord(<<"/">>, "/")
    BY <1>2, FlatSeparator
  <2>2. Flatten(<<>> \o <<"/">>) = Flatten(<<>>) \o <<"/">>
    BY <1>2, <1>3, <2>1, FlattenAppend, Zenon
  <2>3. QED
    BY <1>4, <2>2, FlattenEmpty, Zenon
<1>6. /\ StripParams(<<>> \o <<"/">>) =
           IF "/" # "/" /\ (Inside(<<>>) \/ "/" = Semicolon) THEN StripParams(<<>>) ELSE StripParams(<<>>) \o <<"/">>
      /\ Inside(<<>> \o <<"/">>) <=> "/" # "/" /\ (Inside(<<>>) \/ "/" = Semicolon)
  BY <1>2, StripLetter, InsideLetter, Zenon
<1>7. StripParams(<<"/">>) = <<"/">> /\ ~Inside(<<"/">>)
  BY <1>4, <1>6, StripParamsEmpty, Zenon
<1>8. ~In(<<"/">>, "%") /\ Esc(<<"/">>)
  BY DEF In, Esc
<1>9. ReadAs(<<"/">>, <<"/">>)
  BY <1>2, <1>8, NormalizeSlash, Zenon DEF ReadAs
<1>10. ReadFlat(<<"/">>, <<"/">>, FALSE) /\ ReadLazy(<<"/">>, <<"/">>, FALSE)
  BY <1>2, <1>5, <1>7, <1>8, <1>9, Zenon DEF ReadFlat, ReadLazy
<1>11. QED
  BY <1>1, <1>5, <1>10, Zenon DEF ReadersInv

\* A slash after a slash changes no reading.
LEMMA PiecesSlash ==
  ASSUME PiecesInv, EndsWith(canon, "/")
  PROVE  /\ Joined(flat, <<"/">>) = flat /\ ~params.flat
         /\ Joined(lazy, <<"/">>) = lazy /\ ~params.lazy
<1>1. params \in [flat : BOOLEAN, lazy : BOOLEAN] /\ ~params.lazy
  BY DEF PiecesInv
<1>2. PICK tc, lc, sc :
       /\ Parsed(canon, tc, lc, sc)
       /\ Reads(flat, params.flat, FALSE, tc, lc)
       /\ Reads(lazy, params.lazy, TRUE, tc, lc)
  BY Zenon DEF PiecesInv
<1>3. params.flat \in BOOLEAN /\ params.lazy \in BOOLEAN
  BY <1>1
<1>4. lc = <<>>
  BY <1>2, ParsedEnds, Zenon
<1>5. Joined(flat, <<"/">>) = flat /\ ~params.flat
  BY <1>2, <1>3, <1>4, ReadSame, Zenon
<1>6. Joined(lazy, <<"/">>) = lazy
  BY <1>1, <1>2, <1>3, <1>4, ReadSame, Zenon
<1>7. QED
  BY <1>1, <1>5, <1>6

\* Every unit keeps what the upstreams read one of the readings of
\* ambiguous_route.
LEMMA ReadersExtend ==
  ASSUME PiecesInv, ReadersInv, NEW u \in Units, Extend(u)
  PROVE  ReadersInv'
<1>1. params \in [flat : BOOLEAN, lazy : BOOLEAN]
  BY DEF PiecesInv
<1>2. params.flat \in BOOLEAN /\ params.lazy \in BOOLEAN
  BY <1>1
<1>3. ReadFlat(Flatten(canon), flat, params.flat) /\ ReadLazy(canon, lazy, params.lazy)
  BY DEF ReadersInv
<1>4. canon \in Seq(Chars) /\ Esc(canon)
  BY PiecesBad
<1> DEFINE flatIn == u.text # "/" /\ (params.flat \/ u.text = Semicolon)
           lazyIn == u.raw # <<"/">> /\ (params.lazy \/ u.text = Semicolon)
<1>5. /\ canon' = Joined(canon, u.canon)
      /\ params'.flat = flatIn /\ params'.lazy = lazyIn
      /\ flat' = IF flatIn THEN flat ELSE Joined(flat, <<u.text>>)
      /\ lazy' = IF lazyIn THEN lazy ELSE Joined(lazy, <<u.text>>)
  <2>1. /\ canon' = Joined(canon, u.canon)
        /\ params' = [flat |-> flatIn, lazy |-> lazyIn]
        /\ flat' = IF flatIn THEN flat ELSE Joined(flat, <<u.text>>)
        /\ lazy' = IF lazyIn THEN lazy ELSE Joined(lazy, <<u.text>>)
    BY Zenon DEF Extend
  <2> HIDE DEF flatIn, lazyIn
  <2>2. QED
    BY <2>1
<1>6. Semicolon # "/"
  BY Zenon DEF Semicolon
<1>7. SUFFICES ReadFlat(Flatten(canon'), flat', flatIn) /\ ReadLazy(canon', lazy', lazyIn)
  <2> HIDE DEF flatIn, lazyIn
  <2> QED
    BY <1>5, Zenon DEF ReadersInv
<1>8. ASSUME NEW t, NEW c \in Chars, c # "%", u.text = c, FlatWord(t, c), canon' = canon \o t
      PROVE  ReadFlat(Flatten(canon'), flat', flatIn)
  <2>1. Flatten(canon') = Flatten(canon) \o <<c>>
    BY <1>4, <1>8, FlattenAppend, Zenon
  <2>2. flatIn \in BOOLEAN /\ (flatIn <=> c # "/" /\ (params.flat \/ c = Semicolon))
    BY <1>8
  <2> HIDE DEF flatIn
  <2>3. PICK in2 : in2 = flatIn
    OBVIOUS
  <2>4. in2 <=> c # "/" /\ (params.flat \/ c = Semicolon)
    BY <2>2, <2>3
  <2>5. ReadFlat(Flatten(canon) \o <<c>>, IF in2 THEN flat ELSE Joined(flat, <<c>>), in2)
    BY <1>3, <1>8, <2>4, ReadFlatLetter
  <2>6. QED
    BY <1>5, <1>8, <2>1, <2>3, <2>5, Zenon
<1>9. ASSUME NEW c \in Chars, c \notin {"%", "\\"}, u.text = c, canon' = canon \o <<c>>,
             u.raw # <<"/">> <=> c # "/"
      PROVE  ReadLazy(canon', lazy', lazyIn)
  <2>1. lazyIn \in BOOLEAN /\ (lazyIn <=> c # "/" /\ (params.lazy \/ c = Semicolon))
    BY <1>9
  <2> HIDE DEF lazyIn
  <2>2. PICK in2 : in2 = lazyIn
    OBVIOUS
  <2>3. in2 <=> c # "/" /\ (params.lazy \/ c = Semicolon)
    BY <2>1, <2>2
  <2>4. ReadLazy(canon \o <<c>>, IF in2 THEN lazy ELSE Joined(lazy, <<c>>), in2)
    <3>1. c \notin {"%", "\\"} /\ ReadLazy(canon, lazy, params.lazy)
      BY <1>3, <1>9, Zenon
    <3>2. QED
      BY <2>3, <3>1, ReadLazyLetter
  <2>5. QED
    BY <1>5, <1>9, <2>2, <2>4, ZenonT(40)
<1>10. CASE IsLetter(u)
  <2>1. PICK c \in Chars : c = u.text /\ c \notin {"/", "\\", "%"} /\ u.canon = <<c>> /\ u.raw # <<"/">>
    BY <1>10, Zenon DEF IsLetter
  <2>2. <<c>> # <<"/">> /\ c # "%" /\ c # "/" /\ c \notin {"%", "\\"}
    BY <2>1
  <2>3. canon' = canon \o <<c>>
    BY <1>5, <2>1, <2>2, Zenon DEF Joined
  <2>4. FlatWord(<<c>>, c)
    BY <2>2, FlatLetter, Zenon
  <2> HIDE DEF flatIn, lazyIn
  <2>5. ReadFlat(Flatten(canon'), flat', flatIn)
    BY <1>8, <2>1, <2>2, <2>3, <2>4, Zenon
  <2>6. ReadLazy(canon', lazy', lazyIn)
    BY <1>9, <2>1, <2>2, <2>3, Zenon
  <2>7. QED
    BY <2>5, <2>6
<1>11. CASE IsSlash(u)
  <2>1. u.text = "/" /\ u.canon = <<"/">> /\ u.raw = <<"/">>
    BY <1>11 DEF IsSlash
  <2>2. CASE EndsWith(canon, "/")
    <3>1. canon' = canon
      BY <1>5, <2>1, <2>2 DEF Joined
    <3>2. flat' = flat /\ lazy' = lazy /\ flatIn = params.flat /\ lazyIn = params.lazy
      <4>1. /\ Joined(flat, <<"/">>) = flat /\ ~params.flat
            /\ Joined(lazy, <<"/">>) = lazy /\ ~params.lazy
        BY <2>2, PiecesSlash
      <4>2. flatIn = FALSE /\ lazyIn = FALSE
        BY <2>1
      <4>3. params.flat = FALSE /\ params.lazy = FALSE
        BY <1>2, <4>1, Zenon
      <4>4. QED
        BY <1>5, <2>1, <4>1, <4>2, <4>3, Zenon
    <3> HIDE DEF flatIn, lazyIn
    <3>3. QED
      BY <1>3, <3>1, <3>2, Zenon
  <2>3. CASE ~EndsWith(canon, "/")
    <3>1. canon' = canon \o <<"/">>
      BY <1>5, <2>1, <2>3, Zenon DEF Joined
    <3>2. "/" \in Chars /\ "/" # "%" /\ "/" \notin {"%", "\\"}
      BY CharsAre
    <3>3. FlatWord(<<"/">>, "/")
      BY <3>2, FlatLetter, Zenon
    <3>4. ReadFlat(Flatten(canon'), flat', flatIn)
      BY <1>8, <2>1, <3>1, <3>2, <3>3, Zenon
    <3>5. ReadLazy(canon', lazy', lazyIn)
      BY <1>9, <2>1, <3>1, <3>2, Zenon
    <3>6. QED
      BY <3>4, <3>5, Zenon
  <2>4. QED
    BY <2>2, <2>3, Zenon
<1>12. CASE IsOther(u)
  <2>1. PICK sep \in Seps : u.text = "/" /\ u.canon = sep /\ sep # <<"/">> /\ u.raw # <<"/">>
    BY <1>12, Zenon DEF IsOther
  <2>2. lazyIn = params.lazy
    BY <1>2, <1>6, <2>1
  <2>3. canon' = canon \o sep
    BY <1>5, <2>1, Zenon DEF Joined
  <2>4. "/" \in Chars /\ "/" # "%"
    BY CharsAre
  <2>5. FlatWord(sep, "/")
    BY FlatSeparator
  <2>6. ReadFlat(Flatten(canon'), flat', flatIn)
    BY <1>8, <2>1, <2>3, <2>4, <2>5, Zenon
  <2> HIDE DEF flatIn, lazyIn
  <2>7. ReadLazy(canon \o sep, IF params.lazy THEN lazy ELSE Joined(lazy, <<"/">>), params.lazy)
    BY <1>3, <2>1, ReadLazySeparator, Zenon
  <2>8. ReadLazy(canon', lazy', lazyIn)
    BY <1>5, <2>1, <2>2, <2>3, <2>7, Zenon
  <2>9. QED
    BY <2>6, <2>8
<1>13. QED
  BY <1>10, <1>11, <1>12, UnitKinds, Zenon

\* What suspicious looks for.
SuspiciousWords == {<<"\\">>, <<Semicolon>>} \cup EncodedSeparators \cup DoubleSeparators

\* What ambiguous_route looks for are texts.
LEMMA SuspiciousText ==
  ASSUME NEW w \in SuspiciousWords
  PROVE  w \in Seq(Chars)
<1>1. <<"\\">> \in Seq(Chars) /\ <<Semicolon>> \in Seq(Chars)
  BY CharsAre
<1>2. QED
  BY <1>1, WordsAreText, DoubleWords, Zenon DEF SuspiciousWords

\* A path that is suspicious stays so.
LEMMA SuspiciousAppend ==
  ASSUME NEW s \in Seq(Chars), NEW t \in Seq(Chars), Suspicious(s)
  PROVE  Suspicious(s \o t)
<1>1. PICK st : st = s \o t
  BY Zenon
<1>2. /\ st \in Seq(Chars) /\ Len(s) \in Nat /\ Len(t) \in Nat /\ Len(st) = Len(s) + Len(t)
      /\ \A j \in 1..Len(s) : st[j] = s[j]
  BY <1>1, Concat
<1>3. PICK i \in DOMAIN s, w \in SuspiciousWords : HasAt(s, i, w)
  BY Zenon DEF Suspicious, ContainsAny, HasOneAt, SuspiciousWords
<1>4. w \in Seq(Chars) /\ Len(w) \in Nat /\ DOMAIN w = 1..Len(w)
  BY SuspiciousText
<1>5. i \in 1..Len(s) /\ i \in 1..Len(st) /\ DOMAIN st = 1..Len(st)
  BY <1>2
<1>6. i + Len(w) - 1 <= Len(s) /\ \A k \in 1..Len(w) : s[i + k - 1] = w[k]
  BY <1>3, <1>4, Zenon DEF HasAt
<1>7. i + Len(w) - 1 <= Len(st)
  BY <1>2, <1>4, <1>5, <1>6
<1>8. ASSUME NEW k \in 1..Len(w) PROVE st[i + k - 1] = w[k]
  <2>1. i + k - 1 \in 1..Len(s)
    BY <1>4, <1>5, <1>6
  <2>2. QED
    BY <1>2, <1>6, <2>1, Zenon
<1>9. HasAt(st, i, w)
  BY <1>4, <1>7, <1>8, Zenon DEF HasAt
<1>10. QED
  BY <1>1, <1>5, <1>9, Zenon DEF Suspicious, ContainsAny, HasOneAt, SuspiciousWords

\* A path with a suspicious word at its end is suspicious.
LEMMA SuspiciousWord ==
  ASSUME NEW s \in Seq(Chars), NEW w \in SuspiciousWords, w # <<>>
  PROVE  Suspicious(s \o w)
<1>1. w \in Seq(Chars) /\ Len(w) \in Nat /\ Len(w) > 0 /\ DOMAIN w = 1..Len(w) /\ 1 \in 1..(Len(w) + 1)
  BY SuspiciousText
<1>2. HasAt(w, 1, w)
  BY <1>1 DEF HasAt
<1>3. HasAt(s \o w, Len(s) + 1, w)
  BY <1>1, <1>2, HasAtShift, Zenon
<1>4. Len(s) + 1 \in DOMAIN (s \o w)
  BY <1>1
<1>5. QED
  BY <1>3, <1>4, Zenon DEF Suspicious, ContainsAny, HasOneAt, SuspiciousWords

\* A path in which nothing is suspicious is read by all as it is.
PlainInv ==
  Suspicious(canon) \/ (flat = canon /\ lazy = canon /\ ~params.flat /\ ~params.lazy)

\* Every unit keeps a path that is not suspicious read as it is spelled.
LEMMA PlainExtend ==
  ASSUME PiecesInv, PlainInv, NEW u \in Units, Extend(u)
  PROVE  PlainInv'
<1>1. canon \in Seq(Chars)
  BY PiecesBad, Zenon
<1> DEFINE flatIn == u.text # "/" /\ (params.flat \/ u.text = Semicolon)
           lazyIn == u.raw # <<"/">> /\ (params.lazy \/ u.text = Semicolon)
<1>2. /\ canon' = Joined(canon, u.canon)
      /\ params'.flat = flatIn /\ params'.lazy = lazyIn
      /\ flat' = IF flatIn THEN flat ELSE Joined(flat, <<u.text>>)
      /\ lazy' = IF lazyIn THEN lazy ELSE Joined(lazy, <<u.text>>)
  <2>1. /\ canon' = Joined(canon, u.canon)
        /\ params' = [flat |-> flatIn, lazy |-> lazyIn]
        /\ flat' = IF flatIn THEN flat ELSE Joined(flat, <<u.text>>)
        /\ lazy' = IF lazyIn THEN lazy ELSE Joined(lazy, <<u.text>>)
    BY Zenon DEF Extend
  <2> HIDE DEF flatIn, lazyIn
  <2>2. QED
    BY <2>1
<1>3. u.canon \in Seq(Chars)
  BY UnitEnds
<1>4. CASE Suspicious(canon)
  <2>1. Suspicious(canon \o u.canon)
    BY <1>1, <1>3, <1>4, SuspiciousAppend, Zenon
  <2>2. Suspicious(canon')
    BY <1>2, <1>4, <2>1, Zenon DEF Joined
  <2>3. QED
    BY <2>2, Zenon DEF PlainInv
<1>5. CASE ~Suspicious(canon)
  <2>1. flat = canon /\ lazy = canon /\ ~params.flat /\ ~params.lazy
    BY <1>5, Zenon DEF PlainInv
  <2>2. ASSUME u.canon = <<u.text>>, u.text # Semicolon PROVE PlainInv'
    <3>1. ~flatIn /\ ~lazyIn
      BY <2>1, <2>2
    <3> HIDE DEF flatIn, lazyIn
    <3>2. flat' = canon' /\ lazy' = canon' /\ ~params'.flat /\ ~params'.lazy
      BY <1>2, <2>1, <2>2, <3>1, Zenon
    <3>3. QED
      BY <3>2, Zenon DEF PlainInv
  <2>3. ASSUME u.canon \in SuspiciousWords, u.canon # <<>>, u.canon # <<"/">> PROVE PlainInv'
    <3>1. canon' = canon \o u.canon
      BY <1>2, <2>3, Zenon DEF Joined
    <3>2. Suspicious(canon \o u.canon)
      BY <1>1, <2>3, SuspiciousWord, Zenon
    <3>3. QED
      BY <3>1, <3>2, Zenon DEF PlainInv
  <2>4. CASE IsLetter(u)
    <3>1. u.canon = <<u.text>> /\ u.text # "/"
      BY <2>4 DEF IsLetter
    <3>2. CASE u.text = Semicolon
      <4>1. u.canon \in SuspiciousWords /\ u.canon # <<>> /\ u.canon # <<"/">>
        BY <3>1, <3>2 DEF SuspiciousWords
      <4>2. QED
        BY <2>3, <4>1
    <3>3. QED
      BY <2>2, <3>1, <3>2, Zenon
  <2>5. CASE IsSlash(u)
    <3>1. u.canon = <<u.text>> /\ u.text # Semicolon
      <4>1. Semicolon # "/"
        BY Zenon DEF Semicolon
      <4>2. QED
        BY <2>5, <4>1, Zenon DEF IsSlash
    <3>2. QED
      BY <2>2, <3>1
  <2>6. CASE IsOther(u)
    <3>1. u.canon \in Seps /\ u.canon # <<"/">>
      BY <2>6 DEF IsOther
    <3>2. u.canon \in SuspiciousWords
      BY <3>1, Zenon DEF Seps, SuspiciousWords
    <3>3. u.canon # <<>>
      BY UnitEnds
    <3>4. QED
      BY <2>3, <3>1, <3>2, <3>3, Zenon
  <2>7. QED
    BY <2>4, <2>5, <2>6, UnitKinds, Zenon
<1>6. QED
  BY <1>4, <1>5

\* In every state the readings of ambiguous_route include what the upstreams
\* make of the path, or the path is read by all as it is spelled.
THEOREM Readers == RoutingSpec => [](ReadersInv /\ PlainInv)
<1>1. RoutingInit => PlainInv
  BY DEF RoutingInit, PlainInv
<1>2. PiecesInv /\ ReadersInv /\ PlainInv /\ [RoutingNext]_pvars => (ReadersInv /\ PlainInv)'
  <2> SUFFICES ASSUME PiecesInv, ReadersInv, PlainInv, [RoutingNext]_pvars PROVE ReadersInv' /\ PlainInv'
    OBVIOUS
  <2>1. CASE RoutingNext
    BY <2>1, ReadersExtend, PlainExtend, Zenon DEF RoutingNext
  <2>2. CASE UNCHANGED pvars
    <3>1. canon' = canon /\ flat' = flat /\ lazy' = lazy /\ params' = params
      BY <2>2 DEF pvars
    <3>2. QED
      BY <3>1, Zenon DEF ReadersInv, PlainInv
  <2>3. QED
    BY <2>1, <2>2
<1>3. QED
  BY ReadersInit, Pieces, <1>1, <1>2, PTL DEF RoutingSpec

\* What ambiguous_route lets through is read as of one route.
LEMMA ReadersAgree ==
  ASSUME SpellingInv, PiecesInv, ReadersInv, PlainInv
  PROVE  UpstreamsAgree
<1>1. raw \in Seq(Chars) /\ canon \in Seq(Chars) /\ Normalize(raw) = canon
  BY DEF SpellingInv
<1>2. Lookup(raw) = MostSpecific(canon)
  BY <1>1, LookupIs, Zenon
<1>3. SUFFICES ASSUME Admitted(raw) PROVE \A reading \in {flat, lazy} : MostSpecific(reading) = Lookup(raw) /\ ~BadPath(reading)
  BY Zenon DEF UpstreamsAgree
<1>4. ~BadPath(flat) /\ ~BadPath(lazy)
  BY <1>3, AdmittedNotBad, PiecesBad, Zenon
<1>5. CASE ~Suspicious(canon)
  BY <1>2, <1>4, <1>5, Zenon DEF PlainInv
<1>6. CASE Suspicious(canon)
  <2>1. \A r \in Readings(canon) : Lookup(r) = Lookup(raw)
    BY <1>1, <1>3, <1>6, Zenon DEF Admitted, AmbiguousRoute
  <2>2. Lookup(StripParams(Flatten(canon))) = Lookup(raw) /\ Lookup(Flatten(StripParams(canon))) = Lookup(raw)
    BY <2>1, Zenon DEF Readings
  <2>3. ReadAs(StripParams(Flatten(canon)), flat) /\ ReadAs(Flatten(StripParams(canon)), lazy)
    BY Zenon DEF ReadersInv, ReadFlat, ReadLazy
  <2>4. /\ StripParams(Flatten(canon)) \in Seq(Chars) /\ Normalize(StripParams(Flatten(canon))) = flat
        /\ Flatten(StripParams(canon)) \in Seq(Chars) /\ Normalize(Flatten(StripParams(canon))) = lazy
    BY <2>3, Zenon DEF ReadAs
  <2>5. MostSpecific(flat) = Lookup(raw) /\ MostSpecific(lazy) = Lookup(raw)
    BY <2>2, <2>4, LookupIs, Zenon
  <2>6. QED
    BY <1>4, <2>5, Zenon
<1>7. QED
  BY <1>5, <1>6

\* A path that is let through is one of the same route, and has no dot
\* segment, for upstreams that decode separators and drop parameters in
\* either order (ambiguous_route, bad_path_normalized).
THEOREM AllReadersAgree == RoutingSpec => []UpstreamsAgree
BY Spelling, Pieces, Readers, ReadersAgree, PTL

=============================================================================
