----------------------------- MODULE PathsProofs -----------------------------
(***************************************************************************)
(* Machine-checked lemmas about Paths: what normalize and bad_path make of *)
(* a path of any length, word by word and piece by piece.  Both scan their *)
(* text recursively; the first section has induction and recursion over    *)
(* numbers, from which what they compute is proved.                        *)
(***************************************************************************)
EXTENDS Paths, WellFoundedInduction, TLAPS

-----------------------------------------------------------------------------
(* Induction and recursion *)

\* A set of numbers that is not empty has a least element.
LEMMA LeastNatural ==
  ASSUME NEW T \in SUBSET Nat, T # {}
  PROVE  \E m \in T : \A n \in T : m <= n
<1>1. PICK m \in T : ~ (\E y \in T : <<y, m>> \in OpToRel(<, Nat))
  BY NatLessThanWellFounded, WFMin, Zenon
<1>2. \A n \in T : ~ n < m
  BY <1>1 DEF OpToRel
<1>3. \A n \in T : m <= n
  BY <1>2
<1>4. QED
  BY <1>3

\* Induction over the numbers, stated of a set.
LEMMA SetInduction ==
  ASSUME NEW S, 0 \in S, \A n \in Nat : n \in S => n + 1 \in S
  PROVE  Nat \subseteq S
<1> SUFFICES ASSUME Nat \ S # {} PROVE FALSE
  OBVIOUS
<1>1. PICK m \in Nat \ S : \A n \in Nat \ S : m <= n
  BY LeastNatural, Zenon
<1>2. m # 0
  BY <1>1
<1>3. m - 1 \in Nat /\ m - 1 \in S
  BY <1>1, <1>2
<1>4. QED
  BY <1>1, <1>3

\* Induction over a set whose elements have a rank.
LEMMA RankInduction ==
  ASSUME NEW D, NEW P, NEW rank \in [D -> Nat],
         \A x \in D : (\A y \in D : rank[y] < rank[x] => y \in P) => x \in P
  PROVE  D \subseteq P
<1> SUFFICES ASSUME D \ P # {} PROVE FALSE
  OBVIOUS
<1> DEFINE T == {rank[x] : x \in D \ P}
<1>1. T \in SUBSET Nat /\ T # {}
  OBVIOUS
<1>2. PICK m \in T : \A n \in T : m <= n
  <2> HIDE DEF T
  <2>1. QED
    BY <1>1, LeastNatural
<1>3. PICK x \in D \ P : m = rank[x]
  BY <1>2
<1>4. ASSUME NEW y \in D, rank[y] < rank[x] PROVE y \in P
  <2> SUFFICES ASSUME y \notin P PROVE FALSE
    OBVIOUS
  <2>1. rank[y] \in T
    OBVIOUS
  <2>2. m <= rank[y] /\ rank[y] \in Nat /\ rank[x] \in Nat
    BY <1>2, <1>3, <2>1
  <2>3. QED
    BY <1>3, <1>4, <2>2
<1>5. QED
  BY <1>3, <1>4

\* Induction from n + 1 down to 1.
LEMMA DownInduction ==
  ASSUME NEW n \in Nat, NEW P, n + 1 \in P,
         \A i \in 1..n : (\A j \in (i + 1)..(n + 1) : j \in P) => i \in P
  PROVE  \A i \in 1..(n + 1) : i \in P
<1> DEFINE D == 1..(n + 1)
           rank == [i \in D |-> n + 1 - i]
<1>1. \A i \in D : (\A j \in D : rank[j] < rank[i] => j \in P) => i \in P
  <2> TAKE i \in D
  <2> HAVE \A j \in D : rank[j] < rank[i] => j \in P
  <2>1. CASE i = n + 1
    BY <2>1
  <2>2. CASE i # n + 1
    <3>1. i \in 1..n
      BY <2>2
    <3>2. \A j \in (i + 1)..(n + 1) : j \in D /\ rank[j] < rank[i]
      OBVIOUS
    <3>3. QED
      BY <3>1, <3>2, Zenon
  <2>3. QED
    BY <2>1, <2>2
<1>2. rank \in [D -> Nat]
  OBVIOUS
<1>3. D \subseteq P
  <2> HIDE DEF D, rank
  <2>1. QED
    BY <1>1, <1>2, RankInduction
<1>4. QED
  BY <1>3

\* A recursion that goes from x to next[x], and ends where the rank does not
\* fall, has a solution, ...
Descends(D, V, next, rank, step) ==
  /\ V # {}
  /\ next \in [D -> D] /\ rank \in [D -> Nat] /\ step \in [D -> [V -> V]]
  /\ \E N \in Nat : \A x \in D : rank[x] < N
  /\ \A x \in D : rank[next[x]] < rank[x] \/ \A v, w \in V : step[x][v] = step[x][w]

Solves(D, V, next, step, f) ==
  f \in [D -> V] /\ \A x \in D : f[x] = step[x][f[next[x]]]

\* The recursion has a solution: the partial solutions up to each rank go on.
LEMMA Recursion ==
  ASSUME NEW D, NEW V, NEW next, NEW rank, NEW step, Descends(D, V, next, rank, step)
  PROVE  \E f : Solves(D, V, next, step, f)
<1> USE DEF Descends
<1>0. PICK N \in Nat, v0 \in V : \A x \in D : rank[x] < N
  OBVIOUS
<1> DEFINE Upto(f, k) == \A x \in D : rank[x] < k => f[x] = step[x][f[next[x]]]
           S == {k \in Nat : \E f \in [D -> V] : Upto(f, k)}
<1>1. 0 \in S
  <2>1. [x \in D |-> v0] \in [D -> V]
    OBVIOUS
  <2>2. Upto([x \in D |-> v0], 0)
    OBVIOUS
  <2>3. QED
    BY <2>1, <2>2
<1>2. ASSUME NEW k \in Nat, k \in S PROVE k + 1 \in S
  <2>1. PICK f \in [D -> V] : Upto(f, k)
    BY <1>2
  <2> DEFINE g == [x \in D |-> IF rank[x] < k THEN f[x] ELSE step[x][f[next[x]]]]
  <2>2. g \in [D -> V]
    OBVIOUS
  <2>3. ASSUME NEW x \in D, rank[x] < k + 1 PROVE g[x] = step[x][g[next[x]]]
    <3>1. g[x] = step[x][f[next[x]]]
      BY <2>1
    <3>2. CASE rank[next[x]] < rank[x]
      <4>1. rank[next[x]] < k
        BY <2>3, <3>2
      <4>2. g[next[x]] = f[next[x]]
        BY <4>1
      <4>3. QED
        BY <3>1, <4>2, Zenon
    <3>3. CASE \A v, w \in V : step[x][v] = step[x][w]
      <4>1. f[next[x]] \in V /\ g[next[x]] \in V
        BY <2>2
      <4>2. QED
        BY <3>1, <3>3, <4>1, Zenon
    <3>4. QED
      BY <3>2, <3>3, Zenon
  <2> HIDE DEF g
  <2>4. Upto(g, k + 1)
    BY <2>3
  <2>5. QED
    BY <2>2, <2>4
<1>3. Nat \subseteq S
  <2> HIDE DEF S
  <2>1. QED
    BY <1>1, <1>2, SetInduction
<1>4. N \in S
  BY <1>3
<1>5. PICK f \in [D -> V] : Upto(f, N)
  BY <1>4
<1>6. \A x \in D : f[x] = step[x][f[next[x]]]
  BY <1>0, <1>5
<1>7. QED
  BY <1>6 DEF Solves

\* ... and only one.
Agree(D, next, rank, f, g) ==
  /\ next \in [D -> D] /\ rank \in [D -> Nat]
  /\ \A x \in D : \/ f[x] = g[x]
                  \/ /\ rank[next[x]] < rank[x]
                     /\ f[next[x]] = g[next[x]] => f[x] = g[x]

Same(D, f, g) == \A x \in D : f[x] = g[x]

\* Two functions that agree where a recursion ends and follow it agree.
LEMMA SameRecursion ==
  ASSUME NEW D, NEW f, NEW g, NEW next, NEW rank, Agree(D, next, rank, f, g)
  PROVE  Same(D, f, g)
<1> DEFINE P == {x \in D : f[x] = g[x]}
<1>1. \A x \in D : (\A y \in D : rank[y] < rank[x] => y \in P) => x \in P
  BY DEF Agree
<1>2. rank \in [D -> Nat]
  BY DEF Agree
<1>3. D \subseteq P
  <2> HIDE DEF P
  <2>1. QED
    BY <1>1, <1>2, RankInduction
<1>4. QED
  BY <1>3 DEF Same

-----------------------------------------------------------------------------
(* Sequences *)

\* Two sequences are the same if they have the same elements in the same places.
LEMMA SameElements ==
  ASSUME NEW S, NEW s \in Seq(S), NEW t \in Seq(S), Len(s) = Len(t),
         \A i \in 1..Len(s) : s[i] = t[i]
  PROVE  s = t
OBVIOUS

\* What a concatenation is made of.
LEMMA Concat ==
  ASSUME NEW S, NEW s \in Seq(S), NEW t \in Seq(S)
  PROVE  /\ s \o t \in Seq(S)
         /\ Len(s) \in Nat /\ Len(t) \in Nat
         /\ Len(s \o t) = Len(s) + Len(t)
         /\ \A i \in 1..Len(s) : (s \o t)[i] = s[i]
         /\ \A i \in 1..Len(t) : (s \o t)[Len(s) + i] = t[i]
OBVIOUS

\* Appending is associative.
LEMMA ConcatAssoc ==
  ASSUME NEW S, NEW s \in Seq(S), NEW t \in Seq(S), NEW u \in Seq(S)
  PROVE  (s \o t) \o u = s \o (t \o u)
OBVIOUS

\* Appending nothing changes nothing.
LEMMA ConcatEmpty ==
  ASSUME NEW S, NEW s \in Seq(S)
  PROVE  s \o <<>> = s /\ <<>> \o s = s
OBVIOUS

\* A sequence is made of its first elements and the rest.
LEMMA Split ==
  ASSUME NEW S, NEW s \in Seq(S), NEW n \in 0..Len(s)
  PROVE  /\ SubSeq(s, 1, n) \in Seq(S) /\ SubSeq(s, n + 1, Len(s)) \in Seq(S)
         /\ Len(SubSeq(s, 1, n)) = n /\ Len(SubSeq(s, n + 1, Len(s))) = Len(s) - n
         /\ \A i \in 1..n : SubSeq(s, 1, n)[i] = s[i]
         /\ \A i \in 1..(Len(s) - n) : SubSeq(s, n + 1, Len(s))[i] = s[n + i]
         /\ s = SubSeq(s, 1, n) \o SubSeq(s, n + 1, Len(s))
<1>1. Len(s) \in Nat
  OBVIOUS
<1>2. SubSeq(s, 1, n) \in Seq(S) /\ Len(SubSeq(s, 1, n)) = n /\ \A i \in 1..n : SubSeq(s, 1, n)[i] = s[i]
  BY <1>1
<1>3. /\ SubSeq(s, n + 1, Len(s)) \in Seq(S) /\ Len(SubSeq(s, n + 1, Len(s))) = Len(s) - n
      /\ \A i \in 1..(Len(s) - n) : SubSeq(s, n + 1, Len(s))[i] = s[n + i]
  BY <1>1
<1> DEFINE a == SubSeq(s, 1, n)
           b == SubSeq(s, n + 1, Len(s))
<1> HIDE DEF a, b
<1>4. s = a \o b
  <2>1. a \in Seq(S) /\ b \in Seq(S) /\ Len(a) = n /\ Len(b) = Len(s) - n
    BY <1>2, <1>3 DEF a, b
  <2>2. a \o b \in Seq(S) /\ Len(a \o b) = Len(s)
    <3>1. a \o b \in Seq(S) /\ Len(a \o b) = Len(a) + Len(b)
      BY <2>1, Concat, Zenon
    <3>2. n \in Int /\ Len(s) \in Int => n + (Len(s) - n) = Len(s)
      OBVIOUS
    <3>3. QED
      BY <1>1, <2>1, <3>1, <3>2
  <2>3. ASSUME NEW i \in 1..Len(s) PROVE s[i] = (a \o b)[i]
    <3>1. CASE i <= n
      <4>1. (a \o b)[i] = a[i]
        BY <1>1, <2>1, <3>1
      <4>2. QED
        BY <1>2, <3>1, <4>1 DEF a
    <3>2. CASE ~(i <= n)
      <4>1. i - n \in 1..(Len(s) - n) /\ n + (i - n) = i
        BY <1>1, <3>2
      <4>2. (a \o b)[n + (i - n)] = b[i - n]
        BY <1>1, <2>1, <4>1, Concat
      <4>3. QED
        BY <1>3, <4>1, <4>2, Zenon DEF b
    <3>3. QED
      BY <3>1, <3>2, Zenon
  <2>4. QED
    BY <2>2, <2>3, SameElements, Zenon
<1>5. QED
  BY <1>2, <1>3, <1>4, Zenon DEF a, b

\* A sequence of one element.
LEMMA OneElement ==
  ASSUME NEW S, NEW a \in S
  PROVE  <<a>> \in Seq(S) /\ Len(<<a>>) = 1 /\ <<a>>[1] = a /\ <<a>> # <<>>
OBVIOUS

\* A sequence of three elements.
LEMMA ThreeElements ==
  ASSUME NEW S, NEW a \in S, NEW b \in S, NEW c \in S
  PROVE  /\ <<a, b, c>> \in Seq(S) /\ Len(<<a, b, c>>) = 3 /\ <<a, b, c>> # <<>>
         /\ <<a, b, c>>[1] = a /\ <<a, b, c>>[2] = b /\ <<a, b, c>>[3] = c
OBVIOUS

-----------------------------------------------------------------------------
(* Characters *)

\* The characters of a text: strings, those that the model writes out named.
Chars ==
  STRING \cup {"/", "\\", "%", Semicolon, "."} \cup {Unreserved[c] : c \in DOMAIN Unreserved}
    \cup {Digits[k] : k \in 1..10} \cup {Upper[k] : k \in 1..26} \cup {Lower[k] : k \in 1..26}

\* Appending texts is associative.
LEMMA CharsAssoc ==
  ASSUME NEW s \in Seq(Chars), NEW t \in Seq(Chars), NEW u \in Seq(Chars)
  PROVE  (s \o t) \o u = s \o (t \o u)
OBVIOUS

\* Three characters, one after the other.
LEMMA ThreeChars ==
  ASSUME NEW a \in Chars, NEW b \in Chars, NEW c \in Chars
  PROVE  (<<a>> \o <<b>>) \o <<c>> = <<a, b, c>>
<1>1. PICK x, y, z, abc : x = <<a>> /\ y = <<b>> /\ z = <<c>> /\ abc = <<a, b, c>>
  BY Zenon
<1>2. PICK xy, q : xy = x \o y /\ q = xy \o z
  BY Zenon
<1>3. /\ x \in Seq(Chars) /\ y \in Seq(Chars)
      /\ Len(x) = 1 /\ Len(y) = 1 /\ x[1] = a /\ y[1] = b
  BY <1>1
<1>4. xy \in Seq(Chars) /\ Len(xy) = 2 /\ xy[1] = a /\ xy[2] = b
  <2>1. PICK w : w = x \o y
    BY Zenon
  <2>2. w \in Seq(Chars) /\ Len(w) = 2 /\ w[1] = x[1] /\ w[2] = y[1]
    BY <1>1, <1>3, <2>1
  <2>3. QED
    BY <1>2, <1>3, <2>1, <2>2, Zenon
<1>5. q \in Seq(Chars) /\ Len(q) = 3 /\ q[1] = a /\ q[2] = b /\ q[3] = c
  <2>1. z \in Seq(Chars) /\ Len(z) = 1 /\ z[1] = c
    BY <1>1
  <2>2. PICK w : w = xy \o z
    BY Zenon
  <2>3. w \in Seq(Chars) /\ Len(w) = 3 /\ w[1] = xy[1] /\ w[2] = xy[2] /\ w[3] = z[1]
    BY <1>1, <1>4, <2>1, <2>2
  <2>4. QED
    BY <1>2, <1>4, <2>1, <2>2, <2>3, Zenon
<1>6. abc \in Seq(Chars) /\ Len(abc) = 3 /\ abc[1] = a /\ abc[2] = b /\ abc[3] = c
  BY <1>1
<1>7. q = abc
  <2>1. Len(q) = Len(abc) /\ \A i \in 1..Len(q) : q[i] = abc[i]
    BY <1>5, <1>6
  <2>2. QED
    BY <1>5, <1>6, <2>1, SameElements, Zenon
<1>8. QED
  BY <1>1, <1>2, <1>7, Zenon

\* The characters that paths are spelled with here are characters.
LEMMA CharsAre ==
  {"/", "\\", "%", Semicolon, ".", "a", "b", "1", "2", "5", "6", "e", "f", "C", "F"} \subseteq Chars
<1>1. Digits[2] = "1" /\ Digits[3] = "2" /\ Digits[6] = "5" /\ Digits[7] = "6"
  BY DEF Digits
<1>2. Lower[1] = "a" /\ Lower[2] = "b" /\ Lower[5] = "e" /\ Lower[6] = "f"
  BY DEF Lower
<1>3. Upper[3] = "C" /\ Upper[6] = "F"
  BY DEF Upper
<1>4. QED
  BY <1>1, <1>2, <1>3 DEF Chars

\* Any sequence of strings is a text.
LEMMA StringsAreText ==
  ASSUME NEW s \in Seq(STRING)
  PROVE  s \in Seq(Chars)
<1>1. STRING \subseteq Chars
  BY Zenon DEF Chars
<1>2. \A S, T : S \subseteq T => Seq(S) \subseteq Seq(T)
  OBVIOUS
<1>3. QED
  BY <1>1, <1>2, Zenon

\* Words found at a place, letter by letter.
LEMMA HasWord1 ==
  ASSUME NEW s \in Seq(Chars), NEW i \in Nat, NEW a
  PROVE  HasAt(s, i, <<a>>) <=> i <= Len(s) /\ s[i] = a
BY DEF HasAt

\* A word of two characters is found where both are.
LEMMA HasWord2 ==
  ASSUME NEW s \in Seq(Chars), NEW i \in Nat, NEW a, NEW b
  PROVE  HasAt(s, i, <<a, b>>) <=> i + 1 <= Len(s) /\ s[i] = a /\ s[i + 1] = b
BY DEF HasAt

\* A word of three characters is found where all three are.
LEMMA HasWord3 ==
  ASSUME NEW s \in Seq(Chars), NEW i \in Nat, NEW a, NEW b, NEW c
  PROVE  HasAt(s, i, <<a, b, c>>) <=>
           i + 2 <= Len(s) /\ s[i] = a /\ s[i + 1] = b /\ s[i + 2] = c
BY DEF HasAt

\* The unreserved characters that the units of a path spell with an escape.
LEMMA UnreservedCodes ==
  /\ DOMAIN Unreserved = {45, 46, 95, 126} \cup 48..57 \cup 65..90 \cup 97..122
  /\ Unreserved[46] = "." /\ Unreserved[97] = "a"
<1>1. DOMAIN Unreserved = {45, 46, 95, 126} \cup 48..57 \cup 65..90 \cup 97..122
  BY DEF Unreserved
<1>2. Unreserved[46] = "."
  BY DEF Unreserved
<1>3. \A c \in 97..122 : Unreserved[c] = Lower[c - 96]
  <2> TAKE c \in 97..122
  <2>1. c # 45 /\ c # 46 /\ c # 95 /\ c # 126 /\ c \notin 48..57 /\ c \notin 65..90
    OBVIOUS
  <2>2. c \in {45, 46, 95, 126} \cup 48..57 \cup 65..90 \cup 97..122
    OBVIOUS
  <2>3. Unreserved[c] = CASE c = 45  -> "-"
                          [] c = 46  -> "."
                          [] c = 95  -> "_"
                          [] c = 126 -> "~"
                          [] c \in 48..57  -> Digits[c - 47]
                          [] c \in 65..90  -> Upper[c - 64]
                          [] c \in 97..122 -> Lower[c - 96]
    BY <2>2, Zenon DEF Unreserved
  <2>4. QED
    BY <2>1, <2>3, SMT
<1>4. Lower[1] = "a"
  BY DEF Lower
<1>5. QED
  BY <1>1, <1>2, <1>3, <1>4

\* The upper case of a character is one.
LEMMA UpcaseType ==
  ASSUME NEW c \in Chars
  PROVE  Upcase(c) \in Chars
<1>1. CASE In(Lower, c)
  <2>1. IndexIn(Lower, c) \in DOMAIN Lower
    BY <1>1, Zenon DEF In, IndexIn
  <2>2. DOMAIN Lower = 1..26
    BY DEF Lower
  <2>3. QED
    BY <1>1, <2>1, <2>2 DEF Upcase, Chars
<1>2. CASE ~In(Lower, c)
  BY <1>2 DEF Upcase
<1>3. QED
  BY <1>1, <1>2

\* The place of a letter that occurs once.
LEMMA IndexIs ==
  ASSUME NEW s, NEW c, NEW k \in DOMAIN s, s[k] = c, \A j \in DOMAIN s : s[j] = c => j = k
  PROVE  In(s, c) /\ IndexIn(s, c) = k
BY Zenon DEF In, IndexIn

\* Digits and hexadecimal letters by value.
LEMMA HexDigit ==
  ASSUME NEW k \in DOMAIN Digits, NEW c, Digits[k] = c, \A j \in DOMAIN Digits : Digits[j] = c => j = k,
         ~In(HexUpper, c), ~In(HexLower, c)
  PROVE  HexVal(c) = k - 1
<1>1. In(Digits, c) /\ IndexIn(Digits, c) = k
  BY IndexIs, Zenon
<1>2. QED
  BY <1>1 DEF HexVal

\* The value of a lower-case hex digit (hex_val).
LEMMA HexLowerCase ==
  ASSUME NEW k \in DOMAIN HexLower, NEW c, HexLower[k] = c,
         \A j \in DOMAIN HexLower : HexLower[j] = c => j = k,
         ~In(HexUpper, c), ~In(Digits, c)
  PROVE  HexVal(c) = k + 9
<1>1. In(HexLower, c) /\ IndexIn(HexLower, c) = k
  BY IndexIs, Zenon
<1>2. QED
  BY <1>1 DEF HexVal

\* The value of an upper-case hex digit (hex_val).
LEMMA HexUpperCase ==
  ASSUME NEW k \in DOMAIN HexUpper, NEW c, HexUpper[k] = c,
         \A j \in DOMAIN HexUpper : HexUpper[j] = c => j = k,
         ~In(HexLower, c), ~In(Digits, c)
  PROVE  HexVal(c) = k + 9
<1>1. In(HexUpper, c) /\ IndexIn(HexUpper, c) = k
  BY IndexIs, Zenon
<1>2. QED
  BY <1>1 DEF HexVal

\* The values of the hex digits that escapes are spelled with here (hex_val).
LEMMA HexValues ==
  /\ HexVal("1") = 1 /\ HexVal("2") = 2 /\ HexVal("5") = 5 /\ HexVal("6") = 6
  /\ HexVal("e") = 14 /\ HexVal("f") = 15 /\ HexVal("C") = 12
<1>1. \A c \in {"1", "2", "5", "6"} : ~In(HexUpper, c) /\ ~In(HexLower, c)
  BY DEF In, HexUpper, HexLower
<1>2. \A c \in {"e", "f"} : ~In(HexUpper, c) /\ ~In(Digits, c)
  BY DEF In, HexUpper, Digits
<1>3. ~In(HexLower, "C") /\ ~In(Digits, "C")
  BY DEF In, HexLower, Digits
<1>4. HexVal("1") = 1
  <2>1. 2 \in DOMAIN Digits /\ Digits[2] = "1" /\ \A j \in DOMAIN Digits : Digits[j] = "1" => j = 2
    BY DEF Digits
  <2>2. HexVal("1") = 2 - 1
    BY <1>1, <2>1, HexDigit
  <2>3. QED
    BY <2>2
<1>5. HexVal("2") = 2
  <2>1. 3 \in DOMAIN Digits /\ Digits[3] = "2" /\ \A j \in DOMAIN Digits : Digits[j] = "2" => j = 3
    BY DEF Digits
  <2>2. HexVal("2") = 3 - 1
    BY <1>1, <2>1, HexDigit
  <2>3. QED
    BY <2>2
<1>6. HexVal("5") = 5
  <2>1. 6 \in DOMAIN Digits /\ Digits[6] = "5" /\ \A j \in DOMAIN Digits : Digits[j] = "5" => j = 6
    BY DEF Digits
  <2>2. HexVal("5") = 6 - 1
    BY <1>1, <2>1, HexDigit
  <2>3. QED
    BY <2>2
<1>7. HexVal("6") = 6
  <2>1. 7 \in DOMAIN Digits /\ Digits[7] = "6" /\ \A j \in DOMAIN Digits : Digits[j] = "6" => j = 7
    BY DEF Digits
  <2>2. HexVal("6") = 7 - 1
    BY <1>1, <2>1, HexDigit
  <2>3. QED
    BY <2>2
<1>8. HexVal("e") = 14
  <2>1. 5 \in DOMAIN HexLower /\ HexLower[5] = "e" /\ \A j \in DOMAIN HexLower : HexLower[j] = "e" => j = 5
    BY DEF HexLower
  <2>2. HexVal("e") = 5 + 9
    BY <1>2, <2>1, HexLowerCase
  <2>3. QED
    BY <2>2
<1>9. HexVal("f") = 15
  <2>1. 6 \in DOMAIN HexLower /\ HexLower[6] = "f" /\ \A j \in DOMAIN HexLower : HexLower[j] = "f" => j = 6
    BY DEF HexLower
  <2>2. HexVal("f") = 6 + 9
    BY <1>2, <2>1, HexLowerCase
  <2>3. QED
    BY <2>2
<1>10. HexVal("C") = 12
  <2>1. 3 \in DOMAIN HexUpper /\ HexUpper[3] = "C" /\ \A j \in DOMAIN HexUpper : HexUpper[j] = "C" => j = 3
    BY DEF HexUpper
  <2>2. HexVal("C") = 3 + 9
    BY <1>3, <2>1, HexUpperCase
  <2>3. QED
    BY <2>2
<1>11. QED
  BY <1>4, <1>5, <1>6, <1>7, <1>8, <1>9, <1>10

\* The upper case of the hex digits that stay in an escape.
LEMMA Upcased ==
  Upcase("2") = "2" /\ Upcase("5") = "5" /\ Upcase("C") = "C" /\ Upcase("f") = "F"
<1>1. ~In(Lower, "2") /\ ~In(Lower, "5") /\ ~In(Lower, "C")
  BY DEF Lower, In
<1>2. 6 \in DOMAIN Lower /\ Lower[6] = "f" /\ \A j \in DOMAIN Lower : Lower[j] = "f" => j = 6
  BY DEF Lower
<1>3. In(Lower, "f") /\ IndexIn(Lower, "f") = 6
  BY <1>2, IndexIs
<1>4. Upper[6] = "F"
  BY DEF Upper
<1>5. QED
  BY <1>1, <1>3, <1>4 DEF Upcase

-----------------------------------------------------------------------------
(* normalize *)

\* What is consumed is there, and what is emitted is text.
LEMMA RewriteType ==
  ASSUME NEW s \in Seq(Chars), NEW i \in 1..Len(s)
  PROVE  /\ RewriteAt(s, i).consume \in {1, 3}
         /\ i + RewriteAt(s, i).consume <= Len(s) + 1
         /\ RewriteAt(s, i).emit \in Seq(Chars)
<1>1. s[i] \in Chars /\ <<s[i]>> \in Seq(Chars)
  OBVIOUS
<1>2. CASE HasAt(s, i, <<"/", "/">>)
  BY <1>2 DEF RewriteAt
<1> DEFINE esc == s[i] = "%" /\ i + 2 <= Len(s) /\ HexVal(s[i + 1]) >= 0 /\ HexVal(s[i + 2]) >= 0
<1>3. CASE ~HasAt(s, i, <<"/", "/">>) /\ ~esc
  <2>1. RewriteAt(s, i) = [consume |-> 1, emit |-> <<s[i]>>]
    BY <1>3, Zenon DEF RewriteAt
  <2>2. QED
    BY <1>1, <2>1
<1>4. CASE ~HasAt(s, i, <<"/", "/">>) /\ esc
  <2>1. s[i + 1] \in Chars /\ s[i + 2] \in Chars /\ "%" \in Chars
    <3>1. i + 1 \in 1..Len(s) /\ i + 2 \in 1..Len(s)
      BY <1>4
    <3>2. QED
      BY <3>1, CharsAre
  <2> DEFINE code == 16 * HexVal(s[i + 1]) + HexVal(s[i + 2])
             long == <<"%", Upcase(s[i + 1]), Upcase(s[i + 2])>>
             out == IF code \in DOMAIN Unreserved THEN <<Unreserved[code]>> ELSE long
  <2>2. RewriteAt(s, i) = [consume |-> 3, emit |-> out]
    BY <1>4, Zenon DEF RewriteAt
  <2>3. long \in Seq(Chars)
    <3>1. Upcase(s[i + 1]) \in Chars /\ Upcase(s[i + 2]) \in Chars
      BY <2>1, UpcaseType
    <3>2. QED
      BY <2>1, <3>1, ThreeElements
  <2>4. code \in DOMAIN Unreserved => <<Unreserved[code]>> \in Seq(Chars)
    <3>1. code \in DOMAIN Unreserved => Unreserved[code] \in Chars
      BY Zenon DEF Chars
    <3>2. QED
      BY <3>1, OneElement
  <2>5. out \in Seq(Chars)
    BY <2>3, <2>4
  <2> HIDE DEF out
  <2>6. QED
    BY <1>4, <2>2, <2>5
<1>5. QED
  BY <1>2, <1>3, <1>4

\* The text from each place on, rewritten.
Rewrites(s, from) ==
  /\ from \in [1..(Len(s) + 3) -> Seq(Chars)]
  /\ \A i \in 1..(Len(s) + 3) :
       from[i] = IF i > Len(s) THEN <<>>
                 ELSE RewriteAt(s, i).emit \o from[i + RewriteAt(s, i).consume]

\* The recursion of normalize has a solution, and its value at the first
\* character is what normalize returns.
LEMMA NormalizeIs ==
  ASSUME NEW s \in Seq(Chars)
  PROVE  \E from : Rewrites(s, from) /\ Normalize(s) = from[1]
<1> DEFINE N == Len(s) + 3
           D == 1..(Len(s) + 3)
           V == Seq(Chars)
           next == [i \in D |-> IF i > Len(s) THEN i ELSE i + RewriteAt(s, i).consume]
           rank == [i \in D |-> Len(s) + 3 - i]
           step == [i \in D |-> [v \in V |-> IF i > Len(s) THEN <<>> ELSE RewriteAt(s, i).emit \o v]]
           body(f) == [i \in D |-> IF i > Len(s) THEN <<>>
                                   ELSE LET r == RewriteAt(s, i) IN r.emit \o f[i + r.consume]]
           from == CHOOSE g : g = body(g)
<1>1. Len(s) \in Nat /\ N \in Nat /\ <<>> \in V
  OBVIOUS
<1>2. \A i \in D : i > Len(s) \/ i \in 1..Len(s)
  BY <1>1
<1>3. ASSUME NEW i \in 1..Len(s)
      PROVE  i + RewriteAt(s, i).consume \in D /\ i + RewriteAt(s, i).consume > i
  BY <1>1, RewriteType
<1>4. next \in [D -> D] /\ rank \in [D -> Nat]
  BY <1>1, <1>2, <1>3
<1>5. step \in [D -> [V -> V]]
  <2> SUFFICES ASSUME NEW i \in D, NEW v \in V
               PROVE (IF i > Len(s) THEN <<>> ELSE RewriteAt(s, i).emit \o v) \in V
    OBVIOUS
  <2>1. CASE i > Len(s)
    BY <1>1, <2>1
  <2>2. CASE i \in 1..Len(s)
    BY <1>1, <2>2, RewriteType
  <2>3. QED
    BY <1>2, <2>1, <2>2
<1>6. \A i \in D : rank[i] < N
  BY <1>1
<1>7. ASSUME NEW i \in 1..Len(s)
      PROVE  rank[next[i]] < rank[i]
  <2>1. i \in D /\ next[i] = i + RewriteAt(s, i).consume
    BY <1>1
  <2>2. QED
    BY <1>1, <1>3, <2>1
<1>8. ASSUME NEW i \in D
      PROVE  rank[next[i]] < rank[i] \/ \A v, w \in V : step[i][v] = step[i][w]
  <2>1. CASE i > Len(s)
    BY <2>1
  <2>2. QED
    BY <1>2, <1>7, <2>1, Zenon
<1>9. PICK f : f \in [D -> V] /\ \A i \in D : f[i] = step[i][f[next[i]]]
  <2> HIDE DEF N, D, V, next, rank, step
  <2>1. V # {} /\ \E M \in Nat : \A i \in D : rank[i] < M
    BY <1>1, <1>6
  <2>2. Descends(D, V, next, rank, step)
    BY <1>4, <1>5, <1>8, <2>1, Zenon DEF Descends
  <2>3. \E f : Solves(D, V, next, step, f)
    BY <2>2, Recursion, Zenon
  <2>4. QED
    BY <2>3, Zenon DEF Solves
<1>10. \A i \in D : f[i] = body(f)[i]
  BY <1>2, <1>4, <1>9, Zenon
<1>11. f = body(f)
  <2>1. f = [i \in D |-> f[i]] /\ body(f) = [i \in D |-> body(f)[i]]
    BY <1>9
  <2> HIDE DEF D, V, body
  <2>2. QED
    BY <1>10, <2>1
<1>12. from = body(from)
  <2> HIDE DEF body
  <2>1. QED
    BY <1>11, Zenon
<1>13. Normalize(s) = from[1]
  BY Zenon DEF Normalize
<1> HIDE DEF from
<1>14. \A i \in D : f[i] = from[i] \/ (rank[next[i]] < rank[i] /\ (f[next[i]] = from[next[i]] => f[i] = from[i]))
  <2> TAKE i \in D
  <2>1. CASE i > Len(s)
    BY <1>11, <1>12, <2>1
  <2>2. CASE i \in 1..Len(s)
    <3>1. next[i] = i + RewriteAt(s, i).consume /\ ~(i > Len(s))
      BY <1>1, <2>2
    <3>2. f[i] = RewriteAt(s, i).emit \o f[next[i]] /\ from[i] = RewriteAt(s, i).emit \o from[next[i]]
      BY <1>11, <1>12, <3>1, Zenon
    <3>3. QED
      BY <1>7, <2>2, <3>2, Zenon
  <2>3. QED
    BY <1>2, <2>1, <2>2
<1>15. \A i \in D : f[i] = from[i]
  <2> HIDE DEF D, V, next, rank
  <2>1. Agree(D, next, rank, f, from)
    BY <1>4, <1>14, Zenon DEF Agree
  <2>2. Same(D, f, from)
    BY <2>1, SameRecursion, Zenon
  <2>3. QED
    BY <2>2, Zenon DEF Same
<1>16. Rewrites(s, f)
  BY <1>9, <1>10, Zenon DEF Rewrites
<1>17. QED
  BY <1>1, <1>13, <1>15, <1>16

\* No escape is cut short at the end.
Complete(s) == \A i \in 1..Len(s) : s[i] = "%" => i + 2 <= Len(s)

\* Slashes meet where s ends and t begins.
SlashesMeet(s, t) == EndsWith(s, "/") /\ HasAt(t, 1, <<"/">>)

\* What is rewritten in s does not depend on what comes after it.
LEMMA RewritePrefix ==
  ASSUME NEW s \in Seq(Chars), NEW t \in Seq(Chars), NEW i \in 1..Len(s), Complete(s),
         i < Len(s) \/ ~SlashesMeet(s, t)
  PROVE  RewriteAt(s \o t, i) = RewriteAt(s, i)
<1> DEFINE st == s \o t
<1>1. /\ Len(s) \in Nat /\ Len(t) \in Nat /\ st \in Seq(Chars) /\ Len(st) = Len(s) + Len(t)
      /\ st[i] = s[i]
      /\ \A j \in 1..Len(s) : st[j] = s[j]
      /\ \A j \in 1..Len(t) : st[Len(s) + j] = t[j]
  BY Concat
<1> HIDE DEF st
<1>2. HasAt(st, i, <<"/", "/">>) <=> HasAt(s, i, <<"/", "/">>)
  <2>0. i \in Nat
    OBVIOUS
  <2>1. HasAt(s, i, <<"/", "/">>) <=> i + 1 <= Len(s) /\ s[i] = "/" /\ s[i + 1] = "/"
    BY <2>0, HasWord2
  <2>2. HasAt(st, i, <<"/", "/">>) <=> i + 1 <= Len(st) /\ st[i] = "/" /\ st[i + 1] = "/"
    <3>1. st \in Seq(Chars)
      BY <1>1
    <3>2. QED
      BY <2>0, <3>1, HasWord2
  <2>3. CASE i < Len(s)
    <3>1. i + 1 \in 1..Len(s) /\ i + 1 <= Len(st)
      BY <1>1, <2>3
    <3>2. QED
      BY <1>1, <2>1, <2>2, <3>1
  <2>4. CASE i = Len(s) /\ ~SlashesMeet(s, t)
    <3>1. HasAt(t, 1, <<"/">>) <=> 1 <= Len(t) /\ t[1] = "/"
      BY HasWord1
    <3>2. EndsWith(s, "/") <=> s[i] = "/"
      BY <2>4 DEF EndsWith
    <3>3. 1 <= Len(t) => st[i + 1] = t[1]
      BY <1>1, <2>4
    <3>4. QED
      BY <1>1, <2>1, <2>2, <2>4, <3>1, <3>2, <3>3 DEF SlashesMeet
  <2>5. QED
    BY <1>1, <2>3, <2>4
<1>3. s[i] = "%" => i + 2 <= Len(s) /\ i + 2 <= Len(st) /\ st[i + 1] = s[i + 1] /\ st[i + 2] = s[i + 2]
  <2> SUFFICES ASSUME s[i] = "%" PROVE i + 2 <= Len(s) /\ i + 2 <= Len(st) /\ st[i + 1] = s[i + 1] /\ st[i + 2] = s[i + 2]
    OBVIOUS
  <2>1. i + 2 <= Len(s)
    BY DEF Complete
  <2>2. i + 1 \in 1..Len(s) /\ i + 2 \in 1..Len(s) /\ i + 2 <= Len(st)
    BY <1>1, <2>1
  <2>3. QED
    BY <1>1, <2>1, <2>2
<1>4. CASE s[i] = "%"
  <2>1. RewriteAt(st, i) = RewriteAt(s, i)
    BY <1>1, <1>2, <1>3, <1>4, Zenon DEF RewriteAt
  <2>2. QED
    BY <2>1 DEF st
<1>5. CASE s[i] # "%"
  <2>1. RewriteAt(st, i) = RewriteAt(s, i)
    BY <1>1, <1>2, <1>5, Zenon DEF RewriteAt
  <2>2. QED
    BY <2>1 DEF st
<1>6. QED
  BY <1>4, <1>5

\* The places that normalize visits in s, which are places of s \o t too.
LEMMA RewriteNext ==
  ASSUME NEW s \in Seq(Chars), NEW from, Rewrites(s, from), NEW i \in 1..Len(s)
  PROVE  /\ i + RewriteAt(s, i).consume \in (i + 1)..(Len(s) + 1)
         /\ from[i] = RewriteAt(s, i).emit \o from[i + RewriteAt(s, i).consume]
         /\ RewriteAt(s, i).emit \in Seq(Chars)
         /\ from[i + RewriteAt(s, i).consume] \in Seq(Chars)
<1>1. Len(s) \in Nat
  OBVIOUS
<1>2. i + RewriteAt(s, i).consume \in (i + 1)..(Len(s) + 1) /\ RewriteAt(s, i).emit \in Seq(Chars)
  BY <1>1, RewriteType
<1>3. i \in 1..(Len(s) + 3) /\ ~(i > Len(s)) /\ i + RewriteAt(s, i).consume \in 1..(Len(s) + 3)
  BY <1>1, <1>2
<1>4. QED
  BY <1>2, <1>3, Zenon DEF Rewrites

\* Past the end there is nothing to rewrite.
LEMMA RewriteEnd ==
  ASSUME NEW s \in Seq(Chars), NEW from, Rewrites(s, from)
  PROVE  /\ from[Len(s) + 1] = <<>>
         /\ \A i \in 1..(Len(s) + 1) : from[i] \in Seq(Chars)
<1>1. Len(s) + 1 \in 1..(Len(s) + 3) /\ Len(s) + 1 > Len(s)
  OBVIOUS
<1>2. from[Len(s) + 1] = <<>>
  BY <1>1, Zenon DEF Rewrites
<1>3. 1..(Len(s) + 1) \subseteq 1..(Len(s) + 3)
  OBVIOUS
<1>4. QED
  BY <1>2, <1>3, Zenon DEF Rewrites

\* The text before a place that normalize visits is rewritten on its own.
Apart(f, g, n) == g[1] = f[1] \o g[n + 1]

\* The rewriting of a text goes on into what is appended, unless an escape or
\* a run of slashes crosses the seam.
LEMMA RewritesApart ==
  ASSUME NEW s \in Seq(Chars), NEW t \in Seq(Chars), NEW f, NEW g,
         Complete(s), ~SlashesMeet(s, t), Rewrites(s, f), Rewrites(s \o t, g)
  PROVE  Apart(f, g, Len(s))
<1>1. Len(s) \in Nat /\ Len(t) \in Nat /\ s \o t \in Seq(Chars) /\ Len(s \o t) = Len(s) + Len(t)
  BY Concat
<1>2. PICK n \in Nat : n = Len(s)
  BY <1>1
<1>3. PICK st : st = s \o t
  BY Zenon
<1>4. st \in Seq(Chars) /\ Len(st) \in Nat /\ n <= Len(st) /\ Rewrites(st, g)
  BY <1>1, <1>2, <1>3
<1>5. f[n + 1] = <<>> /\ \A i \in 1..(n + 1) : f[i] \in Seq(Chars)
  BY <1>2, RewriteEnd, Zenon
<1>6. \A i \in 1..(n + 1) : g[i] \in Seq(Chars)
  <2>1. \A i \in 1..(Len(st) + 1) : g[i] \in Seq(Chars)
    BY <1>4, RewriteEnd, Zenon
  <2>2. 1..(n + 1) \subseteq 1..(Len(st) + 1)
    BY <1>4
  <2>3. QED
    BY <2>1, <2>2, Zenon
<1>7. PICK tail : tail = g[n + 1] /\ tail \in Seq(Chars)
  BY <1>6
<1> DEFINE D == 1..(n + 1)
           P == {i \in D : g[i] = f[i] \o tail}
<1>8. n + 1 \in P
  <2>1. <<>> \o tail = tail
    BY <1>7, ConcatEmpty
  <2>2. n + 1 \in D
    OBVIOUS
  <2>3. QED
    BY <1>5, <1>7, <2>1, <2>2, Zenon
<1>9. ASSUME NEW i \in 1..n, \A j \in (i + 1)..(n + 1) : j \in P
      PROVE  i \in P
  <2>1. i \in 1..Len(s) /\ i \in 1..Len(st) /\ i \in D
    BY <1>1, <1>2, <1>4
  <2>2. PICK r : r = RewriteAt(s, i)
    OBVIOUS
  <2>3. PICK j : j = i + r.consume
    OBVIOUS
  <2>4. RewriteAt(st, i) = r
    BY <1>3, <2>1, <2>2, RewritePrefix, Zenon
  <2>5. j \in (i + 1)..(n + 1) /\ f[i] = r.emit \o f[j] /\ r.emit \in Seq(Chars) /\ f[j] \in Seq(Chars)
    BY <1>2, <2>1, <2>2, <2>3, RewriteNext, Zenon
  <2>6. g[i] = r.emit \o g[j]
    BY <1>4, <2>1, <2>3, <2>4, RewriteNext, Zenon
  <2>7. g[j] = f[j] \o tail
    BY <1>9, <2>5, Zenon
  <2>8. r.emit \o (f[j] \o tail) = (r.emit \o f[j]) \o tail
    <3>1. PICK e, w : e = r.emit /\ w = f[j]
      OBVIOUS
    <3>2. e \in Seq(Chars) /\ w \in Seq(Chars) /\ tail \in Seq(Chars)
      BY <1>7, <2>5, <3>1
    <3>3. e \o (w \o tail) = (e \o w) \o tail
      BY <3>2
    <3>4. QED
      BY <3>1, <3>3
  <2>9. QED
    BY <2>1, <2>5, <2>6, <2>7, <2>8, Zenon
<1>10. \A i \in 1..(n + 1) : i \in P
  <2> HIDE DEF P
  <2>1. QED
    BY <1>8, <1>9, DownInduction, Zenon
<1>11. 1 \in P
  BY <1>10
<1>12. QED
  BY <1>2, <1>7, <1>11, Zenon DEF Apart

\* A place where c letters become e.
Becomes(s, i, c, e) == RewriteAt(s, i).consume = c /\ RewriteAt(s, i).emit = e

Follows(from, i, c, e) == from[i] = e \o from[i + c]

\* One step of rewrite_at in the recursion of normalize.
LEMMA RewriteStep ==
  ASSUME NEW s \in Seq(Chars), NEW from, Rewrites(s, from), NEW i \in 1..Len(s), NEW c, NEW e,
         Becomes(s, i, c, e)
  PROVE  Follows(from, i, c, e)
BY RewriteNext, Zenon DEF Becomes, Follows

\* A slash is no hex digit, so an escape never swallows one.
LEMMA SlashIsNoHex == HexVal("/") = -1
<1>1. ~In(Digits, "/") /\ ~In(HexUpper, "/") /\ ~In(HexLower, "/")
  BY DEF In, Digits, HexUpper, HexLower
<1>2. QED
  BY <1>1 DEF HexVal

\* Only escapes are longer than a letter, and end in a digit.
LEMMA RewriteOne ==
  ASSUME NEW s \in Seq(Chars), NEW i \in 1..Len(s), ~HasAt(s, i, <<"/", "/">>),
         s[i] = "%" /\ i + 2 <= Len(s) => s[i + 2] = "/"
  PROVE  Becomes(s, i, 1, <<s[i]>>)
<1>1. ~(HexVal("/") >= 0)
  BY SlashIsNoHex
<1>2. ~(s[i] = "%" /\ i + 2 <= Len(s) /\ HexVal(s[i + 1]) >= 0 /\ HexVal(s[i + 2]) >= 0)
  BY <1>1, Zenon
<1>3. RewriteAt(s, i) = [consume |-> 1, emit |-> <<s[i]>>]
  BY <1>2, Zenon DEF RewriteAt
<1>4. QED
  BY <1>3 DEF Becomes

\* The slash before a slash is dropped.
LEMMA RewritesMeet ==
  ASSUME NEW s \in Seq(Chars), NEW f, NEW g,
         Complete(s), EndsWith(s, "/"), Rewrites(s, f), Rewrites(s \o <<"/">>, g)
  PROVE  g[1] = f[1]
<1>1. PICK st : st = s \o <<"/">>
  BY Zenon
<1>2. PICK n \in Nat : n = Len(s)
  OBVIOUS
<1>3. "/" \in Chars /\ <<"/">> \in Seq(Chars) /\ Len(<<"/">>) = 1 /\ <<"/">>[1] = "/"
  BY CharsAre
<1>4. /\ st \in Seq(Chars) /\ Len(st) = n + 1 /\ st[n + 1] = "/" /\ Rewrites(st, g)
      /\ \A i \in 1..n : st[i] = s[i]
  BY <1>1, <1>2, <1>3
<1>5. n > 0 /\ s[n] = "/"
  BY <1>2 DEF EndsWith
<1>6. f[n] = <<"/">>
  <2>1. ~HasAt(s, n, <<"/", "/">>)
    BY <1>2, HasWord2
  <2>2. n \in 1..Len(s) /\ s[n] # "%"
    BY <1>2, <1>5
  <2>3. Becomes(s, n, 1, <<"/">>)
    BY <1>5, <2>1, <2>2, RewriteOne, Zenon
  <2>4. f[n] = <<"/">> \o f[n + 1]
    <3>1. Follows(f, n, 1, <<"/">>)
      BY <2>2, <2>3, RewriteStep, Zenon
    <3>2. QED
      BY <3>1 DEF Follows
  <2>5. f[n + 1] = <<>>
    BY <1>2, RewriteEnd, Zenon
  <2>6. QED
    BY <1>3, <2>4, <2>5
<1>7. g[n + 1] = <<"/">>
  <2>0. n + 1 \in Nat
    OBVIOUS
  <2>1. ~HasAt(st, n + 1, <<"/", "/">>)
    BY <1>4, <2>0, HasWord2
  <2>2. n + 1 \in 1..Len(st) /\ st[n + 1] # "%"
    BY <1>4, <1>5
  <2>3. Becomes(st, n + 1, 1, <<"/">>)
    BY <1>4, <2>1, <2>2, RewriteOne, Zenon
  <2>4. g[n + 1] = <<"/">> \o g[(n + 1) + 1]
    <3>1. Follows(g, n + 1, 1, <<"/">>)
      BY <1>4, <2>2, <2>3, RewriteStep, Zenon
    <3>2. QED
      BY <3>1 DEF Follows
  <2>5. g[(n + 1) + 1] = <<>>
    BY <1>4, RewriteEnd, Zenon
  <2>6. QED
    BY <1>3, <2>4, <2>5
<1>8. g[n] = g[n + 1]
  <2>1. n \in 1..Len(st) /\ st[n] = "/"
    BY <1>4, <1>5
  <2>2. HasAt(st, n, <<"/", "/">>)
    BY <1>4, <2>1, HasWord2
  <2>3. Becomes(st, n, 1, <<>>)
    BY <2>2 DEF RewriteAt, Becomes
  <2>4. g[n] = <<>> \o g[n + 1]
    <3>1. Follows(g, n, 1, <<>>)
      BY <1>4, <2>1, <2>3, RewriteStep, Zenon
    <3>2. QED
      BY <3>1 DEF Follows
  <2>5. QED
    BY <1>3, <1>7, <2>4
<1> DEFINE P == {i \in 1..n : g[i] = f[i]}
<1>9. n \in P
  BY <1>5, <1>6, <1>7, <1>8
<1>10. ASSUME NEW i \in 1..(n - 1), \A j \in (i + 1)..n : j \in P
       PROVE  i \in P
  <2>1. i \in 1..Len(s) /\ i \in 1..Len(st) /\ i < Len(s) /\ i \in 1..n
    BY <1>2, <1>4
  <2>2. PICK r : r = RewriteAt(s, i)
    OBVIOUS
  <2>3. PICK j : j = i + r.consume
    OBVIOUS
  <2>4. RewriteAt(st, i) = r
    BY <1>1, <1>3, <2>1, <2>2, RewritePrefix, Zenon
  <2>5. j \in (i + 1)..(n + 1) /\ f[i] = r.emit \o f[j]
    BY <1>2, <2>1, <2>2, <2>3, RewriteNext, Zenon
  <2>6. g[i] = r.emit \o g[j]
    BY <1>4, <2>1, <2>3, <2>4, RewriteNext, Zenon
  <2>7. j # n + 1
    <3> SUFFICES ASSUME j = n + 1 PROVE FALSE
      OBVIOUS
    <3>1. r.consume \in {1, 3}
      BY <2>1, <2>2, RewriteType
    <3>2. r.consume = 3 /\ i + 2 = n
      BY <2>3, <3>1
    <3>3. s[i + 2] = "/"
      BY <1>5, <3>2
    <3>4. CASE HasAt(s, i, <<"/", "/">>)
      BY <2>2, <3>2, <3>4 DEF RewriteAt
    <3>5. CASE ~HasAt(s, i, <<"/", "/">>)
      <4>1. Becomes(s, i, 1, <<s[i]>>)
        BY <2>1, <2>2, <3>3, <3>5, RewriteOne, Zenon
      <4>2. QED
        BY <2>2, <3>2, <4>1 DEF Becomes
    <3>6. QED
      BY <3>4, <3>5
  <2>8. g[j] = f[j]
    <3>1. j \in (i + 1)..n
      BY <2>5, <2>7
    <3>2. QED
      BY <1>10, <3>1, Zenon
  <2>9. QED
    BY <2>1, <2>5, <2>6, <2>8, Zenon
<1>11. \A i \in 1..n : i \in P
  <2> HIDE DEF P
  <2>1. PICK m \in Nat : m = n - 1
    BY <1>5
  <2>2. m + 1 = n
    BY <2>1
  <2>3. m + 1 \in P /\ \A i \in 1..m : (\A j \in (i + 1)..(m + 1) : j \in P) => i \in P
    BY <1>9, <1>10, <2>1, <2>2
  <2>4. \A i \in 1..(m + 1) : i \in P
    BY <2>3, DownInduction, Zenon
  <2>5. QED
    BY <2>2, <2>4
<1>12. 1 \in P
  BY <1>5, <1>11
<1>13. QED
  BY <1>12

\* What is rewritten does not depend on what comes before.
LEMMA RewriteShift ==
  ASSUME NEW s \in Seq(Chars), NEW t \in Seq(Chars), NEW i \in 1..Len(t)
  PROVE  RewriteAt(s \o t, Len(s) + i) = RewriteAt(t, i)
<1>1. PICK st : st = s \o t
  BY Zenon
<1>2. PICK n \in Nat : n = Len(s)
  OBVIOUS
<1>3. /\ st \in Seq(Chars) /\ Len(t) \in Nat /\ Len(st) = n + Len(t)
      /\ \A j \in 1..Len(t) : st[n + j] = t[j]
  BY <1>1, <1>2, Concat
<1>4. PICK k \in Nat : k = n + i
  OBVIOUS
<1>5. /\ st[k] = t[i]
      /\ k + 1 <= Len(st) <=> i + 1 <= Len(t)
      /\ k + 2 <= Len(st) <=> i + 2 <= Len(t)
      /\ i + 1 <= Len(t) => st[k + 1] = t[i + 1]
      /\ i + 2 <= Len(t) => st[k + 2] = t[i + 2]
  <2>1. st[k] = t[i]
    BY <1>3, <1>4
  <2>2. (k + 1 <= Len(st) <=> i + 1 <= Len(t)) /\ (k + 2 <= Len(st) <=> i + 2 <= Len(t))
    BY <1>3, <1>4
  <2>3. i + 1 <= Len(t) => st[k + 1] = t[i + 1]
    <3> SUFFICES ASSUME i + 1 <= Len(t) PROVE st[k + 1] = t[i + 1]
      OBVIOUS
    <3>1. i + 1 \in 1..Len(t) /\ n + (i + 1) = k + 1
      BY <1>3, <1>4
    <3>2. st[n + (i + 1)] = t[i + 1]
      BY <1>3, <3>1, Zenon
    <3>3. QED
      BY <3>1, <3>2
  <2>4. i + 2 <= Len(t) => st[k + 2] = t[i + 2]
    <3> SUFFICES ASSUME i + 2 <= Len(t) PROVE st[k + 2] = t[i + 2]
      OBVIOUS
    <3>1. i + 2 \in 1..Len(t) /\ n + (i + 2) = k + 2
      BY <1>3, <1>4
    <3>2. st[n + (i + 2)] = t[i + 2]
      BY <1>3, <3>1, Zenon
    <3>3. QED
      BY <3>1, <3>2
  <2>5. QED
    BY <2>1, <2>2, <2>3, <2>4
<1>6. HasAt(st, k, <<"/", "/">>) <=> HasAt(t, i, <<"/", "/">>)
  <2>0. i \in Nat
    OBVIOUS
  <2>1. HasAt(st, k, <<"/", "/">>) <=> k + 1 <= Len(st) /\ st[k] = "/" /\ st[k + 1] = "/"
    <3>1. st \in Seq(Chars)
      BY <1>3
    <3>2. QED
      BY <3>1, HasWord2
  <2>2. HasAt(t, i, <<"/", "/">>) <=> i + 1 <= Len(t) /\ t[i] = "/" /\ t[i + 1] = "/"
    BY <2>0, HasWord2
  <2>3. QED
    BY <1>5, <2>1, <2>2
<1>7. RewriteAt(st, k) = RewriteAt(t, i)
  <2>1. CASE i + 2 <= Len(t)
    <3>1. st[k] = t[i] /\ st[k + 1] = t[i + 1] /\ st[k + 2] = t[i + 2] /\ k + 2 <= Len(st)
      BY <1>3, <1>5, <2>1
    <3>2. QED
      BY <1>6, <2>1, <3>1, Zenon DEF RewriteAt
  <2>2. CASE ~(i + 2 <= Len(t))
    BY <1>5, <1>6, <2>2, Zenon DEF RewriteAt
  <2>3. QED
    BY <2>1, <2>2
<1>8. QED
  BY <1>1, <1>2, <1>4, <1>7

\* normalize returns a text.
LEMMA NormalizeType ==
  ASSUME NEW s \in Seq(Chars)
  PROVE  Normalize(s) \in Seq(Chars)
<1>1. PICK from : Rewrites(s, from) /\ Normalize(s) = from[1]
  BY NormalizeIs
<1>2. 1 \in 1..(Len(s) + 1)
  OBVIOUS
<1>3. QED
  BY <1>1, <1>2, RewriteEnd, Zenon

\* A word that is rewritten in one step.
Word(t, out) ==
  /\ t \in Seq(Chars) /\ out \in Seq(Chars) /\ t # <<>>
  /\ Becomes(t, 1, Len(t), out)
  /\ t[1] = "/" => t = <<"/">> /\ out = <<"/">>

\* How normalize takes one more word.
LEMMA NormalizeAppend ==
  ASSUME NEW s \in Seq(Chars), NEW t, NEW out, Complete(s), Word(t, out)
  PROVE  Normalize(s \o t) =
           IF t = <<"/">> /\ EndsWith(s, "/") THEN Normalize(s) ELSE Normalize(s) \o out
<1>1. /\ t \in Seq(Chars) /\ out \in Seq(Chars) /\ Len(t) \in Nat /\ Len(t) > 0 /\ 1 \in 1..Len(t)
      /\ Len(s) \in Nat
  BY DEF Word
<1>2. PICK st : st = s \o t
  BY Zenon
<1>3. st \in Seq(Chars) /\ Len(st) = Len(s) + Len(t)
  BY <1>1, <1>2
<1>4. PICK f : Rewrites(s, f) /\ Normalize(s) = f[1]
  BY NormalizeIs
<1>5. PICK g : Rewrites(st, g) /\ Normalize(st) = g[1]
  BY <1>3, NormalizeIs, Zenon
<1>6. HasAt(t, 1, <<"/">>) <=> t = <<"/">>
  <2>1. HasAt(t, 1, <<"/">>) <=> t[1] = "/"
    BY <1>1, HasWord1
  <2>2. QED
    BY <2>1 DEF Word
<1>7. CASE t = <<"/">> /\ EndsWith(s, "/")
  <2>1. Rewrites(s \o <<"/">>, g)
    BY <1>2, <1>5, <1>7
  <2>2. g[1] = f[1]
    BY <1>4, <1>7, <2>1, RewritesMeet, Zenon
  <2>3. QED
    BY <1>2, <1>4, <1>5, <1>7, <2>2
<1>8. CASE ~(t = <<"/">> /\ EndsWith(s, "/"))
  <2>1. ~SlashesMeet(s, t)
    BY <1>6, <1>8 DEF SlashesMeet
  <2>2. g[1] = f[1] \o g[Len(s) + 1]
    <3>1. Rewrites(s \o t, g)
      BY <1>2, <1>5
    <3>2. Apart(f, g, Len(s))
      BY <1>1, <1>4, <2>1, <3>1, RewritesApart, Zenon
    <3>3. QED
      BY <3>2 DEF Apart
  <2>3. PICK k : k = Len(s) + 1
    OBVIOUS
  <2>4. k \in 1..Len(st) /\ k + Len(t) = Len(st) + 1
    BY <1>1, <1>3, <2>3
  <2>5. RewriteAt(st, k) = RewriteAt(t, 1)
    BY <1>1, <1>2, <2>3, RewriteShift, Zenon
  <2>6. Becomes(st, k, Len(t), out)
    BY <2>5 DEF Word, Becomes
  <2>7. Follows(g, k, Len(t), out)
    BY <1>3, <1>5, <2>4, <2>6, RewriteStep, Zenon
  <2>8. g[Len(st) + 1] = <<>>
    BY <1>3, <1>5, RewriteEnd, Zenon
  <2>9. g[k] = out \o <<>>
    BY <2>4, <2>7, <2>8, Zenon DEF Follows
  <2>10. g[k] = out
    BY <1>1, <2>9
  <2>11. Normalize(st) = Normalize(s) \o out
    BY <1>4, <1>5, <2>2, <2>3, <2>10, Zenon
  <2>12. QED
    BY <1>2, <1>8, <2>11, Zenon
<1>9. QED
  BY <1>7, <1>8

\* Texts without a cut-off escape make one when joined.
LEMMA CompleteAppend ==
  ASSUME NEW s \in Seq(Chars), NEW t \in Seq(Chars), Complete(s), Complete(t)
  PROVE  Complete(s \o t)
<1>1. PICK st : st = s \o t
  BY Zenon
<1>2. /\ Len(s) \in Nat /\ Len(t) \in Nat /\ st \in Seq(Chars) /\ Len(st) = Len(s) + Len(t)
      /\ \A j \in 1..Len(s) : st[j] = s[j]
      /\ \A j \in 1..Len(t) : st[Len(s) + j] = t[j]
  BY <1>1, Concat
<1>3. ASSUME NEW i \in 1..Len(st), st[i] = "%"
      PROVE  i + 2 <= Len(st)
  <2>1. CASE i \in 1..Len(s)
    BY <1>2, <1>3, <2>1 DEF Complete
  <2>2. CASE i \notin 1..Len(s)
    <3>1. PICK j \in 1..Len(t) : i = Len(s) + j
      <4>1. i - Len(s) \in 1..Len(t) /\ i = Len(s) + (i - Len(s))
        BY <1>2, <2>2
      <4>2. QED
        BY <4>1, Zenon
    <3>2. t[j] = "%"
      BY <1>2, <1>3, <3>1
    <3>3. j + 2 <= Len(t)
      BY <3>2 DEF Complete
    <3>4. QED
      BY <1>2, <3>1, <3>3
  <2>3. QED
    BY <2>1, <2>2
<1>4. QED
  BY <1>1, <1>3 DEF Complete

\* A character other than the percent sign is rewritten to itself.
LEMMA LetterWord ==
  ASSUME NEW c \in Chars, c # "%"
  PROVE  Word(<<c>>, <<c>>) /\ Complete(<<c>>)
<1>1. PICK t : t = <<c>>
  BY Zenon
<1>2. t \in Seq(Chars) /\ Len(t) = 1 /\ t[1] = c /\ t # <<>> /\ 1 \in 1..Len(t)
  BY <1>1
<1>3. ~HasAt(t, 1, <<"/", "/">>)
  BY <1>2, HasWord2
<1>4. Becomes(t, 1, 1, <<t[1]>>)
  BY <1>2, <1>3, RewriteOne, Zenon
<1>5. Becomes(t, 1, Len(t), t)
  BY <1>1, <1>2, <1>4
<1>6. Word(t, t)
  BY <1>1, <1>2, <1>5 DEF Word
<1>7. Complete(t)
  BY <1>2 DEF Complete
<1>8. QED
  BY <1>1, <1>6, <1>7

\* An escape is rewritten as rewrite_at says: decoded if it spells an
\* unreserved character, else with its digits in upper case.
LEMMA EscapeWord ==
  ASSUME NEW h \in Chars, NEW l \in Chars, HexVal(h) >= 0, HexVal(l) >= 0, h # "%", l # "%",
         NEW out \in Seq(Chars), NEW code, code = 16 * HexVal(h) + HexVal(l),
         \/ code \in DOMAIN Unreserved /\ out = <<Unreserved[code]>>
         \/ code \notin DOMAIN Unreserved /\ out = <<"%", Upcase(h), Upcase(l)>>
  PROVE  Word(<<"%", h, l>>, out) /\ Complete(<<"%", h, l>>)
<1>1. PICK t : t = <<"%", h, l>>
  BY Zenon
<1>2. "%" \in Chars
  BY CharsAre
<1>3. t \in Seq(Chars) /\ Len(t) = 3 /\ t[1] = "%" /\ t[1 + 1] = h /\ t[1 + 2] = l /\ t # <<>>
  BY <1>1, <1>2
<1>4. ~HasAt(t, 1, <<"/", "/">>)
  BY <1>3, HasWord2
<1>5. 1 + 2 <= Len(t)
  BY <1>3
<1>6. RewriteAt(t, 1) = [consume |-> 3, emit |-> out]
  <2>1. t[1] = "%" /\ 1 + 2 <= Len(t) /\ HexVal(t[1 + 1]) >= 0 /\ HexVal(t[1 + 2]) >= 0
    BY <1>3, <1>5, Zenon
  <2>2. code = 16 * HexVal(t[1 + 1]) + HexVal(t[1 + 2])
    BY <1>3, Zenon
  <2>3. out = IF 16 * HexVal(t[1 + 1]) + HexVal(t[1 + 2]) \in DOMAIN Unreserved
                THEN <<Unreserved[16 * HexVal(t[1 + 1]) + HexVal(t[1 + 2])]>>
                ELSE <<"%", Upcase(t[1 + 1]), Upcase(t[1 + 2])>>
    BY <1>3, <2>2, Zenon
  <2>4. QED
    BY <1>4, <2>1, <2>3, Zenon DEF RewriteAt
<1>7. Becomes(t, 1, Len(t), out)
  BY <1>3, <1>6 DEF Becomes
<1>8. Word(t, out)
  BY <1>3, <1>7 DEF Word
<1>9. Complete(t)
  <2>1. t[2] = h /\ t[3] = l
    BY <1>1
  <2>2. QED
    BY <1>3, <2>1 DEF Complete
<1>10. QED
  BY <1>1, <1>8, <1>9

\* A text ends as what was appended last ends.
LEMMA EndsAppend ==
  ASSUME NEW s \in Seq(Chars), NEW t \in Seq(Chars), t # <<>>, NEW c
  PROVE  EndsWith(s \o t, c) <=> EndsWith(t, c)
<1>1. PICK st : st = s \o t
  BY Zenon
<1>2. /\ Len(t) \in Nat /\ Len(t) > 0 /\ Len(s) \in Nat /\ Len(st) = Len(s) + Len(t)
      /\ st[Len(s) + Len(t)] = t[Len(t)] /\ st \in Seq(Chars)
  BY <1>1
<1>3. st # <<>>
  BY <1>2
<1>4. QED
  BY <1>1, <1>2, <1>3 DEF EndsWith

\* The empty path is canonical.
LEMMA NormalizeEmpty == Normalize(<<>>) = <<>>
<1>1. <<>> \in Seq(Chars) /\ Len(<<>>) + 1 = 1
  OBVIOUS
<1>2. PICK from : Rewrites(<<>>, from) /\ Normalize(<<>>) = from[1]
  BY <1>1, NormalizeIs, Zenon
<1>3. from[Len(<<>>) + 1] = <<>>
  BY <1>1, <1>2, RewriteEnd, Zenon
<1>4. QED
  BY <1>1, <1>2, <1>3, Zenon

\* The root path is canonical.
LEMMA NormalizeSlash == Normalize(<<"/">>) = <<"/">>
<1>1. "/" \in Chars /\ <<>> \in Seq(Chars) /\ <<"/">> \in Seq(Chars) /\ "/" # "%"
  BY CharsAre
<1>2. Word(<<"/">>, <<"/">>)
  BY <1>1, LetterWord
<1>3. Complete(<<>>) /\ ~EndsWith(<<>>, "/")
  BY DEF Complete, EndsWith
<1>4. Normalize(<<>> \o <<"/">>) = Normalize(<<>>) \o <<"/">>
  BY <1>1, <1>2, <1>3, NormalizeAppend, Zenon
<1>5. QED
  BY <1>1, <1>4, NormalizeEmpty

\* A prefix of a path is its beginning.
LEMMA StartsWithIs ==
  ASSUME NEW s \in Seq(Chars), NEW p \in Seq(Chars)
  PROVE  StartsWith(s, p) <=> Len(p) <= Len(s) /\ \A k \in 1..Len(p) : s[k] = p[k]
<1>1. DOMAIN p = 1..Len(p) /\ Len(p) \in Nat /\ Len(s) \in Nat
  OBVIOUS
<1>2. 1 + Len(p) - 1 = Len(p) /\ \A k \in 1..Len(p) : 1 + k - 1 = k
  BY <1>1
<1>3. QED
  BY <1>1, <1>2 DEF StartsWith, HasAt

\* A text that starts with a prefix is the prefix and the rest.
LEMMA StartsWithSplit ==
  ASSUME NEW s \in Seq(Chars), NEW p \in Seq(Chars), StartsWith(s, p)
  PROVE  /\ Len(p) + 1 \in 1..(Len(s) + 1)
         /\ SubSeq(s, Len(p) + 1, Len(s)) \in Seq(Chars)
         /\ Len(SubSeq(s, Len(p) + 1, Len(s))) = Len(s) - Len(p)
         /\ \A i \in 1..(Len(s) - Len(p)) : SubSeq(s, Len(p) + 1, Len(s))[i] = s[Len(p) + i]
         /\ s = p \o SubSeq(s, Len(p) + 1, Len(s))
<1>1. Len(p) <= Len(s) /\ (\A k \in 1..Len(p) : s[k] = p[k]) /\ Len(p) \in Nat /\ Len(s) \in Nat
  BY StartsWithIs
<1>2. PICK n : n = Len(p)
  OBVIOUS
<1>3. n \in 0..Len(s)
  BY <1>1, <1>2
<1>4. /\ SubSeq(s, 1, n) \in Seq(Chars) /\ SubSeq(s, n + 1, Len(s)) \in Seq(Chars)
      /\ Len(SubSeq(s, 1, n)) = n /\ Len(SubSeq(s, n + 1, Len(s))) = Len(s) - n
      /\ \A i \in 1..n : SubSeq(s, 1, n)[i] = s[i]
      /\ \A i \in 1..(Len(s) - n) : SubSeq(s, n + 1, Len(s))[i] = s[n + i]
      /\ s = SubSeq(s, 1, n) \o SubSeq(s, n + 1, Len(s))
  BY <1>3, Split, Zenon
<1>5. SubSeq(s, 1, n) = p
  <2>1. PICK q : q = SubSeq(s, 1, n)
    BY Zenon
  <2>2. q \in Seq(Chars) /\ Len(q) = Len(p) /\ \A i \in 1..Len(q) : q[i] = p[i]
    BY <1>1, <1>2, <1>4, <2>1, Zenon
  <2>3. QED
    BY <2>1, <2>2, SameElements
<1>6. n + 1 \in 1..(Len(s) + 1)
  BY <1>3
<1>7. QED
  BY <1>2, <1>4, <1>5, <1>6, Zenon

\* A prefix and anything starts with the prefix.
LEMMA StartsWithConcat ==
  ASSUME NEW p \in Seq(Chars), NEW rest \in Seq(Chars)
  PROVE  StartsWith(p \o rest, p)
<1>1. PICK s : s = p \o rest
  BY Zenon
<1>2. s \in Seq(Chars) /\ Len(p) <= Len(s) /\ \A k \in 1..Len(p) : s[k] = p[k]
  BY <1>1
<1>3. QED
  BY <1>1, <1>2, StartsWithIs, Zenon

-----------------------------------------------------------------------------
(* bad_path *)

\* A separator is one character or an escape that is all there.
LEMMA SeparatorType ==
  ASSUME NEW s \in Seq(Chars), NEW i \in 1..Len(s)
  PROVE  /\ SeparatorAt(s, i) \in {0, 1, 3}
         /\ SeparatorAt(s, i) = 3 => i + 2 <= Len(s)
         /\ SeparatorAt(s, i) = 0 <=> /\ ~HasOneAt(s, i, {<<"/">>, <<"\\">>})
                                      /\ ~HasOneAt(s, i, EncodedSeparators)
<1>1. i \in Nat
  OBVIOUS
<1>2. HasOneAt(s, i, EncodedSeparators) => i + 2 <= Len(s) /\ s[i] = "%"
  BY <1>1, HasWord3 DEF HasOneAt, EncodedSeparators
<1>3. HasOneAt(s, i, {<<"/">>, <<"\\">>}) => s[i] # "%"
  BY <1>1, HasWord1 DEF HasOneAt
<1>4. ~(HasOneAt(s, i, EncodedSeparators) /\ HasOneAt(s, i, {<<"/">>, <<"\\">>}))
  BY <1>2, <1>3
<1>5. CASE HasOneAt(s, i, EncodedSeparators)
  <2>1. SeparatorAt(s, i) = 3
    BY <1>4, <1>5 DEF SeparatorAt
  <2>2. QED
    BY <1>2, <1>5, <2>1
<1>6. CASE HasOneAt(s, i, {<<"/">>, <<"\\">>})
  <2>1. SeparatorAt(s, i) = 1
    BY <1>4, <1>6 DEF SeparatorAt
  <2>2. QED
    BY <1>6, <2>1
<1>7. CASE ~HasOneAt(s, i, EncodedSeparators) /\ ~HasOneAt(s, i, {<<"/">>, <<"\\">>})
  <2>1. SeparatorAt(s, i) = 0
    BY <1>7 DEF SeparatorAt
  <2>2. QED
    BY <1>7, <2>1
<1>8. QED
  BY <1>5, <1>6, <1>7

\* Whether the path is bad from each place on, for each beginning of a piece.
ScansAt(s, bad, i, start) ==
  bad[i][start] = IF i > Len(s) THEN DotPiece(SubSeq(s, start, Len(s)))
                  ELSE IF SeparatorAt(s, i) > 0
                    THEN DotPiece(SubSeq(s, start, i - 1)) \/ bad[i + SeparatorAt(s, i)][i + SeparatorAt(s, i)]
                    ELSE HasOneAt(s, i, Forbidden) \/ bad[i + 1][start]

Scans(s, bad) ==
  /\ bad \in [1..(Len(s) + 3) -> [1..(Len(s) + 3) -> BOOLEAN]]
  /\ \A i, start \in 1..(Len(s) + 3) : ScansAt(s, bad, i, start)

\* bad_path at a separator: the piece before it is judged, and a new one
\* begins.
LEMMA ScanSeparator ==
  ASSUME NEW s, NEW bad, NEW i, NEW start, ScansAt(s, bad, i, start),
         NEW n, SeparatorAt(s, i) = n, ~(i > Len(s)), n > 0
  PROVE  bad[i][start] <=> DotPiece(SubSeq(s, start, i - 1)) \/ bad[i + n][i + n]
<1>1. SeparatorAt(s, i) > 0
  OBVIOUS
<1>2. bad[i][start] <=> (DotPiece(SubSeq(s, start, i - 1)) \/ bad[i + SeparatorAt(s, i)][i + SeparatorAt(s, i)])
  BY <1>1, Zenon DEF ScansAt
<1>3. QED
  BY <1>2, Zenon

\* bad_path inside a piece: only a forbidden escape is judged.
LEMMA ScanPlain ==
  ASSUME NEW s, NEW bad, NEW i, NEW start, ScansAt(s, bad, i, start),
         NEW n, SeparatorAt(s, i) = n, ~(i > Len(s)), ~(n > 0)
  PROVE  bad[i][start] <=> (HasOneAt(s, i, Forbidden) \/ bad[i + 1][start])
<1>1. ~(SeparatorAt(s, i) > 0)
  OBVIOUS
<1>2. QED
  BY <1>1, Zenon DEF ScansAt

\* bad_path at the end: the last piece is judged.
LEMMA ScanEnd ==
  ASSUME NEW s, NEW bad, NEW i, NEW start, ScansAt(s, bad, i, start), i > Len(s)
  PROVE  bad[i][start] <=> DotPiece(SubSeq(s, start, Len(s)))
BY Zenon DEF ScansAt

\* The scan of bad_path has a solution, and its value at the first character
\* is what bad_path returns.
LEMMA BadPathIs ==
  ASSUME NEW s \in Seq(Chars)
  PROVE  \E bad : Scans(s, bad) /\ BadPath(s) = bad[1][1]
<1> DEFINE D == 1..(Len(s) + 3)
           V == [D -> BOOLEAN]
           sep(i) == SeparatorAt(s, i)
           next == [i \in D |-> IF i > Len(s) THEN i ELSE IF sep(i) > 0 THEN i + sep(i) ELSE i + 1]
           rank == [i \in D |-> Len(s) + 3 - i]
           at(v, w, i, start) == IF i > Len(s) THEN DotPiece(SubSeq(s, start, Len(s)))
                                 ELSE IF sep(i) > 0
                                   THEN DotPiece(SubSeq(s, start, i - 1)) \/ v[i + sep(i)]
                                   ELSE HasOneAt(s, i, Forbidden) \/ w[start]
           step == [i \in D |-> [v \in V |-> [start \in D |-> at(v, v, i, start)]]]
           body(f) == [i \in D |-> [start \in D |-> at(f[i + sep(i)], f[i + 1], i, start)]]
           bad == CHOOSE g : g = body(g)
<1>1. Len(s) \in Nat
  OBVIOUS
<1>2. \A i \in D : i > Len(s) \/ i \in 1..Len(s)
  BY <1>1
<1>3. ASSUME NEW i \in 1..Len(s)
      PROVE  /\ sep(i) > 0 => i + sep(i) \in D /\ i + sep(i) > i
             /\ i + 1 \in D /\ i + 1 > i
  BY <1>1, SeparatorType
<1>4. next \in [D -> D] /\ rank \in [D -> Nat]
  BY <1>1, <1>2, <1>3
<1>5. step \in [D -> [V -> V]]
  <2> SUFFICES ASSUME NEW i \in D, NEW v \in V, NEW start \in D
               PROVE at(v, v, i, start) \in BOOLEAN
    BY Zenon
  <2>1. DotPiece(SubSeq(s, start, Len(s))) \in BOOLEAN
    BY DEF DotPiece
  <2>2. QED
    BY <2>1, Zenon
<1>6. \E N \in Nat : \A i \in D : rank[i] < N
  <2>1. \A i \in D : rank[i] < Len(s) + 3
    BY <1>1
  <2>2. QED
    BY <1>1, <2>1
<1>7. ASSUME NEW i \in 1..Len(s)
      PROVE  rank[next[i]] < rank[i]
  <2>1. i \in D /\ next[i] = IF sep(i) > 0 THEN i + sep(i) ELSE i + 1
    BY <1>1
  <2>2. QED
    BY <1>1, <1>3, <2>1
<1>8. ASSUME NEW i \in D
      PROVE  rank[next[i]] < rank[i] \/ \A v, w \in V : step[i][v] = step[i][w]
  <2>1. CASE i > Len(s)
    <3>1. ASSUME NEW v \in V PROVE step[i][v] = [start \in D |-> DotPiece(SubSeq(s, start, Len(s)))]
      BY <2>1, Zenon
    <3> HIDE DEF V, step
    <3>2. QED
      BY <3>1, Zenon
  <2>2. QED
    BY <1>2, <1>7, <2>1, Zenon
<1>9. PICK f : f \in [D -> V] /\ \A i \in D : f[i] = step[i][f[next[i]]]
  <2>0. V # {}
    <3>1. [i \in D |-> TRUE] \in V
      BY Zenon
    <3>2. QED
      BY <3>1, Zenon
  <2> HIDE DEF D, V, next, rank, step
  <2>1. Descends(D, V, next, rank, step)
    BY <1>4, <1>5, <1>6, <1>8, <2>0, Zenon DEF Descends
  <2>2. \E f : Solves(D, V, next, step, f)
    BY <2>1, Recursion, Zenon
  <2>3. QED
    BY <2>2, Zenon DEF Solves
<1>10. ASSUME NEW i \in D PROVE f[i] = body(f)[i]
  <2>1. next[i] \in D /\ f[next[i]] \in V
    BY <1>4, <1>9, Zenon
  <2>2. f[i] = [start \in D |-> at(f[next[i]], f[next[i]], i, start)]
    BY <1>9, <2>1, Zenon
  <2>3. ASSUME NEW start \in D
        PROVE  at(f[next[i]], f[next[i]], i, start) = at(f[i + sep(i)], f[i + 1], i, start)
    <3>1. CASE i > Len(s)
      BY <3>1, Zenon
    <3>2. CASE ~(i > Len(s)) /\ sep(i) > 0
      <4>1. next[i] = i + sep(i)
        BY <3>2, Zenon
      <4>2. QED
        BY <3>2, <4>1, Zenon
    <3>3. CASE ~(i > Len(s)) /\ ~(sep(i) > 0)
      <4>1. next[i] = i + 1
        BY <3>3, Zenon
      <4>2. QED
        BY <3>3, <4>1, Zenon
    <3>4. QED
      BY <3>1, <3>2, <3>3
  <2>4. body(f)[i] = [start \in D |-> at(f[i + sep(i)], f[i + 1], i, start)]
    BY Zenon
  <2> HIDE DEF D, V, next, at
  <2>5. QED
    BY <2>2, <2>3, <2>4, Zenon
<1>11. f = body(f)
  <2>1. f = [i \in D |-> f[i]] /\ body(f) = [i \in D |-> body(f)[i]]
    BY <1>9, Zenon
  <2> HIDE DEF D, V, body
  <2>2. QED
    BY <1>10, <2>1, Zenon
<1>12. bad = body(bad)
  <2> HIDE DEF body
  <2>1. QED
    BY <1>11, Zenon
<1>13. BadPath(s) = bad[1][1]
  BY Zenon DEF BadPath
<1> HIDE DEF bad
<1>14. ASSUME NEW i \in D
       PROVE  f[i] = bad[i] \/ (rank[next[i]] < rank[i] /\ (f[next[i]] = bad[next[i]] => f[i] = bad[i]))
  <2>1. /\ f[i] = [start \in D |-> at(f[i + sep(i)], f[i + 1], i, start)]
        /\ bad[i] = [start \in D |-> at(bad[i + sep(i)], bad[i + 1], i, start)]
    <3>1. body(f)[i] = [start \in D |-> at(f[i + sep(i)], f[i + 1], i, start)]
      BY Zenon
    <3>2. body(bad)[i] = [start \in D |-> at(bad[i + sep(i)], bad[i + 1], i, start)]
      BY Zenon
    <3> HIDE DEF body
    <3>3. QED
      BY <1>11, <1>12, <3>1, <3>2, Zenon
  <2>2. CASE i > Len(s)
    <3>1. \A start \in D : at(f[i + sep(i)], f[i + 1], i, start) = at(bad[i + sep(i)], bad[i + 1], i, start)
      BY <2>2, Zenon
    <3> HIDE DEF D, at
    <3>2. QED
      BY <2>1, <3>1, Zenon
  <2>3. CASE ~(i > Len(s))
    <3>1. rank[next[i]] < rank[i]
      BY <1>2, <1>7, <2>3, Zenon
    <3>2. ASSUME f[next[i]] = bad[next[i]] PROVE f[i] = bad[i]
      <4>1. next[i] = IF sep(i) > 0 THEN i + sep(i) ELSE i + 1
        BY <2>3, Zenon
      <4>2. \A start \in D : at(f[i + sep(i)], f[i + 1], i, start) = at(bad[i + sep(i)], bad[i + 1], i, start)
        <5>1. CASE sep(i) > 0
          BY <2>3, <3>2, <4>1, <5>1, Zenon
        <5>2. CASE ~(sep(i) > 0)
          BY <2>3, <3>2, <4>1, <5>2, Zenon
        <5>3. QED
          BY <5>1, <5>2
      <4> HIDE DEF D, at
      <4>3. QED
        BY <2>1, <4>2, Zenon
    <3>3. QED
      BY <3>1, <3>2
  <2>4. QED
    BY <2>2, <2>3
<1>15. \A i \in D : f[i] = bad[i]
  <2> HIDE DEF D, V, next, rank
  <2>1. Agree(D, next, rank, f, bad)
    BY <1>4, <1>14, Zenon DEF Agree
  <2>2. Same(D, f, bad)
    BY <2>1, SameRecursion, Zenon
  <2>3. QED
    BY <2>2, Zenon DEF Same
<1>16. Scans(s, f)
  <2>1. \A i, start \in D : f[i][start] = at(f[i + sep(i)], f[i + 1], i, start)
    BY <1>10, Zenon
  <2>2. \A i, start \in D : ScansAt(s, f, i, start)
    BY <2>1, Zenon DEF ScansAt
  <2>3. QED
    BY <1>9, <2>2, Zenon DEF Scans
<1>17. 1 \in D
  BY <1>1
<1>18. QED
  BY <1>13, <1>15, <1>16, <1>17, Zenon

\* The letters of the words that path.rs looks for.
LEMMA WordLetters == {"0", "c", "u", "U", "E"} \subseteq Chars
<1>1. Digits[1] = "0" /\ Lower[3] = "c" /\ Lower[21] = "u" /\ Upper[21] = "U" /\ Upper[5] = "E"
  BY DEF Digits, Lower, Upper
<1>2. QED
  BY <1>1 DEF Chars

\* The separators and the forbidden escapes are texts.
LEMMA WordsAreText ==
  /\ {<<"/">>, <<"\\">>} \cup EncodedSeparators \subseteq Seq(Chars)
  /\ Forbidden \subseteq Seq(Chars)
<1>1. {"/", "\\", "%", "2", "5", "f", "F", "c", "C", "e", "E", "0", "u", "U"} \subseteq Chars
  BY CharsAre, WordLetters
<1>2. {<<"/">>, <<"\\">>} \cup EncodedSeparators \subseteq Seq(Chars)
  BY <1>1 DEF EncodedSeparators
<1>3. {<<"%", "0", "0">>, <<"%", "u">>, <<"%", "U">>} \subseteq Seq(Chars)
  BY <1>1
<1>4. \A c \in {"e", "E", "f", "F"} : <<"%", "2", "5", "2", c>> \in Seq(Chars)
  BY <1>1
<1>5. \A c \in {"c", "C"} : <<"%", "2", "5", "5", c>> \in Seq(Chars)
  BY <1>1
<1>6. QED
  BY <1>2, <1>3, <1>4, <1>5, Zenon DEF Forbidden

\* What is forbidden begins with a percent sign.
LEMMA ForbiddenEscapes ==
  ASSUME NEW s \in Seq(Chars), NEW i \in 1..Len(s), HasOneAt(s, i, Forbidden)
  PROVE  s[i] = "%"
<1>1. PICK w \in Forbidden : HasAt(s, i, w)
  BY DEF HasOneAt
<1>2. 1 \in DOMAIN w /\ w[1] = "%"
  <2>1. CASE w \in {<<"%", "0", "0">>, <<"%", "u">>, <<"%", "U">>}
    BY <2>1
  <2>2. ASSUME NEW c, w = <<"%", "2", "5", "2", c>> PROVE 1 \in DOMAIN w /\ w[1] = "%"
    BY <2>2
  <2>3. ASSUME NEW c, w = <<"%", "2", "5", "5", c>> PROVE 1 \in DOMAIN w /\ w[1] = "%"
    BY <2>3
  <2>4. QED
    BY <1>1, <2>1, <2>2, <2>3, Zenon DEF Forbidden
<1>3. s[i + 1 - 1] = w[1]
  BY <1>1, <1>2, Zenon DEF HasAt
<1>4. i + 1 - 1 = i
  OBVIOUS
<1>5. QED
  BY <1>2, <1>3, <1>4

\* A word is found at a place whatever comes before.
LEMMA HasAtShift ==
  ASSUME NEW s \in Seq(Chars), NEW t \in Seq(Chars), NEW i \in 1..(Len(t) + 1), NEW w \in Seq(Chars)
  PROVE  HasAt(s \o t, Len(s) + i, w) <=> HasAt(t, i, w)
<1>1. PICK st : st = s \o t
  BY Zenon
<1>2. PICK m \in Nat : m = Len(s)
  OBVIOUS
<1>3. /\ Len(t) \in Nat /\ Len(st) = m + Len(t) /\ \A j \in 1..Len(t) : st[m + j] = t[j]
  BY <1>1, <1>2, Concat
<1>4. Len(w) \in Nat /\ DOMAIN w = 1..Len(w) /\ i \in Nat /\ i > 0
  OBVIOUS
<1>5. m + i + Len(w) - 1 <= Len(st) <=> i + Len(w) - 1 <= Len(t)
  BY <1>3, <1>4
<1>6. ASSUME i + Len(w) - 1 <= Len(t), NEW k \in 1..Len(w)
      PROVE  st[m + i + k - 1] = t[i + k - 1]
  <2>1. i + k - 1 \in 1..Len(t) /\ m + i + k - 1 = m + (i + k - 1)
    BY <1>3, <1>4, <1>6
  <2>2. QED
    BY <1>3, <2>1
<1>7. HasAt(st, m + i, w) <=> HasAt(t, i, w)
  BY <1>4, <1>5, <1>6, Zenon DEF HasAt
<1>8. QED
  BY <1>1, <1>2, <1>7

\* What is found in a text is found in it where it is appended to another.
LEMMA HasOneShift ==
  ASSUME NEW s \in Seq(Chars), NEW t \in Seq(Chars), NEW i \in 1..(Len(t) + 1), NEW words \in SUBSET Seq(Chars)
  PROVE  HasOneAt(s \o t, Len(s) + i, words) <=> HasOneAt(t, i, words)
<1>1. \A w \in words : HasAt(s \o t, Len(s) + i, w) <=> HasAt(t, i, w)
  BY HasAtShift
<1>2. QED
  BY <1>1, Zenon DEF HasOneAt

\* Separators and forbidden escapes are found in a text where it is appended
\* to another.
LEMMA SeparatorShift ==
  ASSUME NEW s \in Seq(Chars), NEW t \in Seq(Chars), NEW i \in 1..Len(t)
  PROVE  /\ SeparatorAt(s \o t, Len(s) + i) = SeparatorAt(t, i)
         /\ HasOneAt(s \o t, Len(s) + i, Forbidden) <=> HasOneAt(t, i, Forbidden)
<1>0. i \in 1..(Len(t) + 1)
  OBVIOUS
<1>1. /\ Forbidden \in SUBSET Seq(Chars) /\ EncodedSeparators \in SUBSET Seq(Chars)
      /\ {<<"/">>, <<"\\">>} \in SUBSET Seq(Chars)
  BY WordsAreText, Zenon
<1>2. /\ HasOneAt(s \o t, Len(s) + i, Forbidden) <=> HasOneAt(t, i, Forbidden)
      /\ HasOneAt(s \o t, Len(s) + i, EncodedSeparators) <=> HasOneAt(t, i, EncodedSeparators)
      /\ HasOneAt(s \o t, Len(s) + i, {<<"/">>, <<"\\">>}) <=> HasOneAt(t, i, {<<"/">>, <<"\\">>})
  BY <1>0, <1>1, HasOneShift, Zenon
<1>3. QED
  BY <1>2, Zenon DEF SeparatorAt

\* A stretch of a text is the same where the text is appended to another.
LEMMA SubSeqShift ==
  ASSUME NEW s \in Seq(Chars), NEW t \in Seq(Chars), NEW e \in 0..Len(t), NEW k \in 1..(e + 1)
  PROVE  SubSeq(s \o t, Len(s) + k, Len(s) + e) = SubSeq(t, k, e)
<1>1. PICK st : st = s \o t
  BY Zenon
<1>2. PICK m \in Nat : m = Len(s)
  OBVIOUS
<1>3. /\ st \in Seq(Chars) /\ Len(t) \in Nat /\ Len(st) = m + Len(t) /\ \A j \in 1..Len(t) : st[m + j] = t[j]
  BY <1>1, <1>2, Concat
<1>4. PICK a, b : a = SubSeq(st, m + k, m + e) /\ b = SubSeq(t, k, e)
  BY Zenon
<1>5. a \in Seq(Chars) /\ Len(a) = e + 1 - k /\ \A i \in 1..(e + 1 - k) : a[i] = st[m + k + i - 1]
  <2>1. PICK f, l \in Nat : f = m + k /\ l = m + e
    OBVIOUS
  <2>2. f \in 1..Len(st) + 1 /\ l \in 0..Len(st) /\ f <= l + 1 /\ l + 1 - f = e + 1 - k
    BY <1>3, <2>1
  <2>3. /\ SubSeq(st, f, l) \in Seq(Chars) /\ Len(SubSeq(st, f, l)) = l + 1 - f
        /\ \A i \in 1..(l + 1 - f) : SubSeq(st, f, l)[i] = st[f + i - 1]
    BY <1>3, <2>2
  <2>4. QED
    BY <1>4, <2>1, <2>2, <2>3
<1>6. b \in Seq(Chars) /\ Len(b) = e + 1 - k /\ \A i \in 1..(e + 1 - k) : b[i] = t[k + i - 1]
  BY <1>3, <1>4
<1>7. ASSUME NEW i \in 1..(e + 1 - k) PROVE a[i] = b[i]
  <2>1. k + i - 1 \in 1..Len(t) /\ m + k + i - 1 = m + (k + i - 1)
    BY <1>3
  <2>2. QED
    BY <1>3, <1>5, <1>6, <2>1, Zenon
<1>8. a = b
  BY <1>5, <1>6, <1>7, SameElements
<1>9. QED
  BY <1>1, <1>2, <1>4, <1>8

\* Every escape of s is a separator.
Esc(s) == \A i \in 1..Len(s) : s[i] = "%" => HasOneAt(s, i, EncodedSeparators)

\* Where the words of path.rs are found, letter by letter.
LEMMA SlashesAt ==
  ASSUME NEW s \in Seq(Chars), NEW i \in 1..Len(s)
  PROVE  HasOneAt(s, i, {<<"/">>, <<"\\">>}) <=> s[i] \in {"/", "\\"}
<1>1. i \in Nat /\ i <= Len(s)
  OBVIOUS
<1>2. QED
  BY <1>1, HasWord1 DEF HasOneAt

\* The encoded separators, character by character.
LEMMA EncodedAt ==
  ASSUME NEW s \in Seq(Chars), NEW i \in 1..Len(s)
  PROVE  HasOneAt(s, i, EncodedSeparators) <=>
           /\ i + 2 <= Len(s) /\ s[i] = "%"
           /\ \/ s[i + 1] = "2" /\ s[i + 2] \in {"f", "F"}
              \/ s[i + 1] = "5" /\ s[i + 2] \in {"c", "C"}
<1>1. i \in Nat
  OBVIOUS
<1>2. QED
  BY <1>1, HasWord3 DEF HasOneAt, EncodedSeparators

\* A separator is found at a place whatever comes after.
LEMMA SeparatorPrefix ==
  ASSUME NEW s \in Seq(Chars), NEW t \in Seq(Chars), Esc(s), NEW i \in 1..Len(s)
  PROVE  /\ SeparatorAt(s \o t, i) = SeparatorAt(s, i)
         /\ SeparatorAt(s, i) = 0 => ~HasOneAt(s \o t, i, Forbidden) /\ ~HasOneAt(s, i, Forbidden)
<1>1. PICK st : st = s \o t
  BY Zenon
<1>2. /\ Len(s) \in Nat /\ st \in Seq(Chars) /\ Len(s) <= Len(st) /\ Len(st) \in Nat
      /\ \A j \in 1..Len(s) : st[j] = s[j]
  BY <1>1, Concat
<1>3. i \in 1..Len(st) /\ st[i] = s[i]
  BY <1>2
<1>4. HasOneAt(st, i, {<<"/">>, <<"\\">>}) <=> HasOneAt(s, i, {<<"/">>, <<"\\">>})
  BY <1>2, <1>3, SlashesAt
<1>5. HasOneAt(st, i, EncodedSeparators) <=> HasOneAt(s, i, EncodedSeparators)
  <2>1. ASSUME HasOneAt(s, i, EncodedSeparators) PROVE HasOneAt(st, i, EncodedSeparators)
    <3>1. /\ i + 2 <= Len(s) /\ s[i] = "%"
          /\ \/ s[i + 1] = "2" /\ s[i + 2] \in {"f", "F"}
             \/ s[i + 1] = "5" /\ s[i + 2] \in {"c", "C"}
      BY <2>1, EncodedAt
    <3>2. i + 2 <= Len(st) /\ st[i + 1] = s[i + 1] /\ st[i + 2] = s[i + 2]
      BY <1>2, <3>1
    <3>3. QED
      BY <1>2, <1>3, <3>1, <3>2, EncodedAt
  <2>2. ASSUME HasOneAt(st, i, EncodedSeparators) PROVE HasOneAt(s, i, EncodedSeparators)
    <3>1. st[i] = "%"
      BY <1>2, <1>3, <2>2, EncodedAt
    <3>2. QED
      BY <1>3, <3>1, Zenon DEF Esc
  <2>3. QED
    BY <2>1, <2>2
<1>6. SeparatorAt(st, i) = SeparatorAt(s, i)
  BY <1>4, <1>5, Zenon DEF SeparatorAt
<1>7. SeparatorAt(s, i) = 0 => s[i] # "%"
  BY SeparatorType DEF Esc
<1>8. SeparatorAt(s, i) = 0 => ~HasOneAt(st, i, Forbidden) /\ ~HasOneAt(s, i, Forbidden)
  BY <1>2, <1>3, <1>7, ForbiddenEscapes
<1>9. QED
  BY <1>1, <1>6, <1>8

\* bad_path looks at what follows a place and at the piece it is in.
LEMMA ScanShift ==
  ASSUME NEW s \in Seq(Chars), NEW t \in Seq(Chars), NEW g, NEW h, Scans(s \o t, g), Scans(t, h)
  PROVE  \A j \in 1..(Len(t) + 1) : \A k \in 1..j : g[Len(s) + j][Len(s) + k] <=> h[j][k]
<1>1. PICK st : st = s \o t
  BY Zenon
<1>2. PICK m \in Nat : m = Len(s)
  OBVIOUS
<1>3. PICK n \in Nat : n = Len(t)
  OBVIOUS
<1>4. st \in Seq(Chars) /\ Len(st) = m + n /\ Scans(st, g)
  BY <1>1, <1>2, <1>3
<1>5. \A e \in 0..n : \A k \in 1..(e + 1) : SubSeq(st, m + k, m + e) = SubSeq(t, k, e)
  BY <1>1, <1>2, <1>3, SubSeqShift, Zenon
<1>6. ASSUME NEW j \in 1..(n + 1), NEW k \in 1..j
      PROVE  ScansAt(st, g, m + j, m + k) /\ ScansAt(t, h, j, k)
  <2>1. j \in 1..(Len(t) + 3) /\ k \in 1..(Len(t) + 3)
    BY <1>3
  <2>2. m + j \in 1..(Len(st) + 3) /\ m + k \in 1..(Len(st) + 3)
    BY <1>4
  <2>3. QED
    BY <1>4, <2>1, <2>2, Zenon DEF Scans
<1> DEFINE P == {j \in 1..(n + 1) : \A k \in 1..j : g[m + j][m + k] <=> h[j][k]}
<1>7. n + 1 \in P
  <2>1. ASSUME NEW k \in 1..(n + 1) PROVE g[m + (n + 1)][m + k] <=> h[n + 1][k]
    <3>1. n + 1 \in 1..(n + 1) /\ n \in 0..n
      OBVIOUS
    <3>2. m + (n + 1) > Len(st) /\ n + 1 > Len(t)
      BY <1>3, <1>4
    <3>3. g[m + (n + 1)][m + k] <=> DotPiece(SubSeq(st, m + k, Len(st)))
      BY <1>6, <3>1, <3>2, Zenon DEF ScansAt
    <3>4. h[n + 1][k] <=> DotPiece(SubSeq(t, k, Len(t)))
      BY <1>6, <3>1, <3>2, Zenon DEF ScansAt
    <3>5. SubSeq(st, m + k, m + n) = SubSeq(t, k, n)
      BY <1>5, <3>1, Zenon
    <3>6. QED
      BY <1>3, <1>4, <3>3, <3>4, <3>5, Zenon
  <2>2. n + 1 \in 1..(n + 1)
    OBVIOUS
  <2>3. QED
    BY <2>1, <2>2, Zenon
<1>8. ASSUME NEW j \in 1..n, \A i \in (j + 1)..(n + 1) : i \in P
      PROVE  j \in P
  <2>1. j \in 1..(n + 1) /\ j \in 1..Len(t) /\ ~(m + j > Len(st)) /\ ~(j > Len(t)) /\ j - 1 \in 0..n
        /\ (j - 1) + 1 = j /\ m + j - 1 = m + (j - 1)
    BY <1>3, <1>4
  <2>2. /\ SeparatorAt(st, m + j) = SeparatorAt(t, j)
        /\ HasOneAt(st, m + j, Forbidden) <=> HasOneAt(t, j, Forbidden)
    BY <1>1, <1>2, <2>1, SeparatorShift, Zenon
  <2>3. PICK sep : sep = SeparatorAt(t, j)
    OBVIOUS
  <2>4. sep \in {0, 1, 3} /\ (sep = 3 => j + 2 <= n)
    BY <1>3, <2>1, <2>3, SeparatorType
  <2>5. ASSUME NEW k \in 1..j PROVE g[m + j][m + k] <=> h[j][k]
    <3>1. CASE sep > 0
      <4>1. j + sep \in (j + 1)..(n + 1) /\ j + sep \in 1..(j + sep) /\ m + j + sep = m + (j + sep)
        BY <2>4, <3>1
      <4>2. g[m + (j + sep)][m + (j + sep)] <=> h[j + sep][j + sep]
        BY <1>8, <4>1, Zenon
      <4>3. g[m + j][m + k] <=> DotPiece(SubSeq(st, m + k, m + (j - 1))) \/ g[m + (j + sep)][m + (j + sep)]
        <5>1. PICK x, y, a, b : x = m + j /\ y = m + k /\ a = m + (j - 1) /\ b = m + (j + sep)
          OBVIOUS
        <5>2. SeparatorAt(st, x) = sep /\ ~(x > Len(st)) /\ ScansAt(st, g, x, y)
          BY <1>6, <2>1, <2>2, <2>3, <5>1, Zenon
        <5>3. a = x - 1 /\ b = x + sep
          BY <2>4, <5>1
        <5>4. g[x][y] <=> DotPiece(SubSeq(st, y, x - 1)) \/ g[x + sep][x + sep]
          BY <3>1, <5>2, ScanSeparator, Zenon
        <5>5. g[x][y] <=> DotPiece(SubSeq(st, y, a)) \/ g[b][b]
          BY <5>3, <5>4, Zenon
        <5>6. QED
          BY <5>1, <5>5, Zenon
      <4>4. h[j][k] <=> (DotPiece(SubSeq(t, k, j - 1)) \/ h[j + sep][j + sep])
        BY <1>6, <2>1, <2>3, <3>1, Zenon DEF ScansAt
      <4>5. SubSeq(st, m + k, m + (j - 1)) = SubSeq(t, k, j - 1)
        BY <1>5, <2>1, Zenon
      <4>6. QED
        BY <2>1, <4>1, <4>2, <4>3, <4>4, <4>5, Zenon
    <3>2. CASE ~(sep > 0)
      <4>1. j + 1 \in (j + 1)..(n + 1) /\ k \in 1..(j + 1) /\ m + j + 1 = m + (j + 1)
        BY <2>1
      <4>2. g[m + (j + 1)][m + k] <=> h[j + 1][k]
        BY <1>8, <4>1, Zenon
      <4>3. g[m + j][m + k] <=> (HasOneAt(st, m + j, Forbidden) \/ g[m + j + 1][m + k])
        BY <1>6, <2>1, <2>2, <2>3, <3>2, Zenon DEF ScansAt
      <4>4. h[j][k] <=> (HasOneAt(t, j, Forbidden) \/ h[j + 1][k])
        BY <1>6, <2>1, <2>3, <3>2, Zenon DEF ScansAt
      <4>5. QED
        BY <2>2, <4>1, <4>2, <4>3, <4>4, Zenon
    <3>3. QED
      BY <3>1, <3>2
  <2>6. QED
    BY <2>1, <2>5, Zenon
<1>9. \A j \in 1..(n + 1) : j \in P
  <2> HIDE DEF P
  <2>1. QED
    BY <1>7, <1>8, DownInduction, Zenon
<1>10. QED
  BY <1>2, <1>3, <1>9, Zenon

\* Up to a separator, bad_path looks at what is before it only.
LEMMA ScanPrefix ==
  ASSUME NEW s \in Seq(Chars), NEW t \in Seq(Chars), NEW f, NEW g, NEW sep,
         Scans(s, f), Scans(s \o t, g), Esc(s),
         t # <<>>, sep = SeparatorAt(t, 1), sep > 0
  PROVE  g[1][1] <=> f[1][1] \/ g[Len(s) + 1 + sep][Len(s) + 1 + sep]
<1>1. PICK st : st = s \o t
  BY Zenon
<1>2. PICK m \in Nat : m = Len(s)
  OBVIOUS
<1>3. /\ st \in Seq(Chars) /\ Len(st) = m + Len(t) /\ Scans(st, g) /\ Len(t) \in Nat /\ 1 \in 1..Len(t)
      /\ \A i \in 1..m : st[i] = s[i]
  BY <1>1, <1>2, Concat
<1>4. SeparatorAt(st, m + 1) = sep
  BY <1>1, <1>2, <1>3, SeparatorShift, Zenon
<1>5. PICK tail : tail = g[m + 1 + sep][m + 1 + sep]
  OBVIOUS
<1>6. ASSUME NEW i \in 1..(m + 1), NEW start \in 1..i
      PROVE  ScansAt(st, g, i, start) /\ ScansAt(s, f, i, start)
  <2>1. i \in 1..(Len(s) + 3) /\ start \in 1..(Len(s) + 3)
    BY <1>2
  <2>2. i \in 1..(Len(st) + 3) /\ start \in 1..(Len(st) + 3)
    BY <1>3
  <2>3. QED
    BY <1>3, <2>1, <2>2, Zenon DEF Scans
<1>7. ASSUME NEW e \in 0..m, NEW k \in 1..(e + 1)
      PROVE  SubSeq(st, k, e) = SubSeq(s, k, e)
  <2>1. PICK a, b : a = SubSeq(st, k, e) /\ b = SubSeq(s, k, e)
    BY Zenon
  <2>2. a \in Seq(Chars) /\ Len(a) = e + 1 - k /\ \A i \in 1..(e + 1 - k) : a[i] = st[k + i - 1]
    BY <1>3, <2>1
  <2>3. b \in Seq(Chars) /\ Len(b) = e + 1 - k /\ \A i \in 1..(e + 1 - k) : b[i] = s[k + i - 1]
    BY <1>2, <2>1
  <2>4. \A i \in 1..(e + 1 - k) : a[i] = b[i]
    BY <1>3, <2>2, <2>3
  <2>5. a = b
    BY <2>2, <2>3, <2>4, SameElements, Zenon
  <2>6. QED
    BY <2>1, <2>5
<1> DEFINE P == {i \in 1..(m + 1) : \A start \in 1..i : g[i][start] <=> f[i][start] \/ tail}
<1>8. m + 1 \in P
  <2>1. m + 1 \in 1..(m + 1) /\ ~(m + 1 > Len(st)) /\ m + 1 > Len(s) /\ m \in 0..m /\ m + 1 - 1 = m
    BY <1>2, <1>3
  <2>2. ASSUME NEW start \in 1..(m + 1) PROVE g[m + 1][start] <=> f[m + 1][start] \/ tail
    <3>1. g[m + 1][start] <=> DotPiece(SubSeq(st, start, m)) \/ tail
      <4>1. PICK x, y : x = m + 1 /\ y = m + 1 + sep
        OBVIOUS
      <4>2. SeparatorAt(st, x) = sep /\ ~(x > Len(st)) /\ ScansAt(st, g, x, start) /\ m = x - 1 /\ y = x + sep
        <5>1. m = x - 1 /\ y = x + sep
          BY <4>1
        <5>2. QED
          BY <1>4, <1>6, <2>1, <4>1, <5>1, Zenon
      <4>3. g[x][start] <=> DotPiece(SubSeq(st, start, x - 1)) \/ g[x + sep][x + sep]
        BY <4>2, ScanSeparator, Zenon
      <4>4. g[x][start] <=> DotPiece(SubSeq(st, start, m)) \/ g[y][y]
        BY <4>2, <4>3, Zenon
      <4>5. QED
        BY <1>5, <4>1, <4>4, Zenon
    <3>2. f[m + 1][start] <=> DotPiece(SubSeq(s, start, Len(s)))
      BY <1>6, <2>1, ScanEnd, Zenon
    <3>3. SubSeq(st, start, m) = SubSeq(s, start, Len(s))
      BY <1>2, <1>7, <2>1, Zenon
    <3>4. QED
      BY <1>5, <3>1, <3>2, <3>3, Zenon
  <2>3. QED
    BY <2>1, <2>2, Zenon
<1>9. ASSUME NEW i \in 1..m, \A j \in (i + 1)..(m + 1) : j \in P
      PROVE  i \in P
  <2>1. /\ i \in 1..(m + 1) /\ i \in 1..Len(s) /\ ~(i > Len(st)) /\ ~(i > Len(s))
        /\ i - 1 \in 0..m /\ (i - 1) + 1 = i
    BY <1>2, <1>3
  <2>2. PICK n : n = SeparatorAt(s, i)
    OBVIOUS
  <2>3. n \in {0, 1, 3} /\ (n = 3 => i + 2 <= m)
    BY <1>2, <2>1, <2>2, SeparatorType
  <2>4. SeparatorAt(st, i) = n /\ (n = 0 => ~HasOneAt(st, i, Forbidden) /\ ~HasOneAt(s, i, Forbidden))
    BY <1>1, <2>1, <2>2, SeparatorPrefix, Zenon
  <2>5. ASSUME NEW start \in 1..i PROVE g[i][start] <=> f[i][start] \/ tail
    <3>1. CASE n > 0
      <4>1. i + n \in (i + 1)..(m + 1) /\ i + n \in 1..(i + n)
        BY <2>3, <3>1
      <4>2. g[i + n][i + n] <=> f[i + n][i + n] \/ tail
        BY <1>9, <4>1, Zenon
      <4>3. g[i][start] <=> DotPiece(SubSeq(st, start, i - 1)) \/ g[i + n][i + n]
        BY <1>6, <2>1, <2>4, <3>1, ScanSeparator, Zenon
      <4>4. f[i][start] <=> DotPiece(SubSeq(s, start, i - 1)) \/ f[i + n][i + n]
        BY <1>6, <2>1, <2>2, <3>1, ScanSeparator, Zenon
      <4>5. SubSeq(st, start, i - 1) = SubSeq(s, start, i - 1)
        BY <1>7, <2>1, Zenon
      <4>6. QED
        BY <4>2, <4>3, <4>4, <4>5, Zenon
    <3>2. CASE ~(n > 0)
      <4>1. i + 1 \in (i + 1)..(m + 1) /\ start \in 1..(i + 1) /\ n = 0
        BY <2>3, <3>2
      <4>2. g[i + 1][start] <=> f[i + 1][start] \/ tail
        BY <1>9, <4>1, Zenon
      <4>3. g[i][start] <=> HasOneAt(st, i, Forbidden) \/ g[i + 1][start]
        BY <1>6, <2>1, <2>4, <3>2, ScanPlain, Zenon
      <4>4. f[i][start] <=> HasOneAt(s, i, Forbidden) \/ f[i + 1][start]
        BY <1>6, <2>1, <2>2, <3>2, ScanPlain, Zenon
      <4>5. QED
        BY <2>4, <4>1, <4>2, <4>3, <4>4, Zenon
    <3>3. QED
      BY <3>1, <3>2
  <2>6. QED
    BY <2>1, <2>5, Zenon
<1>10. \A i \in 1..(m + 1) : i \in P
  <2> HIDE DEF P
  <2>1. QED
    BY <1>8, <1>9, DownInduction, Zenon
<1>11. 1 \in 1..(m + 1) /\ 1 \in 1..1
  OBVIOUS
<1>12. g[1][1] <=> f[1][1] \/ tail
  BY <1>10, <1>11, Zenon
<1>13. QED
  BY <1>2, <1>5, <1>12, Zenon

\* A dot is one character or an escape.
LEMMA DotsAre ==
  \A d \in Dots : d \in Seq(Chars) /\ Len(d) \in {1, 3} /\ Len(d) \in Nat /\ Len(d) > 0
<1>1. {".", "%", "2", "e", "E"} \subseteq Chars
  BY CharsAre, WordLetters
<1>2. <<".">> \in Seq(Chars) /\ <<"%", "2", "e">> \in Seq(Chars) /\ <<"%", "2", "E">> \in Seq(Chars)
  BY <1>1
<1>3. Len(<<".">>) = 1 /\ Len(<<"%", "2", "e">>) = 3 /\ Len(<<"%", "2", "E">>) = 3
  OBVIOUS
<1>4. \A d \in Dots : d \in Seq(Chars) /\ Len(d) \in {1, 3}
  BY <1>2, <1>3, Zenon DEF Dots
<1>5. \A n \in {1, 3} : n \in Nat /\ n > 0
  OBVIOUS
<1>6. QED
  BY <1>4, <1>5, Zenon

\* Nothing is no dot segment.
LEMMA DotPieceEmpty == ~DotPiece(<<>>)
<1>1. \A d \in Dots : Len(d) \in Nat /\ Len(d) > 0 /\ d \in Seq(Chars)
  BY DotsAre
<1>2. <<>> \notin Dots
  BY <1>1
<1>3. \A a, b \in Dots : a \o b # <<>>
  <2> TAKE a, b \in Dots
  <2>1. Len(a \o b) = Len(a) + Len(b)
    BY <1>1
  <2>2. QED
    BY <1>1, <2>1
<1>4. \A n \in 0..Len(<<>>) : SubSeq(<<>>, 1, n) = <<>>
  OBVIOUS
<1>5. QED
  BY <1>2, <1>3, <1>4, Zenon DEF DotPiece

\* A path is bad when it is bad before a separator or from it on.
LEMMA BadPathSplit ==
  ASSUME NEW s \in Seq(Chars), NEW t \in Seq(Chars), Esc(s), t # <<>>, SeparatorAt(t, 1) > 0
  PROVE  BadPath(s \o t) <=> BadPath(s) \/ BadPath(t)
<1>1. PICK st : st = s \o t
  BY Zenon
<1>2. st \in Seq(Chars) /\ Len(t) \in Nat /\ 1 \in 1..Len(t) /\ Len(s) \in Nat
  BY <1>1
<1>3. PICK f : Scans(s, f) /\ BadPath(s) = f[1][1]
  BY BadPathIs
<1>4. PICK g : Scans(st, g) /\ BadPath(st) = g[1][1]
  BY <1>2, BadPathIs, Zenon
<1>5. PICK h : Scans(t, h) /\ BadPath(t) = h[1][1]
  BY BadPathIs
<1>6. PICK sep : sep = SeparatorAt(t, 1)
  OBVIOUS
<1>7. sep \in {1, 3} /\ sep > 0 /\ 1 + sep \in 1..(Len(t) + 1)
  BY <1>2, <1>6, SeparatorType
<1>8. Scans(s \o t, g)
  BY <1>1, <1>4
<1>9. g[1][1] <=> f[1][1] \/ g[Len(s) + 1 + sep][Len(s) + 1 + sep]
  BY <1>3, <1>6, <1>7, <1>8, ScanPrefix, Zenon
<1>10. g[Len(s) + 1 + sep][Len(s) + 1 + sep] <=> h[1 + sep][1 + sep]
  <2>1. 1 + sep \in 1..(1 + sep) /\ Len(s) + 1 + sep = Len(s) + (1 + sep)
    BY <1>2, <1>7
  <2>2. g[Len(s) + (1 + sep)][Len(s) + (1 + sep)] <=> h[1 + sep][1 + sep]
    <3>1. \A j \in 1..(Len(t) + 1) : \A k \in 1..j : g[Len(s) + j][Len(s) + k] <=> h[j][k]
      BY <1>5, <1>8, ScanShift, Zenon
    <3>2. QED
      BY <1>7, <2>1, <3>1, Zenon
  <2>3. QED
    BY <2>1, <2>2, Zenon
<1>11. h[1][1] <=> h[1 + sep][1 + sep]
  <2>1. 1 \in 1..(Len(t) + 3) /\ ~(1 > Len(t))
    BY <1>2
  <2>2. ScansAt(t, h, 1, 1)
    BY <1>5, <2>1, Zenon DEF Scans
  <2>3. h[1][1] <=> DotPiece(SubSeq(t, 1, 1 - 1)) \/ h[1 + sep][1 + sep]
    BY <1>6, <1>7, <2>1, <2>2, ScanSeparator, Zenon
  <2>4. SubSeq(t, 1, 1 - 1) = <<>>
    OBVIOUS
  <2>5. QED
    BY <2>3, <2>4, DotPieceEmpty, Zenon
<1>12. QED
  BY <1>1, <1>3, <1>4, <1>5, <1>9, <1>10, <1>11, Zenon

\* A piece: no separator and no escape.
Piece(l) == \A i \in 1..Len(l) : l[i] \notin {"/", "\\", "%"}

\* bad_path finds nothing inside a piece.
LEMMA PiecePlain ==
  ASSUME NEW l \in Seq(Chars), Piece(l), NEW i \in 1..Len(l)
  PROVE  SeparatorAt(l, i) = 0 /\ ~HasOneAt(l, i, Forbidden)
<1>1. l[i] # "/" /\ l[i] # "\\" /\ l[i] # "%"
  BY DEF Piece
<1>2. ~HasOneAt(l, i, {<<"/">>, <<"\\">>}) /\ ~HasOneAt(l, i, EncodedSeparators)
  BY <1>1, SlashesAt, EncodedAt
<1>3. QED
  BY <1>1, <1>2, SeparatorType, ForbiddenEscapes

\* A path of one piece is bad exactly if the piece is a dot piece.
LEMMA BadPathPiece ==
  ASSUME NEW l \in Seq(Chars), Piece(l)
  PROVE  BadPath(l) <=> DotPiece(l)
<1>1. PICK h : Scans(l, h) /\ BadPath(l) = h[1][1]
  BY BadPathIs
<1>2. PICK n \in Nat : n = Len(l)
  OBVIOUS
<1> DEFINE P == {i \in 1..(n + 1) : h[i][1] <=> DotPiece(l)}
<1>3. ASSUME NEW i \in 1..(n + 1) PROVE ScansAt(l, h, i, 1)
  <2>1. i \in 1..(Len(l) + 3) /\ 1 \in 1..(Len(l) + 3)
    BY <1>2
  <2>2. QED
    BY <1>1, <2>1, Zenon DEF Scans
<1>4. n + 1 \in P
  <2>1. n + 1 \in 1..(n + 1) /\ n + 1 > Len(l)
    BY <1>2
  <2>2. h[n + 1][1] <=> DotPiece(SubSeq(l, 1, Len(l)))
    BY <1>3, <2>1, ScanEnd, Zenon
  <2>3. SubSeq(l, 1, Len(l)) = l
    OBVIOUS
  <2>4. QED
    BY <2>1, <2>2, <2>3, Zenon
<1>5. ASSUME NEW i \in 1..n, \A j \in (i + 1)..(n + 1) : j \in P
      PROVE  i \in P
  <2>1. i \in 1..Len(l) /\ ~(i > Len(l)) /\ i \in 1..(n + 1) /\ i + 1 \in (i + 1)..(n + 1) /\ ~(0 > 0)
    BY <1>2
  <2>2. SeparatorAt(l, i) = 0 /\ ~HasOneAt(l, i, Forbidden)
    BY <2>1, PiecePlain
  <2>3. h[i][1] <=> HasOneAt(l, i, Forbidden) \/ h[i + 1][1]
    BY <1>3, <2>1, <2>2, ScanPlain, Zenon
  <2>4. QED
    BY <1>5, <2>1, <2>2, <2>3, Zenon
<1>6. \A i \in 1..(n + 1) : i \in P
  <2> HIDE DEF P
  <2>1. QED
    BY <1>4, <1>5, DownInduction, Zenon
<1>7. 1 \in 1..(n + 1)
  OBVIOUS
<1>8. QED
  BY <1>1, <1>6, <1>7, Zenon

Seps == {<<"/">>, <<"\\">>} \cup EncodedSeparators

\* A separator in front of a text is found there.
LEMMA SepsAre ==
  ASSUME NEW sep \in Seps, NEW l \in Seq(Chars)
  PROVE  /\ sep \in Seq(Chars) /\ sep # <<>> /\ Len(sep) \in {1, 3} /\ sep \o l \in Seq(Chars)
         /\ sep \o l # <<>>
         /\ SeparatorAt(sep \o l, 1) = Len(sep) /\ Esc(sep)
<1>1. sep \in Seq(Chars)
  BY WordsAreText, Zenon DEF Seps
<1>2. PICK st : st = sep \o l
  BY Zenon
<1>3. /\ Len(sep) \in Nat /\ st \in Seq(Chars) /\ Len(st) = Len(sep) + Len(l) /\ Len(l) \in Nat
      /\ \A i \in 1..Len(sep) : st[i] = sep[i]
  BY <1>1, <1>2, Concat
<1>4. CASE sep = <<"/">> \/ sep = <<"\\">>
  <2>1. Len(sep) = 1 /\ sep[1] \in {"/", "\\"} /\ sep # <<>>
    BY <1>4
  <2>2. st[1] = sep[1] /\ 1 \in 1..Len(st) /\ st # <<>>
    BY <1>3, <2>1
  <2>3. HasOneAt(st, 1, {<<"/">>, <<"\\">>})
    BY <1>3, <2>1, <2>2, SlashesAt
  <2>4. ~HasOneAt(st, 1, EncodedSeparators)
    BY <1>3, <2>1, <2>2, EncodedAt
  <2>5. SeparatorAt(st, 1) = 1
    BY <2>3, <2>4 DEF SeparatorAt
  <2>6. Esc(sep)
    BY <2>1 DEF Esc
  <2>7. QED
    BY <1>1, <1>2, <1>3, <2>1, <2>2, <2>5, <2>6
<1>5. CASE sep \in EncodedSeparators
  <2>1. /\ Len(sep) = 3 /\ sep # <<>> /\ sep[1] = "%"
        /\ \/ sep[2] = "2" /\ sep[3] \in {"f", "F"}
           \/ sep[2] = "5" /\ sep[3] \in {"c", "C"}
    BY <1>5 DEF EncodedSeparators
  <2>2. /\ st[1] = sep[1] /\ st[2] = sep[2] /\ st[3] = sep[3]
        /\ 1 \in 1..Len(st) /\ 1 + 2 <= Len(st) /\ 1 + 1 = 2 /\ 1 + 2 = 3 /\ st # <<>>
    BY <1>3, <2>1
  <2>3. HasOneAt(st, 1, EncodedSeparators)
    BY <1>3, <2>1, <2>2, EncodedAt
  <2>4. ~HasOneAt(st, 1, {<<"/">>, <<"\\">>})
    BY <1>3, <2>1, <2>2, SlashesAt
  <2>5. SeparatorAt(st, 1) = 3
    BY <2>3, <2>4 DEF SeparatorAt
  <2>6. Esc(sep)
    <3>1. ASSUME NEW i \in 1..Len(sep), sep[i] = "%" PROVE i = 1
      BY <2>1, <3>1
    <3>2. 1 \in 1..Len(sep) /\ 1 + 2 <= Len(sep) /\ 1 + 1 = 2 /\ 1 + 2 = 3
      BY <2>1
    <3>3. HasOneAt(sep, 1, EncodedSeparators)
      BY <1>1, <2>1, <3>2, EncodedAt
    <3>4. QED
      BY <3>1, <3>3 DEF Esc
  <2>7. QED
    BY <1>1, <1>2, <1>3, <2>1, <2>2, <2>5, <2>6
<1>6. QED
  BY <1>4, <1>5 DEF Seps

\* The empty path is not bad.
LEMMA EmptyNotBad == ~BadPath(<<>>)
<1>1. <<>> \in Seq(Chars) /\ Piece(<<>>)
  BY DEF Piece
<1>2. QED
  BY <1>1, BadPathPiece, DotPieceEmpty, Zenon

\* A separator in front changes nothing, ...
LEMMA BadPathAfterSep ==
  ASSUME NEW sep \in Seps, NEW l \in Seq(Chars)
  PROVE  BadPath(sep \o l) <=> BadPath(l)
<1>1. PICK st, n : st = sep \o l /\ n = Len(sep)
  BY Zenon
<1>2. sep \in Seq(Chars) /\ n \in {1, 3} /\ st \in Seq(Chars) /\ st # <<>> /\ SeparatorAt(st, 1) = n
  BY <1>1, SepsAre, Zenon
<1>3. PICK g : Scans(st, g) /\ BadPath(st) = g[1][1]
  BY <1>2, BadPathIs, Zenon
<1>4. PICK h : Scans(l, h) /\ BadPath(l) = h[1][1]
  BY BadPathIs
<1>5. g[1][1] <=> g[1 + n][1 + n]
  <2>1. 1 \in 1..(Len(st) + 3) /\ ~(1 > Len(st)) /\ n > 0
    BY <1>2
  <2>2. ScansAt(st, g, 1, 1)
    BY <1>3, <2>1, Zenon DEF Scans
  <2>3. g[1][1] <=> DotPiece(SubSeq(st, 1, 1 - 1)) \/ g[1 + n][1 + n]
    BY <1>2, <2>1, <2>2, ScanSeparator, Zenon
  <2>4. SubSeq(st, 1, 1 - 1) = <<>>
    BY <1>2
  <2>5. QED
    BY <2>3, <2>4, DotPieceEmpty, Zenon
<1>6. g[n + 1][n + 1] <=> h[1][1]
  <2>1. Scans(sep \o l, g)
    BY <1>1, <1>3
  <2>2. \A j \in 1..(Len(l) + 1) : \A k \in 1..j : g[Len(sep) + j][Len(sep) + k] <=> h[j][k]
    BY <1>2, <1>4, <2>1, ScanShift, Zenon
  <2>3. 1 \in 1..(Len(l) + 1) /\ 1 \in 1..1
    OBVIOUS
  <2>4. QED
    BY <1>1, <2>2, <2>3, Zenon
<1>7. n + 1 = 1 + n
  BY <1>2
<1>8. QED
  BY <1>1, <1>3, <1>4, <1>5, <1>6, <1>7, Zenon

\* ... nor does one at the end, ...
LEMMA BadPathBeforeSep ==
  ASSUME NEW s \in Seq(Chars), Esc(s), NEW sep \in Seps
  PROVE  BadPath(s \o sep) <=> BadPath(s)
<1>1. <<>> \in Seq(Chars)
  OBVIOUS
<1>2. sep \in Seq(Chars) /\ sep # <<>> /\ Len(sep) \in {1, 3} /\ SeparatorAt(sep \o <<>>, 1) = Len(sep)
  BY <1>1, SepsAre, Zenon
<1>3. sep \o <<>> = sep
  BY <1>2
<1>4. SeparatorAt(sep, 1) > 0
  BY <1>2, <1>3
<1>5. ~BadPath(sep)
  BY <1>1, <1>3, BadPathAfterSep, EmptyNotBad, Zenon
<1>6. QED
  BY <1>2, <1>4, <1>5, BadPathSplit, Zenon

\* ... and the last piece counts on its own.
LEMMA BadPathLast ==
  ASSUME NEW s \in Seq(Chars), Esc(s), NEW sep \in Seps, NEW l \in Seq(Chars), Piece(l)
  PROVE  BadPath((s \o sep) \o l) <=> BadPath(s \o sep) \/ DotPiece(l)
<1>1. sep \in Seq(Chars) /\ Len(sep) \in {1, 3} /\ sep \o l \in Seq(Chars) /\ sep \o l # <<>>
      /\ SeparatorAt(sep \o l, 1) = Len(sep)
  BY SepsAre, Zenon
<1>2. (s \o sep) \o l = s \o (sep \o l)
  BY <1>1
<1>3. SeparatorAt(sep \o l, 1) > 0
  BY <1>1
<1>4. BadPath(s \o (sep \o l)) <=> BadPath(s) \/ BadPath(sep \o l)
  BY <1>1, <1>3, BadPathSplit, Zenon
<1>5. BadPath(sep \o l) <=> DotPiece(l)
  BY BadPathAfterSep, BadPathPiece, Zenon
<1>6. BadPath(s \o sep) <=> BadPath(s)
  BY BadPathBeforeSep, Zenon
<1>7. QED
  BY <1>2, <1>4, <1>5, <1>6, Zenon

-----------------------------------------------------------------------------
(* Paths piece by piece *)

\* Texts whose only escapes are separators make one when joined.
LEMMA EscAppend ==
  ASSUME NEW s \in Seq(Chars), NEW t \in Seq(Chars), Esc(s), Esc(t)
  PROVE  Esc(s \o t)
<1>1. PICK st : st = s \o t
  BY Zenon
<1>2. /\ Len(s) \in Nat /\ Len(t) \in Nat /\ st \in Seq(Chars) /\ Len(st) = Len(s) + Len(t)
      /\ \A j \in 1..Len(s) : st[j] = s[j]
      /\ \A j \in 1..Len(t) : st[Len(s) + j] = t[j]
  BY <1>1, Concat
<1>3. ASSUME NEW i \in 1..Len(st), st[i] = "%"
      PROVE  HasOneAt(st, i, EncodedSeparators)
  <2>1. CASE i \in 1..Len(s)
    <3>1. HasOneAt(s, i, EncodedSeparators)
      BY <1>2, <1>3, <2>1 DEF Esc
    <3>2. SeparatorAt(s, i) # 0
      BY <2>1, <3>1, SeparatorType
    <3>3. SeparatorAt(st, i) = SeparatorAt(s, i)
      BY <1>1, <2>1, SeparatorPrefix, Zenon
    <3>4. ~HasOneAt(st, i, {<<"/">>, <<"\\">>})
      BY <1>2, <1>3, SlashesAt, Zenon
    <3>5. QED
      BY <1>2, <3>2, <3>3, <3>4, SeparatorType
  <2>2. CASE i \notin 1..Len(s)
    <3>1. PICK j \in 1..Len(t) : i = Len(s) + j
      <4>1. i - Len(s) \in 1..Len(t) /\ i = Len(s) + (i - Len(s))
        BY <1>2, <2>2
      <4>2. QED
        BY <4>1, Zenon
    <3>2. HasOneAt(t, j, EncodedSeparators)
      BY <1>2, <1>3, <3>1 DEF Esc
    <3>3. EncodedSeparators \in SUBSET Seq(Chars) /\ j \in 1..(Len(t) + 1)
      <4>1. EncodedSeparators \in SUBSET Seq(Chars)
        BY WordsAreText, Zenon
      <4>2. j \in 1..(Len(t) + 1)
        BY <1>2
      <4>3. QED
        BY <4>1, <4>2
    <3>4. QED
      BY <1>1, <3>1, <3>2, <3>3, HasOneShift, Zenon
  <2>3. QED
    BY <2>1, <2>2
<1>4. QED
  BY <1>1, <1>3 DEF Esc

\* A piece has no escape at all.
LEMMA EscPiece ==
  ASSUME NEW l \in Seq(Chars), Piece(l)
  PROVE  Esc(l)
BY DEF Esc, Piece

\* s is t, which ends with the separator sep, and a last piece l.
Parsed(s, t, l, sep) ==
  /\ l \in Seq(Chars) /\ Piece(l) /\ sep \in Seps
  /\ s = t \o l
  /\ \E t0 \in Seq(Chars) : Esc(t0) /\ t = t0 \o sep

\* The parts of a parsed path are texts, and it is bad exactly if what
\* precedes its last piece is, or that piece is a dot piece.
LEMMA ParsedType ==
  ASSUME NEW s, NEW t, NEW l, NEW sep, Parsed(s, t, l, sep)
  PROVE  /\ s \in Seq(Chars) /\ t \in Seq(Chars) /\ l \in Seq(Chars) /\ sep \in Seq(Chars)
         /\ Esc(s) /\ Esc(t) /\ t # <<>> /\ s # <<>>
         /\ BadPath(s) <=> BadPath(t) \/ DotPiece(l)
<1>1. PICK t0 \in Seq(Chars) : Esc(t0) /\ t = t0 \o sep
  BY Zenon DEF Parsed
<1>2. l \in Seq(Chars) /\ Piece(l) /\ sep \in Seps /\ s = t \o l
  BY DEF Parsed
<1>3. sep \in Seq(Chars) /\ sep # <<>> /\ Esc(sep)
  BY <1>2, SepsAre, Zenon
<1>4. t \in Seq(Chars) /\ t # <<>>
  BY <1>1, <1>3
<1>5. Esc(t)
  BY <1>1, <1>3, EscAppend
<1>6. Esc(l)
  BY <1>2, EscPiece
<1>7. s \in Seq(Chars) /\ s # <<>>
  BY <1>2, <1>4
<1>8. Esc(s)
  BY <1>2, <1>4, <1>5, <1>6, EscAppend
<1>9. BadPath(s) <=> BadPath(t) \/ DotPiece(l)
  BY <1>1, <1>2, BadPathLast, Zenon
<1>10. QED
  BY <1>2, <1>3, <1>4, <1>5, <1>7, <1>8, <1>9

\* One more letter.
LEMMA ParsedLetter ==
  ASSUME NEW s, NEW t, NEW l, NEW sep, Parsed(s, t, l, sep), NEW c \in Chars, c \notin {"/", "\\", "%"}
  PROVE  Parsed(s \o <<c>>, t, l \o <<c>>, sep)
<1>1. l \in Seq(Chars) /\ Piece(l) /\ s = t \o l
  BY DEF Parsed
<1>2. t \in Seq(Chars) /\ <<c>> \in Seq(Chars)
  BY ParsedType
<1>3. s \o <<c>> = t \o (l \o <<c>>)
  BY <1>1, <1>2
<1>4. l \o <<c>> \in Seq(Chars) /\ Piece(l \o <<c>>)
  BY <1>1, <1>2 DEF Piece
<1>5. QED
  BY <1>3, <1>4, Zenon DEF Parsed

\* One more separator.
LEMMA ParsedSep ==
  ASSUME NEW s, NEW t, NEW l, NEW sep, Parsed(s, t, l, sep), NEW sep2 \in Seps
  PROVE  /\ Parsed(s \o sep2, s \o sep2, <<>>, sep2)
         /\ BadPath(s \o sep2) <=> BadPath(s)
<1>1. s \in Seq(Chars) /\ Esc(s)
  BY ParsedType
<1>2. sep2 \in Seq(Chars)
  BY <1>1, SepsAre, Zenon
<1>3. s \o sep2 = (s \o sep2) \o <<>> /\ <<>> \in Seq(Chars) /\ Piece(<<>>)
  BY <1>1, <1>2 DEF Piece
<1>4. Parsed(s \o sep2, s \o sep2, <<>>, sep2)
  BY <1>1, <1>3, Zenon DEF Parsed
<1>5. QED
  BY <1>1, <1>4, BadPathBeforeSep, Zenon

\* Only the slash ends with a slash, of the separators.
LEMMA SepEnds ==
  ASSUME NEW sep \in Seps
  PROVE  EndsWith(sep, "/") <=> sep = <<"/">>
<1>1. CASE sep = <<"/">>
  BY <1>1 DEF EndsWith
<1>2. CASE sep = <<"\\">>
  BY <1>2 DEF EndsWith
<1>3. ASSUME NEW a, NEW b, NEW c, sep = <<a, b, c>>, c # "/"
      PROVE  EndsWith(sep, "/") <=> sep = <<"/">>
  <2>1. Len(sep) = 3 /\ sep[3] = c /\ Len(<<"/">>) = 1
    BY <1>3
  <2>2. QED
    BY <1>3, <2>1 DEF EndsWith
<1>4. CASE sep \in EncodedSeparators
  BY <1>3, <1>4, Zenon DEF EncodedSeparators
<1>5. QED
  BY <1>1, <1>2, <1>4 DEF Seps

\* How a path ends.
LEMMA ParsedEnds ==
  ASSUME NEW s, NEW t, NEW l, NEW sep, Parsed(s, t, l, sep)
  PROVE  /\ EndsWith(s, "/") <=> l = <<>> /\ sep = <<"/">>
         /\ l = <<>> => s = t
<1>1. PICK t0 \in Seq(Chars) : Esc(t0) /\ t = t0 \o sep
  BY Zenon DEF Parsed
<1>2. /\ s \in Seq(Chars) /\ t \in Seq(Chars) /\ l \in Seq(Chars) /\ sep \in Seq(Chars)
      /\ sep \in Seps /\ s = t \o l /\ Piece(l)
  BY ParsedType, Zenon DEF Parsed
<1>3. CASE l = <<>>
  <2>1. s = t /\ s = t0 \o sep
    BY <1>1, <1>2, <1>3
  <2>2. sep # <<>>
    BY <1>2, SepsAre, Zenon
  <2>3. EndsWith(s, "/") <=> EndsWith(sep, "/")
    <3>1. EndsWith(t0 \o sep, "/") <=> EndsWith(sep, "/")
      BY <1>2, <2>2, EndsAppend, Zenon
    <3>2. QED
      BY <2>1, <3>1
  <2>4. EndsWith(sep, "/") <=> sep = <<"/">>
    BY <1>2, SepEnds
  <2>5. QED
    BY <1>3, <2>1, <2>3, <2>4
<1>4. CASE l # <<>>
  <2>1. EndsWith(s, "/") <=> EndsWith(l, "/")
    BY <1>2, <1>4, EndsAppend, Zenon
  <2>2. ~EndsWith(l, "/")
    BY <1>2, <1>4 DEF EndsWith, Piece
  <2>3. QED
    BY <1>4, <2>1, <2>2
<1>5. QED
  BY <1>3, <1>4

\* A dot segment is one with its parameters, too.
LEMMA DotPieceParams ==
  ASSUME NEW l \in Seq(Chars), NEW x \in Seq(Chars), DotPiece(l)
  PROVE  DotPiece((l \o <<Semicolon>>) \o x)
<1>1. <<Semicolon>> \in Seq(Chars)
  BY CharsAre
<1>2. PICK lx : lx = (l \o <<Semicolon>>) \o x
  BY Zenon
<1>3. /\ Len(l) \in Nat /\ Len(lx) \in Nat /\ Len(l) < Len(lx) /\ lx \in Seq(Chars)
      /\ lx[Len(l) + 1] = Semicolon /\ \A i \in 1..Len(l) : lx[i] = l[i]
  <2>1. PICK ls : ls = l \o <<Semicolon>>
    BY Zenon
  <2>2. /\ ls \in Seq(Chars) /\ Len(ls) = Len(l) + 1 /\ ls[Len(l) + 1] = Semicolon
        /\ \A i \in 1..Len(l) : ls[i] = l[i]
    BY <1>1, <2>1
  <2>3. /\ lx \in Seq(Chars) /\ Len(lx) = Len(ls) + Len(x) /\ \A i \in 1..Len(ls) : lx[i] = ls[i]
    BY <1>2, <2>1, <2>2, Concat
  <2>4. QED
    BY <2>2, <2>3
<1>4. PICK n \in 0..Len(l) : /\ n = Len(l) \/ l[n + 1] = Semicolon
                             /\ \/ SubSeq(l, 1, n) \in Dots
                                \/ \E a, b \in Dots : SubSeq(l, 1, n) = a \o b
  BY Zenon DEF DotPiece
<1>5. n \in 0..Len(lx) /\ lx[n + 1] = Semicolon
  <2>1. n \in 0..Len(lx)
    BY <1>3
  <2>2. CASE n = Len(l)
    BY <1>3, <2>1, <2>2, Zenon
  <2>3. CASE n # Len(l)
    <3>1. n + 1 \in 1..Len(l)
      BY <1>3, <2>3
    <3>2. QED
      BY <1>3, <1>4, <2>1, <2>3, <3>1, Zenon
  <2>4. QED
    BY <2>2, <2>3
<1>6. SubSeq(lx, 1, n) = SubSeq(l, 1, n)
  <2>1. PICK a, b : a = SubSeq(lx, 1, n) /\ b = SubSeq(l, 1, n)
    BY Zenon
  <2>2. a \in Seq(Chars) /\ Len(a) = n /\ \A i \in 1..n : a[i] = lx[i]
    BY <1>3, <2>1
  <2>3. b \in Seq(Chars) /\ Len(b) = n /\ \A i \in 1..n : b[i] = l[i]
    BY <1>3, <2>1
  <2>4. Len(a) = Len(b)
    BY <2>2, <2>3
  <2>5. ASSUME NEW i \in 1..Len(a) PROVE a[i] = b[i]
    <3>1. i \in 1..n /\ i \in 1..Len(l)
      BY <1>3, <1>4, <2>2
    <3>2. QED
      BY <1>3, <2>2, <2>3, <3>1, Zenon
  <2>6. a = b
    BY <2>2, <2>3, <2>4, <2>5, SameElements, Zenon
  <2>7. QED
    BY <2>1, <2>6
<1>7. DotPiece(lx)
  BY <1>4, <1>5, <1>6, Zenon DEF DotPiece
<1>8. QED
  BY <1>2, <1>7

\* A character is in a joined text if it is in one of the parts.
LEMMA InAppend ==
  ASSUME NEW s \in Seq(Chars), NEW t \in Seq(Chars), NEW c
  PROVE  In(s \o t, c) <=> In(s, c) \/ In(t, c)
<1>1. PICK st : st = s \o t
  BY Zenon
<1>2. /\ st \in Seq(Chars) /\ Len(st) = Len(s) + Len(t) /\ Len(s) \in Nat /\ Len(t) \in Nat
      /\ \A i \in 1..Len(s) : st[i] = s[i]
      /\ \A i \in 1..Len(t) : st[Len(s) + i] = t[i]
  BY <1>1, Concat
<1>3. ASSUME In(s, c) PROVE In(st, c)
  <2>1. PICK k \in 1..Len(s) : s[k] = c
    BY <1>3 DEF In
  <2>2. k \in 1..Len(st) /\ st[k] = c
    BY <1>2, <2>1
  <2>3. QED
    BY <1>2, <2>2 DEF In
<1>4. ASSUME In(t, c) PROVE In(st, c)
  <2>1. PICK k \in 1..Len(t) : t[k] = c
    BY <1>4 DEF In
  <2>2. Len(s) + k \in 1..Len(st) /\ st[Len(s) + k] = c
    BY <1>2, <2>1
  <2>3. QED
    BY <1>2, <2>2 DEF In
<1>5. ASSUME In(st, c) PROVE In(s, c) \/ In(t, c)
  <2>1. PICK k \in 1..Len(st) : st[k] = c
    BY <1>2, <1>5 DEF In
  <2>2. CASE k <= Len(s)
    BY <1>2, <2>1, <2>2 DEF In
  <2>3. CASE k > Len(s)
    <3>0. k - Len(s) \in 1..Len(t) /\ k = Len(s) + (k - Len(s))
      BY <1>2, <2>1, <2>3
    <3>1. PICK j \in 1..Len(t) : k = Len(s) + j
      BY <3>0, Zenon
    <3>2. t[j] = c
      BY <1>2, <2>1, <3>1
    <3>3. QED
      BY <3>2 DEF In
  <2>4. QED
    BY <1>2, <2>2, <2>3
<1>6. QED
  BY <1>1, <1>3, <1>4, <1>5

\* The escapes of a path's beginning, up to a slash, are complete.
LEMMA EscPrefix ==
  ASSUME NEW cut \in Seq(Chars), NEW rest \in Seq(Chars), Esc(cut \o rest),
         rest = <<>> \/ rest[1] = "/"
  PROVE  Esc(cut)
<1>1. PICK s : s = cut \o rest
  BY Zenon
<1>2. /\ s \in Seq(Chars) /\ Len(cut) \in Nat /\ Len(rest) \in Nat /\ Len(s) = Len(cut) + Len(rest)
      /\ \A i \in 1..Len(cut) : s[i] = cut[i]
      /\ \A i \in 1..Len(rest) : s[Len(cut) + i] = rest[i]
  BY <1>1, Concat
<1>3. Len(s) = Len(cut) \/ (Len(s) > Len(cut) /\ s[Len(cut) + 1] = "/")
  BY <1>2
<1> SUFFICES ASSUME NEW i \in 1..Len(cut), cut[i] = "%" PROVE HasOneAt(cut, i, EncodedSeparators)
  BY DEF Esc
<1>4. s[i] = "%" /\ i \in 1..Len(s)
  BY <1>2
<1>5. HasOneAt(s, i, EncodedSeparators)
  BY <1>1, <1>4, Zenon DEF Esc
<1>6. /\ i + 2 <= Len(s)
      /\ \/ s[i + 1] = "2" /\ s[i + 2] \in {"f", "F"}
         \/ s[i + 1] = "5" /\ s[i + 2] \in {"c", "C"}
  BY <1>2, <1>4, <1>5, EncodedAt, Zenon
<1>7. i + 2 <= Len(cut)
  <2>1. CASE Len(s) = Len(cut)
    BY <1>6, <2>1
  <2>2. CASE Len(s) > Len(cut) /\ s[Len(cut) + 1] = "/"
    <3>1. i + 1 # Len(cut) + 1 /\ i + 2 # Len(cut) + 1
      BY <1>6, <2>2
    <3>2. i # Len(cut) /\ i + 1 # Len(cut)
      BY <1>2, <3>1
    <3>3. PICK n \in Nat : n = Len(cut)
      BY <1>2
    <3>4. i \in 1..n /\ i # n /\ i + 1 # n
      BY <3>2, <3>3
    <3>5. i + 2 <= n
      BY <3>4
    <3>6. QED
      BY <3>3, <3>5
  <2>3. QED
    BY <1>3, <2>1, <2>2
<1>8. cut[i + 1] = s[i + 1] /\ cut[i + 2] = s[i + 2]
  BY <1>2, <1>7
<1>9. \/ cut[i + 1] = "2" /\ cut[i + 2] \in {"f", "F"}
      \/ cut[i + 1] = "5" /\ cut[i + 2] \in {"c", "C"}
  BY <1>6, <1>8, Zenon
<1>10. QED
  BY <1>7, <1>9, EncodedAt, Zenon

\* The root path is not bad.
LEMMA SlashNotBad == ~BadPath(<<"/">>)
<1>1. <<"/">> \in Seps /\ <<>> \in Seq(Chars) /\ <<"/">> \o <<>> = <<"/">>
  BY CharsAre DEF Seps
<1>2. QED
  BY <1>1, BadPathAfterSep, EmptyNotBad, Zenon

=============================================================================
