-------------------------------- MODULE Paths --------------------------------
(***************************************************************************)
(* Request paths and route prefixes as sequences of one-character strings: *)
(* the normalisation and prefix matching of crates/core/src/route.rs and   *)
(* the path checks of crates/core/src/path.rs.                             *)
(***************************************************************************)
EXTENDS Integers, Sequences

Digits == <<"0", "1", "2", "3", "4", "5", "6", "7", "8", "9">>
Upper  == <<"A", "B", "C", "D", "E", "F", "G", "H", "I", "J", "K", "L", "M",
            "N", "O", "P", "Q", "R", "S", "T", "U", "V", "W", "X", "Y", "Z">>
Lower  == <<"a", "b", "c", "d", "e", "f", "g", "h", "i", "j", "k", "l", "m",
            "n", "o", "p", "q", "r", "s", "t", "u", "v", "w", "x", "y", "z">>

\* The character that begins a path parameter.
Semicolon == ";"

\* The letters that are hexadecimal digits.
HexUpper == <<"A", "B", "C", "D", "E", "F">>
HexLower == <<"a", "b", "c", "d", "e", "f">>

IndexIn(s, c) == CHOOSE k \in DOMAIN s : s[k] = c
In(s, c) == \E k \in DOMAIN s : s[k] = c

\* hex_val, and -1 for its None
HexVal(c) ==
  CASE In(Digits, c)   -> IndexIn(Digits, c) - 1
    [] In(HexUpper, c) -> IndexIn(HexUpper, c) + 9
    [] In(HexLower, c) -> IndexIn(HexLower, c) + 9
    [] OTHER           -> -1

\* The unreserved characters by code (is_unreserved).
Unreserved ==
  [c \in {45, 46, 95, 126} \cup 48..57 \cup 65..90 \cup 97..122 |->
     CASE c = 45  -> "-"
       [] c = 46  -> "."
       [] c = 95  -> "_"
       [] c = 126 -> "~"
       [] c \in 48..57  -> Digits[c - 47]
       [] c \in 65..90  -> Upper[c - 64]
       [] c \in 97..122 -> Lower[c - 96]]

Upcase(c) == IF In(Lower, c) THEN Upper[IndexIn(Lower, c)] ELSE c

\* Is word found in s at position i?
HasAt(s, i, word) ==
  i + Len(word) - 1 <= Len(s) /\ \A k \in DOMAIN word : s[i + k - 1] = word[k]

HasOneAt(s, i, words) == \E w \in words : HasAt(s, i, w)

StartsWith(s, prefix) == HasAt(s, 1, prefix)

EndsWith(s, c) == s # <<>> /\ s[Len(s)] = c

ContainsAny(s, words) == \E i \in DOMAIN s : HasOneAt(s, i, words)

-----------------------------------------------------------------------------
(* route.rs *)

\* rewrite_at: how many characters to consume at i, and what to emit.
RewriteAt(s, i) ==
  IF HasAt(s, i, <<"/", "/">>) THEN [consume |-> 1, emit |-> <<>>]
  ELSE IF s[i] = "%" /\ i + 2 <= Len(s) /\ HexVal(s[i + 1]) >= 0 /\ HexVal(s[i + 2]) >= 0
    THEN LET code == 16 * HexVal(s[i + 1]) + HexVal(s[i + 2])
         IN [consume |-> 3,
             emit |-> IF code \in DOMAIN Unreserved THEN <<Unreserved[code]>>
                      ELSE <<"%", Upcase(s[i + 1]), Upcase(s[i + 2])>>]
    ELSE [consume |-> 1, emit |-> <<s[i]>>]

Normalize(s) ==
  LET from[i \in 1..Len(s) + 3] ==
        IF i > Len(s) THEN <<>>
        ELSE LET r == RewriteAt(s, i) IN r.emit \o from[i + r.consume]
  IN from[1]

PrefixMatches(prefix, path) ==
  /\ StartsWith(path, prefix)
  /\ \/ EndsWith(prefix, "/")
     \/ Len(path) = Len(prefix)
     \/ path[Len(prefix) + 1] = "/"

-----------------------------------------------------------------------------
(* path.rs *)

EncodedSeparators == {<<"%", "2", "f">>, <<"%", "2", "F">>, <<"%", "5", "c">>, <<"%", "5", "C">>}

Forbidden ==
  {<<"%", "0", "0">>, <<"%", "u">>, <<"%", "U">>}
    \cup {<<"%", "2", "5", "2", c>> : c \in {"e", "E", "f", "F"}}
    \cup {<<"%", "2", "5", "5", c>> : c \in {"c", "C"}}

\* How many characters of s at i separate two pieces; 0 if none.
SeparatorAt(s, i) ==
  CASE HasOneAt(s, i, {<<"/">>, <<"\\">>}) -> 1
    [] HasOneAt(s, i, EncodedSeparators)   -> 3
    [] OTHER                               -> 0

Dots == {<<".">>, <<"%", "2", "e">>, <<"%", "2", "E">>}

\* dot_piece: one or two dots, written either way, before any ";".
DotPiece(piece) ==
  \E n \in 0..Len(piece) :
    /\ n = Len(piece) \/ piece[n + 1] = Semicolon
    /\ \/ SubSeq(piece, 1, n) \in Dots
       \/ \E a, b \in Dots : SubSeq(piece, 1, n) = a \o b

BadPath(s) ==
  LET \* is s bad from i on, the current piece having begun at start?
      bad[i \in 1..Len(s) + 3] == [start \in 1..Len(s) + 3 |->
        IF i > Len(s) THEN DotPiece(SubSeq(s, start, Len(s)))
        ELSE LET n == SeparatorAt(s, i) IN
          IF n > 0 THEN DotPiece(SubSeq(s, start, i - 1)) \/ bad[i + n][i + n]
          ELSE HasOneAt(s, i, Forbidden) \/ bad[i + 1][start]]
  IN bad[1][1]

BadPathNormalized(s) == BadPath(s) \/ (In(s, "%") /\ BadPath(Normalize(s)))

=============================================================================
