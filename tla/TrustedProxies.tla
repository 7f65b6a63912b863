--------------------------- MODULE TrustedProxies ---------------------------
(***************************************************************************)
(* The trusted-proxy CIDR list of ferryman-core (proxies.rs): parsing an   *)
(* entry and testing an address.  An address is the pair <<width, value>>; *)
(* the widths 32 and 128 of the code are the constants V4 and V6, so that  *)
(* every address of a small address space can be enumerated.               *)
(***************************************************************************)
EXTENDS Integers, Sequences

CONSTANTS
    V4,         \* bits of an IPv4 address (32 in the code)
    V6,         \* bits of an IPv6 address (128 in the code)
    MappedHigh  \* the high V6 - V4 bits of an IPv4-mapped IPv6 address

\* 2^n, the factor of a shift by n bits.
Pow2[n \in Nat] == IF n = 0 THEN 1 ELSE 2 * Pow2[n - 1]

ASSUME WidthsAssumption ==
    /\ V4 \in Nat \ {0}
    /\ V6 \in Nat
    /\ V4 < V6
    /\ MappedHigh \in 0..(Pow2[V6 - V4] - 1)

IPs == ({V4} \X (0..Pow2[V4] - 1)) \cup ({V6} \X (0..Pow2[V6] - 1))

IsMapped(ip) == ip[1] = V6 /\ ip[2] \div Pow2[V4] = MappedHigh

(* normalise (and IpAddr::to_canonical): a v4-mapped address reads as v4. *)
Normalise(ip) == IF IsMapped(ip) THEN <<V4, ip[2] % Pow2[V4]>> ELSE ip

(***************************************************************************)
(* An entry of the configuration as written: an address and the digits     *)
(* after the slash, NoPrefix when there is no slash.  Addresses and digits *)
(* that do not parse are refused before any of this.                       *)
(***************************************************************************)
NoPrefix == -1

PrefixLen(entry) == IF entry.prefix = NoPrefix THEN entry.ip[1] ELSE entry.prefix

(* TrustedProxies::parse accepts the entry. *)
Parses(entry) ==
    /\ PrefixLen(entry) \in 0..entry.ip[1]
    /\ IsMapped(entry.ip) => PrefixLen(entry) >= V6 - V4

(* ... and the range it keeps: a mapped range becomes the IPv4 one. *)
Parse(entry) ==
    [ip  |-> Normalise(entry.ip),
     len |-> PrefixLen(entry) - (IF IsMapped(entry.ip) THEN V6 - V4 ELSE 0)]

(* Mutant: no case for /0; the shift count wraps at the width of the mask. *)
MaskWraps(width, len) == ((Pow2[V6] - 1) * Pow2[(width - len) % V6]) % Pow2[V6]

(* The 128-bit mask of the code: ones shifted left, all zeros for /0. *)
Mask(width, len) ==
    IF len = 0 THEN 0 ELSE ((Pow2[V6] - 1) * Pow2[width - len]) % Pow2[V6]

Bit(n, i) == (n \div Pow2[i]) % 2

(* The two addresses differ in no bit of the mask, within their width. *)
ContainsRaw(nets, ip) ==
    \E net \in nets :
        /\ net.ip[1] = ip[1]
        /\ \A i \in 0..ip[1] - 1 :
              Bit(Mask(ip[1], net.len), i) = 1 => Bit(ip[2], i) = Bit(net.ip[2], i)

(* TrustedProxies::contains *)
TrustContains(nets, ip) == ContainsRaw(nets, Normalise(ip))

---------------------------------------------------------------------------
(***************************************************************************)
(* What the documentation promises of an entry, said without masks: seen   *)
(* as IPv6 addresses, the address agrees with the entry's on the leading   *)
(* bits, and IPv4 clients are matched by IPv4 ranges only.                 *)
(***************************************************************************)
AsV6(ip) == IF ip[1] = V4 THEN <<V6, MappedHigh * Pow2[V4] + ip[2]>> ELSE ip

Covers(entry, ip) ==
    LET len == PrefixLen(entry) + V6 - entry.ip[1]
        Leading(a) == AsV6(a)[2] \div Pow2[V6 - len]
    IN /\ IsMapped(AsV6(entry.ip)) <=> IsMapped(AsV6(ip))
       /\ Leading(ip) = Leading(entry.ip)
=============================================================================
