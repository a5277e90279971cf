------------------------------- MODULE IpMatch -------------------------------
(***************************************************************************)
(* How the Windows backend compares the addresses of a rule with patterns  *)
(* (src/src/firewall/windows.rs): ip_matches_pattern, by which update_rule *)
(* chooses the old addresses to drop.                                      *)
(*                                                                         *)
(* The code works on strings.  A text is one of these records; the kinds   *)
(* are what the code tells apart by the characters / * - , it looks for:   *)
(*    host     1.2.3.4           net      1.2.3.0/24                       *)
(*    wild     1.2.*.*           range    1.2.3.4-1.2.3.9                  *)
(*    partial  1.2.3. or 1.2     list     several hosts with commas        *)
(*    any      any or *                                                    *)
(*    word     Any or another word netsh prints for addresses              *)
(* Users write all but the last, and nothing at all, which is a partial    *)
(* without parts; netsh prints host, net, range and word.  A partial has   *)
(* any number of parts, but four of them without a dot are a host.  An     *)
(* octet has OctetBits bits, so that small instances have all the edges.   *)
(*                                                                         *)
(* A definition with _Bug in its name is the one after it with a plausible *)
(* mistake; it shows that a property can tell the difference.              *)
(***************************************************************************)
EXTENDS Integers, Sequences, FiniteSets

CONSTANT OctetBits      \* 8 in the code

ASSUME OctetBitsAssumption == OctetBits \in Nat \ {0}

Width == 4 * OctetBits

\* Pow2[n] is 2^n, by recursion, so that it can be proved about.
Pow2[n \in 0 .. Width] == IF n = 0 THEN 1 ELSE 2 * Pow2[n - 1]

Octets == 0 .. Pow2[OctetBits] - 1
Addresses == [1 .. 4 -> Octets]
Star == -1

Host(addr) == [kind |-> "host", addr |-> addr]
Net(addr, bits) == [kind |-> "net", addr |-> addr, bits |-> bits]
Wild(parts) == [kind |-> "wild", parts |-> parts]
Interval(lo, hi) == [kind |-> "range", lo |-> lo, hi |-> hi]
Partial(parts, dot) == [kind |-> "partial", parts |-> parts, dot |-> dot]
HostList(hosts) == [kind |-> "list", hosts |-> hosts]
AnyText == [kind |-> "any"]
Word == [kind |-> "word"]

Empty == Partial(<<>>, FALSE)

\* The record of a text has the fields of its kind and no other.
IsText(t) ==
    \/ t.kind = "host" /\ t = Host(t.addr) /\ t.addr \in Addresses
    \/ t.kind = "net" /\ t = Net(t.addr, t.bits) /\ t.addr \in Addresses /\ t.bits \in Nat
    \/ t.kind = "wild" /\ t.parts \in [1 .. 4 -> Octets \cup {Star}]
    \/ t.kind = "range" /\ {t.lo, t.hi} \subseteq Addresses
    \/ /\ t.kind = "partial" /\ t = Partial(t.parts, t.dot)
       /\ t.parts \in Seq(Octets) /\ t.dot \in BOOLEAN
       /\ IF t.dot THEN t.parts # <<>> ELSE Len(t.parts) # 4
    \/ t.kind = "list" /\ \A h \in t.hosts : h.kind = "host"
    \/ t.kind \in {"any", "word"}
------------------------------------------------------------------------------
\* ip_to_u32
Num(a) ==
    ((a[1] * Pow2[OctetBits] + a[2]) * Pow2[OctetBits] + a[3]) * Pow2[OctetBits] + a[4]

\* ip_str_to_u32 finds exactly four numbers; the mask or the second address
\* of a text spoils the part it is attached to.
Parses(t) == t.kind = "host"

\* Bug: no case of its own for 0; the shift by the full width wraps around.
Masked_Bug(n, bits) == n - (n % Pow2[(Width - bits) % Width])

\* n & mask
Masked(n, bits) == IF bits = 0 THEN 0 ELSE n - (n % Pow2[Width - bits])

\* cidr_match
CidrMatch(p, t) ==
    /\ p.bits <= Width
    /\ Parses(t)
    /\ Masked(Num(p.addr), p.bits) = Masked(Num(t.addr), p.bits)

\* range_match
RangeMatch(p, t) == Parses(t) /\ Num(t.addr) \in Num(p.lo) .. Num(p.hi)

\* wildcard_match compares the four parts as text: with a mask the last part
\* is equal to no number.
WildcardMatch(p, t) ==
    /\ t.kind \in {"host", "net"}
    /\ \A i \in 1 .. 4 :
          p.parts[i] = Star \/ (p.parts[i] = t.addr[i] /\ (i < 4 \/ t.kind = "host"))

\* The digits of n begin with those of m.
DecimalPrefix(m, n) == m = n \/ (m > 0 /\ m \in {n \div 10, n \div 100})

\* starts_with: the text of p is the beginning of the text of t.  No address
\* has a dot after its fourth part.
StartsWith(t, p) ==
    LET parts == IF p.kind = "host" THEN p.addr ELSE p.parts
        dot == p.kind = "partial" /\ p.dot
        first == IF t.kind = "range" THEN t.lo ELSE t.addr
    IN  /\ p.kind \in {"host", "partial"} /\ t.kind \in {"host", "net", "range"}
        /\ IF dot THEN Len(parts) < 4 ELSE Len(parts) <= 4
        /\ \A i \in 1 .. Len(parts) :
              IF i = Len(parts) /\ ~dot THEN DecimalPrefix(parts[i], first[i])
                                        ELSE parts[i] = first[i]

\* The text up to a slash.
Bare(t) == IF t.kind = "net" THEN Host(t.addr) ELSE t

\* Bug: the empty pattern is not sorted out, and every text begins with it.
MatchesPattern_Bug(t, p) ==
    \/ p = t \/ p = Bare(t)
    \/ p.kind = "net" /\ CidrMatch(p, Bare(t))
    \/ p.kind = "wild" /\ WildcardMatch(p, Bare(t))
    \/ p.kind = "range" /\ RangeMatch(p, Bare(t))
    \/ StartsWith(Bare(t), p)

\* ip_matches_pattern.  A pattern with commas matches nothing.
MatchesPattern(t, p) ==
    /\ p # Empty
    /\ \/ p = t \/ p = Bare(t)
       \/ p.kind = "net" /\ CidrMatch(p, Bare(t))
       \/ p.kind = "wild" /\ WildcardMatch(p, Bare(t))
       \/ p.kind = "range" /\ RangeMatch(p, Bare(t))
       \/ StartsWith(Bare(t), p)

\* normalize_single_ip
Normalized(t) == IF t.kind = "net" /\ t.bits = Width THEN Host(t.addr) ELSE t
==============================================================================
