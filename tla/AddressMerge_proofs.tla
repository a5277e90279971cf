-------------------------- MODULE AddressMerge_proofs --------------------------
(***************************************************************************)
(* Proofs about AddressMerge, for octets of any width, any patterns,       *)
(* addresses and lists: type correctness; that the loop drops what the old *)
(* pattern speaks of and what its digits begin, and nothing else; and that *)
(* an update repeated finds nothing to change.                             *)
(*                                                                         *)
(* The matchers compute with the number of an address, the meaning of a    *)
(* text is told by the bits and the order of its octets.  The lemmas on    *)
(* powers of two connect the two: NumOrder for ranges, MaskedAgree for     *)
(* masks.  What is proved by induction goes through the least counter-     *)
(* example (Induction).                                                    *)
(***************************************************************************)
EXTENDS AddressMerge, WellFoundedInduction, TLAPS

(***************************************************************************)
(* A text the list keeps is still the same after netsh has printed it and  *)
(* the code has read it again.                                             *)
(***************************************************************************)
LEMMA NormalizedAgain ==
    ASSUME NEW t, IsText(t)
    PROVE  Normalized(Printed(Normalized(t))) = Normalized(t)
  <1>1. CASE t.kind = "host" /\ t = Host(t.addr)
    BY <1>1 DEF Normalized, Printed, Host, Net
  <1>2. CASE t.kind = "net" /\ t = Net(t.addr, t.bits)
    BY <1>2 DEF Normalized, Printed, Host, Net
  <1>3. CASE t.kind \in {"wild", "range", "partial", "list", "any", "word"}
    BY <1>3 DEF Normalized, Printed
  <1> QED BY <1>1, <1>2, <1>3 DEF IsText

(***************************************************************************)
(* A text that a pattern does not match is not matched by it either after  *)
(* netsh has printed it.                                                   *)
(***************************************************************************)
LEMMA StillUnmatched ==
    ASSUME NEW t, IsText(t), NEW p, ~MatchesPattern(t, p)
    PROVE  ~MatchesPattern(Printed(Normalized(t)), p)
  <1> DEFINE u == Printed(Normalized(t))
  <1>1. u = t \/ (t.kind = "host" /\ t = Host(t.addr) /\ u = Net(t.addr, Width))
    BY DEF IsText, Normalized, Printed, Host, Net
  <1>2. Bare(u) = Bare(t)
    BY <1>1 DEF Bare, Host, Net
  <1>3. p # u \/ p = Empty
    <2> SUFFICES ASSUME p = u, p # Empty PROVE FALSE
      OBVIOUS
    <2>1. CASE u = t
      BY <2>1 DEF MatchesPattern
    <2>2. CASE t.kind = "host" /\ t = Host(t.addr) /\ u = Net(t.addr, Width)
      <3>1. p.kind = "net" /\ p.bits = Width /\ p.addr = t.addr /\ Bare(t) = t
        BY <2>2 DEF Net, Bare
      <3>2. Width \in Nat
        BY OctetBitsAssumption DEF Width
      <3>3. CidrMatch(p, Bare(t))
        BY <2>2, <3>1, <3>2 DEF CidrMatch, Parses
      <3> QED BY <3>3, <3>1 DEF MatchesPattern
    <2> QED BY <1>1, <2>1, <2>2
  <1> HIDE DEF u
  <1>4. ~MatchesPattern(u, p)
    BY <1>2, <1>3 DEF MatchesPattern
  <1> QED BY <1>4 DEF u
------------------------------------------------------------------------------
(***************************************************************************)
(* The arithmetic of addresses, for octets of any width.                   *)
(***************************************************************************)
Below == {p \in Nat \X Nat : p[1] < p[2]}

LEMMA Induction ==
    ASSUME NEW T, 0 \in T, \A n \in Nat : n \in T => n + 1 \in T
    PROVE  Nat \subseteq T
  <1> DEFINE Rest == {n \in Nat : n \notin T}
  <1> SUFFICES ASSUME Rest # {} PROVE FALSE
    OBVIOUS
  <1>1. IsWellFoundedOn(Below, Nat)
    BY NatLessThanWellFounded DEF OpToRel, Below
  <1>2. PICK x \in Rest : \A y \in Rest : ~(<<y, x>> \in Below)
    <2>1. Rest \subseteq Nat
      OBVIOUS
    <2> HIDE DEF Rest
    <2> QED BY <1>1, <2>1, WFMin
  <1>3. x \in Nat /\ x # 0
    OBVIOUS
  <1>4. x - 1 \in Nat /\ <<x - 1, x>> \in Below
    BY <1>3 DEF Below
  <1>5. x - 1 \notin Rest
    BY <1>2, <1>4
  <1> QED BY <1>3, <1>4, <1>5

LEMMA WidthType == OctetBits \in Nat \ {0} /\ Width \in Nat /\ Width = 4 * OctetBits
  BY OctetBitsAssumption DEF Width

\* The powers of two are defined.
LEMMA PowersDefined ==
    /\ Pow2 \in [0 .. Width -> Nat \ {0}]
    /\ Pow2[0] = 1
    /\ \A n \in 0 .. Width - 1 : Pow2[n + 1] = 2 * Pow2[n]
  <1> DEFINE Defined(m) == \E g \in [0 .. m -> Nat \ {0}] :
                 g[0] = 1 /\ \A n \in 1 .. m : g[n] = 2 * g[n - 1]
             T == {m \in Nat : Defined(m)}
  <1>1. Defined(0)
    <2> DEFINE g == [n \in 0 .. 0 |-> 1]
    <2>1. /\ g \in [0 .. 0 -> Nat \ {0}] /\ g[0] = 1
          /\ \A n \in 1 .. 0 : g[n] = 2 * g[n - 1]
      OBVIOUS
    <2> QED BY <2>1
  <1>2. ASSUME NEW m \in Nat, Defined(m) PROVE Defined(m + 1)
    <2>1. PICK g \in [0 .. m -> Nat \ {0}] : g[0] = 1 /\ \A n \in 1 .. m : g[n] = 2 * g[n - 1]
      BY <1>2
    <2> DEFINE h == [n \in 0 .. m + 1 |-> IF n <= m THEN g[n] ELSE 2 * g[m]]
    <2>2. 2 * g[m] \in Nat \ {0}
      OBVIOUS
    <2>3. h \in [0 .. m + 1 -> Nat \ {0}]
      BY <2>2
    <2>4. (\A n \in 0 .. m : h[n] = g[n]) /\ h[m + 1] = 2 * g[m]
      OBVIOUS
    <2> HIDE DEF h
    <2>5. \A n \in 1 .. m + 1 : h[n] = 2 * h[n - 1]
      <3>1. ASSUME NEW n \in 1 .. m PROVE h[n] = 2 * h[n - 1]
        <4>1. n \in 0 .. m /\ n - 1 \in 0 .. m
          OBVIOUS
        <4> QED BY <2>1, <2>4, <4>1
      <3>2. h[m + 1] = 2 * h[(m + 1) - 1]
        BY <2>4
      <3>3. \A n \in 1 .. m + 1 : n \in 1 .. m \/ n = m + 1
        OBVIOUS
      <3> QED BY <3>1, <3>2, <3>3
    <2>6. h[0] = 1
      BY <2>1, <2>4
    <2> QED BY <2>3, <2>5, <2>6
  <1> HIDE DEF Defined
  <1>3. 0 \in T /\ \A m \in Nat : m \in T => m + 1 \in T
    BY <1>1, <1>2
  <1>4. Width \in T
    <2> HIDE DEF T
    <2> QED BY <1>3, Induction, WidthType
  <1>5. PICK g \in [0 .. Width -> Nat \ {0}] : g[0] = 1 /\ \A n \in 1 .. Width : g[n] = 2 * g[n - 1]
    BY <1>4 DEF Defined
  <1>6. g = [n \in 0 .. Width |-> IF n = 0 THEN 1 ELSE 2 * g[n - 1]]
    <2>1. ASSUME NEW n \in 0 .. Width PROVE g[n] = IF n = 0 THEN 1 ELSE 2 * g[n - 1]
      <3>1. CASE n = 0
        BY <1>5, <3>1
      <3>2. CASE n \in 1 .. Width
        BY <1>5, <3>2
      <3> QED BY <3>1, <3>2, WidthType
    <2> QED BY <2>1
  <1>7. Pow2 = [n \in 0 .. Width |-> IF n = 0 THEN 1 ELSE 2 * Pow2[n - 1]]
    BY <1>6 DEF Pow2
  <1>8. \A n \in 0 .. Width : Pow2[n] = IF n = 0 THEN 1 ELSE 2 * Pow2[n - 1]
    BY <1>7
  <1>9. \A n \in 0 .. Width : Pow2[n] \in Nat \ {0}
    <2> DEFINE U == {n \in Nat : n <= Width => Pow2[n] \in Nat \ {0}}
    <2>1. 0 \in U
      <3>1. 0 \in 0 .. Width
        BY WidthType
      <3>2. Pow2[0] = 1
        BY <1>8, <3>1
      <3> QED BY <3>2
    <2>2. ASSUME NEW n \in Nat, n \in U PROVE n + 1 \in U
      <3> SUFFICES ASSUME n + 1 <= Width PROVE Pow2[n + 1] \in Nat \ {0}
        OBVIOUS
      <3>1. Pow2[n] \in Nat \ {0}
        BY <2>2, WidthType
      <3>2. Pow2[n + 1] = 2 * Pow2[(n + 1) - 1] /\ (n + 1) - 1 = n
        BY <1>8, WidthType
      <3> QED BY <3>1, <3>2
    <2>3. Nat \subseteq U
      <3> HIDE DEF U
      <3> QED BY <2>1, <2>2, Induction
    <2> QED BY <2>3, WidthType
  <1>10. Pow2[0] = 1 /\ \A n \in 0 .. Width - 1 : Pow2[n + 1] = 2 * Pow2[n]
    BY <1>8, WidthType
  <1> QED BY <1>7, <1>9, <1>10

LEMMA PowersMultiply ==
    ASSUME NEW i \in Nat, NEW j \in Nat, i + j <= Width
    PROVE  Pow2[i + j] = Pow2[i] * Pow2[j]
  <1> DEFINE T == {n \in Nat : i + n <= Width => Pow2[i + n] = Pow2[i] * Pow2[n]}
  <1>1. 0 \in T
    BY PowersDefined, WidthType
  <1>2. ASSUME NEW n \in Nat, n \in T PROVE n + 1 \in T
    <2> SUFFICES ASSUME i + (n + 1) <= Width PROVE Pow2[i + (n + 1)] = Pow2[i] * Pow2[n + 1]
      OBVIOUS
    <2>1. i + n \in 0 .. Width - 1 /\ n \in 0 .. Width - 1 /\ i \in 0 .. Width /\ i + (n + 1) = (i + n) + 1
      BY WidthType
    <2>2. Pow2[i + n] = Pow2[i] * Pow2[n]
      BY <1>2, <2>1, WidthType
    <2>3. Pow2[i + (n + 1)] = 2 * Pow2[i + n] /\ Pow2[n + 1] = 2 * Pow2[n]
      BY <2>1, PowersDefined
    <2>4. Pow2[i] \in Nat /\ Pow2[n] \in Nat
      <3>1. i \in 0 .. Width /\ n \in 0 .. Width
        BY <2>1, WidthType
      <3>2. \A m \in 0 .. Width : Pow2[m] \in Nat
        BY PowersDefined
      <3> QED BY <3>1, <3>2
    <2> QED BY <2>2, <2>3, <2>4
  <1>3. Nat \subseteq T
    <2> HIDE DEF T
    <2> QED BY <1>1, <1>2, Induction
  <1> QED BY <1>3

\* The base of the number an address is, and its powers.
LEMMA BaseType ==
    /\ Pow2[OctetBits] \in Nat \ {0}
    /\ Octets = 0 .. Pow2[OctetBits] - 1
    /\ \A a \in Addresses : a[1] \in Octets /\ a[2] \in Octets /\ a[3] \in Octets /\ a[4] \in Octets
  <1>1. OctetBits \in 0 .. Width
    BY WidthType
  <1> QED BY <1>1, PowersDefined DEF Octets, Addresses

LEMMA BasePowers ==
    LET B == Pow2[OctetBits]
    IN  /\ Pow2[2 * OctetBits] = B * B
        /\ Pow2[3 * OctetBits] = B * (B * B)
        /\ Pow2[Width] = B * (B * (B * B))
  <1> DEFINE b == OctetBits
  <1>1. Pow2[b + b] = Pow2[b] * Pow2[b]
    BY PowersMultiply, WidthType
  <1>2. Pow2[b + 2 * b] = Pow2[b] * Pow2[2 * b]
    BY PowersMultiply, WidthType
  <1>3. Pow2[b + 3 * b] = Pow2[b] * Pow2[3 * b]
    BY PowersMultiply, WidthType
  <1>4. b + b = 2 * b /\ b + 2 * b = 3 * b /\ b + 3 * b = Width
    BY WidthType
  <1> QED BY <1>1, <1>2, <1>3, <1>4

\* Lines 443 to 451: the number of an address begins with its first octets.
LEMMA NumType ==
    ASSUME NEW a \in Addresses
    PROVE  LET B == Pow2[OctetBits]
           IN  /\ Num(a) \in Nat
               /\ Num(a) \div Pow2[Width] = 0
               /\ Num(a) \div (B * (B * B)) = a[1]
               /\ Num(a) \div (B * B) = a[1] * B + a[2]
               /\ Num(a) \div B = (a[1] * B + a[2]) * B + a[3]
  <1> DEFINE B == Pow2[OctetBits]
             n2 == a[1] * B + a[2]
             n3 == n2 * B + a[3]
  <1>1. B \in Nat \ {0}
    BY BaseType
  <1>2. a[1] \in 0 .. B - 1 /\ a[2] \in 0 .. B - 1 /\ a[3] \in 0 .. B - 1 /\ a[4] \in 0 .. B - 1
    BY BaseType
  <1>3. Num(a) = n3 * B + a[4]
    BY DEF Num
  <1>w. Pow2[Width] = B * (B * (B * B))
    BY BasePowers
  <1> HIDE DEF B
  <1>4. a[1] \in Nat /\ a[2] \in Nat /\ a[3] \in Nat /\ a[4] \in Nat
    BY <1>1, <1>2
  <1>5. n2 \in Nat /\ n2 \div B = a[1]
    BY <1>1, <1>2, <1>4
  <1> HIDE DEF n2
  <1>6. n3 \in Nat /\ n3 \div B = n2
    BY <1>1, <1>2, <1>4, <1>5
  <1> HIDE DEF n3
  <1>7. Num(a) \in Nat /\ Num(a) \div B = n3
    BY <1>1, <1>2, <1>3, <1>4, <1>6
  <1>8. \A n, d, e \in Nat : d # 0 /\ e # 0 => (n \div d) \div e = n \div (d * e)
    OBVIOUS
  <1>9. Num(a) \div (B * B) = n2
    BY <1>1, <1>6, <1>7, <1>8
  <1>p. B * B \in Nat \ {0} /\ B * (B * B) \in Nat \ {0} /\ (B * B) * B = B * (B * B)
    BY <1>1
  <1>10. Num(a) \div (B * (B * B)) = a[1]
    BY <1>1, <1>5, <1>7, <1>8, <1>9, <1>p
  <1>11. a[1] \div B = 0
    BY <1>1, <1>2
  <1>12. Num(a) \div ((B * (B * B)) * B) = 0
    BY <1>1, <1>7, <1>8, <1>10, <1>11, <1>p
  <1>13. (B * (B * B)) * B = B * (B * (B * B))
    BY <1>1
  <1> QED BY <1>7, <1>9, <1>10, <1>12, <1>13, <1>w DEF B, n2, n3

\* Addresses are in the order of their numbers.
LEMMA NumOrder ==
    ASSUME NEW a \in Addresses, NEW b \in Addresses
    PROVE  Before(a, b) <=> Num(a) < Num(b)
  <1> DEFINE B == Pow2[OctetBits]
             a2 == a[1] * B + a[2]
             b2 == b[1] * B + b[2]
             a3 == a2 * B + a[3]
             b3 == b2 * B + b[3]
  <1>1. B \in Nat \ {0}
    BY BaseType
  <1>2. /\ a[1] \in 0 .. B - 1 /\ a[2] \in 0 .. B - 1 /\ a[3] \in 0 .. B - 1 /\ a[4] \in 0 .. B - 1
        /\ b[1] \in 0 .. B - 1 /\ b[2] \in 0 .. B - 1 /\ b[3] \in 0 .. B - 1 /\ b[4] \in 0 .. B - 1
    BY BaseType
  <1>3. Num(a) = a3 * B + a[4] /\ Num(b) = b3 * B + b[4]
    BY DEF Num
  <1> HIDE DEF B
  <1>4. \A x, y \in Nat : \A c, d \in 0 .. B - 1 :
           x * B + c < y * B + d <=> x < y \/ (x = y /\ c < d)
    <2>1. ASSUME NEW x \in Nat, NEW y \in Nat, NEW c \in 0 .. B - 1, NEW d \in 0 .. B - 1, x < y
          PROVE  x * B + c < y * B + d
      BY <1>1, <2>1
    <2> QED BY <1>1, <2>1
  <1>5. a[1] \in Nat /\ b[1] \in Nat /\ a2 \in Nat /\ b2 \in Nat
    BY <1>1, <1>2
  <1>6. a2 < b2 <=> a[1] < b[1] \/ (a[1] = b[1] /\ a[2] < b[2])
    BY <1>2, <1>4, <1>5
  <1>e. \A x, y \in Nat : \A c, d \in 0 .. B - 1 :
           x * B + c = y * B + d <=> x = y /\ c = d
    <2>1. ASSUME NEW x \in Nat, NEW y \in Nat, NEW c \in 0 .. B - 1, NEW d \in 0 .. B - 1
          PROVE  x * B + c \in Nat /\ y * B + d \in Nat
      BY <1>1
    <2> QED BY <1>4, <2>1
  <1>7. a2 = b2 <=> a[1] = b[1] /\ a[2] = b[2]
    BY <1>2, <1>5, <1>e
  <1> HIDE DEF a2, b2
  <1>8. a3 \in Nat /\ b3 \in Nat
    BY <1>1, <1>2, <1>5
  <1>9. a3 < b3 <=> a2 < b2 \/ (a2 = b2 /\ a[3] < b[3])
    BY <1>2, <1>4, <1>5
  <1>10. a3 = b3 <=> a2 = b2 /\ a[3] = b[3]
    BY <1>2, <1>5, <1>e
  <1> HIDE DEF a3, b3
  <1>11. Num(a) < Num(b) <=> a3 < b3 \/ (a3 = b3 /\ a[4] < b[4])
    BY <1>2, <1>3, <1>4, <1>8
  <1>12. Before(a, b) <=>
             \/ a[1] < b[1]
             \/ a[2] < b[2] /\ a[1] = b[1]
             \/ a[3] < b[3] /\ a[1] = b[1] /\ a[2] = b[2]
             \/ a[4] < b[4] /\ a[1] = b[1] /\ a[2] = b[2] /\ a[3] = b[3]
    BY DEF Before
  <1> QED BY <1>6, <1>7, <1>9, <1>10, <1>11, <1>12

\* A bit of an address is the bit of its number.
LEMMA BitOfNum ==
    ASSUME NEW a \in Addresses, NEW i \in 1 .. Width
    PROVE  Bit(a, i) = (Num(a) \div Pow2[Width - i]) % 2
  <1> DEFINE b == OctetBits
             j == (i - 1) \div b
             r == (i - 1) % b
             e == b - 1 - r
             B == Pow2[b]
             E == Pow2[e]
             H == Pow2[b - 1 - e]
  <1>1. b \in Nat \ {0} /\ Width = 4 * b
    BY WidthType
  <1>2. j \in 0 .. 3 /\ r \in 0 .. b - 1 /\ i - 1 = b * j + r
    BY <1>1
  <1> HIDE DEF j, r
  <1>3. e \in 0 .. b - 1 /\ Width - i = b * (3 - j) + e
    BY <1>1, <1>2
  <1>4. E \in Nat \ {0} /\ H \in Nat \ {0}
    <2>1. e \in 0 .. Width /\ b - 1 - e \in 0 .. Width
      BY <1>1, <1>3
    <2> QED BY <2>1, PowersDefined
  <1>5. B = (2 * H) * E
    <2>1. b - 1 - e \in 0 .. Width - 1 /\ (b - 1 - e) + 1 = b - e /\ b - e \in Nat /\ e \in Nat
          /\ (b - e) + e = b /\ b <= Width
      BY <1>1, <1>3
    <2>2. Pow2[b - e] = 2 * H
      BY <2>1, PowersDefined
    <2>3. Pow2[(b - e) + e] = Pow2[b - e] * Pow2[e]
      BY <2>1, PowersMultiply
    <2> QED BY <2>1, <2>2, <2>3
  <1>6. ASSUME NEW x \in Nat, NEW o \in Nat
        PROVE  ((x * B + o) \div E) % 2 = (o \div E) % 2
    <2> HIDE DEF B, E, H
    <2>1. x * B = (2 * (x * H)) * E
      BY <1>4, <1>5
    <2>2. x * H \in Nat
      BY <1>4
    <2>3. \A y \in Nat : (y * E + o) \div E = y + (o \div E)
      BY <1>4
    <2>4. (x * B + o) \div E = 2 * (x * H) + (o \div E)
      BY <2>1, <2>2, <2>3
    <2>5. o \div E \in Nat
      BY <1>4
    <2> QED BY <2>2, <2>4, <2>5
  <1>7. ASSUME NEW n \in Nat, NEW d \in Nat \ {0}, n \div d \in Nat
        PROVE  (n \div d) \div E = n \div (d * E)
    <2> HIDE DEF E
    <2> QED BY <1>4
  <1>b. B \in Nat \ {0}
    BY BaseType
  <1>8. /\ a[1] \in Nat /\ a[2] \in Nat /\ a[3] \in Nat /\ a[4] \in Nat
        /\ a[1] * B + a[2] \in Nat /\ (a[1] * B + a[2]) * B + a[3] \in Nat
    <2>1. a[1] \in 0 .. B - 1 /\ a[2] \in 0 .. B - 1 /\ a[3] \in 0 .. B - 1 /\ a[4] \in 0 .. B - 1
      BY BaseType
    <2> HIDE DEF B
    <2>2. a[1] \in Nat /\ a[2] \in Nat /\ a[3] \in Nat /\ a[4] \in Nat
      BY <1>b, <2>1
    <2>3. a[1] * B + a[2] \in Nat
      BY <1>b, <2>2
    <2> QED BY <1>b, <2>2, <2>3
  <1>9. /\ Num(a) \in Nat
        /\ Num(a) \div (B * (B * B)) = a[1]
        /\ Num(a) \div (B * B) = a[1] * B + a[2]
        /\ Num(a) \div B = (a[1] * B + a[2]) * B + a[3]
        /\ Num(a) = ((a[1] * B + a[2]) * B + a[3]) * B + a[4]
    BY NumType DEF Num
  <1>10. Bit(a, i) = (a[j + 1] \div E) % 2
    BY DEF Bit, j, r
  <1>11. ASSUME NEW k \in 0 .. 3, j = k
         PROVE  Pow2[Width - i] = Pow2[b * (3 - k)] * E
    <2>1. b * (3 - k) \in Nat /\ e \in Nat /\ b * (3 - k) + e <= Width
      BY <1>1, <1>3, <1>11
    <2> HIDE DEF e
    <2> QED BY <1>3, <1>11, <2>1, PowersMultiply
  <1> HIDE DEF B, E, H
  <1>12. CASE j = 3
    <2>1. Pow2[Width - i] = E
      BY <1>1, <1>4, <1>11, <1>12, PowersDefined
    <2> QED BY <1>6, <1>8, <1>9, <1>10, <1>12, <2>1
  <1>13. CASE j = 2
    <2>1. Pow2[Width - i] = B * E
      BY <1>1, <1>11, <1>13 DEF B
    <2>2. (Num(a) \div B) \div E = Num(a) \div (B * E)
      BY <1>7, <1>8, <1>9, <1>b
    <2> QED BY <1>6, <1>8, <1>9, <1>10, <1>13, <2>1, <2>2
  <1>14. CASE j = 1
    <2>1. Pow2[Width - i] = (B * B) * E
      BY <1>1, <1>11, <1>14, BasePowers DEF B
    <2>2. (Num(a) \div (B * B)) \div E = Num(a) \div ((B * B) * E)
      BY <1>7, <1>8, <1>9, <1>b
    <2> QED BY <1>6, <1>8, <1>9, <1>10, <1>14, <2>1, <2>2
  <1>15. CASE j = 0
    <2>1. Pow2[Width - i] = (B * (B * B)) * E
      BY <1>1, <1>11, <1>15, BasePowers DEF B
    <2>2. (Num(a) \div (B * (B * B))) \div E = Num(a) \div ((B * (B * B)) * E)
      BY <1>7, <1>8, <1>9, <1>b
    <2> QED BY <1>8, <1>9, <1>10, <1>15, <2>1, <2>2
  <1> QED BY <1>2, <1>12, <1>13, <1>14, <1>15

LEMMA HalfQuotient ==
    ASSUME NEW n \in Nat, NEW d \in Nat \ {0}
    PROVE  n \div d = 2 * (n \div (2 * d)) + ((n \div d) % 2)
  OBVIOUS

\* Addresses that agree on the first bits are equal after the mask.
LEMMA MaskedAgree ==
    ASSUME NEW a \in Addresses, NEW b \in Addresses, NEW bits \in 0 .. Width
    PROVE  AgreeOn(a, b, bits) <=> Masked(Num(a), bits) = Masked(Num(b), bits)
  <1> DEFINE Head1(x, k) == Num(x) \div Pow2[Width - k]
             T == {k \in Nat : k <= Width => (AgreeOn(a, b, k) <=> Head1(a, k) = Head1(b, k))}
  <1>n. Num(a) \in Nat /\ Num(b) \in Nat
    BY NumType
  <1>1. 0 \in T
    <2>1. Head1(a, 0) = 0 /\ Head1(b, 0) = 0
      BY NumType, WidthType
    <2> QED BY <2>1 DEF AgreeOn
  <1>2. ASSUME NEW k \in Nat, k \in T, k + 1 <= Width
        PROVE  AgreeOn(a, b, k + 1) <=> Head1(a, k + 1) = Head1(b, k + 1)
    <2> DEFINE D == Pow2[Width - (k + 1)]
    <2>1. /\ Width - (k + 1) \in 0 .. Width - 1 /\ Width - (k + 1) \in 0 .. Width
          /\ (Width - (k + 1)) + 1 = Width - k
      BY <1>2, WidthType
    <2>2. D \in Nat \ {0} /\ Pow2[Width - k] = 2 * D
      BY <2>1, PowersDefined
    <2>3. \A n \in Nat : n \div D = 2 * (n \div (2 * D)) + ((n \div D) % 2)
      BY <2>2, HalfQuotient
    <2>4. /\ Head1(a, k + 1) = 2 * Head1(a, k) + Bit(a, k + 1)
          /\ Head1(b, k + 1) = 2 * Head1(b, k) + Bit(b, k + 1)
      <3>1. k + 1 \in 1 .. Width
        BY <1>2, WidthType
      <3>2. Bit(a, k + 1) = (Num(a) \div D) % 2 /\ Bit(b, k + 1) = (Num(b) \div D) % 2
        BY <3>1, BitOfNum
      <3> HIDE DEF D
      <3> QED BY <1>n, <2>2, <2>3, <3>2 DEF D
    <2>5. /\ Head1(a, k) \in Nat /\ Head1(b, k) \in Nat
          /\ Bit(a, k + 1) \in 0 .. 1 /\ Bit(b, k + 1) \in 0 .. 1
      <3>1. k + 1 \in 1 .. Width
        BY <1>2, WidthType
      <3>2. Bit(a, k + 1) = (Num(a) \div D) % 2 /\ Bit(b, k + 1) = (Num(b) \div D) % 2
        BY <3>1, BitOfNum
      <3> HIDE DEF D
      <3> QED BY <1>n, <2>2, <3>2
    <2>6. AgreeOn(a, b, k + 1) <=> AgreeOn(a, b, k) /\ Bit(a, k + 1) = Bit(b, k + 1)
      <3>1. \A i \in Int : i \in 1 .. k + 1 <=> i \in 1 .. k \/ i = k + 1
        OBVIOUS
      <3> HIDE DEF T, Head1, D
      <3> QED BY <3>1 DEF AgreeOn
    <2>7. AgreeOn(a, b, k) <=> Head1(a, k) = Head1(b, k)
      BY <1>2, WidthType
    <2> HIDE DEF Head1, D
    <2> QED BY <2>4, <2>5, <2>6, <2>7
  <1>3. bits \in T
    <2>1. \A k \in Nat : k \in T => k + 1 \in T
      BY <1>2
    <2> HIDE DEF T
    <2> QED BY <1>1, <2>1, Induction, WidthType
  <1>4. AgreeOn(a, b, bits) <=> Head1(a, bits) = Head1(b, bits)
    BY <1>3
  <1>5. CASE bits = 0
    <2>1. AgreeOn(a, b, bits)
      BY <1>5 DEF AgreeOn
    <2> QED BY <1>5, <2>1 DEF Masked
  <1>6. CASE bits # 0
    <2> DEFINE D == Pow2[Width - bits]
    <2>1. D \in Nat \ {0}
      <3>1. Width - bits \in 0 .. Width
        BY WidthType
      <3> QED BY <3>1, PowersDefined
    <2>2. Masked(Num(a), bits) = Num(a) - (Num(a) % D) /\ Masked(Num(b), bits) = Num(b) - (Num(b) % D)
      BY <1>6 DEF Masked
    <2>3. Head1(a, bits) = Num(a) \div D /\ Head1(b, bits) = Num(b) \div D
      OBVIOUS
    <2> HIDE DEF D, Head1
    <2>4. \A x, y \in Nat : x - (x % D) = y - (y % D) <=> x \div D = y \div D
      BY <2>1
    <2> QED BY <1>4, <1>n, <2>2, <2>3, <2>4
  <1> QED BY <1>5, <1>6

------------------------------------------------------------------------------
(***************************************************************************)
(* What the matchers find is what the texts mean.                          *)
(***************************************************************************)
LEMMA CidrMeans ==
    ASSUME NEW p, p.kind = "net", p.addr \in Addresses, p.bits \in Nat,
           NEW t, t.kind = "host", t.addr \in Addresses
    PROVE  CidrMatch(p, t) <=> Means(p, t.addr)
  <1>1. CASE p.bits <= Width
    <2>1. p.bits \in 0 .. Width
      BY <1>1, WidthType
    <2> QED BY <1>1, <2>1, MaskedAgree DEF CidrMatch, Parses, Means
  <1>2. CASE ~(p.bits <= Width)
    BY <1>2 DEF CidrMatch, Means
  <1> QED BY <1>1, <1>2

LEMMA RangeMeans ==
    ASSUME NEW p, p.kind = "range", p.lo \in Addresses, p.hi \in Addresses,
           NEW t, t.kind = "host", t.addr \in Addresses
    PROVE  RangeMatch(p, t) <=> Means(p, t.addr)
  <1>1. Num(p.lo) \in Nat /\ Num(p.hi) \in Nat /\ Num(t.addr) \in Nat
    BY NumType
  <1>2. RangeMatch(p, t) <=> ~(Num(t.addr) < Num(p.lo)) /\ ~(Num(p.hi) < Num(t.addr))
    BY <1>1 DEF RangeMatch, Parses
  <1>3. Means(p, t.addr) <=> ~Before(t.addr, p.lo) /\ ~Before(p.hi, t.addr)
    BY DEF Means
  <1> QED BY <1>2, <1>3, NumOrder

LEMMA WildMeans ==
    ASSUME NEW p, p.kind = "wild", NEW t, t.kind = "host"
    PROVE  WildcardMatch(p, t) <=> Means(p, t.addr)
  BY DEF WildcardMatch, Means

\* A pattern finds every address it speaks of.
LEMMA MeantIsMatched ==
    ASSUME NEW p, IsText(p), IsPlain(p), NEW a \in Addresses, Means(p, a),
           NEW u, Bare(u) = Host(a)
    PROVE  MatchesPattern(u, p)
  <1>1. Host(a).kind = "host" /\ Host(a).addr = a
    BY DEF Host
  <1>2. p # Empty
    BY DEF Means, Empty, Partial
  <1>3. CASE p.kind = "host"
    <2>1. p = Host(a)
      BY <1>3 DEF IsText, Means
    <2> QED BY <1>2, <2>1 DEF MatchesPattern
  <1>4. CASE p.kind = "net"
    <2>1. p.addr \in Addresses /\ p.bits \in Nat
      BY <1>4 DEF IsText
    <2>2. CidrMatch(p, Host(a))
      BY <1>1, <1>4, <2>1, CidrMeans
    <2> QED BY <1>2, <1>4, <2>2 DEF MatchesPattern
  <1>5. CASE p.kind = "wild"
    <2>1. WildcardMatch(p, Host(a))
      BY <1>1, <1>5, WildMeans
    <2> QED BY <1>2, <1>5, <2>1 DEF MatchesPattern
  <1>6. CASE p.kind = "range"
    <2>1. p.lo \in Addresses /\ p.hi \in Addresses
      BY <1>6 DEF IsText
    <2>2. RangeMatch(p, Host(a))
      BY <1>1, <1>6, <2>1, RangeMeans
    <2> QED BY <1>2, <1>6, <2>2 DEF MatchesPattern
  <1>7. CASE p.kind = "partial"
    <2>1. Len(p.parts) \in 1 .. 3 /\ \A i \in 1 .. Len(p.parts) : p.parts[i] = a[i]
      BY <1>7 DEF Means
    <2>2. StartsWith(Host(a), p)
      BY <1>1, <1>7, <2>1 DEF StartsWith, DecimalPrefix
    <2> QED BY <1>2, <2>2 DEF MatchesPattern
  <1> QED BY <1>3, <1>4, <1>5, <1>6, <1>7 DEF IsPlain

\* The digits of a number, taken from the other side.
LEMMA DigitsBegin ==
    ASSUME NEW m \in Nat, NEW n \in Nat, DecimalPrefix(m, n)
    PROVE  \/ n = m
           \/ m # 0 /\ n \in 10 * m .. 10 * m + 9
           \/ m # 0 /\ n \in 100 * m .. 100 * m + 99
  BY DEF DecimalPrefix

\* A text that is not empty has parts.
LEMMA PartsType ==
    ASSUME NEW s \in Seq(Octets), s # <<>>
    PROVE  Len(s) \in Nat \ {0} /\ \A i \in 1 .. Len(s) : s[i] \in Octets
  <1>1. Len(s) \in Nat /\ \A i \in 1 .. Len(s) : s[i] \in Octets
    OBVIOUS
  <1>2. Len(s) # 0
    OBVIOUS
  <1> QED BY <1>1, <1>2

\* A text that begins with the pattern has the address before its last part.
LEMMA PrefixMeans ==
    ASSUME NEW t, IsText(t), NEW p, IsText(p), StartsWith(t, p), p # Empty
    PROVE  LET first == IF t.kind = "range" THEN t.lo ELSE t.addr
           IN  Means(p, first) \/ BeginsTheDigits(p, first)
  <1> DEFINE first == IF t.kind = "range" THEN t.lo ELSE t.addr
             parts == IF p.kind = "host" THEN p.addr ELSE p.parts
             n == Len(parts)
  <1>a. \A i \in 1 .. 4 : first[i] \in Nat
    <2>1. first \in Addresses
      BY DEF IsText, StartsWith
    <2> QED BY <2>1, BaseType DEF Addresses
  <1>1. CASE p.kind = "partial" /\ p.dot
    <2>1. Len(p.parts) \in 1 .. 3
      <3>1. p.parts \in Seq(Octets) /\ p.parts # <<>> /\ Len(p.parts) < 4
        BY <1>1 DEF IsText, StartsWith
      <3>2. Len(p.parts) \in Nat \ {0}
        BY <3>1, PartsType
      <3>3. \A k \in Nat \ {0} : k < 4 => k \in 1 .. 3
        OBVIOUS
      <3> QED BY <3>1, <3>2, <3>3
    <2> QED BY <1>1, <2>1 DEF StartsWith, Means
  <1>2. CASE p.kind = "host" \/ (p.kind = "partial" /\ ~p.dot)
    <2>1. n \in 1 .. 4 /\ \A i \in 1 .. n : parts[i] \in Octets
      <3>1. CASE p.kind = "host"
        <4>1. p.addr \in [1 .. 4 -> Octets]
          BY <3>1 DEF IsText, Addresses
        <4> QED BY <3>1, <4>1
      <3>2. CASE p.kind = "partial" /\ ~p.dot
        <4>1. p.parts \in Seq(Octets) /\ p = Partial(p.parts, FALSE)
          BY <3>2 DEF IsText, Partial
        <4>2. p.parts # <<>>
          BY <4>1 DEF Empty
        <4>3. Len(p.parts) <= 4
          BY <3>2 DEF StartsWith
        <4>4. Len(p.parts) \in Nat \ {0} /\ \A i \in 1 .. Len(p.parts) : p.parts[i] \in Octets
          BY <4>1, <4>2, PartsType
        <4>5. parts = p.parts
          BY <3>2
        <4> HIDE DEF parts
        <4>6. n \in 1 .. 4
          <5>1. \A k \in Nat \ {0} : k <= 4 => k \in 1 .. 4
            OBVIOUS
          <5> QED BY <4>3, <4>4, <4>5, <5>1
        <4> QED BY <4>4, <4>5, <4>6
      <3> QED BY <1>2, <3>1, <3>2
    <2>2. \A i \in 1 .. n : i # n => parts[i] = first[i]
      BY <1>2 DEF StartsWith
    <2>3. DecimalPrefix(parts[n], first[n])
      <3>1. \A i \in 1 .. n : i = n => DecimalPrefix(parts[i], first[i])
        BY <1>2 DEF StartsWith
      <3> HIDE DEF parts, first
      <3> QED BY <2>1, <3>1
    <2> HIDE DEF parts, first
    <2>4. parts[n] \in Nat /\ first[n] \in Nat
      <3>1. n \in 1 .. n
        BY <2>1
      <3>2. parts[n] \in Octets /\ first[n] \in Nat
        BY <1>a, <2>1, <3>1
      <3>3. Octets \subseteq Nat
        BY BaseType
      <3> QED BY <3>2, <3>3
    <2>5. \/ first[n] = parts[n]
          \/ parts[n] # 0 /\ first[n] \in 10 * parts[n] .. 10 * parts[n] + 9
          \/ parts[n] # 0 /\ first[n] \in 100 * parts[n] .. 100 * parts[n] + 99
      BY <2>3, <2>4, DigitsBegin
    <2>6. \A i \in 1 .. n - 1 : parts[i] = first[i]
      BY <2>1, <2>2
    <2>7. BeginsTheDigits(p, first)
      BY <1>2, <2>1, <2>5, <2>6 DEF BeginsTheDigits, parts
    <2> QED BY <2>7 DEF first
  <1> QED BY <1>1, <1>2 DEF StartsWith

\* What a pattern finds has a first address, which the pattern speaks of or
\* whose digits it begins.
LEMMA MatchedIsMeant ==
    ASSUME NEW t, IsText(t), NEW p, IsText(p), MatchesPattern(t, p), t # p
    PROVE  /\ HasFirst(t)
           /\ Means(p, First(t)) \/ BeginsTheDigits(p, First(t))
  <1> DEFINE h == Bare(t)
  <1>1. CASE h.kind = "host"
    <2>1. /\ h = Host(t.addr) /\ h.kind = "host" /\ h.addr = t.addr /\ t.addr \in Addresses
          /\ HasFirst(t) /\ First(t) = t.addr
      BY <1>1 DEF IsText, Bare, Host, HasFirst, First
    <2> HIDE DEF h
    <2>2. CASE p = h
      BY <2>1, <2>2 DEF Means
    <2>3. CASE p.kind = "net" /\ CidrMatch(p, h)
      <3>1. p.addr \in Addresses /\ p.bits \in Nat
        BY <2>3 DEF IsText
      <3> QED BY <2>1, <2>3, <3>1, CidrMeans
    <2>4. CASE p.kind = "wild" /\ WildcardMatch(p, h)
      BY <2>1, <2>4, WildMeans
    <2>5. CASE p.kind = "range" /\ RangeMatch(p, h)
      <3>1. p.lo \in Addresses /\ p.hi \in Addresses
        BY <2>5 DEF IsText
      <3> QED BY <2>1, <2>5, <3>1, RangeMeans
    <2>6. CASE StartsWith(h, p) /\ p # Empty
      <3>1. IsText(h)
        BY <2>1 DEF IsText
      <3> QED BY <2>1, <2>6, <3>1, PrefixMeans
    <2> QED BY <2>2, <2>3, <2>4, <2>5, <2>6 DEF MatchesPattern, h
  <1>2. CASE h.kind # "host"
    <2>1. t.kind \notin {"host", "net"} /\ h = t
      BY <1>2 DEF Bare, Host
    <2>2. StartsWith(t, p) /\ p # Empty
      BY <2>1 DEF MatchesPattern, CidrMatch, RangeMatch, WildcardMatch, Parses
    <2>3. t.kind = "range" /\ HasFirst(t) /\ First(t) = t.lo
      BY <2>1, <2>2 DEF StartsWith, HasFirst, First
    <2> QED BY <2>2, <2>3, PrefixMeans
  <1> QED BY <1>1, <1>2

------------------------------------------------------------------------------
\* What the list may hold.
Keepable == {Normalized(t) : t \in Entries \cup News}

Types ==
    /\ old \in Patterns /\ new \in News
    /\ current \in Seq(Entries)
    /\ next \in 1 .. Len(current) + 1
    /\ new_ips \in Seq(Keepable)
    /\ Len(new_ips) <= IF outcome = "none" THEN next - 1 ELSE Len(current) + 1
    /\ outcome \in {"none", "unchanged", "changed"}
    /\ outcome # "none" => next > Len(current)

\* What the pattern p leaves of a text of the old list.
Spared(p, x) == \E t \in Entries : x = Normalized(t) /\ ~MatchesPattern(t, p)

(***************************************************************************)
(* The list holds what the pattern leaves of the old one, all of it as far *)
(* as the loop has come, and at the end the new address.                   *)
(***************************************************************************)
ListIsMerged ==
    /\ \A i \in 1 .. Len(new_ips) :
          Spared(old, new_ips[i]) \/ (outcome # "none" /\ new_ips[i] = Normalized(new))
    /\ \A j \in 1 .. next - 1 : ~MatchesPattern(current[j], old) =>
          \E i \in 1 .. Len(new_ips) : new_ips[i] = Normalized(current[j])
    /\ outcome # "none" => \E i \in 1 .. Len(new_ips) : new_ips[i] = Normalized(new)

IInv == Types /\ ListIsMerged

LEMMA InitHolds == Init => IInv
  <1> SUFFICES ASSUME Init PROVE IInv
    OBVIOUS
  <1>1. current \in Seq(Entries)
    BY MergeAssumption DEF Init, SeqOf
  <1>2. Types
    BY <1>1 DEF Init, Types
  <1>3. ListIsMerged
    BY DEF Init, ListIsMerged
  <1> QED BY <1>2, <1>3 DEF IInv

LEMMA ExamineHolds == IInv /\ Examine => IInv'
  <1> SUFFICES ASSUME IInv, Examine PROVE IInv'
    OBVIOUS
  <1>1. /\ next \in Nat \ {0} /\ next <= Len(current) /\ next' = next + 1
        /\ UNCHANGED <<old, new, current, outcome>> /\ outcome = "none"
        /\ Len(current) \in Nat
    BY DEF IInv, Types, Examine
  <1>2. current[next] \in Entries
    BY <1>1 DEF IInv, Types
  <1>3. CASE MatchesPattern(current[next], old) /\ new_ips' = new_ips
    <2>1. Types'
      BY <1>1, <1>3 DEF IInv, Types
    <2>2. ListIsMerged'
      BY <1>1, <1>3 DEF IInv, ListIsMerged
    <2> QED BY <2>1, <2>2 DEF IInv
  <1>4. CASE /\ ~MatchesPattern(current[next], old)
             /\ new_ips' = Append(new_ips, Normalized(current[next]))
    <2>1. Normalized(current[next]) \in Keepable
      BY <1>2 DEF Keepable
    <2>2. /\ new_ips' \in Seq(Keepable) /\ Len(new_ips') = Len(new_ips) + 1
          /\ \A i \in 1 .. Len(new_ips') :
                new_ips'[i] = IF i <= Len(new_ips) THEN new_ips[i] ELSE Normalized(current[next])
      BY <1>4, <2>1 DEF IInv, Types
    <2>3. Types'
      BY <1>1, <2>2 DEF IInv, Types
    <2>4. ASSUME NEW i \in 1 .. Len(new_ips') PROVE Spared(old, new_ips'[i])
      <3>1. CASE i <= Len(new_ips)
        BY <1>1, <2>2, <3>1 DEF IInv, Types, ListIsMerged
      <3>2. CASE ~(i <= Len(new_ips))
        BY <1>1, <1>2, <1>4, <2>2, <3>2 DEF Spared
      <3> QED BY <3>1, <3>2
    <2>5. ASSUME NEW j \in 1 .. next, ~MatchesPattern(current[j], old)
          PROVE  \E i \in 1 .. Len(new_ips') : new_ips'[i] = Normalized(current[j])
      <3>1. CASE j = next
        <4>1. Len(new_ips) + 1 \in 1 .. Len(new_ips')
          BY <2>2 DEF IInv, Types
        <4> QED BY <2>2, <3>1, <4>1
      <3>2. CASE j \in 1 .. next - 1
        <4>1. PICK i \in 1 .. Len(new_ips) : new_ips[i] = Normalized(current[j])
          BY <2>5, <3>2 DEF IInv, ListIsMerged
        <4>2. i \in 1 .. Len(new_ips') /\ new_ips'[i] = new_ips[i]
          BY <2>2, <4>1 DEF IInv, Types
        <4> QED BY <4>1, <4>2
      <3> QED BY <1>1, <3>1, <3>2
    <2>6. \A j \in 1 .. next' - 1 : j \in 1 .. next
      BY <1>1
    <2>7. ListIsMerged'
      BY <1>1, <2>4, <2>5, <2>6 DEF ListIsMerged
    <2> QED BY <2>3, <2>7 DEF IInv
  <1> QED BY <1>3, <1>4 DEF Examine, Kept

LEMMA FinishHolds == IInv /\ Finish => IInv'
  <1> SUFFICES ASSUME IInv, Finish PROVE IInv'
    OBVIOUS
  <1>1. /\ UNCHANGED <<old, new, current, next>> /\ next > Len(current)
        /\ outcome = "none" /\ outcome' \in {"unchanged", "changed"}
        /\ Len(current) \in Nat /\ Len(new_ips) \in Nat /\ Len(new_ips) <= Len(current)
    BY DEF IInv, Types, Finish
  <1>2. CASE HasNew(new_ips, new) /\ new_ips' = new_ips
    <2>1. Types'
      BY <1>1, <1>2 DEF IInv, Types
    <2>2. \E i \in 1 .. Len(new_ips) : new_ips[i] = Normalized(new)
      BY <1>2 DEF HasNew, ToSet, IInv, Types
    <2>3. ListIsMerged'
      BY <1>1, <1>2, <2>2 DEF IInv, ListIsMerged
    <2> QED BY <2>1, <2>3 DEF IInv
  <1>3. CASE new_ips' = Append(new_ips, Normalized(new))
    <2>1. Normalized(new) \in Keepable
      BY DEF IInv, Types, Keepable
    <2>2. /\ new_ips' \in Seq(Keepable) /\ Len(new_ips') = Len(new_ips) + 1
          /\ \A i \in 1 .. Len(new_ips') :
                new_ips'[i] = IF i <= Len(new_ips) THEN new_ips[i] ELSE Normalized(new)
      BY <1>3, <2>1 DEF IInv, Types
    <2>3. Types'
      BY <1>1, <2>2 DEF IInv, Types
    <2>4. ASSUME NEW i \in 1 .. Len(new_ips')
          PROVE  Spared(old, new_ips'[i]) \/ new_ips'[i] = Normalized(new)
      BY <1>1, <2>2 DEF IInv, Types, ListIsMerged
    <2>5. new_ips'[Len(new_ips')] = Normalized(new) /\ Len(new_ips') \in 1 .. Len(new_ips')
      BY <1>1, <2>2
    <2>6. ASSUME NEW j \in 1 .. next - 1, ~MatchesPattern(current[j], old)
          PROVE  \E i \in 1 .. Len(new_ips') : new_ips'[i] = Normalized(current[j])
      <3>1. PICK i \in 1 .. Len(new_ips) : new_ips[i] = Normalized(current[j])
        BY <2>6 DEF IInv, ListIsMerged
      <3>2. i \in 1 .. Len(new_ips') /\ new_ips'[i] = new_ips[i]
        BY <2>2, <3>1 DEF IInv, Types
      <3> QED BY <3>1, <3>2
    <2>7. ListIsMerged'
      BY <1>1, <2>4, <2>5, <2>6 DEF ListIsMerged
    <2> QED BY <2>3, <2>7 DEF IInv
  <1> QED BY <1>2, <1>3 DEF Finish

LEMMA Invariant == Spec => []IInv
  <1>1. IInv /\ UNCHANGED vars => IInv'
    BY DEF vars, IInv, Types, ListIsMerged
  <1>2. IInv /\ [Next]_vars => IInv'
    BY <1>1, ExamineHolds, FinishHolds DEF Next
  <1> QED BY InitHolds, <1>2, PTL DEF Spec
------------------------------------------------------------------------------
(***************************************************************************)
(* Type correctness: the new list is at most one longer than the old one   *)
(* and holds nothing but addresses of the rule and the new one.            *)
(***************************************************************************)
THEOREM TypeCorrect == Spec => []TypeOK
  <1>1. IInv => TypeOK
    <2> SUFFICES ASSUME IInv PROVE TypeOK
      OBVIOUS
    <2>1. ToSet(new_ips) \subseteq Keepable
      BY DEF IInv, Types, ToSet
    <2>2. Len(new_ips) <= Len(current) + 1
      BY DEF IInv, Types
    <2> QED BY <2>1, <2>2 DEF IInv, Types, TypeOK, Keepable
  <1> QED BY Invariant, <1>1, PTL

(***************************************************************************)
(* An update that has changed the list finds, when it is repeated, that    *)
(* nothing is to drop and the new address is there, although netsh prints  *)
(* the hosts with a mask: for every old list, every old pattern and every  *)
(* new address without commas which that pattern does not match.           *)
(***************************************************************************)
THEOREM RepetitionIsIdle == Spec => []RepeatedUpdateChangesNothing
  <1>1. IInv => RepeatedUpdateChangesNothing
    <2> DEFINE again == [i \in 1 .. Len(new_ips) |-> Printed(new_ips[i])]
               kept == [i \in 1 .. Len(again) |-> Kept(again[i])]
    <2> SUFFICES ASSUME IInv, outcome = "changed", ~MatchesPattern(Printed(Normalized(new)), old)
                 PROVE  /\ \A t \in ToSet(again) : ~MatchesPattern(t, old)
                        /\ HasNew(kept, new)
      BY DEF RepeatedUpdateChangesNothing
    <2>1. Len(new_ips) \in Nat /\ Len(again) = Len(new_ips)
      BY DEF IInv, Types
    <2>2. ASSUME NEW i \in 1 .. Len(new_ips) PROVE ~MatchesPattern(Printed(new_ips[i]), old)
      <3>1. CASE new_ips[i] = Normalized(new)
        BY <3>1
      <3>2. ASSUME NEW t \in Entries, new_ips[i] = Normalized(t), ~MatchesPattern(t, old)
            PROVE  ~MatchesPattern(Printed(new_ips[i]), old)
        <4>1. IsText(t)
          BY MergeAssumption
        <4> QED BY <3>2, <4>1, StillUnmatched
      <3> QED BY <3>1, <3>2 DEF IInv, ListIsMerged, Spared
    <2>3. \A t \in ToSet(again) : ~MatchesPattern(t, old)
      BY <2>2 DEF ToSet
    <2>4. PICK i \in 1 .. Len(new_ips) : new_ips[i] = Normalized(new)
      BY DEF IInv, ListIsMerged
    <2>5. IsText(new)
      BY MergeAssumption DEF IInv, Types
    <2>6. kept[i] = Normalized(new) /\ i \in DOMAIN kept
      <3>1. kept[i] = Normalized(Printed(Normalized(new))) /\ i \in DOMAIN kept
        BY <2>1, <2>4 DEF Kept
      <3> QED BY <3>1, <2>5, NormalizedAgain
    <2> HIDE DEF kept
    <2>7. HasNew(kept, new)
      BY <2>6 DEF HasNew, ToSet
    <2> QED BY <2>3, <2>7
  <1> QED BY Invariant, <1>1, PTL

(***************************************************************************)
(* Every address the old pattern speaks of is gone: the matchers find each *)
(* address that is meant (MeantIsMatched), whatever the loop kept is       *)
(* spared by them, and a text kept for another one has the same address.   *)
(***************************************************************************)
THEOREM DroppedIfMeant == Spec => []DropsWhatIsMeant
  <1>1. IInv => DropsWhatIsMeant
    <2> SUFFICES ASSUME IInv, IsPlain(old), NEW t \in Examined, IsHost(t), Means(old, t.addr),
                        Normalized(t) # Normalized(new), Normalized(t) \in ToSet(new_ips)
                 PROVE  FALSE
      BY DEF DropsWhatIsMeant
    <2>1. IsText(t) /\ IsText(old)
      BY MergeAssumption DEF IInv, Types, Examined
    <2>2. PICK i \in 1 .. Len(new_ips) : new_ips[i] = Normalized(t)
      BY DEF ToSet, IInv, Types
    <2>3. PICK u \in Entries : Normalized(u) = Normalized(t) /\ ~MatchesPattern(u, old)
      BY <2>2 DEF IInv, ListIsMerged, Spared
    <2>4. IsText(u)
      BY MergeAssumption
    <2>5. t.addr \in Addresses /\ Normalized(t) = Host(t.addr)
      BY <2>1 DEF IsText, IsHost, Normalized, Host, Net
    <2>6. Bare(u) = Host(t.addr)
      BY <2>3, <2>4, <2>5 DEF IsText, Normalized, Bare, Host, Net
    <2> QED BY <2>1, <2>3, <2>4, <2>5, <2>6, MeantIsMatched
  <1> QED BY Invariant, <1>1, PTL

(***************************************************************************)
(* What the loop has passed and does not keep is matched by the old        *)
(* pattern, which speaks of its first address or is the beginning of that  *)
(* address's digits, with at most two digits more in one part.  The second *)
(* case is no intention of the code: OnlyMeantIsDropped is violated.       *)
(***************************************************************************)
THEOREM NothingElseDropped == Spec => []DropsNothingElse
  <1>1. IInv => DropsNothingElse
    <2> SUFFICES ASSUME IInv, NEW t \in Examined, Normalized(t) \notin ToSet(new_ips), t # old
                 PROVE  /\ HasFirst(t)
                        /\ Means(old, First(t)) \/ BeginsTheDigits(old, First(t))
      BY DEF DropsNothingElse
    <2>1. PICK j \in 1 .. next - 1 : t = current[j]
      BY DEF Examined
    <2>2. IsText(t) /\ IsText(old)
      BY <2>1, MergeAssumption DEF IInv, Types
    <2>3. ~(\E i \in 1 .. Len(new_ips) : new_ips[i] = Normalized(t))
      BY DEF ToSet, IInv, Types
    <2>4. MatchesPattern(t, old)
      BY <2>1, <2>3 DEF IInv, ListIsMerged
    <2> QED BY <2>2, <2>4, MatchedIsMeant
  <1> QED BY Invariant, <1>1, PTL
==============================================================================
