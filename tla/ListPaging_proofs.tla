-------------------------- MODULE ListPaging_proofs --------------------------
(***************************************************************************)
(* What the list command promises for any rules and weights: a datagram    *)
(* never exceeds the limit, a page is as full as it can be, hints lead     *)
(* further, and pages read one after the other under an unchanged rule set *)
(* by a backend that works continue each other and end with the last rule. *)
(*                                                                         *)
(* Size, Filtered and SafeCount are defined by recursion and by a choice.  *)
(* That they are defined at all is shown by induction, in the form that a  *)
(* set of natural numbers which is not empty has a least element.          *)
(***************************************************************************)
EXTENDS ListPaging, SequenceTheorems, FiniteSetTheorems, WellFoundedInduction, TLAPS

Below == {p \in Nat \X Nat : p[1] < p[2]}

LEMMA LeastElement ==
    ASSUME NEW T, T \subseteq Nat, T # {}
    PROVE  \E x \in T : \A y \in T : x <= y
<1>1. IsWellFoundedOn(Below, Nat)
    BY NatLessThanWellFounded DEF OpToRel, Below
<1>2. PICK x \in T : \A y \in T : ~(<<y, x>> \in Below)
    BY <1>1, WFMin
<1>3. ASSUME NEW y \in T
      PROVE  x <= y
    <2>1. x \in Nat /\ y \in Nat
        OBVIOUS
    <2>2. ~(y < x)
        BY <1>2, <2>1 DEF Below
    <2> QED BY <2>1, <2>2
<1> QED BY <1>3

LEMMA Induction ==
    ASSUME NEW T, 0 \in T, \A n \in Nat : n \in T => n + 1 \in T
    PROVE  Nat \subseteq T
<1> DEFINE Rest == {n \in Nat : n \notin T}
<1> SUFFICES ASSUME Rest # {} PROVE FALSE
    OBVIOUS
<1>1. PICK x \in Rest : \A y \in Rest : x <= y
    <2>1. Rest \subseteq Nat
        OBVIOUS
    <2> HIDE DEF Rest
    <2> QED BY LeastElement, <2>1
<1>2. x \in Nat /\ x # 0
    OBVIOUS
<1>3. x - 1 \in Nat /\ x - 1 \notin Rest
    BY <1>1, <1>2
<1> QED BY <1>2, <1>3

\* g goes from position to position by the given steps.
Follows(g, N, base, step) == g[0] = base /\ \A n \in 1 .. N : g[n] = step[n][g[n - 1]]

\* A function can be defined by recursion on the position in a list.
LEMMA Recursion ==
    ASSUME NEW N \in Nat, NEW S, NEW base \in S, NEW step \in [1 .. N -> [S -> S]]
    PROVE  \E g \in [0 .. N -> S] : Follows(g, N, base, step)
<1> DEFINE Defined(m) ==
               \E g \in [0 .. m -> S] : g[0] = base /\ \A n \in 1 .. m : g[n] = step[n][g[n - 1]]
           Good == {m \in Nat : m <= N => Defined(m)}
<1>1. Defined(0)
    <2> DEFINE g == [n \in 0 .. 0 |-> base]
    <2>1. g \in [0 .. 0 -> S] /\ g[0] = base
        OBVIOUS
    <2>2. \A n \in 1 .. 0 : g[n] = step[n][g[n - 1]]
        OBVIOUS
    <2> QED BY <2>1, <2>2
<1>2. ASSUME NEW m \in Nat, m + 1 <= N, Defined(m)
      PROVE  Defined(m + 1)
    <2>1. PICK g \in [0 .. m -> S] : g[0] = base /\ \A n \in 1 .. m : g[n] = step[n][g[n - 1]]
        BY <1>2
    <2> DEFINE h == [n \in 0 .. m + 1 |-> IF n <= m THEN g[n] ELSE step[m + 1][g[m]]]
    <2>2. g[m] \in S /\ step[m + 1] \in [S -> S]
        BY <1>2
    <2>3. step[m + 1][g[m]] \in S
        BY <2>2
    <2>4. h \in [0 .. m + 1 -> S]
        BY <2>3
    <2>5. /\ \A n \in 0 .. m : h[n] = g[n]
          /\ h[m + 1] = step[m + 1][g[m]]
        OBVIOUS
    <2> HIDE DEF h
    <2>6. h[0] = base
        BY <2>1, <2>5
    <2>7. ASSUME NEW n \in 1 .. m + 1
          PROVE  h[n] = step[n][h[n - 1]]
        <3>1. CASE n \in 1 .. m
            <4>1. n \in 0 .. m /\ n - 1 \in 0 .. m
                BY <3>1
            <4>2. h[n] = g[n] /\ h[n - 1] = g[n - 1] /\ g[n] = step[n][g[n - 1]]
                BY <2>1, <2>5, <3>1, <4>1
            <4> QED BY <4>2
        <3>2. CASE n = m + 1
            <4>1. n - 1 = m /\ h[m] = g[m]
                BY <2>5, <3>2
            <4> QED BY <2>5, <3>2, <4>1
        <3> QED BY <3>1, <3>2
    <2> QED BY <2>4, <2>6, <2>7
<1> HIDE DEF Defined
<1>3. 0 \in Good /\ \A m \in Nat : m \in Good => m + 1 \in Good
    BY <1>1, <1>2
<1>4. N \in Good
    <2> HIDE DEF Good
    <2> QED BY <1>3, Induction
<1>5. Defined(N)
    BY <1>4
<1> QED BY <1>5 DEF Defined, Follows

------------------------------------------------------------------------------
\* The length of a response is defined, and a number.
LEMMA SizesDefined ==
    ASSUME NEW list \in Seq(Rules)
    PROVE  /\ Sizes(list) \in [0 .. Len(list) -> Nat]
           /\ Sizes(list)[0] = Overhead
           /\ \A n \in 1 .. Len(list) : Sizes(list)[n] = Sizes(list)[n - 1] + Added(list, n)
<1> DEFINE N == Len(list)
           Next1(f) == [n \in 0 .. N |-> IF n = 0 THEN Overhead ELSE f[n - 1] + Added(list, n)]
<1>n. N \in Nat /\ \A n \in 1 .. N : list[n] \in Rules
    OBVIOUS
<1>w. \A n \in 1 .. N : Added(list, n) \in Nat
    BY <1>n, PagingAssumption DEF Added
<1>o. Overhead \in Nat
    BY PagingAssumption
<1>1. \E g : g = Next1(g)
    <2> DEFINE step == [n \in 1 .. N |-> [bytes \in Nat |-> bytes + Added(list, n)]]
    <2>1. step \in [1 .. N -> [Nat -> Nat]]
        BY <1>w
    <2>2. PICK g \in [0 .. N -> Nat] : Follows(g, N, Overhead, step)
        <3> HIDE DEF step, N
        <3> QED BY <2>1, <1>n, <1>o, Recursion, Zenon
    <2>3. ASSUME NEW n \in 1 .. N
          PROVE  g[n] = g[n - 1] + Added(list, n)
        <3>1. g[n] = step[n][g[n - 1]] /\ g[n - 1] \in Nat
            BY <2>2 DEF Follows
        <3> QED BY <3>1
    <2>4. g = Next1(g)
        BY <2>2, <2>3 DEF Follows
    <2> QED BY <2>4
<1>2. Sizes(list) = Next1(Sizes(list))
    BY <1>1 DEF Sizes
<1>3. \A n \in 0 .. N : Sizes(list)[n] = IF n = 0 THEN Overhead ELSE Sizes(list)[n - 1] + Added(list, n)
    BY <1>2
<1>4. \A n \in 0 .. N : Sizes(list)[n] \in Nat
    <2> DEFINE T == {n \in Nat : n <= N => Sizes(list)[n] \in Nat}
    <2>1. 0 \in T
        BY <1>3, <1>o
    <2>2. ASSUME NEW n \in Nat, n \in T PROVE n + 1 \in T
        BY <1>3, <1>w, <2>2
    <2>3. Nat \subseteq T
        <3> HIDE DEF T
        <3> QED BY <2>1, <2>2, Induction
    <2> QED BY <2>3
<1>5. \A n \in 1 .. N : Sizes(list)[n] = Sizes(list)[n - 1] + Added(list, n)
    BY <1>3
<1>6. Sizes(list) \in [0 .. N -> Nat]
    <2> HIDE DEF N
    <2> QED BY <1>2, <1>4
<1>7. Sizes(list)[0] = Overhead
    BY <1>3, <1>n
<1> QED BY <1>5, <1>6, <1>7

\* One more rule makes a response longer by what it adds.
LEMMA SizeGrows ==
    ASSUME NEW short \in Seq(Rules), NEW long \in Seq(Rules),
           Len(long) = Len(short) + 1, \A i \in 1 .. Len(short) : long[i] = short[i]
    PROVE  Size(long) = Size(short) + Added(long, Len(long))
<1> DEFINE N == Len(short)
           T == {n \in Nat : n <= N => Sizes(long)[n] = Sizes(short)[n]}
<1>n. N \in Nat /\ Len(long) = N + 1 /\ \A i \in 1 .. N : long[i] = short[i]
    OBVIOUS
<1>1. /\ Sizes(short)[0] = Overhead /\ Sizes(long)[0] = Overhead
      /\ \A n \in 1 .. N : Sizes(short)[n] = Sizes(short)[n - 1] + Added(short, n)
      /\ \A n \in 1 .. N + 1 : Sizes(long)[n] = Sizes(long)[n - 1] + Added(long, n)
    BY <1>n, SizesDefined
<1> HIDE DEF N
<1>2. 0 \in T
    BY <1>1
<1>3. ASSUME NEW n \in Nat, n \in T PROVE n + 1 \in T
    <2> SUFFICES ASSUME n + 1 <= N PROVE Sizes(long)[n + 1] = Sizes(short)[n + 1]
        OBVIOUS
    <2>1. /\ n + 1 \in 1 .. N /\ n + 1 \in 1 .. N + 1 /\ (n + 1) - 1 = n
          /\ Sizes(long)[n] = Sizes(short)[n]
        BY <1>n, <1>3
    <2>2. Added(long, n + 1) = Added(short, n + 1)
        BY <1>n, <2>1 DEF Added
    <2> QED BY <1>1, <2>1, <2>2
<1>4. Nat \subseteq T
    <2> HIDE DEF T
    <2> QED BY <1>2, <1>3, Induction
<1>5. Sizes(long)[N] = Sizes(short)[N]
    BY <1>4, <1>n
<1>6. N + 1 \in 1 .. N + 1 /\ (N + 1) - 1 = N
    BY <1>n
<1>7. Sizes(long)[N + 1] = Sizes(short)[N] + Added(long, N + 1)
    BY <1>1, <1>5, <1>6
<1> QED BY <1>n, <1>7 DEF Size, N

\* The length of the response with the given rules and one more.
SizeWith(rules, r) == Size(rules) + (Weight[r] + IF rules = <<>> THEN 0 ELSE 1)

\* The filter yields rules, no more than it is given.
LEMMA FilteredType ==
    ASSUME NEW list \in Seq(Rules), NEW f
    PROVE  Filtered(list, f) \in Seq(Rules) /\ Len(Filtered(list, f)) <= Len(list)
<1> DEFINE N == Len(list)
           K == Passed(list, f)
           Add(kept, n) == IF list[n] \in f THEN Append(kept, list[n]) ELSE kept
           Next1(g) == [n \in 0 .. N |-> IF n = 0 THEN <<>> ELSE IF list[n] \in f
                           THEN Append(g[n - 1], list[n]) ELSE g[n - 1]]
<1>n. N \in Nat /\ \A n \in 1 .. N : list[n] \in Rules
    OBVIOUS
<1>1. \E g : g = Next1(g)
    <2> DEFINE step == [n \in 1 .. N |-> [kept \in Seq(Rules) |-> Add(kept, n)]]
    <2>1. step \in [1 .. N -> [Seq(Rules) -> Seq(Rules)]]
        BY <1>n, AppendProperties
    <2>2. <<>> \in Seq(Rules)
        OBVIOUS
    <2>3. PICK g \in [0 .. N -> Seq(Rules)] : Follows(g, N, <<>>, step)
        <3> HIDE DEF step, N
        <3> QED BY <2>1, <2>2, <1>n, Recursion, Zenon
    <2>4. ASSUME NEW n \in 1 .. N
          PROVE  g[n] = Add(g[n - 1], n)
        <3>1. g[n] = step[n][g[n - 1]]
            <4> HIDE DEF step, N
            <4> QED BY <2>3 DEF Follows
        <3>2. g[n - 1] \in Seq(Rules)
            OBVIOUS
        <3> QED BY <3>1, <3>2
    <2>5. g = Next1(g)
        <3>1. g[0] = <<>>
            BY <2>3 DEF Follows
        <3>2. ASSUME NEW n \in 0 .. N
              PROVE  g[n] = IF n = 0 THEN <<>> ELSE IF list[n] \in f
                                THEN Append(g[n - 1], list[n]) ELSE g[n - 1]
            <4>1. CASE n = 0
                BY <3>1, <4>1
            <4>2. CASE n # 0
                <5>1. n \in 1 .. N
                    BY <4>2, <1>n
                <5>2. g[n] = Add(g[n - 1], n)
                    BY <2>4, <5>1
                <5> QED BY <4>2, <5>2, Zenon
            <4> QED BY <4>1, <4>2
        <3> QED BY <3>2
    <2> QED BY <2>5
<1>2. K = Next1(K)
    BY <1>1 DEF Passed
<1>3. K[0] = <<>> /\ \A n \in 1 .. N : K[n] = Add(K[n - 1], n)
    <2> HIDE DEF K
    <2>1. \A n \in 0 .. N : K[n] = IF n = 0 THEN <<>> ELSE IF list[n] \in f
                                THEN Append(K[n - 1], list[n]) ELSE K[n - 1]
        BY <1>2
    <2> QED BY <2>1, <1>n
<1>4. \A n \in 0 .. N : K[n] \in Seq(Rules) /\ Len(K[n]) <= n
    <2> HIDE DEF K
    <2> DEFINE T == {n \in Nat : n <= N => K[n] \in Seq(Rules) /\ Len(K[n]) <= n}
    <2>1. 0 \in T
        <3>1. <<>> \in Seq(Rules) /\ Len(<<>>) <= 0
            OBVIOUS
        <3>2. K[0] \in Seq(Rules) /\ Len(K[0]) <= 0
            BY <1>3, <3>1, Zenon
        <3> QED BY <3>2
    <2>2. ASSUME NEW n \in Nat, n \in T, n + 1 <= N
          PROVE  K[n + 1] \in Seq(Rules) /\ Len(K[n + 1]) <= n + 1
        <3>1. K[n] \in Seq(Rules) /\ Len(K[n]) <= n /\ Len(K[n]) \in Nat
            BY <2>2
        <3>2. K[n + 1] = Add(K[n], n + 1) /\ list[n + 1] \in Rules
            BY <1>3, <1>n, <2>2
        <3> HIDE DEF N
        <3> QED BY <3>1, <3>2, AppendProperties
    <2>3. Nat \subseteq T
        <3>1. \A n \in Nat : n \in T => n + 1 \in T
            BY <2>2
        <3> HIDE DEF T
        <3> QED BY <2>1, <3>1, Induction
    <2> QED BY <2>3, <1>n
<1>5. Filtered(list, f) = K[N]
    BY DEF Filtered
<1> HIDE DEF K
<1> QED BY <1>4, <1>5, <1>n

\* Rules are added until one is too many, so there is a place to stop.
LEMMA SafeCountDefined ==
    ASSUME NEW list \in Seq(Rules)
    PROVE  /\ SafeCount(list) \in 0 .. Len(list)
           /\ \A m \in 1 .. SafeCount(list) : Fits(SubSeq(list, 1, m))
           /\ \/ SafeCount(list) = Len(list)
              \/ ~Fits(SubSeq(list, 1, SafeCount(list) + 1))
<1> DEFINE Stops(n) == n = Len(list) \/ ~Fits(SubSeq(list, 1, n + 1))
           T == {n \in 0 .. Len(list) : Stops(n)}
<1>n. Len(list) \in Nat
    OBVIOUS
<1>1. Len(list) \in T
    BY <1>n
<1>2. PICK n \in T : \A m \in T : n <= m
    <2>1. T \subseteq Nat /\ T # {}
        BY <1>1
    <2> HIDE DEF T
    <2> QED BY <2>1, LeastElement
<1> HIDE DEF Stops
<1>3. n \in 0 .. Len(list) /\ Stops(n)
    BY <1>2
<1>4. ASSUME NEW m \in 1 .. n
      PROVE  Fits(SubSeq(list, 1, m))
    <2>1. m - 1 \in 0 .. Len(list) /\ ~(n <= m - 1)
        BY <1>3, <1>n
    <2>2. ~Stops(m - 1)
        BY <1>2, <2>1
    <2>3. (m - 1) + 1 = m
        OBVIOUS
    <2> QED BY <2>2, <2>3 DEF Stops
<1> QED BY <1>3, <1>4 DEF Stops, SafeCount

\* The part of a list after position a and up to position b.
LEMMA PartOfList ==
    ASSUME NEW list \in Seq(Rules), NEW a \in Nat, NEW b \in a .. Len(list)
    PROVE  /\ SubSeq(list, a + 1, b) \in Seq(Rules)
           /\ Len(SubSeq(list, a + 1, b)) = b - a
           /\ \A i \in 1 .. b - a : SubSeq(list, a + 1, b)[i] = list[a + i]
<1>1. /\ a + 1 \in Int /\ b \in Int /\ b - (a + 1) + 1 = b - a
      /\ \A i \in a + 1 .. b : list[i] \in Rules
    OBVIOUS
<1>2. /\ SubSeq(list, a + 1, b) \in Seq(Rules)
      /\ Len(SubSeq(list, a + 1, b)) = IF a + 1 <= b THEN b - (a + 1) + 1 ELSE 0
      /\ \A i \in 1 .. b - (a + 1) + 1 : SubSeq(list, a + 1, b)[i] = list[(a + 1) + i - 1]
    BY <1>1, SubSeqProperties
<1>3. Len(SubSeq(list, a + 1, b)) = b - a
    BY <1>1, <1>2
<1>4. ASSUME NEW i \in 1 .. b - a
      PROVE  SubSeq(list, a + 1, b)[i] = list[a + i]
    <2>1. i \in 1 .. b - (a + 1) + 1 /\ (a + 1) + i - 1 = a + i
        BY <1>1
    <2> QED BY <1>2, <2>1, Zenon
<1> QED BY <1>2, <1>3, <1>4, Zenon

\* What is in a response: a part of the list from the offset on, which fits.
LEMMA PageContents ==
    ASSUME NEW list \in Seq(Rules), NEW asked \in Nat
    PROVE  LET p == Page(list, asked)
           IN  /\ p.total = Len(list)
               /\ p.offset = IF asked < Len(list) THEN asked ELSE Len(list)
               /\ p.rules \in Seq(Rules)
               /\ EndIndex(p) \in p.offset .. Len(list)
               /\ Size(p.rules) <= PageLimit
               /\ p.rules = SubSeq(list, p.offset + 1, EndIndex(p))
               /\ EndIndex(p) < Len(list) =>
                     SizeWith(p.rules, list[EndIndex(p) + 1]) > PageLimit
<1> DEFINE L == Len(list)
           offset == IF asked < L THEN asked ELSE L
           rest == SubSeq(list, offset + 1, L)
           n == SafeCount(rest)
           rules == SubSeq(rest, 1, n)
<1>n. L \in Nat /\ offset \in 0 .. L
    OBVIOUS
<1>1. rest \in Seq(Rules) /\ Len(rest) = L - offset /\ \A i \in 1 .. L - offset : rest[i] = list[offset + i]
    <2> HIDE DEF offset
    <2> QED BY <1>n, PartOfList
<1> HIDE DEF rest
<1>2. /\ n \in 0 .. L - offset /\ \A m \in 1 .. n : Fits(SubSeq(rest, 1, m))
      /\ n = L - offset \/ ~Fits(SubSeq(rest, 1, n + 1))
    BY <1>1, SafeCountDefined
<1> HIDE DEF n, offset
<1>3. /\ rules \in Seq(Rules) /\ Len(rules) = n
      /\ \A i \in 1 .. n : rules[i] = list[offset + i]
    <2>1. n \in 0 .. Len(rest) /\ 0 \in Nat /\ 0 + 1 = 1 /\ n - 0 = n
        BY <1>1, <1>2, <1>n
    <2>2. /\ SubSeq(rest, 0 + 1, n) \in Seq(Rules)
          /\ Len(SubSeq(rest, 0 + 1, n)) = n - 0
          /\ \A i \in 1 .. n - 0 : SubSeq(rest, 0 + 1, n)[i] = rest[0 + i]
        BY <1>1, <2>1, PartOfList
    <2>3. \A i \in 1 .. n : 0 + i = i /\ i \in 1 .. L - offset
        BY <1>2, <1>n
    <2> QED BY <1>1, <2>1, <2>2, <2>3
<1> HIDE DEF rules
<1>4. rules = SubSeq(list, offset + 1, offset + n)
    <2> DEFINE part == SubSeq(list, offset + 1, offset + n)
    <2>1. /\ part \in Seq(Rules) /\ Len(part) = n
          /\ \A i \in 1 .. n : part[i] = list[offset + i]
        <3>1. offset \in Nat /\ offset + n \in offset .. Len(list) /\ (offset + n) - offset = n
            BY <1>n, <1>2
        <3> QED BY <3>1, PartOfList
    <2> HIDE DEF part
    <2>2. rules = part
        BY <1>3, <2>1, SeqEqual
    <2> QED BY <2>2 DEF part
<1>l. PageLimit \in Nat /\ Overhead \in Nat /\ Overhead <= PageLimit
    BY PagingAssumption DEF PageLimit
<1>5. Size(rules) <= PageLimit
    <2>1. CASE n = 0
        <3>1. rules = <<>>
            BY <1>3, <2>1, EmptySeq
        <3>2. Size(<<>>) = Overhead
            <4>1. <<>> \in Seq(Rules) /\ Len(<<>>) = 0
                OBVIOUS
            <4>2. Sizes(<<>>)[0] = Overhead
                BY <4>1, SizesDefined
            <4> QED BY <4>1, <4>2 DEF Size
        <3> QED BY <1>l, <3>1, <3>2
    <2>2. CASE n # 0
        <3>1. Fits(rules)
            BY <1>2, <2>2, <1>n DEF rules
        <3>2. Size(rules) \in Nat
            BY <1>3, SizesDefined DEF Size
        <3> QED BY <1>l, <3>1, <3>2 DEF Fits
    <2> QED BY <2>1, <2>2
<1>f. offset + n < L => SizeWith(rules, list[offset + n + 1]) > PageLimit
    <2> SUFFICES ASSUME offset + n < L
                 PROVE  SizeWith(rules, list[offset + n + 1]) > PageLimit
        OBVIOUS
    <2> DEFINE more == SubSeq(rest, 0 + 1, n + 1)
    <2>1. n + 1 \in 0 .. Len(rest) /\ 0 \in Nat /\ (n + 1) - 0 = n + 1 /\ 0 + 1 = 1
        BY <1>1, <1>2, <1>n
    <2>2. /\ more \in Seq(Rules) /\ Len(more) = (n + 1) - 0
          /\ \A i \in 1 .. (n + 1) - 0 : more[i] = rest[0 + i]
        BY <1>1, <2>1, PartOfList
    <2>3. ~Fits(more)
        BY <1>2, <1>n, <2>1
    <2> HIDE DEF more
    <2>4. /\ \A i \in 1 .. n + 1 : 0 + i = i /\ i \in 1 .. L - offset
          /\ \A i \in 1 .. n : i \in 1 .. n + 1
          /\ n + 1 \in 1 .. n + 1 /\ offset + (n + 1) = offset + n + 1
        BY <1>2, <1>n, <2>1, <1>1
    <2>5. \A i \in 1 .. n + 1 : more[i] = list[offset + i]
        BY <1>1, <2>1, <2>2, <2>4
    <2>6. Size(more) = Size(rules) + Added(more, Len(more))
        <3>1. Len(more) = Len(rules) + 1
            BY <1>3, <2>2, <2>1
        <3>2. \A i \in 1 .. Len(rules) : more[i] = rules[i]
            BY <1>3, <2>4, <2>5
        <3> QED BY <1>3, <2>2, <3>1, <3>2, SizeGrows, Zenon
    <2>7. more[Len(more)] = list[offset + n + 1]
        BY <2>1, <2>2, <2>4, <2>5
    <2>8. Size(more) > PageLimit
        BY <2>3 DEF Fits
    <2>9. Added(more, Len(more)) = Weight[list[offset + n + 1]] + IF rules = <<>> THEN 0 ELSE 1
        <3>1. Len(more) = n + 1 /\ (n + 1 = 1 <=> rules = <<>>)
            BY <1>2, <1>3, <1>n, <2>1, <2>2, EmptySeq
        <3> QED BY <2>7, <3>1 DEF Added
    <2> QED BY <2>6, <2>8, <2>9 DEF SizeWith
<1>6. Page(list, asked) = [offset |-> offset, total |-> L, rules |-> rules]
    BY DEF Page, offset, rules, n, rest
<1>7. EndIndex(Page(list, asked)) = offset + n
    BY <1>3, <1>6 DEF EndIndex
<1>8. offset + n \in offset .. L
    BY <1>2, <1>n
<1>9. offset = IF asked < Len(list) THEN asked ELSE Len(list)
    BY DEF offset
<1> DEFINE p == Page(list, asked)
<1>10. p.offset = offset /\ p.total = L /\ p.rules = rules
    BY <1>6
<1> HIDE DEF p
<1> QED BY <1>3, <1>4, <1>5, <1>f, <1>7, <1>8, <1>9, <1>10 DEF p

------------------------------------------------------------------------------
\* The part of the type invariant that speaks of the last page.
PageOK ==
    /\ page.total \in 0 .. Cardinality(Rules)
    /\ page.offset \in 0 .. page.total
    /\ page.rules \in Seq(Rules)
    /\ EndIndex(page) \in 0 .. page.total

\* The test response of the last page is within the limit.
PageWithinLimit == Size(page.rules) <= PageLimit

\* There is a hint only when the next rule is too much for the page.
PageIsFull ==
    HasHint(page) => \E r \in Rules : SizeWith(page.rules, r) > PageLimit

IInv == TypeOK /\ PageWithinLimit /\ PageIsFull

\* Rules that are listed at most once are at most all of them.
LEMMA ListedOnce ==
    ASSUME NEW list \in Seq(Rules), IsInjective(list)
    PROVE  Len(list) <= Cardinality(Rules)
<1>1. list \in Injection(1 .. Len(list), Rules)
    BY DEF Injection
<1>2. Cardinality(1 .. Len(list)) <= Cardinality(Rules)
    BY <1>1, FS_Injection, PagingAssumption
<1>3. Len(list) \in Nat
    OBVIOUS
<1>4. Cardinality(1 .. Len(list)) = Len(list)
    <2>1. Cardinality(1 .. Len(list)) = IF 1 > Len(list) THEN 0 ELSE Len(list) - 1 + 1
        BY <1>3, FS_Interval
    <2> QED BY <1>3, <2>1
<1> QED BY <1>2, <1>4

\* An order in which rules can be listed.
LEMMA ListingType ==
    ASSUME NEW S \in SUBSET Rules, NEW list \in Listings(S)
    PROVE  list \in Seq(Rules) /\ IsInjective(list)
<1>1. Cardinality(S) \in Nat
    BY FS_Subset, FS_CardinalityType, PagingAssumption
<1>2. list \in [1 .. Cardinality(S) -> Rules] /\ IsInjective(list)
    BY DEF Listings
<1> QED BY <1>1, <1>2

LEMMA ListRulesType ==
    ASSUME TypeOK, NEW list \in ListRules
    PROVE  list \in Seq(Rules) /\ IsInjective(list)
<1>1. CASE list \in Shown /\ Shuffled
    <2>1. ToSet(table) \in SUBSET Rules
        BY DEF TypeOK, ToSet
    <2> QED BY <1>1, <2>1, ListingType DEF Shown
<1>2. CASE list \in Shown /\ ~Shuffled
    BY <1>2 DEF Shown, TypeOK
<1>3. CASE list \in Fallbacks
    <2>1. PICK S \in SUBSET Rules : list \in Listings(S)
        BY <1>3, PagingAssumption
    <2> QED BY <2>1, ListingType
<1> QED BY <1>1, <1>2, <1>3 DEF ListRules

LEMMA RespondType ==
    ASSUME TypeOK, NEW list \in ListRules, NEW f, NEW asked \in Nat, Respond(list, f, asked)
    PROVE  /\ PageOK' /\ PageWithinLimit' /\ PageIsFull'
           /\ page'.offset = IF asked < page'.total THEN asked ELSE page'.total
<1>1. page' = Page(Filtered(list, f), asked)
    BY DEF Respond
<1> DEFINE all == Filtered(list, f)
<1>2. Len(list) <= Cardinality(Rules) /\ Cardinality(Rules) \in Nat
    BY ListRulesType, ListedOnce, FS_CardinalityType, PagingAssumption
<1>3. all \in Seq(Rules) /\ Len(all) <= Len(list)
    BY ListRulesType, FilteredType
<1>4. Len(all) \in 0 .. Cardinality(Rules)
    <2>1. Len(all) \in Nat /\ Len(list) \in Nat
        BY <1>3, ListRulesType
    <2> QED BY <1>2, <1>3, <2>1
<1> HIDE DEF all
<1>5. page' = Page(all, asked)
    BY <1>1 DEF all
<1>6. /\ page'.total = Len(all)
      /\ page'.offset = IF asked < Len(all) THEN asked ELSE Len(all)
      /\ page'.rules \in Seq(Rules)
      /\ EndIndex(page') \in page'.offset .. Len(all)
      /\ Size(page'.rules) <= PageLimit
      /\ EndIndex(page') < Len(all) =>
            SizeWith(page'.rules, all[EndIndex(page') + 1]) > PageLimit
    BY <1>3, <1>5, PageContents
<1>7. EndIndex(page') \in 0 .. page'.total /\ page'.offset \in 0 .. page'.total
    BY <1>4, <1>6
<1>8. page'.total \in 0 .. Cardinality(Rules)
    BY <1>4, <1>6
<1>9. PageOK'
    BY <1>6, <1>7, <1>8 DEF PageOK, EndIndex
<1>10. PageWithinLimit'
    BY <1>6 DEF PageWithinLimit
<1>11. PageIsFull'
    <2> SUFFICES ASSUME HasHint(page')
                 PROVE  \E r \in Rules : SizeWith(page'.rules, r) > PageLimit
        BY DEF PageIsFull, HasHint, EndIndex
    <2>1. EndIndex(page') < Len(all)
        BY <1>6 DEF HasHint
    <2>2. all[EndIndex(page') + 1] \in Rules
        BY <1>3, <1>4, <1>6, <2>1
    <2> QED BY <1>6, <2>1, <2>2
<1> QED BY <1>6, <1>9, <1>10, <1>11

\* The elements of two lists, one after the other.
LEMMA Joined ==
    ASSUME NEW s \in Seq(Rules), NEW t \in Seq(Rules)
    PROVE  /\ s \o t \in Seq(Rules)
           /\ Len(s \o t) = Len(s) + Len(t)
           /\ \A i \in 1 .. Len(s) : (s \o t)[i] = s[i]
           /\ \A i \in 1 .. Len(t) : (s \o t)[Len(s) + i] = t[i]
<1>1. Len(s) \in Nat /\ Len(t) \in Nat
    OBVIOUS
<1>2. /\ s \o t \in Seq(Rules)
      /\ Len(s \o t) = Len(s) + Len(t)
      /\ \A i \in 1 .. Len(s) + Len(t) : (s \o t)[i] = IF i <= Len(s) THEN s[i] ELSE t[i - Len(s)]
    BY ConcatProperties
<1> QED BY <1>1, <1>2

\* A list without one of its rules.
LEMMA RemovedType ==
    ASSUME NEW list \in Seq(Rules), IsInjective(list), NEW i \in 1 .. Len(list)
    PROVE  RemoveAt(list, i) \in Seq(Rules) /\ IsInjective(RemoveAt(list, i))
<1> DEFINE L == Len(list)
           a == SubSeq(list, 1, i - 1)
           b == SubSeq(list, i + 1, L)
           c == a \o b
<1>n. L \in Nat /\ i - 1 \in 0 .. L
    OBVIOUS
<1>1. /\ a \in Seq(Rules) /\ Len(a) = i - 1
      /\ \A j \in 1 .. i - 1 : a[j] = list[j]
    <2>1. 0 \in Nat /\ i - 1 \in 0 .. Len(list) /\ 0 + 1 = 1 /\ (i - 1) - 0 = i - 1
        BY <1>n
    <2>2. \A j \in 1 .. i - 1 : 0 + j = j
        OBVIOUS
    <2> QED BY <2>1, <2>2, PartOfList
<1>2. /\ b \in Seq(Rules) /\ Len(b) = L - i
      /\ \A j \in 1 .. L - i : b[j] = list[i + j]
    <2>1. i \in Nat /\ Len(list) \in i .. Len(list)
        BY <1>n
    <2> QED BY <2>1, PartOfList
<1> HIDE DEF a, b
<1>3. /\ c \in Seq(Rules) /\ Len(c) = Len(a) + Len(b)
      /\ \A j \in 1 .. Len(a) : c[j] = a[j]
      /\ \A j \in 1 .. Len(b) : c[Len(a) + j] = b[j]
    BY <1>1, <1>2, Joined
<1> HIDE DEF c
<1>4. Len(c) = L - 1 /\ DOMAIN c = 1 .. L - 1 /\ DOMAIN list = 1 .. L
    BY <1>1, <1>2, <1>3, <1>n
<1>5. \A j \in 1 .. i - 1 : c[j] = list[j]
    BY <1>1, <1>3
<1>6. ASSUME NEW j \in i .. L - 1
      PROVE  c[j] = list[j + 1]
    <2> DEFINE m == j - (i - 1)
    <2>1. m \in 1 .. L - i /\ (i - 1) + m = j /\ i + m = j + 1
        BY <1>n
    <2> HIDE DEF m
    <2>2. c[(i - 1) + m] = b[m]
        BY <1>1, <1>2, <1>3, <2>1
    <2>3. b[m] = list[i + m]
        BY <1>2, <2>1
    <2> QED BY <2>1, <2>2, <2>3
<1>7. ASSUME NEW j \in 1 .. L - 1, NEW k \in 1 .. L - 1, c[j] = c[k]
      PROVE  j = k
    <2> DEFINE Place(m) == IF m < i THEN m ELSE m + 1
    <2>1. \A m \in 1 .. L - 1 : c[m] = list[Place(m)] /\ Place(m) \in 1 .. L
        BY <1>5, <1>6, <1>n
    <2>2. Place(j) = Place(k)
        <3> HIDE DEF Place
        <3> QED BY <1>4, <1>7, <2>1 DEF IsInjective
    <2> QED BY <2>2, <1>n
<1>8. RemoveAt(list, i) = c
    BY DEF RemoveAt, a, b, c
<1> QED BY <1>3, <1>4, <1>7, <1>8 DEF IsInjective

\* A list with one rule more.
LEMMA InsertedType ==
    ASSUME NEW list \in Seq(Rules), IsInjective(list), NEW i \in 1 .. Len(list) + 1,
           NEW r \in Rules \ ToSet(list)
    PROVE  InsertAt(list, i, r) \in Seq(Rules) /\ IsInjective(InsertAt(list, i, r))
<1> DEFINE L == Len(list)
           a == SubSeq(list, 1, i - 1)
           b == SubSeq(list, i, L)
           one == <<r>>
           c == (a \o one) \o b
<1>n. L \in Nat /\ i - 1 \in 0 .. L
    OBVIOUS
<1>1. /\ a \in Seq(Rules) /\ Len(a) = i - 1
      /\ \A j \in 1 .. i - 1 : a[j] = list[j]
    <2>1. 0 \in Nat /\ i - 1 \in 0 .. Len(list) /\ 0 + 1 = 1 /\ (i - 1) - 0 = i - 1
        BY <1>n
    <2>2. \A j \in 1 .. i - 1 : 0 + j = j
        OBVIOUS
    <2> QED BY <2>1, <2>2, PartOfList
<1>2. /\ b \in Seq(Rules) /\ Len(b) = L - (i - 1)
      /\ \A j \in 1 .. L - (i - 1) : b[j] = list[(i - 1) + j]
    <2>1. i - 1 \in Nat /\ Len(list) \in i - 1 .. Len(list) /\ (i - 1) + 1 = i
        BY <1>n
    <2> QED BY <2>1, PartOfList
<1>r. one \in Seq(Rules) /\ Len(one) = 1 /\ one[1] = r
    OBVIOUS
<1> HIDE DEF a, b, one
<1>3. /\ a \o one \in Seq(Rules) /\ Len(a \o one) = i
      /\ \A j \in 1 .. i - 1 : (a \o one)[j] = list[j]
      /\ (a \o one)[i] = r
    <2>1. /\ a \o one \in Seq(Rules) /\ Len(a \o one) = Len(a) + Len(one)
          /\ \A j \in 1 .. Len(a) : (a \o one)[j] = a[j]
          /\ \A j \in 1 .. Len(one) : (a \o one)[Len(a) + j] = one[j]
        BY <1>1, <1>r, Joined
    <2>2. (a \o one)[(i - 1) + 1] = r
        BY <1>1, <1>r, <2>1
    <2> QED BY <1>1, <1>r, <1>n, <2>1, <2>2
<1> DEFINE front == a \o one
<1>f. /\ front \in Seq(Rules) /\ Len(front) = i
      /\ \A j \in 1 .. i - 1 : front[j] = list[j]
      /\ front[i] = r
    BY <1>3
<1> HIDE DEF front
<1>4. /\ front \o b \in Seq(Rules) /\ Len(front \o b) = i + (L - (i - 1))
      /\ \A j \in 1 .. i : (front \o b)[j] = front[j]
      /\ \A j \in 1 .. L - (i - 1) : (front \o b)[i + j] = b[j]
    BY <1>2, <1>f, Joined
<1>5. c = front \o b
    BY DEF front
<1> HIDE DEF c
<1>6. Len(c) = L + 1 /\ DOMAIN c = 1 .. L + 1 /\ DOMAIN list = 1 .. L
    BY <1>4, <1>5, <1>n
<1>7. ASSUME NEW j \in 1 .. i - 1
      PROVE  c[j] = list[j]
    <2>1. j \in 1 .. i
        BY <1>n
    <2> QED BY <1>4, <1>5, <1>f, <2>1
<1>8. c[i] = r
    <2>1. i \in 1 .. i
        BY <1>n
    <2> QED BY <1>4, <1>5, <1>f, <2>1
<1>9. ASSUME NEW j \in i + 1 .. L + 1
      PROVE  c[j] = list[j - 1]
    <2>1. j - i \in 1 .. L - (i - 1) /\ i + (j - i) = j /\ (i - 1) + (j - i) = j - 1
        BY <1>n
    <2> QED BY <1>2, <1>4, <1>5, <2>1
<1>10. \A j \in 1 .. L : list[j] # r
    BY <1>6 DEF ToSet
<1>11. ASSUME NEW j \in 1 .. L + 1, NEW k \in 1 .. L + 1, c[j] = c[k]
      PROVE  j = k
    <2> DEFINE Place(m) == IF m < i THEN m ELSE m - 1
    <2>1. \A m \in 1 .. L + 1 : m # i => c[m] = list[Place(m)] /\ Place(m) \in 1 .. L
        <3>1. ASSUME NEW m \in 1 .. L + 1, m < i
              PROVE  c[m] = list[m] /\ m \in 1 .. L
            BY <1>7, <1>n, <3>1
        <3>2. ASSUME NEW m \in 1 .. L + 1, m > i
              PROVE  c[m] = list[m - 1] /\ m - 1 \in 1 .. L
            BY <1>9, <1>n, <3>2
        <3> HIDE DEF c
        <3> QED BY <3>1, <3>2, <1>n
    <2>2. CASE j = i \/ k = i
        <3> HIDE DEF Place
        <3> QED BY <1>8, <1>10, <1>11, <2>1, <2>2
    <2>3. CASE j # i /\ k # i
        <3>1. Place(j) = Place(k)
            <4> HIDE DEF Place
            <4> QED BY <1>6, <1>11, <2>1, <2>3 DEF IsInjective
        <3> QED BY <2>3, <3>1, <1>n
    <2> QED BY <2>2, <2>3
<1>12. InsertAt(list, i, r) = c
    BY DEF InsertAt, a, b, c, one
<1>13. c \in Seq(Rules)
    BY <1>4, <1>5
<1>14. IsInjective(c)
    BY <1>6, <1>11 DEF IsInjective
<1> QED BY <1>12, <1>13, <1>14

LEMMA ChangedTable ==
    ASSUME TypeOK, Change
    PROVE  table' \in Seq(Rules) /\ IsInjective(table')
<1>1. table \in Seq(Rules) /\ IsInjective(table)
    BY DEF TypeOK
<1> QED BY <1>1, RemovedType, InsertedType DEF Change

LEMMA InitIInv == Init => IInv
<1> SUFFICES ASSUME Init PROVE IInv
    OBVIOUS
<1>1. table \in Seq(Rules) /\ IsInjective(table)
    <2>1. PICK S \in SUBSET Rules : table \in Listings(S)
        BY DEF Init
    <2> QED BY <2>1, ListingType
<1>2. /\ page.total = 0 /\ page.offset = 0 /\ page.rules = <<>> /\ seen = <<>>
      /\ EndIndex(page) = 0
    BY DEF Init, NoPage, EndIndex
<1>3. <<>> \in Seq(Rules) /\ Len(<<>>) = 0
    OBVIOUS
<1>4. Cardinality(Rules) \in Nat
    BY FS_CardinalityType, PagingAssumption
<1>5. TypeOK
    <2>1. page.rules \in Seq(Rules) /\ seen \in Seq(Rules)
        BY <1>2, <1>3, Zenon
    <2>2. /\ from \in Nat /\ filter \in SUBSET Rules
          /\ strayed \in BOOLEAN /\ disturbed \in BOOLEAN
          /\ stable \in SUBSET Rules /\ removed \in Nat /\ changes \in 0 .. MaxChanges
        <3>1. /\ from = 0 /\ filter = Rules /\ strayed = FALSE /\ disturbed = FALSE
              /\ stable = {} /\ removed = 0 /\ changes = 0
            BY DEF Init
        <3>2. /\ 0 \in Nat /\ Rules \in SUBSET Rules /\ FALSE \in BOOLEAN
              /\ {} \in SUBSET Rules /\ 0 \in 0 .. MaxChanges
            BY PagingAssumption
        <3> QED BY <3>1, <3>2, Zenon
    <2>3. /\ page.total \in 0 .. Cardinality(Rules) /\ page.offset \in 0 .. page.total
          /\ EndIndex(page) \in 0 .. page.total
        BY <1>2, <1>4
    <2> QED BY <1>1, <2>1, <2>2, <2>3, Zenon DEF TypeOK
<1>6. PageWithinLimit
    <2>1. Size(<<>>) = Overhead
        BY <1>3, SizesDefined DEF Size
    <2> QED BY <1>2, <2>1, PagingAssumption DEF PageWithinLimit
<1>7. PageIsFull
    BY <1>2 DEF PageIsFull, HasHint
<1> QED BY <1>5, <1>6, <1>7 DEF IInv

LEMMA NextIInv == IInv /\ [Next]_vars => IInv'
<1> SUFFICES ASSUME IInv, [Next]_vars PROVE IInv'
    OBVIOUS
<1>t. TypeOK /\ PageWithinLimit /\ PageIsFull
    BY DEF IInv
<1>1. ASSUME Begin PROVE IInv'
    <2>1. PICK f \in Filters \cup {Rules}, o \in 0 .. MaxOffset, list \in ListRules :
              /\ Respond(list, f, o) /\ filter' = f /\ from' = o /\ seen' = page'.rules
              /\ strayed' = (list \notin Shown) /\ disturbed' = strayed'
              /\ stable' = ToSet(table) /\ removed' = 0 /\ UNCHANGED <<table, changes>>
        BY <1>1 DEF Begin
    <2>2. /\ o \in Nat /\ f \in SUBSET Rules /\ removed' \in Nat
          /\ strayed' \in BOOLEAN /\ disturbed' \in BOOLEAN
        BY <2>1, PagingAssumption
    <2>s. stable' \in SUBSET Rules
        BY <1>t, <2>1 DEF TypeOK, ToSet
    <2>3. PageOK' /\ PageWithinLimit' /\ PageIsFull'
        BY <1>t, <2>1, <2>2, RespondType
    <2> QED BY <1>t, <2>1, <2>2, <2>s, <2>3 DEF IInv, TypeOK, PageOK
<1>2. ASSUME More PROVE IInv'
    <2>0. PICK list \in ListRules :
              /\ Respond(list, filter, EndIndex(page))
              /\ seen' = seen \o page'.rules
              /\ strayed' = (strayed \/ list \notin Shown)
              /\ disturbed' = (disturbed \/ list \notin Shown)
              /\ UNCHANGED <<table, filter, from, stable, removed, changes>>
        BY <1>2 DEF More
    <2>1. EndIndex(page) \in Nat
        BY <1>t DEF TypeOK
    <2>2. PageOK' /\ PageWithinLimit' /\ PageIsFull'
        BY <1>t, <2>0, <2>1, RespondType
    <2>3. seen' \in Seq(Rules)
        BY <1>t, <2>0, <2>2, Joined DEF TypeOK, PageOK
    <2>4. strayed' \in BOOLEAN /\ disturbed' \in BOOLEAN
        BY <2>0
    <2> QED BY <1>t, <2>0, <2>2, <2>3, <2>4 DEF IInv, TypeOK, PageOK
<1>3. ASSUME Change PROVE IInv'
    <2>1. table' \in Seq(Rules) /\ IsInjective(table')
        BY <1>t, <1>3, ChangedTable
    <2>2. changes' \in 0 .. MaxChanges
        BY <1>t, <1>3, PagingAssumption DEF Change, TypeOK
    <2>3. stable' \in SUBSET Rules /\ removed' \in Nat
        BY <1>t, <1>3 DEF Change, TypeOK
    <2> QED BY <1>t, <1>3, <2>1, <2>2, <2>3 DEF IInv, TypeOK, Change, EndIndex, PageWithinLimit, PageIsFull, HasHint
<1>4. ASSUME UNCHANGED vars PROVE IInv'
    BY <1>t, <1>4 DEF vars, history, IInv, TypeOK, EndIndex, PageWithinLimit, PageIsFull, HasHint
<1> QED BY <1>1, <1>2, <1>3, <1>4 DEF Next

LEMMA Invariant == Spec => []IInv
<1> QED BY InitIInv, NextIInv, PTL DEF Spec

(***************************************************************************)
(* Type correctness: the indices of every page lie within the list it was  *)
(* cut from, and the list within the rules there are.                      *)
(***************************************************************************)
THEOREM TypeCorrect == Spec => []TypeOK
<1>1. IInv => TypeOK
    BY DEF IInv
<1> QED BY <1>1, Invariant, PTL

(***************************************************************************)
(* execute_command and CryptoManager::encrypt: no answer to "list" is      *)
(* longer than a datagram may be, although the length is tested before the *)
(* message is written and before the encryption, for any rules, any        *)
(* filter, any offset, in any order of the rules and from the copy, too.   *)
(***************************************************************************)
THEOREM PagesFit == Spec => []DatagramWithinLimit
<1>1. IInv => DatagramWithinLimit
    <2> SUFFICES ASSUME IInv PROVE Datagram(page) <= DatagramLimit
        BY DEF DatagramWithinLimit
    <2>1. Size(page.rules) \in Nat /\ Size(page.rules) <= 2500
        <3>1. Sizes(page.rules) \in [0 .. Len(page.rules) -> Nat] /\ Len(page.rules) \in 0 .. Len(page.rules)
            BY SizesDefined DEF IInv, TypeOK
        <3> QED BY <3>1 DEF IInv, PageWithinLimit, PageLimit, Size
    <2>2. Message(page) \in 0 .. 140
        BY DEF Message, Position
    <2>3. Plaintext(page) \in Int /\ Plaintext(page) <= 2636
        BY <2>1, <2>2 DEF Plaintext
    <2>4. \A n \in Int : n <= 2636 => 4 * ((12 + 32 + 16 + n + 2) \div 3) <= 4096
        OBVIOUS
    <2> QED BY <2>3, <2>4 DEF Datagram, DatagramLimit
<1> QED BY <1>1, Invariant, PTL

(***************************************************************************)
(* A page is as full as it can be: a response with a hint has no room for  *)
(* one of the rules.                                                       *)
(***************************************************************************)
THEOREM PagesAreFull == Spec => []PageIsFull
<1>1. IInv => PageIsFull
    BY DEF IInv
<1> QED BY <1>1, Invariant, PTL

(***************************************************************************)
(* If every rule fits a page of its own, no response to "list" is empty     *)
(* and asks for more at once: a reader is never sent in a circle.          *)
(***************************************************************************)
THEOREM NeverStuck == (\A r \in Rules : Overhead + Weight[r] <= PageLimit) /\ Spec => []~Stuck
<1>1. ASSUME \A r \in Rules : Overhead + Weight[r] <= PageLimit, PageIsFull PROVE ~Stuck
    <2> SUFFICES ASSUME HasHint(page), page.rules = <<>> PROVE FALSE
        BY DEF Stuck
    <2>1. PICK r \in Rules : SizeWith(page.rules, r) > PageLimit
        BY <1>1 DEF PageIsFull
    <2>3. Weight[r] \in Nat
        BY PagingAssumption
    <2>2. Size(<<>>) = Overhead
        <3>1. <<>> \in Seq(Rules) /\ Len(<<>>) = 0
            OBVIOUS
        <3>2. Sizes(<<>>)[0] = Overhead
            BY <3>1, SizesDefined
        <3> QED BY <3>1, <3>2 DEF Size
    <2> QED BY <1>1, <2>1, <2>2, <2>3, PagingAssumption DEF SizeWith, PageLimit
<1>2. ASSUME \A r \in Rules : Overhead + Weight[r] <= PageLimit PROVE Spec => []~Stuck
    <2>1. PageIsFull => ~Stuck
        BY <1>1, <1>2
    <2> QED BY <2>1, PagesAreFull, PTL
<1> QED BY <1>2

(***************************************************************************)
(* Every hint that is followed leads further: a response to it has no hint *)
(* any more, is empty, or ends behind the one before.  This holds in any   *)
(* order of the rules and whoever changes them, and as a page ends within  *)
(* the rules there are (TypeOK), it is why reading ends.                   *)
(***************************************************************************)
THEOREM HintsAdvance ==
    Spec => [][More => ~Reading' \/ EndIndex(page') > EndIndex(page)]_vars
<1>1. IInv /\ IInv' /\ [Next]_vars =>
          [More => ~Reading' \/ EndIndex(page') > EndIndex(page)]_vars
    <2> SUFFICES ASSUME IInv, IInv', More, Reading'
                 PROVE  EndIndex(page') > EndIndex(page)
        OBVIOUS
    <2>1. PICK list \in ListRules : Respond(list, filter, EndIndex(page))
        BY DEF More
    <2>n. EndIndex(page) \in Nat
        BY DEF IInv, TypeOK
    <2>2. page'.offset = IF EndIndex(page) < page'.total THEN EndIndex(page) ELSE page'.total
        BY <2>1, <2>n, RespondType DEF IInv
    <2>3. HasHint(page') /\ page'.rules # <<>>
        BY DEF Reading, Stuck, HasHint, EndIndex
    <2>4. /\ page'.total \in Nat /\ page'.offset \in Nat
          /\ EndIndex(page') \in Nat /\ page'.rules \in Seq(Rules)
        BY FS_CardinalityType, PagingAssumption DEF IInv, TypeOK, EndIndex
    <2>5. Len(page'.rules) > 0
        BY <2>3, <2>4
    <2> QED BY <2>n, <2>2, <2>3, <2>4, <2>5 DEF HasHint, EndIndex
<1> QED BY <1>1, Invariant, PTL DEF Spec

------------------------------------------------------------------------------
(***************************************************************************)
(* The pages of an undisturbed reader.  What he has seen is the part of    *)
(* the list from where he started to the end of the last page; an offset   *)
(* beyond the list gets the empty page at its end.  Only the OpenWrt       *)
(* backend with its HashMap returns the list in another order every time.  *)
(***************************************************************************)
ReadsOn ==
    ~disturbed /\ page # NoPage =>
        LET all == Filtered(table, filter)
        IN  /\ page.total = Len(all)
            /\ seen = SubSeq(all, from + 1, from + Len(seen))
            /\ from <= Len(all) => EndIndex(page) = from + Len(seen)
            /\ from > Len(all) => seen = <<>> /\ EndIndex(page) = Len(all)

LEMMA BeginReadsOn ==
    ASSUME ~Shuffled, TypeOK, Begin
    PROVE  ReadsOn'
<1> SUFFICES ASSUME ~disturbed' PROVE ReadsOn'
    BY DEF ReadsOn
<1>1. PICK f \in Filters \cup {Rules}, o \in 0 .. MaxOffset, list \in ListRules :
          /\ Respond(list, f, o) /\ filter' = f /\ from' = o /\ seen' = page'.rules
          /\ disturbed' = (list \notin Shown) /\ UNCHANGED <<table, changes>>
    BY DEF Begin
<1>l. list = table
    BY <1>1 DEF Shown
<1> DEFINE all == Filtered(table, f)
           p == Page(all, o)
<1>2. all \in Seq(Rules) /\ Len(all) \in Nat /\ o \in Nat
    BY FilteredType, PagingAssumption DEF TypeOK
<1>3. page' = p /\ (Filtered(table, filter))' = all
    BY <1>1, <1>l DEF Respond
<1> HIDE DEF all
<1>4. /\ p.total = Len(all)
      /\ p.offset = IF o < Len(all) THEN o ELSE Len(all)
      /\ p.rules \in Seq(Rules)
      /\ EndIndex(p) \in p.offset .. Len(all)
      /\ p.rules = SubSeq(all, p.offset + 1, EndIndex(p))
    BY <1>2, PageContents
<1>5. EndIndex(p) = p.offset + Len(p.rules) /\ Len(p.rules) \in Nat
    BY <1>4 DEF EndIndex
<1> HIDE DEF p
<1>6. CASE o <= Len(all)
    <2>1. p.offset = o
        BY <1>2, <1>4, <1>6
    <2>2. p.rules = SubSeq(all, o + 1, o + Len(p.rules))
        BY <1>4, <1>5, <2>1
    <2>3. ~(o > Len(all)) /\ EndIndex(page') = o + Len(page'.rules)
        BY <1>2, <1>3, <1>5, <1>6, <2>1
    <2> QED BY <1>1, <1>3, <1>4, <2>2, <2>3 DEF ReadsOn, EndIndex
<1>7. CASE o > Len(all)
    <2>1. EndIndex(p) = Len(all) /\ Len(p.rules) = 0
        <3>1. p.offset = Len(all)
            BY <1>2, <1>4, <1>7
        <3>2. Len(all) + Len(p.rules) \in Len(all) .. Len(all)
            BY <1>4, <1>5, <3>1
        <3> QED BY <1>2, <1>5, <3>1, <3>2
    <2>2. p.rules = <<>>
        BY <1>4, <2>1, EmptySeq
    <2>3. SubSeq(all, o + 1, o + 0) = <<>>
        BY <1>2, SubSeqEmpty
    <2> QED BY <1>1, <1>2, <1>3, <1>4, <1>5, <1>7, <2>1, <2>2, <2>3 DEF ReadsOn, EndIndex
<1> QED BY <1>2, <1>6, <1>7

LEMMA MoreReadsOn ==
    ASSUME ~Shuffled, TypeOK, ReadsOn, More
    PROVE  ReadsOn'
<1> SUFFICES ASSUME ~disturbed' PROVE ReadsOn'
    BY DEF ReadsOn
<1>0. PICK list \in ListRules :
          /\ Respond(list, filter, EndIndex(page))
          /\ seen' = seen \o page'.rules
          /\ disturbed' = (disturbed \/ list \notin Shown)
          /\ UNCHANGED <<table, filter, from>>
    BY DEF More
<1>l. list = table /\ ~disturbed
    BY <1>0 DEF Shown
<1> DEFINE all == Filtered(table, filter)
           e == EndIndex(page)
           p == Page(all, e)
           n == Len(seen)
           m == Len(p.rules)
<1>1. /\ all \in Seq(Rules) /\ Len(all) \in Nat /\ from \in Nat
      /\ seen \in Seq(Rules) /\ n \in Nat /\ e \in Nat
    BY FilteredType DEF TypeOK
<1>2. /\ page' = p /\ seen' = seen \o p.rules /\ from' = from
      /\ (Filtered(table, filter))' = all
    BY <1>0, <1>l DEF Respond
<1>3. page # NoPage /\ e < page.total
    BY DEF More, Reading, HasHint, NoPage, EndIndex
<1> HIDE DEF all, e
<1>4. page.total = Len(all) /\ e < Len(all) /\ from <= Len(all) /\ e = from + n
      /\ seen = SubSeq(all, from + 1, from + n)
    BY <1>1, <1>3, <1>l DEF ReadsOn, all, e
<1>5. /\ p.total = Len(all)
      /\ p.offset = e
      /\ p.rules \in Seq(Rules)
      /\ EndIndex(p) \in e .. Len(all)
      /\ p.rules = SubSeq(all, e + 1, EndIndex(p))
    BY <1>1, <1>4, PageContents
<1>6. EndIndex(p) = e + m /\ m \in Nat
    BY <1>5 DEF EndIndex
<1>7. from + n + m <= Len(all)
    <2>1. (from + n) + m \in (from + n) .. Len(all)
        BY <1>4, <1>5, <1>6
    <2> HIDE DEF n, m
    <2> QED BY <1>1, <1>6, <2>1
<1> HIDE DEF p, m, n
<1>8. SubSeq(all, from + 1, from + n) \o SubSeq(all, e + 1, e + m) = SubSeq(all, from + 1, from + (n + m))
    <2> DEFINE s == SubSeq(all, from + 1, from + n)
               t == SubSeq(all, e + 1, e + m)
               u == SubSeq(all, from + 1, from + (n + m))
    <2>1. /\ s \in Seq(Rules) /\ Len(s) = n
          /\ \A i \in 1 .. n : s[i] = all[from + i]
        <3>1. n \in Nat /\ from \in Nat /\ Len(all) \in Nat /\ m \in Nat
            BY <1>1, <1>6
        <3>n. from + n \in from .. Len(all) /\ (from + n) - from = n
            BY <3>1, <1>7
        <3>2. /\ s \in Seq(Rules) /\ Len(s) = (from + n) - from
              /\ \A i \in 1 .. (from + n) - from : s[i] = all[from + i]
            BY <1>1, <3>1, <3>n, PartOfList, Zenon
        <3> QED BY <3>2, <3>n, Zenon
    <2>2. /\ t \in Seq(Rules) /\ Len(t) = m
          /\ \A i \in 1 .. m : t[i] = all[e + i]
        <3>1. e + m \in e .. Len(all) /\ (e + m) - e = m
            BY <1>1, <1>4, <1>6, <1>7 DEF n
        <3> QED BY <1>1, <3>1, PartOfList
    <2>3. /\ u \in Seq(Rules) /\ Len(u) = n + m
          /\ \A i \in 1 .. n + m : u[i] = all[from + i]
        <3>1. from + (n + m) \in from .. Len(all) /\ (from + (n + m)) - from = n + m
            BY <1>1, <1>4, <1>6, <1>7 DEF n
        <3> QED BY <1>1, <3>1, PartOfList
    <2> HIDE DEF s, t, u
    <2>4. /\ s \o t \in Seq(Rules)
          /\ Len(s \o t) = n + m
          /\ \A i \in 1 .. n : (s \o t)[i] = s[i]
          /\ \A i \in 1 .. m : (s \o t)[n + i] = t[i]
        BY <2>1, <2>2, Joined
    <2>5. ASSUME NEW i \in 1 .. n + m
          PROVE  (s \o t)[i] = u[i]
        <3>1. CASE i \in 1 .. n
            BY <2>1, <2>3, <2>4, <3>1
        <3>2. CASE i \in n + 1 .. n + m
            <4>1. i - n \in 1 .. m /\ n + (i - n) = i /\ e + (i - n) = from + i
                BY <1>1, <1>4, <1>6, <3>2 DEF n
            <4> QED BY <2>2, <2>3, <2>4, <4>1
        <3>3. n \in Nat /\ m \in Nat
            BY <1>1, <1>6 DEF n
        <3>4. i \in 1 .. n \/ i \in n + 1 .. n + m
            BY <3>3
        <3> QED BY <3>1, <3>2, <3>4
    <2>6. s \o t = u
        BY <2>3, <2>4, <2>5, SeqEqual
    <2> QED BY <2>6 DEF s, t, u
<1>9. seen' = SubSeq(all, from + 1, from + (n + m)) /\ Len(seen') = n + m
    <2>1. Len(seen \o p.rules) = n + m
        BY <1>1, <1>5, Joined DEF n, m
    <2>2. seen \o p.rules = SubSeq(all, from + 1, from + n) \o SubSeq(all, e + 1, e + m)
        BY <1>4, <1>5, <1>6
    <2> QED BY <1>2, <1>8, <2>1, <2>2
<1>10. EndIndex(page') = from + (n + m)
    BY <1>1, <1>2, <1>4, <1>6 DEF n
<1>11. page'.total = Len(all)
    BY <1>2, <1>5
<1>12. from' <= Len(all) /\ ~(from' > Len(all))
    BY <1>1, <1>2, <1>4
<1>13. /\ seen' = SubSeq(all, from' + 1, from' + Len(seen'))
       /\ EndIndex(page') = from' + Len(seen')
    BY <1>2, <1>9, <1>10
<1> QED BY <1>2, <1>11, <1>12, <1>13 DEF ReadsOn, EndIndex

LEMMA ReadsOnInvariant ==
    ASSUME ~Shuffled
    PROVE  Spec => []ReadsOn
<1>1. Init => ReadsOn
    BY DEF Init, ReadsOn
<1>2. IInv /\ ReadsOn /\ [Next]_vars => ReadsOn'
    <2> SUFFICES ASSUME IInv, ReadsOn, [Next]_vars PROVE ReadsOn'
        OBVIOUS
    <2>1. CASE Begin
        BY <2>1, BeginReadsOn DEF IInv
    <2>2. CASE More
        BY <2>2, MoreReadsOn DEF IInv
    <2>3. CASE Change
        BY <2>3 DEF Change, ReadsOn
    <2>4. CASE UNCHANGED vars
        BY <2>4 DEF vars, history, ReadsOn, EndIndex
    <2> QED BY <2>1, <2>2, <2>3, <2>4 DEF Next
<1> QED BY <1>1, <1>2, Invariant, PTL DEF Spec

(***************************************************************************)
(* While nobody changes the rules, no listing fails, and the firewall      *)
(* lists the rules in an order of its own, pages asked for one after the   *)
(* other have neither a gap nor a repetition between them, and the page    *)
(* without a hint is the last one.                                         *)
(***************************************************************************)
THEOREM PagesFollow == ~Shuffled /\ Spec => []PagesContinue
<1>1. TypeOK /\ ReadsOn => PagesContinue
    <2> SUFFICES ASSUME TypeOK, ReadsOn, ~disturbed, page # NoPage PROVE PagesContinue
        BY DEF PagesContinue
    <2> DEFINE all == Filtered(table, filter)
    <2>1. all \in Seq(Rules) /\ Len(all) \in Nat /\ Len(seen) \in Nat /\ from \in Nat
        BY FilteredType DEF TypeOK
    <2>2. EndIndex(page) \in Nat
        BY DEF TypeOK
    <2>3. ~HasHint(page) => EndIndex(page) >= page.total
        BY <2>2 DEF HasHint, TypeOK
    <2> HIDE DEF all
    <2>4. /\ page.total = Len(all)
          /\ seen = SubSeq(all, from + 1, from + Len(seen))
          /\ from <= Len(all) => EndIndex(page) = from + Len(seen)
        BY DEF ReadsOn, all
    <2>5. ~HasHint(page) => from + Len(seen) >= Len(all)
        BY <2>1, <2>2, <2>3, <2>4
    <2> QED BY <2>4, <2>5 DEF PagesContinue, all
<1>2. ASSUME ~Shuffled PROVE Spec => []PagesContinue
    BY <1>1, <1>2, TypeCorrect, ReadsOnInvariant, PTL
<1> QED BY <1>2

(***************************************************************************)
(* README.md line 127 is right about a firewall that lists its rules in an *)
(* order of its own, as long as no listing fails (that ends the list early *)
(* and is told as a success): a list read from the start has every rule.   *)
(* With the HashMap of the OpenWrt backend this is false, as a run shows.  *)
(***************************************************************************)
THEOREM EveryRuleShown == ~Shuffled /\ Spec => []EveryRuleIsShown
<1>1. TypeOK /\ PagesContinue => EveryRuleIsShown
    <2> SUFFICES ASSUME TypeOK, PagesContinue, ~disturbed, page # NoPage, from = 0, ~HasHint(page)
                 PROVE  ToSet(Filtered(table, filter)) \subseteq ToSet(seen)
        BY DEF EveryRuleIsShown
    <2> DEFINE all == Filtered(table, filter)
    <2>1. all \in Seq(Rules) /\ seen \in Seq(Rules)
        BY FilteredType DEF TypeOK
    <2> HIDE DEF all
    <2>2. seen = SubSeq(all, 1, Len(seen)) /\ Len(seen) >= Len(all)
        <3>1. seen = SubSeq(all, 0 + 1, 0 + Len(seen)) /\ 0 + Len(seen) >= Len(all)
            BY DEF PagesContinue, all
        <3> QED BY <2>1, <3>1
    <2>3. ASSUME NEW i \in 1 .. Len(all)
          PROVE  seen[i] = all[i] /\ i \in 1 .. Len(seen)
        <3>1. i \in 1 .. Len(seen)
            BY <2>1, <2>2
        <3>2. SubSeq(all, 1, Len(seen))[i] = all[i]
            BY <2>1, <2>2, <3>1
        <3> QED BY <2>2, <3>1, <3>2
    <2>4. ToSet(all) \subseteq ToSet(seen)
        <3>1. DOMAIN all = 1 .. Len(all) /\ DOMAIN seen = 1 .. Len(seen)
            BY <2>1
        <3> QED BY <2>3, <3>1 DEF ToSet
    <2> QED BY <2>4 DEF all
<1>2. ASSUME ~Shuffled PROVE Spec => []EveryRuleIsShown
    BY <1>1, <1>2, TypeCorrect, PagesFollow, PTL
<1> QED BY <1>2
==============================================================================
