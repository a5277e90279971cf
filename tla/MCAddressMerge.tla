---------------------------- MODULE MCAddressMerge ----------------------------
(***************************************************************************)
(* AddressMerge with octets of 4 bits: addresses of 16 bits that differ in *)
(* each of their parts, at both ends, and in 1, 10 and 15, whose digits    *)
(* begin with each other's.                                                *)
(***************************************************************************)
EXTENDS AddressMerge

A0 == <<1, 1, 1, 0>>
A1 == <<1, 1, 1, 1>>
A10 == <<1, 1, 1, 10>>
B15 == <<1, 1, 0, 15>>
C == <<1, 10, 1, 1>>
Lowest == <<0, 0, 0, 0>>
Highest == <<15, 15, 15, 15>>

MCAddresses == {A0, A1, A10, B15, C, Lowest, Highest}

MCPatterns ==
    {Host(a) : a \in MCAddresses}
    \cup {Net(a, bits) : a \in {A1, Highest}, bits \in {0, 1, 5, 12, 13, 15, 16, 17}}
    \cup {Interval(lo, hi) : lo \in {A0, A1, B15, Lowest}, hi \in {A1, A10, C, Highest}}
    \cup {Wild(<<1, 1, 1, Star>>), Wild(<<1, Star, 1, 1>>), Wild(<<Star, Star, Star, Star>>)}
    \cup {Partial(<<1, 1>>, FALSE), Partial(<<1, 1>>, TRUE), Partial(<<1, 1, 1>>, TRUE), Partial(A1, TRUE),
          Partial(<<1, 1, 1, 1, 1>>, FALSE), Empty}
    \cup {HostList({Host(A1), Host(A10)})}

MCNews == {Host(A10), Net(A10, 16), Net(A0, 12), HostList({Host(A1), Host(C)})}

MCEntries ==
    {Net(a, 16) : a \in MCAddresses}
    \cup {Host(A1), Host(A10), Net(A0, 12), Net(Lowest, 1), Interval(A1, A10), Word}
==============================================================================
