------------------------------ MODULE ListPaging ------------------------------
(***************************************************************************)
(* The action "list" of the server (execute_command in src/src/server.rs)  *)
(* and a user who reads the list page by page: every response holds as     *)
(* many rules as fit and, if rules are left over, the offset to ask for    *)
(* next (`-n`), which the user does.                                       *)
(*                                                                         *)
(* The server remembers nothing between two requests: each one calls       *)
(* list_rules anew, filters, skips `offset` rules and cuts off.  Rules may *)
(* have come and gone in between, the OpenWrt backend collects them in a   *)
(* HashMap, whose order is another one for every map, and a backend whose  *)
(* command fails answers with other rules, as a success.                   *)
(*                                                                         *)
(* Abstracted: a rule is a value with the bytes it takes in the response;  *)
(* a filter (a keyword) is the set of the rules whose names contain it.    *)
(* A definition with _Bug in its name is the one after it with a plausible *)
(* mistake; it shows that a property can tell the difference.              *)
(***************************************************************************)
EXTENDS Integers, FiniteSets, Sequences, SequencesExt

CONSTANTS Rules,        \* the rules that may exist
          Weight,       \* Weight[r]: the bytes of r in JSON
          Overhead,     \* the bytes of the test response with an empty list
          Filters,      \* the filters a user may give: sets of rules
          Shuffled,     \* whether list_rules collects rules in a HashMap
          Fallbacks,    \* what list_rules may return without having seen a rule
          MaxOffset,    \* bound on the offset a user starts with
          MaxChanges    \* bound on the changes of the rule set

\* The length at which a page ends.
PageLimit == 2500

\* The length that no response may exceed: "max UDP datagram limit".
DatagramLimit == 4096

\* The orders in which a set of rules can be listed.
Listings(S) == {s \in [1 .. Cardinality(S) -> S] : IsInjective(s)}

ASSUME PagingAssumption ==
    /\ IsFiniteSet(Rules)
    /\ Weight \in [Rules -> Nat \ {0}]
    /\ Overhead \in 0 .. PageLimit
    /\ Filters \subseteq SUBSET Rules
    /\ Shuffled \in BOOLEAN
    /\ Fallbacks \subseteq UNION {Listings(S) : S \in SUBSET Rules}
    /\ MaxOffset \in Nat /\ MaxChanges \in Nat

VARIABLES table,      \* the rules of the firewall, in its own order
          filter,     \* what the user asked for
          from,       \* the offset the user started with
          page,       \* the last response
          seen,       \* history: the rules on the pages since the start
          strayed,    \* history: list_rules showed other rules since the start
          disturbed,  \* history: it did, or the rules changed since the start
          stable,     \* history: the rules there ever since the start
          removed,    \* history: how many rules were removed since the start
          changes     \* history: how often the rules changed at all

history == <<strayed, disturbed, stable, removed, changes>>

vars == <<table, filter, from, page, seen, history>>

------------------------------------------------------------------------------
\* src/src/firewall/openwrt.rs and windows.rs

\* What a command that works shows: the order is the firewall's or the HashMap's.
Shown == IF Shuffled THEN Listings(ToSet(table)) ELSE {table}

\* What list_rules may return, always as a success.  When uci fails it is an
\* empty list, and when netsh fails or shows no rule it is the copy in memory.
ListRules == Fallbacks \cup (IF table = <<>> THEN {} ELSE Shown)

------------------------------------------------------------------------------
\* src/src/server.rs

\* The bytes that the n-th rule of a list adds: a comma stands before all but one.
Added(list, n) == Weight[list[n]] + IF n = 1 THEN 0 ELSE 1

\* The length of the test response after each of the rules of list.
Sizes(list) ==
    LET bytes[n \in 0 .. Len(list)] ==
            IF n = 0 THEN Overhead ELSE bytes[n - 1] + Added(list, n)
    IN  bytes

\* The length of the test response with the rules of list: the one that is
\* measured.  Its message is "test"; the one that is sent has another (Message).
Size(list) == Sizes(list)[Len(list)]

\* Bug: a page of exactly the limit is too long.
Fits_Bug(list) == ~(Size(list) >= PageLimit)

Fits(list) == ~(Size(list) > PageLimit)

\* Bug: the rule that made the page too long is not taken back.
SafeCount_Bug(list) ==
    CHOOSE n \in 0 .. Len(list) :
        /\ \A m \in 1 .. n - 1 : Fits(SubSeq(list, 1, m))
        /\ n = Len(list) \/ (n > 0 /\ ~Fits(SubSeq(list, 1, n)))

\* Rules are added until the page is too long; the last one is taken back.
SafeCount(list) ==
    CHOOSE n \in 0 .. Len(list) :
        /\ \A m \in 1 .. n : Fits(SubSeq(list, 1, m))
        /\ n = Len(list) \/ ~Fits(SubSeq(list, 1, n + 1))

\* The rules that the filter lets through, after each of the rules of list.
Passed(list, f) ==
    LET kept[n \in 0 .. Len(list)] ==
            IF n = 0 THEN <<>>
            ELSE IF list[n] \in f THEN Append(kept[n - 1], list[n]) ELSE kept[n - 1]
    IN  kept

Filtered(list, f) == Passed(list, f)[Len(list)]

\* Bug: the offset is not cut down to the number of rules.
Page_Bug(list, asked) ==
    [offset |-> asked, total |-> Len(list),
     rules |-> LET rest == SubSeq(list, asked + 1, Len(list))
               IN  SubSeq(rest, 1, SafeCount(rest))]

\* The response to a list of the given rules from the offset asked for.
Page(list, asked) ==
    LET offset == IF asked < Len(list) THEN asked ELSE Len(list)
        rest == SubSeq(list, offset + 1, Len(list))
    IN  [offset |-> offset, total |-> Len(list), rules |-> SubSeq(rest, 1, SafeCount(rest))]

\* Bug: the hint leaves out the rule after the page.
EndIndex_Bug(p) == p.offset + Len(p.rules) + 1

\* end_idx, which the hint names.
EndIndex(p) == p.offset + Len(p.rules)

\* Bug: the hint is left out when one rule is left over.
HasHint_Bug(p) == EndIndex(p) + 1 < p.total

\* The message ends in "(Use '-n {}' to view next page)".
HasHint(p) == EndIndex(p) < p.total

\* The bytes of a position (a usize) in a message: as many as it may have.
Position == 20

\* The bytes of the message: "Listed rules {}-{} of total {} rules" and the hint
\* " (Use '-n {}' to view next page)".
Message(p) == (30 + 3 * Position) + IF HasHint(p) THEN 30 + Position ELSE 0

\* The bytes of the response that is sent.
Plaintext(p) == Size(p.rules) - 4 + Message(p)

\* The bytes of its datagram: nonce, HMAC, tag and ciphertext in Base64.
Datagram(p) == 4 * ((12 + 32 + 16 + Plaintext(p) + 2) \div 3)

Respond(list, f, asked) == page' = Page(Filtered(list, f), asked)

------------------------------------------------------------------------------
NoPage == [offset |-> 0, total |-> 0, rules |-> <<>>]

\* The page ends in a hint that leads to the same page.
Stuck == HasHint(page) /\ page.rules = <<>>

\* The user still has pages to ask for.
Reading == HasHint(page) /\ ~Stuck

Init ==
    /\ table \in UNION {Listings(S) : S \in SUBSET Rules}
    /\ filter = Rules
    /\ from = 0 /\ page = NoPage /\ seen = <<>>
    /\ strayed = FALSE /\ disturbed = FALSE
    /\ stable = {} /\ removed = 0 /\ changes = 0

\* The user asks for a first page.
Begin ==
    \E f \in Filters \cup {Rules}, o \in 0 .. MaxOffset, list \in ListRules :
        /\ ~Reading
        /\ Respond(list, f, o)
        /\ filter' = f /\ from' = o
        /\ seen' = page'.rules
        /\ strayed' = (list \notin Shown) /\ disturbed' = strayed'
        /\ stable' = ToSet(table) /\ removed' = 0
        /\ UNCHANGED <<table, changes>>

\* The user follows the hint of the last page.
More ==
    \E list \in ListRules :
        /\ Reading
        /\ Respond(list, filter, EndIndex(page))
        /\ seen' = seen \o page'.rules
        /\ strayed' = (strayed \/ list \notin Shown)
        /\ disturbed' = (disturbed \/ list \notin Shown)
        /\ UNCHANGED <<table, filter, from, stable, removed, changes>>

\* Somebody deletes a rule or creates one, anywhere in the firewall's order.
Change ==
    /\ changes < MaxChanges
    /\ \/ \E i \in 1 .. Len(table) :
             /\ table' = RemoveAt(table, i)
             /\ stable' = stable \ {table[i]}
             /\ removed' = removed + 1
       \/ \E r \in Rules \ ToSet(table), i \in 1 .. Len(table) + 1 :
             /\ table' = InsertAt(table, i, r)
             /\ UNCHANGED <<stable, removed>>
    /\ disturbed' = TRUE
    /\ changes' = changes + 1
    /\ UNCHANGED <<filter, from, page, seen, strayed>>

Next == Begin \/ More \/ Change

Spec == Init /\ [][Next]_vars

\* A user who wants the whole list goes on while there is a hint.
FairSpec == Spec /\ WF_vars(More)
------------------------------------------------------------------------------
TypeOK ==
    /\ table \in Seq(Rules) /\ IsInjective(table)
    /\ filter \in SUBSET Rules
    /\ from \in Nat
    /\ page.total \in 0 .. Cardinality(Rules)
    /\ page.offset \in 0 .. page.total
    /\ page.rules \in Seq(Rules)
    /\ EndIndex(page) \in 0 .. page.total
    /\ seen \in Seq(Rules)
    /\ strayed \in BOOLEAN /\ disturbed \in BOOLEAN
    /\ stable \in SUBSET Rules
    /\ removed \in Nat
    /\ changes \in 0 .. MaxChanges

(***************************************************************************)
(* server.rs:227: the test on a response that is never sent, with another  *)
(* message and before it is encrypted, keeps every datagram that is sent   *)
(* within the limit, however many rules there are and however large.       *)
(***************************************************************************)
DatagramWithinLimit == Datagram(page) <= DatagramLimit

(***************************************************************************)
(* While nobody changes the rules and no listing fails, the pages a user   *)
(* has seen continue each other without a gap or a repetition, and once    *)
(* there is no hint any more they reach to the end of the list.            *)
(***************************************************************************)
PagesContinue ==
    ~disturbed /\ page # NoPage =>
        LET all == Filtered(table, filter)
        IN  /\ seen = SubSeq(all, from + 1, from + Len(seen))
            /\ ~HasHint(page) => from + Len(seen) >= Len(all)

(***************************************************************************)
(* When the rules do change between two pages, offsets into the old list   *)
(* are used on the new one.  In a backend that keeps its order, and as     *)
(* long as no listing fails, the harm is bounded: of the rules that were   *)
(* there all the time, a complete reading misses no more than there were   *)
(* removals meanwhile; rules that come never hide one.                     *)
(***************************************************************************)
EachRemovalHidesOne ==
    ~Shuffled /\ ~strayed /\ page # NoPage /\ from = 0 /\ ~HasHint(page) =>
        Cardinality((stable \cap filter) \ ToSet(seen)) <= removed

(***************************************************************************)
(* Following the hints comes to an end, whoever changes the rules and      *)
(* whatever listing fails, unless they lead to a rule that is too large    *)
(* for a page of its own: then the response is empty and its hint names    *)
(* the very offset that was asked for.                                     *)
(***************************************************************************)
ReadingEnds ==
    Reading ~> \/ ~HasHint(page)
               \/ Stuck /\ disturbed
               \/ Stuck /\ LET r == Filtered(table, filter)[EndIndex(page) + 1]
                           IN  Overhead + Weight[r] > PageLimit

(***************************************************************************)
(* README.md line 127 and the hint itself: a list read from 0, page by     *)
(* page, is the list of the rules.                                         *)
(***************************************************************************)
EveryRuleIsShown ==
    ~disturbed /\ page # NoPage /\ from = 0 /\ ~HasHint(page) =>
        ToSet(Filtered(table, filter)) \subseteq ToSet(seen)
==============================================================================
