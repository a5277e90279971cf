----------------------------- MODULE AddressMerge -----------------------------
(***************************************************************************)
(* How update_rule of the Windows backend (src/src/firewall/windows.rs)    *)
(* makes the new list of addresses of a rule: it walks through the         *)
(* addresses netsh printed, drops those that match the old pattern, keeps  *)
(* the others without the /32 of a host, appends the new address unless    *)
(* it is there, and finds out whether anything changed.                    *)
(*                                                                         *)
(* One behaviour is one update.  What netsh does with the list afterwards  *)
(* is in WindowsFirewall.                                                  *)
(***************************************************************************)
EXTENDS IpMatch, SequencesExt

CONSTANTS Patterns,     \* the old patterns a user may give
          News,         \* the new addresses a user may give, none of them empty
          Entries,      \* what netsh may print as an address of the rule
          MaxEntries    \* bound on the length of the list it prints

ASSUME MergeAssumption ==
    /\ Empty \notin News
    /\ \A t \in Patterns \cup Entries \cup News : IsText(t)
    /\ MaxEntries \in Nat

VARIABLES old,          \* old_ip_pattern
          new,          \* new_ip
          current,      \* current_ips
          next,         \* the position of the loop in it
          new_ips,      \* the new list so far
          outcome       \* "none", and at the end "unchanged" or "changed"

vars == <<old, new, current, next, new_ips, outcome>>

Init ==
    /\ old \in Patterns
    /\ new \in News
    /\ current \in SeqOf(Entries, MaxEntries)
    /\ next = 1
    /\ new_ips = <<>>
    /\ outcome = "none"

\* Bug: the address is kept as it was printed.
Kept_Bug(t) == t

\* What the list keeps of an address.
Kept(t) == Normalized(t)

\* One round of the loop.
Examine ==
    /\ next <= Len(current)
    /\ new_ips' = IF MatchesPattern(current[next], old)
                  THEN new_ips ELSE Append(new_ips, Kept(current[next]))
    /\ next' = next + 1
    /\ UNCHANGED <<old, new, current, outcome>>

\* Bug: the new address is looked for with its mask.
HasNew_Bug(list, t) == t \in ToSet(list)

\* has_new_ip: texts are compared, and a list with commas is one text.
HasNew(list, t) == Normalized(t) \in ToSet(list)

\* After the loop.
Finish ==
    /\ next > Len(current)
    /\ outcome = "none"
    /\ new_ips' = IF HasNew(new_ips, new) THEN new_ips ELSE Append(new_ips, Normalized(new))
    /\ outcome' = IF Len(new_ips') = Len(current) /\ HasNew(new_ips, new)
                  THEN "unchanged" ELSE "changed"
    /\ UNCHANGED <<old, new, current, next>>

Next == Examine \/ Finish

Spec == Init /\ [][Next]_vars
------------------------------------------------------------------------------
\* What the texts mean: the definition the matchers are compared with.

\* Bit i of an address, from the left.
Bit(a, i) ==
    (a[((i - 1) \div OctetBits) + 1] \div Pow2[OctetBits - 1 - ((i - 1) % OctetBits)]) % 2

AgreeOn(a, b, bits) == \A i \in 1 .. bits : Bit(a, i) = Bit(b, i)

\* The order of addresses read from the left.
Before(a, b) == \E i \in 1 .. 4 : a[i] < b[i] /\ \A j \in 1 .. i - 1 : a[j] = b[j]

\* The text p speaks of the address a.
Means(p, a) ==
    CASE p.kind = "host" -> p.addr = a
      [] p.kind = "net" -> p.bits <= Width /\ AgreeOn(p.addr, a, p.bits)
      [] p.kind = "wild" -> \A i \in 1 .. 4 : p.parts[i] \in {Star, a[i]}
      [] p.kind = "range" -> ~Before(a, p.lo) /\ ~Before(p.hi, a)
      [] p.kind = "partial" -> /\ Len(p.parts) \in 1 .. 3
                               /\ \A i \in 1 .. Len(p.parts) : p.parts[i] = a[i]
      [] p.kind = "list" -> Host(a) \in p.hosts
      [] OTHER -> p.kind = "any"

\* A text netsh prints for a single address.
IsHost(t) == t.kind = "host" \/ (t.kind = "net" /\ t.bits = Width)

\* The first address of a text netsh prints.
HasFirst(t) == t.kind # "word"
First(t) == IF t.kind = "range" THEN t.lo ELSE t.addr

\* A pattern without commas, for which an address is meant or not.
IsPlain(p) == p.kind \in {"host", "net", "wild", "range", "partial"}

\* The pattern is the beginning of the address's digits, as 1.2.3.1 is of
\* 1.2.3.10: it does not end in a dot, the parts before its last one are the
\* address's, and 0, 1 or 2 digits follow.
BeginsTheDigits(p, a) ==
    LET parts == IF p.kind = "host" THEN p.addr ELSE p.parts
        n == Len(parts)
    IN  /\ p.kind = "host" \/ (p.kind = "partial" /\ ~p.dot)
        /\ n \in 1 .. 4
        /\ \A i \in 1 .. n - 1 : parts[i] = a[i]
        /\ \/ a[n] = parts[n]
           \/ parts[n] # 0 /\ a[n] \in 10 * parts[n] .. 10 * parts[n] + 9
           \/ parts[n] # 0 /\ a[n] \in 100 * parts[n] .. 100 * parts[n] + 99

\* How netsh may print a text it was given: hosts with their mask.
Printed(t) == IF t.kind = "host" THEN Net(t.addr, Width) ELSE t

\* Where the loop has been.
Examined == {current[i] : i \in 1 .. next - 1}

TypeOK ==
    /\ next \in 1 .. Len(current) + 1
    /\ ToSet(new_ips) \subseteq {Normalized(t) : t \in Entries \cup News}
    /\ Len(new_ips) <= Len(current) + 1
    /\ outcome \in {"none", "unchanged", "changed"}

(***************************************************************************)
(* Every address the old pattern speaks of is gone, whatever form it and   *)
(* the pattern have: a mask of 0, of the full width or in the middle of an *)
(* octet, the ends of a range, a name of netsh's for a single host.        *)
(***************************************************************************)
DropsWhatIsMeant ==
    IsPlain(old) => \A t \in Examined :
        IsHost(t) /\ Means(old, t.addr) /\ Normalized(t) # Normalized(new)
            => Normalized(t) \notin ToSet(new_ips)

(***************************************************************************)
(* What is dropped apart from that has its bounds: of a network or a range *)
(* the code only looks at the first address, and a pattern without a dot   *)
(* at its end also drops what its digits begin (1.2.3.1 drops 1.2.3.10,    *)
(* which is no intention: see OnlyMeantIsDropped).  An empty pattern drops *)
(* nothing at all, no pattern what differs from it before its last part.   *)
(***************************************************************************)
DropsNothingElse ==
    \A t \in Examined :
        \/ Normalized(t) \in ToSet(new_ips)
        \/ t = old
        \/ HasFirst(t) /\ (Means(old, First(t)) \/ BeginsTheDigits(old, First(t)))

(***************************************************************************)
(* The comment at the loop of update_rule (windows.rs:937): the old        *)
(* addresses are filtered by network, wildcard and range, not by simple    *)
(* equality or prefix.  Then no single address is dropped of which the     *)
(* pattern does not speak.  The code does drop 1.2.3.10 for the pattern    *)
(* 1.2.3.1.                                                                *)
(***************************************************************************)
OnlyMeantIsDropped ==
    \A t \in Examined :
        IsHost(t) => Normalized(t) \in ToSet(new_ips) \/ Means(old, t.addr)

(***************************************************************************)
(* The same update once more answers "already configured correctly" and    *)
(* does not delete and create the rule again, also when netsh prints the   *)
(* hosts with their mask.  This is claimed only for one new address, or    *)
(* network, without commas, which the old pattern does not match: with the *)
(* pattern 1.2.3.0/24 for a new address in that network, or with commas,   *)
(* every repetition rebuilds the rule.                                     *)
(***************************************************************************)
RepeatedUpdateChangesNothing ==
    LET again == [i \in 1 .. Len(new_ips) |-> Printed(new_ips[i])]
    IN  outcome = "changed" /\ new.kind # "list" /\ ~MatchesPattern(Printed(Normalized(new)), old)
            => /\ \A t \in ToSet(again) : ~MatchesPattern(t, old)
               /\ HasNew([i \in 1 .. Len(again) |-> Kept(again[i])], new)
==============================================================================
