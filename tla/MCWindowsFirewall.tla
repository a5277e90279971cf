-------------------------- MODULE MCWindowsFirewall --------------------------
(***************************************************************************)
(* WindowsFirewall on a small instance.  The first existing rule has two   *)
(* addresses, two ports and a scope of its own; the second has the name    *)
(* and the direction of the first, is for all addresses and ports, blocks  *)
(* and is off.                                                             *)
(***************************************************************************)
EXTENDS WindowsFirewall

CONSTANTS n1, n2, a1, a2

MCMatches == [p \in Patterns |-> {a1}]

Rule(n, dir, ips, ports, action, state, scope) ==
    [name |-> n, dir |-> dir, ips |-> ips, ports |-> ports,
     action |-> action, state |-> state, scope |-> scope]

MCExisting ==
    {Rule(n1, "in", {a1, a2}, Ports, "allow", "on", "narrow"),
     Rule(n1, "in", {AnyAddr}, {}, "block", "off", DefaultScope)}

MCSettings ==
    {[action |-> "", port |-> {}, state |-> ""],
     [action |-> "block", port |-> {80}, state |-> "on"]}

MCCreations == {[src |-> {}, port |-> 443]}

MCLists == {{}, {a2}}
==============================================================================
