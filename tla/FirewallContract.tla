-------------------------- MODULE FirewallContract ---------------------------
(***************************************************************************)
(* What the server relies on when it calls a FirewallManager (the trait in *)
(* src/src/firewall/mod.rs) to create, enable, disable or delete a rule,   *)
(* and tells the client "success" or "failure".                            *)
(*                                                                         *)
(* A call takes effect on the rule it names, at one moment before it       *)
(* returns Ok, or not at all if it returns an error.  A backend that works *)
(* through several external commands cannot promise the second half: when  *)
(* a call fails or is cut off half-way, its rule is in doubt from then on, *)
(* and may be anything until it is created or deleted successfully.  It    *)
(* must promise that no other rule is affected.                            *)
(***************************************************************************)
CONSTANTS Names,    \* rule names
          Specs,    \* what a rule says, whether it is on apart
          NoRule,   \* the rule of a name that has none
          NoCall    \* no call is in progress

Calls == [kind : {"create"}, name : Names, spec : Specs]
            \cup [kind : {"enable", "disable", "delete"}, name : Names]

VARIABLES rules,      \* rules[n]: the rule in force for name n
          doubtful,   \* the names whose last call failed half-way
          call,       \* the call in progress
          applied,    \* whether it has taken effect
          reply       \* what the last call returned: "none", "ok", "error"

vars == <<rules, doubtful, call, applied, reply>>

\* The rule after a successful call c on the rule r.
Effect(c, r) ==
    IF c.kind = "create" THEN [spec |-> c.spec, state |-> "on"]
    ELSE IF c.kind = "delete" THEN NoRule
    ELSE [r EXCEPT !.state = IF c.kind = "enable" THEN "on" ELSE "off"]

\* A call that says all there is to say about its rule.
Settles(c) == c.kind \in {"create", "delete"}

Init ==
    /\ rules = [n \in Names |-> NoRule]
    /\ doubtful = {}
    /\ call = NoCall /\ applied = FALSE /\ reply = "none"

Begin ==
    /\ call = NoCall
    /\ call' \in Calls
    /\ reply' = "none"
    /\ UNCHANGED <<rules, doubtful, applied>>

Apply ==
    /\ call # NoCall /\ ~applied
    /\ applied' = TRUE
    /\ doubtful' = IF Settles(call) THEN doubtful \ {call.name} ELSE doubtful
    /\ \A n \in Names \ doubtful' :
          rules'[n] = IF n = call.name THEN Effect(call, rules[n]) ELSE rules[n]
    /\ DOMAIN rules' = Names
    /\ UNCHANGED <<call, reply>>

\* A call that ends without having taken effect may leave its rule in doubt.
End(answer) ==
    /\ doubtful' = doubtful \/ (~applied /\ doubtful' = doubtful \cup {call.name})
    /\ reply' = answer
    /\ call' = NoCall /\ applied' = FALSE
    /\ UNCHANGED rules

ReturnOk == call # NoCall /\ applied /\ End("ok")

ReturnError == call # NoCall /\ ~applied /\ End("error")

\* The process dies, in the middle of a call or between two.
Die ==
    \/ call # NoCall /\ End("none")
    \/ call = NoCall /\ reply' = "none" /\ UNCHANGED <<rules, doubtful, call, applied>>

Next == Begin \/ Apply \/ ReturnOk \/ ReturnError \/ Die

Spec == Init /\ [][Next]_vars
==============================================================================
