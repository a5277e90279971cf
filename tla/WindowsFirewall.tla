--------------------------- MODULE WindowsFirewall ---------------------------
(***************************************************************************)
(* The Windows backend (src/src/firewall/windows.rs).  It works through    *)
(* netsh commands, each of which can fail, and keeps a copy of rules in    *)
(* memory that it falls back to.  create, enable, disable and delete are   *)
(* one command; update shows the rule twice, deletes it and adds it anew,  *)
(* and the server may die and others may edit the firewall in between.     *)
(*                                                                         *)
(* In netsh a name is no key: several rules may have the same name and     *)
(* direction.  They are shown in an order nobody promises, so that the     *)
(* "last" and the "first" rule shown are any two of them.  Rules equal in  *)
(* every field count as one.  "all" is not a name but netsh's keyword for  *)
(* every rule, and the code passes it on like a name.                      *)
(*                                                                         *)
(* An address is a text; a list of addresses is a set of texts.  How texts *)
(* are compared with a pattern is Matches; AddressMerge is about that.     *)
(* The protocol behaves as the action, and the remote port, the local      *)
(* address and the description, which the server never gives, as the state *)
(* that is not given; they are left out.  scope stands for what netsh      *)
(* keeps of a rule and RuleFullInfo has no field for: profile, program,    *)
(* service, interface type and so on.                                      *)
(*                                                                         *)
(* A definition with _Bug in its name is the one after it with a plausible *)
(* mistake; it shows that a property can tell the difference.              *)
(***************************************************************************)
EXTENDS Integers, FiniteSets, RuleMemory

CONSTANTS Names,          \* the names rules have
          AllRules,       \* the keyword "all", given as a name
          Addrs,          \* addresses, as texts
          AnyAddr,        \* what netsh prints for "any": matches everybody
          Ports,          \* local ports
          Patterns,       \* old patterns of updates
          Matches,        \* Matches[p]: the texts pattern p matches
          Creations,      \* what users give in a create: addresses and a port
          Lists,          \* the new addresses they give in an update, "any" apart
          Settings,       \* what else they give, or not, in an update
          Scopes, DefaultScope,
          Existing,       \* rules others have made, or may make
          NoCall, NoPlan, \* stand for the absence of a call and of a plan
          MaxRules,       \* bound on the number of rules when one is made
          MaxCalls,       \* bound on the number of calls
          MaxEdits,       \* bound on the edits by others
          MaxFaults       \* bound on failing commands and crashes

Texts == Addrs \cup {AnyAddr}
Directions == {"in", "out"}
States == {"on", "off"}

\* What users give as a name.
GivenNames == Names \cup {AllRules}

\* ports = {} means any port.
Rules == [name : Names, dir : Directions, ips : (SUBSET Texts) \ {{}},
          ports : SUBSET Ports, action : {"allow", "block"},
          state : States, scope : Scopes]

\* What an update is about to make: the addresses come last, and the action
\* may be the empty text.
Plans == [name : GivenNames, dir : Directions, ips : SUBSET Texts,
          ports : SUBSET Ports, action : {"", "allow", "block"},
          state : States, scope : Scopes]

\* FirewallRule, as far as properties tell apart.
Entries == [name : GivenNames, ips : (SUBSET Texts) \ {{}}, state : States]

\* port: the port given, or {}; action "" and state "" are not given.
AllSettings == [action : {"", "allow", "block"},
                port : {{}} \cup {{p} : p \in Ports},
                state : States \cup {""}]

Updates == [kind : {"update"}, name : GivenNames, dir : Directions,
            old : Patterns, new : Lists, set : Settings]

Calls == [kind : {"create"}, name : GivenNames, dir : Directions,
          what : Creations]
            \cup [kind : {"enable", "disable"}, name : GivenNames, dir : Directions]
            \cup [kind : {"delete"}, name : GivenNames]
            \cup Updates

ASSUME WindowsAssumption ==
    /\ AllRules \notin Names
    /\ DefaultScope \in Scopes
    /\ Matches \in [Patterns -> SUBSET Texts]
    /\ Creations \subseteq [src : SUBSET Addrs, port : Ports]
    /\ Lists \subseteq SUBSET Addrs
    /\ AnyAddr \notin Addrs
    /\ Settings \subseteq AllSettings
    /\ Existing \subseteq Rules
    /\ NoCall \notin Calls
    /\ MaxRules \in Nat /\ MaxCalls \in Nat /\ MaxEdits \in Nat /\ MaxFaults \in Nat

VARIABLES firewall,   \* the rules of the Windows firewall
          copy,       \* fallback_rules
          call,       \* the last call, in progress or done
          pc,         \* where it is: "idle", "compare", "remove" or "add"
          plan,       \* what the update has found out of the rule to make
          reply,      \* what the last call returned
          before,     \* history: the firewall when the last update began
          edited,     \* history: whether others have edited it since
          unmade,     \* history: names this process has failed to make
          calls,      \* history: how many calls there were
          edits,      \* history: how many edits there were
          faults      \* history: how many failures and crashes there were

vars == <<firewall, copy, call, pc, plan, reply, before, edited, unmade, calls, edits, faults>>

\* Bug: the direction is ignored.
Concerns_Bug(c, r) == c.name \in {r.name, AllRules}

\* The rules netsh picks for the arguments name and dir of a call.
Concerns(c, r) ==
    /\ c.name \in {r.name, AllRules}
    /\ c.kind # "delete" => r.dir = c.dir

Chosen(c) == {r \in firewall : Concerns(c, r)}

Entry(r) == [name |-> r.name, ips |-> r.ips, state |-> r.state]

\* External: netsh add.  It refuses an empty action, and "all" as a name;
\* whether it takes a list in which "any" stands beside addresses is not known.
Accepted(r) == r.action # "" /\ r.name # AllRules
Dubious(r) == ~Accepted(r) \/ (AnyAddr \in r.ips /\ r.ips # {AnyAddr})

Init ==
    /\ firewall \in {S \in SUBSET Existing : Cardinality(S) <= MaxRules}
    /\ copy = {}
    /\ call = NoCall /\ pc = "idle" /\ plan = NoPlan /\ reply = "none"
    /\ before = {} /\ edited = FALSE
    /\ unmade = {} /\ calls = 0 /\ edits = 0 /\ faults = 0

Fault ==
    /\ faults < MaxFaults
    /\ faults' = faults + 1

\* The server calls the backend.
Called(c) ==
    /\ pc = "idle"
    /\ c \in Calls
    /\ calls < MaxCalls
    /\ calls' = calls + 1
    /\ call' = c
    /\ before' = IF c.kind = "update" THEN firewall ELSE {}
    /\ edited' = FALSE

AtOnce == UNCHANGED <<pc, plan, edits>>
------------------------------------------------------------------------------
\* The rule create_rule asks for; without an address, or with "any", for all.
Wanted(c) ==
    [name |-> c.name, dir |-> c.dir, ips |-> IF c.what.src = {} THEN {AnyAddr} ELSE c.what.src,
     ports |-> {c.what.port}, action |-> "allow", state |-> "on", scope |-> DefaultScope]

\* Bug: the copy follows netsh.
CreateRule_Bug(c) ==
    /\ Called(c) /\ c.kind = "create"
    /\ Accepted(Wanted(c)) /\ Cardinality(firewall) < MaxRules
    /\ firewall' = firewall \cup {Wanted(c)}
    /\ copy' = Stored(copy, Entry(Wanted(c)))
    /\ reply' = "ok"
    /\ AtOnce /\ UNCHANGED <<unmade, faults>>

\* create_rule: netsh add succeeds.  A rule of the same name stays.
CreateRule(c) ==
    /\ Called(c) /\ c.kind = "create"
    /\ Accepted(Wanted(c)) /\ Cardinality(firewall) < MaxRules
    /\ firewall' = firewall \cup {Wanted(c)}
    /\ reply' = "ok"
    /\ AtOnce /\ UNCHANGED <<copy, unmade, faults>>

\* create_rule: netsh add fails, the copy gets the rule, and all is well.
CreateFails(c) ==
    /\ Called(c) /\ c.kind = "create"
    /\ Fault \/ (Dubious(Wanted(c)) /\ UNCHANGED faults)
    /\ copy' = Stored(copy, Entry(Wanted(c)))
    /\ unmade' = unmade \cup {c.name}
    /\ reply' = "ok"
    /\ AtOnce /\ UNCHANGED firewall

Asked(c) == IF c.kind = "enable" THEN "on" ELSE "off"

\* enable_rule and disable_rule: netsh set changes all rules it finds.
SetRule(c) ==
    /\ Called(c) /\ c.kind \in {"enable", "disable"}
    /\ Chosen(c) # {}
    /\ firewall' = {IF Concerns(c, r) THEN [r EXCEPT !.state = Asked(c)] ELSE r : r \in firewall}
    /\ reply' = "ok"
    /\ AtOnce /\ UNCHANGED <<copy, unmade, faults>>

\* Bug: the failure is reported only when there is no copy at all.
SetFails_Bug(c) ==
    /\ Called(c) /\ c.kind \in {"enable", "disable"}
    /\ Fault \/ (Chosen(c) = {} /\ UNCHANGED faults)
    /\ copy' = Switched(copy, c.name, Asked(c))
    /\ reply' = IF copy # {} THEN "ok" ELSE "error"
    /\ AtOnce /\ UNCHANGED <<firewall, unmade>>

\* enable_rule and disable_rule: netsh set fails.
SetFails(c) ==
    /\ Called(c) /\ c.kind \in {"enable", "disable"}
    /\ Fault \/ (Chosen(c) = {} /\ UNCHANGED faults)
    /\ copy' = Switched(copy, c.name, Asked(c))
    /\ reply' = IF Has(copy, c.name) THEN "ok" ELSE "error"
    /\ AtOnce /\ UNCHANGED <<firewall, unmade>>

\* delete_rule: netsh delete removes all rules of the name, in both directions.
DeleteRule(c) ==
    /\ Called(c) /\ c.kind = "delete"
    /\ Chosen(c) # {}
    /\ firewall' = firewall \ Chosen(c)
    /\ reply' = "ok"
    /\ AtOnce /\ UNCHANGED <<copy, unmade, faults>>

\* delete_rule: netsh delete fails.
DeleteFails(c) ==
    /\ Called(c) /\ c.kind = "delete"
    /\ Fault \/ (Chosen(c) = {} /\ UNCHANGED faults)
    /\ copy' = Without(copy, c.name)
    /\ reply' = IF Has(copy, c.name) THEN "ok" ELSE "error"
    /\ AtOnce /\ UNCHANGED <<firewall, unmade>>
------------------------------------------------------------------------------
Given(value, otherwise) == IF value # "" THEN value ELSE otherwise

\* Of several ports only the first number is read.  A rule for any protocol is
\* shown without a line for ports: what was read of another rule stays.
PortRead(c, r) ==
    IF r.ports # {} THEN {{p} : p \in r.ports}
    ELSE {{}} \cup {{p} : p \in UNION {q.ports : q \in Chosen(c)}}

\* Bug: a state that is not given is not taken from the old rule.
Effective_Bug(c, r, ports) ==
    [name |-> c.name, dir |-> c.dir, ips |-> {},
     ports |-> IF c.set.port # {} THEN c.set.port ELSE ports,
     action |-> Given(c.set.action, r.action), state |-> c.set.state,
     scope |-> DefaultScope]

\* What is not given is taken from the old rule; the addresses come later.
Effective(c, r, ports) ==
    [name |-> c.name, dir |-> c.dir, ips |-> {},
     ports |-> IF c.set.port # {} THEN c.set.port ELSE ports,
     action |-> Given(c.set.action, r.action), state |-> Given(c.set.state, r.state),
     scope |-> DefaultScope]

\* For a rule that does not exist the arguments are taken as they are.
Fresh(c) ==
    [name |-> c.name, dir |-> c.dir, ips |-> c.new, ports |-> c.set.port,
     action |-> c.set.action, state |-> Given(c.set.state, "on"), scope |-> DefaultScope]

InUpdate == UNCHANGED <<call, before, edited, calls, edits>>

EndUpdate(answer) ==
    /\ pc' = "idle"
    /\ plan' = NoPlan
    /\ reply' = answer

\* An empty new_ip is refused.
UpdateRefused(c) ==
    /\ Called(c) /\ c.kind = "update"
    /\ c.new = {}
    /\ EndUpdate("error")
    /\ UNCHANGED <<firewall, copy, unmade, edits, faults>>

\* get_rule_full_info: the values of the last rule shown.
UpdateLooksUp(c) ==
    /\ Called(c) /\ c.kind = "update"
    /\ c.new # {}
    /\ \E r \in Chosen(c) : \E ports \in PortRead(c, r) : plan' = Effective(c, r, ports)
    /\ pc' = "compare"
    /\ reply' = "none"
    /\ UNCHANGED <<firewall, copy, unmade, edits, faults>>

\* get_rule_full_info: no such rule, so that one is created.
UpdateFindsNothing(c) ==
    /\ Called(c) /\ c.kind = "update"
    /\ c.new # {}
    /\ Chosen(c) = {}
    /\ Cardinality(firewall) < MaxRules
    /\ plan' = Fresh(c)
    /\ pc' = "add"
    /\ reply' = "none"
    /\ UNCHANGED <<firewall, copy, unmade, edits, faults>>

\* get_rule_full_info: netsh fails.
UpdateLookUpFails(c) ==
    /\ Called(c) /\ c.kind = "update"
    /\ c.new # {}
    /\ Fault
    /\ EndUpdate("error")
    /\ UNCHANGED <<firewall, copy, unmade, edits>>

\* Bug: the addresses that match are kept, and the others dropped.
Kept_Bug(c, r) == r.ips \cap Matches[c.old]

\* The addresses of a rule that the old pattern does not match.
Kept(c, r) == r.ips \ Matches[c.old]

\* The new list is the old one: a list with commas is one text, which no
\* address is equal to.
Same(c, r) == Kept(c, r) = r.ips /\ Cardinality(c.new) = 1 /\ c.new \subseteq r.ips

\* get_rule_remote_ips, the addresses of the first rule shown, and the loop.
UpdateCompares ==
    /\ pc = "compare"
    /\ \E r \in Chosen(call) :
          IF Same(call, r)
          THEN EndUpdate("unchanged")
          ELSE /\ plan' = [plan EXCEPT !.ips = Kept(call, r) \cup call.new]
               /\ pc' = "remove"
               /\ UNCHANGED reply
    /\ InUpdate /\ UNCHANGED <<firewall, copy, unmade, faults>>

\* get_rule_remote_ips or the delete command: netsh fails or finds no rule.
UpdateCommandFails ==
    /\ pc \in {"compare", "remove"}
    /\ Fault \/ (Chosen(call) = {} /\ UNCHANGED faults)
    /\ EndUpdate("error")
    /\ InUpdate /\ UNCHANGED <<firewall, copy, unmade>>

\* The delete command: all rules of the name and direction are gone.
UpdateRemoves ==
    /\ pc = "remove"
    /\ Chosen(call) # {}
    /\ firewall' = firewall \ Chosen(call)
    /\ pc' = "add"
    /\ InUpdate /\ UNCHANGED <<copy, plan, reply, unmade, faults>>

\* create_rule_with_params: netsh add succeeds.
UpdateAdds ==
    /\ pc = "add"
    /\ Accepted(plan)
    /\ firewall' = firewall \cup {plan}
    /\ EndUpdate("updated")
    /\ InUpdate /\ UNCHANGED <<copy, unmade, faults>>

\* Bug: the rule is not put into the copy.
UpdateAddFails_Bug ==
    /\ pc = "add"
    /\ Fault \/ (Dubious(plan) /\ UNCHANGED faults)
    /\ unmade' = unmade \cup {call.name}
    /\ EndUpdate("error")
    /\ InUpdate /\ UNCHANGED <<firewall, copy>>

\* create_rule_with_params: netsh add fails, and the copy gets the rule.
UpdateAddFails ==
    /\ pc = "add"
    /\ Fault \/ (Dubious(plan) /\ UNCHANGED faults)
    /\ copy' = Stored(copy, Entry(plan))
    /\ unmade' = unmade \cup {call.name}
    /\ EndUpdate("error")
    /\ InUpdate /\ UNCHANGED firewall

\* The server's process dies; the copy dies with it.
Crash ==
    /\ Fault
    /\ copy' = {} /\ unmade' = {}
    /\ EndUpdate("none")
    /\ InUpdate /\ UNCHANGED firewall

\* Others make, remove or change a rule, whatever the server is doing.
Edit ==
    /\ edits < MaxEdits
    /\ edits' = edits + 1
    /\ edited' = TRUE
    /\ \/ \E r \in Existing \ firewall :
             Cardinality(firewall) < MaxRules /\ firewall' = firewall \cup {r}
       \/ \E r \in firewall : firewall' = firewall \ {r}
    /\ UNCHANGED <<copy, call, pc, plan, reply, before, unmade, calls, faults>>

Next ==
    \/ \E c \in Calls :
          \/ CreateRule(c) \/ CreateFails(c)
          \/ SetRule(c) \/ SetFails(c)
          \/ DeleteRule(c) \/ DeleteFails(c)
          \/ UpdateRefused(c) \/ UpdateLooksUp(c)
          \/ UpdateFindsNothing(c) \/ UpdateLookUpFails(c)
    \/ UpdateCompares \/ UpdateCommandFails \/ UpdateRemoves
    \/ UpdateAdds \/ UpdateAddFails
    \/ Crash \/ Edit

Spec == Init /\ [][Next]_vars
------------------------------------------------------------------------------
\* The rules a caller speaks of: a deletion is of both directions.
Meant(c, r) == c.name \in {r.name, AllRules} /\ (c.kind = "delete" \/ r.dir = c.dir)

\* What there was of them when the call began, and what there is now.
Was == {r \in before : Meant(call, r)}
Now == {r \in firewall : Meant(call, r)}

TypeOK ==
    /\ firewall \subseteq Rules /\ before \subseteq Rules
    /\ copy \subseteq Entries
    /\ call \in Calls \cup {NoCall}
    /\ pc \in {"idle", "compare", "remove", "add"}
    /\ reply \in {"none", "ok", "updated", "unchanged", "error"}
    /\ pc # "idle" => /\ call \in Updates /\ call.new # {}
                      /\ plan \in Plans
                      /\ plan.name = call.name /\ plan.dir = call.dir
    /\ pc \in {"remove", "add"} => plan.ips # {}
    /\ pc \in {"compare", "remove"} => plan.action # ""
    /\ unmade \subseteq GivenNames
    /\ edits \in 0 .. MaxEdits

RulesOf(n, d) == {r \in firewall : r.name = n /\ r.dir = d}

(***************************************************************************)
(* A call for an ordinary name changes no rule of another name and,        *)
(* deletion apart, none of the other direction ("avoid deleting the rule   *)
(* of the same name in the other direction", windows.rs:1026), whatever    *)
(* fails in the middle of it.  A call with "all" as the name is the        *)
(* exception: it changes rules of every name, and an update of "all"       *)
(* deletes every rule of the direction and makes none.                     *)
(***************************************************************************)
OnlyChosenRulesChange ==
    [][edits' = edits =>
          \A n \in Names, d \in Directions :
             RulesOf(n, d)' # RulesOf(n, d) =>
                 /\ call'.name \in {n, AllRules}
                 /\ call'.kind = "delete" \/ call'.dir = d]_vars

\* No ports are any port.
Narrower(ports, than) == than = {} \/ (ports # {} /\ ports \subseteq than)

\* r has the addresses of q that the old pattern does not match, and the new.
Merged(r, q) == r.ips = (q.ips \ Matches[call.old]) \cup call.new

\* r has what the call gave, and otherwise what q has; of several ports one.
Inherits(r, q) ==
    /\ r.action = IF call.set.action # "" THEN call.set.action ELSE q.action
    /\ r.state = IF call.set.state # "" THEN call.set.state ELSE q.state
    /\ IF call.set.port # {} THEN r.ports = call.set.port ELSE Narrower(r.ports, q.ports)

\* The one port, or any, is kept.
PortKept(r, q) ==
    call.set.port = {} => IF q.ports = {} THEN r.ports = {} ELSE \E p \in q.ports : r.ports = {p}

Updated(r) ==
    /\ Was = {} => r.ips = call.new
    /\ \A q \in Was : Was = {q} => Merged(r, q) /\ Inherits(r, q) /\ PortKept(r, q)
    /\ Was # {} => \E p, q \in Was : Merged(r, p) /\ Inherits(r, q)

(***************************************************************************)
(* After an update that answers "updated", and that nobody interfered      *)
(* with, there is exactly one rule of the name and direction.  When there  *)
(* was one before, the new one is that rule with the merged addresses and  *)
(* what the call gave; what it did not give is as it was (windows.rs:967), *)
(* except that of several ports only the first stays.  When there were     *)
(* several of them, the addresses are those of one and the rest is that of *)
(* one, but these may be two: out of a rule that blocks everybody and one  *)
(* that lets one address in on a port the code can make one that lets      *)
(* everybody in on it.                                                     *)
(***************************************************************************)
UpdateMerges ==
    reply = "updated" /\ ~edited => \E r \in Now : Now = {r} /\ Updated(r)

(***************************************************************************)
(* An update deletes before it adds, so it can lose the rule.  It never    *)
(* does so unnoticed: unless the server died, the caller is told of an     *)
(* error, and the rule with the new address is in the copy.                *)
(***************************************************************************)
LossIsReported ==
    pc = "idle" /\ ~edited /\ call \in Updates /\ Was # {} /\ Now = {} =>
        \/ reply = "none"
        \/ /\ reply = "error"
           /\ \E e \in copy : e.name = call.name /\ call.new \subseteq e.ips

\* The firewall is as the call wanted it.
InForce(c) ==
    /\ c.kind = "create" => Wanted(c) \in firewall
    /\ c.kind = "delete" => Now = {}
    /\ c.kind \in {"enable", "disable"} =>
          Now # {} /\ \A r \in Now : r.state = Asked(c)

(***************************************************************************)
(* The copy makes calls succeed that have no effect.  This never happens   *)
(* to a name that this process has not failed to make a rule for: then     *)
(* "success" is the state of the firewall.                                 *)
(***************************************************************************)
SuccessIsInForce ==
    reply = "ok" /\ ~edited => InForce(call) \/ call.name \in unmade

\* list_rules: the copy is shown when netsh fails or shows no rule.
ListRules(works) ==
    IF works /\ firewall # {} THEN {Entry(r) : r \in firewall} ELSE copy

(***************************************************************************)
(* Neither does list show a rule that is not in force, except under such a *)
(* name; and it shows an entry of the copy once.                           *)
(***************************************************************************)
ListIsReal ==
    \A works \in BOOLEAN : \A e \in ListRules(works) :
        \/ \E r \in firewall : Entry(r) = e
        \/ e.name \in unmade /\ \A f \in copy : f.name = e.name => f = e
==============================================================================
