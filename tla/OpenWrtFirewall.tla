--------------------------- MODULE OpenWrtFirewall ---------------------------
(***************************************************************************)
(* The OpenWrt backend (src/src/firewall/openwrt.rs).  A call is a series  *)
(* of external commands, each of which can fail, be it that the program    *)
(* cannot be started: `uci set` or `uci delete`, which stage a change,     *)
(* `uci commit`, which writes all staged changes to the configuration      *)
(* file, and a reload, which makes the firewall follow the file.           *)
(*                                                                         *)
(* The backend keeps no state of its own.  What it works on is UCI's:      *)
(* the file, the staged view (the file under the staged changes; it        *)
(* survives the server's process but not a reboot), and the live rule set. *)
(*                                                                         *)
(* A section is a function from the options that are set to their values.  *)
(* The option `name`, which always repeats the section's name, and `dest`  *)
(* and `proto`, which are written between `src` and `dest_port` just as    *)
(* they are, are left out.  get_status reads the staged view and changes   *)
(* nothing.                                                                *)
(*                                                                         *)
(* A definition with _Bug in its name is the one after it with a plausible *)
(* mistake; it shows that a property can tell the difference.              *)
(***************************************************************************)
EXTENDS Integers, Sequences

CONSTANTS Names,          \* rule names, which are section names too
          Srcs, Ports,    \* values of the options src and dest_port
          NoRule, NoCall, \* stand for the absence of a rule and of a call
          NoList,         \* stands for: no list was asked for since the last call
          MaxFaults       \* bound on failing commands, crashes and reboots

Specs == [src : Srcs, dest_port : Ports]

Calls == [kind : {"create"}, name : Names, spec : Specs]
            \cup [kind : {"enable", "disable", "delete"}, name : Names]

ASSUME OpenWrtAssumption ==
    /\ NoCall \notin Calls
    /\ NoRule \notin [spec : Specs, state : {"on", "off"}]
    /\ MaxFaults \in Nat

VARIABLES file,     \* file[n]: section n of /etc/config/firewall
          staged,   \* staged[n]: section n as `uci show` prints it
          live,     \* live[n]: section n as of the last reload
          call,     \* the call in progress, or NoCall
          pc,       \* where it is: "idle", "stage", "commit" or "reload"
          step,     \* the next of its uci set commands
          reply,    \* what the last call returned
          shown,    \* what list_rules returned since then, or NoList
          tainted,  \* history: names with a call that ended half-way
          faults    \* history: how many failures there were

vars == <<file, staged, live, call, pc, step, reply, shown, tainted, faults>>

Absent == [f \in {} |-> ""]

\* The options in the order create_rule sets them.
FieldOrder == <<"type", "src", "dest_port", "target", "enabled">>
Fields == {FieldOrder[i] : i \in 1 .. Len(FieldOrder)}

\* Bug: enabled is written in a form UCI does not read.
Assignment_Bug(spec, f) ==
    IF f = "type" THEN "rule"
    ELSE IF f = "src" THEN spec.src
    ELSE IF f = "dest_port" THEN spec.dest_port
    ELSE IF f = "target" THEN "ACCEPT"
    ELSE "true"

\* The values create_rule sets them to.
Assignment(spec, f) ==
    IF f = "type" THEN "rule"
    ELSE IF f = "src" THEN spec.src
    ELSE IF f = "dest_port" THEN spec.dest_port
    ELSE IF f = "target" THEN "ACCEPT"
    ELSE "1"

\* uci set: the option is added or overwritten, the others stay.
Put(section, f, value) ==
    [g \in DOMAIN section \cup {f} |-> IF g = f THEN value ELSE section[g]]

------------------------------------------------------------------------------
\* External: UCI.  Apart from the type, an option can only be set in a section
\* that exists, and only a section that exists can be deleted.
UciAccepts(n, kind) == kind = "create" \/ staged[n] # Absent

Init ==
    /\ file = [n \in Names |-> Absent]
    /\ staged = file
    /\ live = file
    /\ call = NoCall /\ pc = "idle" /\ step = 1
    /\ reply = "none"
    /\ shown = NoList
    /\ tainted = {}
    /\ faults = 0

\* The server calls the backend.
Begin ==
    /\ pc = "idle"
    /\ call' \in Calls
    /\ pc' = "stage"
    /\ step' = 1
    /\ reply' = "none"
    /\ shown' = NoList
    /\ UNCHANGED <<file, staged, live, tainted, faults>>

\* Bug: the last option is forgotten.
CreateStep_Bug ==
    /\ pc = "stage" /\ call.kind = "create"
    /\ LET f == FieldOrder[step] IN
          staged' = [staged EXCEPT ![call.name] = Put(@, f, Assignment(call.spec, f))]
    /\ step' = step + 1
    /\ pc' = IF step + 1 = Len(FieldOrder) THEN "commit" ELSE "stage"
    /\ UNCHANGED <<file, live, call, reply, shown, tainted, faults>>

\* create_rule: the next `uci set` succeeds.
CreateStep ==
    /\ pc = "stage" /\ call.kind = "create"
    /\ LET f == FieldOrder[step] IN
          staged' = [staged EXCEPT ![call.name] = Put(@, f, Assignment(call.spec, f))]
    /\ step' = step + 1
    /\ pc' = IF step = Len(FieldOrder) THEN "commit" ELSE "stage"
    /\ UNCHANGED <<file, live, call, reply, shown, tainted, faults>>

\* enable_rule and disable_rule: their only `uci set` succeeds.
SetEnabled ==
    /\ pc = "stage" /\ call.kind \in {"enable", "disable"}
    /\ UciAccepts(call.name, call.kind)
    /\ staged' = [staged EXCEPT ![call.name] =
                     Put(@, "enabled", IF call.kind = "enable" THEN "1" ELSE "0")]
    /\ pc' = "commit"
    /\ UNCHANGED <<file, live, call, step, reply, shown, tainted, faults>>

\* delete_rule: `uci delete` succeeds.
DeleteSection ==
    /\ pc = "stage" /\ call.kind = "delete"
    /\ UciAccepts(call.name, call.kind)
    /\ staged' = [staged EXCEPT ![call.name] = Absent]
    /\ pc' = "commit"
    /\ UNCHANGED <<file, live, call, step, reply, shown, tainted, faults>>

\* Some command of the call has succeeded and is not committed.
HalfWay == pc = "commit" \/ (pc = "stage" /\ step > 1)

EndCall(answer) ==
    /\ call' = NoCall
    /\ pc' = "idle"
    /\ step' = 1
    /\ reply' = answer
    /\ tainted' = IF HalfWay THEN tainted \cup {call.name} ELSE tainted
    /\ UNCHANGED shown

Fault ==
    /\ faults < MaxFaults
    /\ faults' = faults + 1

\* Bug: the error of a uci command is dropped.
UciFails_Bug ==
    /\ \/ Fault
       \/ /\ pc = "stage" /\ ~UciAccepts(call.name, call.kind)
          /\ UNCHANGED faults
    /\ pc \in {"stage", "commit"}
    /\ EndCall("ok")
    /\ UNCHANGED <<file, staged, live>>

\* A uci command fails and `?` returns its error; nothing is reverted.
UciFails ==
    /\ \/ Fault
       \/ /\ pc = "stage" /\ ~UciAccepts(call.name, call.kind)
          /\ UNCHANGED faults
    /\ pc \in {"stage", "commit"}
    /\ EndCall("error")
    /\ UNCHANGED <<file, staged, live>>

\* Bug: the reload is not preceded by a commit.
Commit_Bug ==
    /\ pc = "commit"
    /\ pc' = "reload"
    /\ tainted' = IF call.kind \in {"create", "delete"}
                  THEN tainted \ {call.name} ELSE tainted
    /\ UNCHANGED <<file, staged, live, call, step, reply, shown, faults>>

\* reload_firewall: `uci commit firewall` succeeds and writes every staged
\* change, those of earlier calls that failed included.
Commit ==
    /\ pc = "commit"
    /\ file' = staged
    /\ pc' = "reload"
    /\ tainted' = IF call.kind \in {"create", "delete"}
                  THEN tainted \ {call.name} ELSE tainted
    /\ UNCHANGED <<staged, live, call, step, reply, shown, faults>>

\* reload_firewall: fw4, fw3 or the init script reloads.
Reload ==
    /\ pc = "reload"
    /\ live' = file
    /\ EndCall("ok")
    /\ UNCHANGED <<file, staged, faults>>

\* reload_firewall: all three fail, which is logged and otherwise ignored.
ReloadFails ==
    /\ Fault
    /\ pc = "reload"
    /\ EndCall("ok")
    /\ UNCHANGED <<file, staged, live>>

\* The rules among the sections `uci show` prints, and what list_rules makes of
\* one: an option that is not set has a default, so a rule without `enabled` is on.
Listed(section) == "type" \in DOMAIN section /\ section["type"] = "rule"

ListedRule(section) ==
    [src |-> IF "src" \in DOMAIN section THEN section["src"] ELSE "any",
     dest_port |-> IF "dest_port" \in DOMAIN section THEN section["dest_port"] ELSE "0",
     enabled |-> "enabled" \in DOMAIN section => section["enabled"] = "1"]

\* A list without rules.
Nothing == [n \in {} |-> ""]

\* list_rules: `uci show` prints the staged view.
ListRules ==
    /\ pc = "idle"
    /\ shown' = [n \in {m \in Names : Listed(staged[m])} |-> ListedRule(staged[n])]
    /\ UNCHANGED <<file, staged, live, call, pc, step, reply, tainted, faults>>

\* list_rules: `uci show` fails, and the answer is a list without rules.
ListRulesFails ==
    /\ Fault
    /\ pc = "idle"
    /\ shown' = Nothing
    /\ UNCHANGED <<file, staged, live, call, pc, step, reply, tainted>>

\* The server's process dies; UCI keeps what was staged.
Crash ==
    /\ Fault
    /\ pc # "idle"
    /\ EndCall("none")
    /\ UNCHANGED <<file, staged, live>>

\* The router restarts: staged changes are gone and the file is loaded.
Reboot ==
    /\ Fault
    /\ EndCall("none")
    /\ staged' = file
    /\ live' = file
    /\ UNCHANGED file

Next ==
    \/ Begin
    \/ CreateStep \/ SetEnabled \/ DeleteSection
    \/ UciFails
    \/ Commit
    \/ Reload \/ ReloadFails
    \/ ListRules \/ ListRulesFails
    \/ Crash \/ Reboot

Spec == Init /\ [][Next]_vars
------------------------------------------------------------------------------
Values == {"rule", "ACCEPT", "0", "1"} \cup Srcs \cup Ports
Sections == UNION {[F -> Values] : F \in SUBSET Fields}
ListedRules ==
    [src : Values \cup {"any"}, dest_port : Values \cup {"0"}, enabled : BOOLEAN]

TypeOK ==
    /\ file \in [Names -> Sections]
    /\ staged \in [Names -> Sections]
    /\ live \in [Names -> Sections]
    /\ call \in Calls \cup {NoCall}
    /\ pc \in {"idle", "stage", "commit", "reload"}
    /\ step \in 1 .. Len(FieldOrder) + 1
    /\ reply \in {"none", "ok", "error"}
    /\ shown # NoList => shown \in UNION {[N -> ListedRules] : N \in SUBSET Names}
    /\ tainted \subseteq Names
    /\ faults \in Nat

\* The sections create_rule, enable_rule and disable_rule make of a spec.
Complete(spec, enabled) ==
    [f \in Fields |-> IF f = "enabled" THEN enabled ELSE Assignment(spec, f)]

CompleteSections == {Complete(spec, enabled) : spec \in Specs, enabled \in {"0", "1"}}

(***************************************************************************)
(* create_rule opens a port with `target ACCEPT` in several commands.  No  *)
(* rule that lacks some of its restrictions, or mixes those of two calls,  *)
(* reaches the configuration file, not even carried there by the commit of *)
(* a later call, except under a name with a call that ended half-way, and  *)
(* creating or deleting that name repairs it.                              *)
(***************************************************************************)
CommittedRulesComplete ==
    \A n \in Names \ tainted : file[n] = Absent \/ file[n] \in CompleteSections

(***************************************************************************)
(* list_rules reads the staged view, in which there may be what was never  *)
(* committed.  Still the list that is returned has of every rule exactly   *)
(* what the configuration file has: it is there or not, with its values.   *)
(* Two things are left.  Under a name with a call that ended half-way it   *)
(* may show a rule that is not in force, or hide one that is; and when     *)
(* `uci show` fails it has no rule at all and is a success nevertheless.   *)
(***************************************************************************)
ListShowsCommitted ==
    shown \notin {NoList, Nothing} =>
        \A n \in Names \ tainted :
            IF file[n] = Absent THEN n \notin DOMAIN shown
            ELSE n \in DOMAIN shown /\ shown[n] = ListedRule(file[n])

(***************************************************************************)
(* spec.md line 150: a firewall command that fails is answered with an     *)
(* error.  When the reload fails the call still returns Ok, and the        *)
(* firewall does not follow the configuration.                             *)
(***************************************************************************)
FailedReloadIsReported == reply = "ok" => live = file
------------------------------------------------------------------------------
\* The rule a section stands for.
RuleOf(section) ==
    IF section = Absent THEN NoRule
    ELSE IF DOMAIN section # Fields THEN section
    ELSE [spec |-> [src |-> section["src"], dest_port |-> section["dest_port"]],
          state |-> IF section["enabled"] = "1" THEN "on" ELSE "off"]

Contract == INSTANCE FirewallContract WITH
    rules <- [n \in Names |-> RuleOf(file[n])],
    doubtful <- tainted,
    applied <- pc = "reload"

(***************************************************************************)
(* The backend keeps the contract the server relies on, with the commit as *)
(* the moment a call takes effect on the configuration.                    *)
(***************************************************************************)
ImplementsContract == Contract!Spec
==============================================================================
