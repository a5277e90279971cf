----------------------- MODULE WindowsFirewall_proofs ------------------------
(***************************************************************************)
(* The properties of WindowsFirewall, for every set of names, addresses,   *)
(* patterns and existing rules and any number of calls, edits and          *)
(* failures.                                                               *)
(***************************************************************************)
EXTENDS WindowsFirewall, TLAPS

\* A step of the server, by the kind of its call.
Single(c) ==
    CreateRule(c) \/ CreateFails(c) \/ SetRule(c) \/ SetFails(c)
        \/ DeleteRule(c) \/ DeleteFails(c)

Begins(c) ==
    UpdateRefused(c) \/ UpdateLooksUp(c) \/ UpdateFindsNothing(c) \/ UpdateLookUpFails(c)

\* What is in the copy is there once and was not made in the firewall.
CopyIsUnmade ==
    \A e \in copy : /\ e.name \in unmade
                    /\ \A f \in copy : f.name = e.name => f = e
------------------------------------------------------------------------------
\* A rule that create or update asks for is a rule.
LEMMA WantedRule ==
    ASSUME NEW c \in Calls, c.kind = "create"
    PROVE  /\ Accepted(Wanted(c)) => Wanted(c) \in Rules
           /\ Entry(Wanted(c)) \in Entries
           /\ Wanted(c).name = c.name /\ Wanted(c).dir = c.dir
  <1>1. /\ c.name \in GivenNames /\ c.dir \in Directions
        /\ c.what.src \in SUBSET Addrs /\ c.what.port \in Ports
    BY WindowsAssumption DEF Calls, Updates
  <1>2. (IF c.what.src = {} THEN {AnyAddr} ELSE c.what.src) \in (SUBSET Texts) \ {{}}
    BY <1>1 DEF Texts
  <1>3. {c.what.port} \in SUBSET Ports
    BY <1>1
  <1>4. QED
    BY <1>1, <1>2, <1>3, WindowsAssumption
       DEF Wanted, Rules, Entry, Entries, States, Accepted, GivenNames

LEMMA PlannedRule ==
    ASSUME NEW p \in Plans, p.ips # {}
    PROVE  /\ Entry(p) \in Entries /\ Entry(p).name = p.name
           /\ Accepted(p) => p \in Rules
  BY DEF Plans, Rules, Entry, Entries, Accepted, GivenNames

LEMMA EffectivePlan ==
    ASSUME NEW c \in Updates, NEW r \in Rules, NEW ports \in PortRead(c, r),
           firewall \subseteq Rules
    PROVE  /\ Effective(c, r, ports) \in Plans
           /\ Effective(c, r, ports).name = c.name /\ Effective(c, r, ports).dir = c.dir
           /\ Effective(c, r, ports).action # ""
  <1>1. c.set \in AllSettings /\ c.name \in GivenNames /\ c.dir \in Directions
    BY WindowsAssumption DEF Updates
  <1>2. ports \in SUBSET Ports
    <2>1. \A q \in Chosen(c) : q.ports \subseteq Ports
      BY DEF Chosen, Rules
    <2>2. r.ports \subseteq Ports
      BY DEF Rules
    <2>3. QED
      BY <2>1, <2>2 DEF PortRead
  <1>3. c.set.port \in SUBSET Ports
    BY <1>1 DEF AllSettings
  <1>4. /\ Given(c.set.action, r.action) \in {"allow", "block"}
        /\ Given(c.set.state, r.state) \in States
    BY <1>1 DEF AllSettings, Given, Rules, States
  <1>5. QED
    BY <1>1, <1>2, <1>3, <1>4, WindowsAssumption DEF Effective, Plans

LEMMA FreshPlan ==
    ASSUME NEW c \in Updates, c.new # {}
    PROVE  /\ Fresh(c) \in Plans /\ Fresh(c).ips = c.new /\ Fresh(c).ips # {}
           /\ Fresh(c).name = c.name /\ Fresh(c).dir = c.dir
  <1>1. c.set \in AllSettings /\ c.name \in GivenNames /\ c.dir \in Directions
        /\ c.new \in SUBSET Texts
    BY WindowsAssumption DEF Updates, Texts
  <1>2. /\ c.set.port \in SUBSET Ports /\ c.set.action \in {"", "allow", "block"}
        /\ Given(c.set.state, "on") \in States
    BY <1>1 DEF AllSettings, Given, States
  <1>3. QED
    BY <1>1, <1>2, WindowsAssumption DEF Fresh, Plans

\* The memory operators keep entries, one per name.
LEMMA MemoryFacts ==
    ASSUME NEW S \in SUBSET Entries, NEW n, NEW e \in Entries, NEW s \in States
    PROVE  /\ Without(S, n) \in SUBSET Entries
           /\ Stored(S, e) \in SUBSET Entries
           /\ Switched(S, n, s) \in SUBSET Entries
  BY DEF Without, Stored, Switched, Entries

LEMMA StoredKeepsNames ==
    ASSUME NEW S \in SUBSET Entries, NEW U, NEW e \in Entries,
           \A x \in S : x.name \in U /\ \A y \in S : y.name = x.name => y = x
    PROVE  \A x \in Stored(S, e) : /\ x.name \in U \cup {e.name}
                                   /\ \A y \in Stored(S, e) : y.name = x.name => y = x
  BY DEF Stored, Without

LEMMA SwitchedKeepsNames ==
    ASSUME NEW S \in SUBSET Entries, NEW U, NEW n, NEW s \in States,
           \A x \in S : x.name \in U /\ \A y \in S : y.name = x.name => y = x
    PROVE  \A x \in Switched(S, n, s) :
               /\ x.name \in U
               /\ \A y \in Switched(S, n, s) : y.name = x.name => y = x
  <1>1. ASSUME NEW x \in Switched(S, n, s)
        PROVE  \E z \in S : /\ z.name = x.name
                            /\ x = IF z.name = n THEN [z EXCEPT !.state = s] ELSE z
    BY <1>1 DEF Switched, Entries
  <1>2. QED
    BY <1>1
------------------------------------------------------------------------------
LEMMA BoundFacts == MaxEdits \in Nat /\ Existing \subseteq Rules
  BY WindowsAssumption

LEMMA InitType == Init => TypeOK
  BY WindowsAssumption DEF Init, TypeOK, CopyIsUnmade

\* The shape of a step.
LEMMA NextSteps ==
    ASSUME Next
    PROVE  \/ \E c \in Calls : Single(c) \/ Begins(c)
           \/ UpdateCompares \/ UpdateCommandFails \/ UpdateRemoves
           \/ UpdateAdds \/ UpdateAddFails \/ Crash \/ Edit
  BY DEF Next, Single, Begins

LEMMA SingleType == ASSUME TypeOK, NEW c \in Calls, Single(c) PROVE TypeOK'
  <1> USE DEF TypeOK
  <1>1. call' = c /\ pc = "idle" /\ pc' = "idle" /\ before' \subseteq Rules
        /\ reply' \in {"ok", "error"} /\ edits' = edits
    BY DEF Single, CreateRule, CreateFails, SetRule, SetFails, DeleteRule,
           DeleteFails, Called, AtOnce
  <1>2. firewall' \subseteq Rules
    <2>1. CASE CreateRule(c)
      BY <2>1, WantedRule DEF CreateRule
    <2>2. CASE SetRule(c)
      <3>1. Asked(c) \in States
        BY DEF Asked, States
      <3>2. \A r \in Rules : [r EXCEPT !.state = Asked(c)] \in Rules
        BY <3>1 DEF Rules
      <3>3. QED
        BY <2>2, <3>2 DEF SetRule
    <2>3. CASE DeleteRule(c)
      BY <2>3 DEF DeleteRule
    <2>4. QED
      BY <2>1, <2>2, <2>3 DEF Single, CreateFails, SetFails, DeleteFails
  <1>3. copy' \subseteq Entries /\ unmade' \subseteq GivenNames
    <2>1. CASE CreateFails(c)
      <3>1. c.name \in GivenNames
        BY <2>1 DEF CreateFails, Calls, Updates
      <3>2. Entry(Wanted(c)) \in Entries
        BY <2>1, WantedRule DEF CreateFails
      <3>3. copy' = Stored(copy, Entry(Wanted(c))) /\ unmade' = unmade \cup {c.name}
        BY <2>1 DEF CreateFails
      <3>4. copy' \subseteq Entries
        BY <3>2, <3>3, Zenon DEF Stored, Without
      <3>5. QED
        BY <3>1, <3>3, <3>4
    <2>2. CASE SetFails(c)
      <3>1. copy' = Switched(copy, c.name, Asked(c)) /\ unmade' = unmade
        BY <2>2 DEF SetFails
      <3>2. Asked(c) \in States
        BY DEF Asked, States
      <3>3. \A x \in Entries : [x EXCEPT !.state = Asked(c)] \in Entries
        BY <3>2 DEF Entries
      <3>4. QED
        BY <3>1, <3>3 DEF Switched
    <2>3. CASE DeleteFails(c)
      BY <2>3 DEF DeleteFails, Without
    <2>4. QED
      BY <2>1, <2>2, <2>3 DEF Single, CreateRule, SetRule, DeleteRule
  <1>4. QED
    BY <1>1, <1>2, <1>3

LEMMA BeginsType == ASSUME TypeOK, NEW c \in Calls, Begins(c) PROVE TypeOK'
  <1> USE DEF TypeOK
  <1>1. /\ call' = c /\ before' \subseteq Rules /\ firewall' = firewall
        /\ copy' = copy /\ unmade' = unmade
        /\ c.kind = "update"
    BY DEF Begins, UpdateRefused, UpdateLooksUp, UpdateFindsNothing,
           UpdateLookUpFails, Called
  <1>2. c \in Updates
    BY <1>1 DEF Calls
  <1>3. CASE UpdateRefused(c) \/ UpdateLookUpFails(c)
    BY <1>1, <1>3 DEF UpdateRefused, UpdateLookUpFails, EndUpdate
  <1>4. CASE UpdateLooksUp(c)
    BY <1>1, <1>2, <1>4, EffectivePlan DEF UpdateLooksUp, Chosen
  <1>5. CASE UpdateFindsNothing(c)
    BY <1>1, <1>2, <1>5, FreshPlan DEF UpdateFindsNothing
  <1>6. QED
    BY <1>3, <1>4, <1>5 DEF Begins

LEMMA UpdateType ==
    ASSUME TypeOK, UpdateCompares \/ UpdateCommandFails \/ UpdateRemoves
                       \/ UpdateAdds \/ UpdateAddFails
    PROVE  TypeOK'
  <1> USE DEF TypeOK
  <1>1. CASE UpdateCompares
    <2>1. PICK r \in Chosen(call) :
             \/ EndUpdate("unchanged")
             \/ /\ plan' = [plan EXCEPT !.ips = Kept(call, r) \cup call.new]
                /\ pc' = "remove" /\ reply' = reply
      BY <1>1 DEF UpdateCompares
    <2>2. CASE EndUpdate("unchanged")
      BY <1>1, <2>2 DEF UpdateCompares, InUpdate, EndUpdate
    <2>3. CASE /\ plan' = [plan EXCEPT !.ips = Kept(call, r) \cup call.new]
               /\ pc' = "remove" /\ reply' = reply
      <3>1. Kept(call, r) \cup call.new \in (SUBSET Texts) \ {{}}
        BY <1>1, WindowsAssumption DEF UpdateCompares, Kept, Chosen, Rules, Updates, Texts
      <3>2. plan' \in Plans /\ plan'.ips # {} /\ plan'.action = plan.action
            /\ plan'.name = plan.name /\ plan'.dir = plan.dir
        BY <1>1, <2>3, <3>1 DEF UpdateCompares, Plans
      <3>3. QED
        BY <1>1, <2>3, <3>2 DEF UpdateCompares, InUpdate
    <2>4. QED
      BY <2>1, <2>2, <2>3
  <1>2. CASE UpdateCommandFails
    BY <1>2 DEF UpdateCommandFails, InUpdate, EndUpdate
  <1>3. CASE UpdateRemoves
    BY <1>3 DEF UpdateRemoves, InUpdate
  <1>4. CASE UpdateAdds
    BY <1>4, PlannedRule DEF UpdateAdds, InUpdate, EndUpdate
  <1>5. CASE UpdateAddFails
    <2>1. call.name \in GivenNames
      BY <1>5 DEF UpdateAddFails, Updates
    <2>2. Entry(plan) \in Entries
      BY <1>5, PlannedRule DEF UpdateAddFails
    <2>3. copy' \subseteq Entries
      BY <1>5, <2>2 DEF UpdateAddFails, Stored, Without
    <2>4. QED
      BY <1>5, <2>1, <2>3 DEF UpdateAddFails, InUpdate, EndUpdate
  <1>6. QED
    BY <1>1, <1>2, <1>3, <1>4, <1>5

LEMMA NextType == ASSUME TypeOK, [Next]_vars PROVE TypeOK'
  <1>1. CASE Crash
    BY <1>1 DEF TypeOK, Crash, EndUpdate, InUpdate
  <1>2. CASE Edit
    <2>1. firewall' \subseteq Rules
      <3>1. firewall \subseteq Rules
        BY DEF TypeOK
      <3>2. firewall' \subseteq firewall \cup Existing
        BY <1>2 DEF Edit
      <3>3. QED
        BY <3>1, <3>2, BoundFacts
    <2>2. edits' \in 0 .. MaxEdits
      <3>1. edits \in 0 .. MaxEdits
        BY DEF TypeOK
      <3>2. QED
        BY <1>2, <3>1, BoundFacts DEF Edit
    <2>3. QED
      BY <1>2, <2>1, <2>2 DEF TypeOK, Edit
  <1>3. CASE UNCHANGED vars
    BY <1>3 DEF TypeOK, vars
  <1>4. QED
    BY <1>1, <1>2, <1>3, NextSteps, SingleType, BeginsType, UpdateType

(***************************************************************************)
(* Type correctness: rules and entries stay what netsh and the server      *)
(* accept, and what an update is about to make is a rule.                  *)
(***************************************************************************)
THEOREM TypeCorrect == Spec => []TypeOK
  BY InitType, NextType, PTL DEF Spec
------------------------------------------------------------------------------
LEMMA NextCopy ==
    ASSUME TypeOK, CopyIsUnmade, [Next]_vars
    PROVE  CopyIsUnmade'
  <1> USE DEF CopyIsUnmade
  <1>1. copy \in SUBSET Entries
    BY DEF TypeOK
  <1>2. CASE copy' = copy /\ unmade' = unmade
    BY <1>2
  <1>3. ASSUME NEW c \in Calls, CreateFails(c)
        PROVE  CopyIsUnmade'
    <2> DEFINE e == Entry(Wanted(c))
    <2>1. e \in Entries /\ e.name = c.name
      BY <1>3, WantedRule DEF CreateFails, Entry
    <2>2. copy' = Stored(copy, e) /\ unmade' = unmade \cup {c.name}
      BY <1>3 DEF CreateFails
    <2> HIDE DEF e
    <2>3. \A x \in Stored(copy, e) :
             /\ x.name \in unmade \cup {c.name}
             /\ \A y \in Stored(copy, e) : y.name = x.name => y = x
      <3>1. \A x \in Stored(copy, e) :
               /\ x.name \in unmade \cup {e.name}
               /\ \A y \in Stored(copy, e) : y.name = x.name => y = x
        BY <1>1, <2>1, StoredKeepsNames
      <3> QED BY <2>1, <3>1
    <2>4. QED
      BY <2>2, <2>3
  <1>4. ASSUME NEW c \in Calls, SetFails(c)
        PROVE  CopyIsUnmade'
    <2>1. Asked(c) \in States
      BY DEF Asked, States
    <2>2. copy' = Switched(copy, c.name, Asked(c)) /\ unmade' = unmade
      BY <1>4 DEF SetFails
    <2>3. \A x \in Switched(copy, c.name, Asked(c)) :
             /\ x.name \in unmade
             /\ \A y \in Switched(copy, c.name, Asked(c)) : y.name = x.name => y = x
      BY <1>1, <2>1, SwitchedKeepsNames
    <2>4. QED
      BY <2>2, <2>3
  <1>5. ASSUME NEW c \in Calls, DeleteFails(c)
        PROVE  CopyIsUnmade'
    BY <1>5 DEF DeleteFails, Without
  <1>6. CASE UpdateAddFails
    <2>1. Entry(plan) \in Entries /\ Entry(plan).name = call.name
      BY <1>6, PlannedRule DEF UpdateAddFails, TypeOK
    <2>2. QED
      BY <1>1, <1>6, <2>1, StoredKeepsNames DEF UpdateAddFails
  <1>7. CASE Crash
    BY <1>7 DEF Crash
  <1>8. ASSUME NEW c \in Calls, Single(c) \/ Begins(c)
        PROVE  CopyIsUnmade'
    BY <1>2, <1>3, <1>4, <1>5, <1>8
       DEF Single, Begins, CreateRule, SetRule, DeleteRule, UpdateRefused,
           UpdateLooksUp, UpdateFindsNothing, UpdateLookUpFails
  <1>9. CASE UpdateCompares \/ UpdateCommandFails \/ UpdateRemoves \/ UpdateAdds \/ Edit
    BY <1>2, <1>9 DEF UpdateCompares, UpdateCommandFails, UpdateRemoves, UpdateAdds, Edit
  <1>10. CASE UNCHANGED vars
    BY <1>2, <1>10 DEF vars
  <1>11. QED
    BY <1>6, <1>7, <1>8, <1>9, <1>10, NextSteps

(***************************************************************************)
(* list shows no rule that is not in force, except under a name this       *)
(* process has failed to make a rule for, and none twice from the copy.    *)
(***************************************************************************)
THEOREM ListsAreReal == Spec => []ListIsReal
  <1>1. Init => CopyIsUnmade
    BY DEF Init, CopyIsUnmade
  <1>2. CopyIsUnmade => ListIsReal
    BY DEF CopyIsUnmade, ListIsReal, ListRules
  <1>3. QED
    BY <1>1, <1>2, InitType, NextType, NextCopy, PTL DEF Spec
------------------------------------------------------------------------------
\* For the update in progress: the addresses are the merged ones, and the rest
\* is given or taken from a rule there was; from the only one, exactly.
Merges(r) == IF Was = {} THEN r.ips = call.new ELSE \E q \in Was : Merged(r, q)

Keeps(r) == Was # {} => \E q \in Was : Inherits(r, q) /\ (Was = {q} => PortKept(r, q))

\* What netsh picks is what the caller means, for each kind of call.
LEMMA MeantIsConcerned ==
    ASSUME NEW c, NEW r
    PROVE  Meant(c, r) <=> Concerns(c, r)
  BY DEF Meant, Concerns

LEMMA StepChangesChosen ==
    ASSUME TypeOK, Next, edits' = edits,
           NEW r \in firewall \cup firewall', ~(r \in firewall /\ r \in firewall')
    PROVE  Meant(call', r)
  <1>1. ~Edit
    <2>1. edits \in 0 .. MaxEdits
      BY DEF TypeOK
    <2>2. QED
      BY <2>1, BoundFacts DEF Edit
  <1>2. ASSUME NEW c \in Calls, Single(c) PROVE Meant(call', r)
    <2>1. call' = c
      BY <1>2 DEF Single, CreateRule, CreateFails, SetRule, SetFails, DeleteRule,
                  DeleteFails, Called
    <2>2. CASE CreateRule(c)
      BY <2>1, <2>2, WantedRule, MeantIsConcerned DEF CreateRule, Concerns
    <2>3. CASE SetRule(c)
      <3>1. firewall \subseteq Rules
        BY DEF TypeOK
      <3>2. \A q \in firewall : [q EXCEPT !.state = Asked(c)].name = q.name
                               /\ [q EXCEPT !.state = Asked(c)].dir = q.dir
        BY <3>1 DEF Rules
      <3>3. Concerns(c, r)
        BY <2>3, <3>1, <3>2 DEF SetRule, Concerns
      <3>4. QED
        BY <2>1, <3>3, MeantIsConcerned
    <2>4. CASE DeleteRule(c)
      BY <2>1, <2>4, MeantIsConcerned DEF DeleteRule, Chosen
    <2>5. QED
      BY <1>2, <2>2, <2>3, <2>4 DEF Single, CreateFails, SetFails, DeleteFails
  <1>3. CASE UpdateRemoves
    BY <1>3, MeantIsConcerned DEF UpdateRemoves, Chosen, InUpdate
  <1>4. CASE UpdateAdds
    <2>1. r = plan /\ call' = call
      BY <1>4 DEF UpdateAdds, InUpdate
    <2>2. plan.name = call.name /\ plan.dir = call.dir
      BY <1>4 DEF UpdateAdds, TypeOK
    <2>3. QED
      BY <2>1, <2>2 DEF Meant
  <1>5. CASE \E c \in Calls : Begins(c)
    BY <1>5 DEF Begins, UpdateRefused, UpdateLooksUp, UpdateFindsNothing, UpdateLookUpFails
  <1>6. CASE UpdateCompares \/ UpdateCommandFails \/ UpdateAddFails \/ Crash
    BY <1>6 DEF UpdateCompares, UpdateCommandFails, UpdateAddFails, Crash
  <1>7. QED
    BY <1>1, <1>2, <1>3, <1>4, <1>5, <1>6, NextSteps

(***************************************************************************)
(* Whatever call is made or fails in the middle, the rules of a name and a *)
(* direction change only by a call with that name, or with netsh's keyword *)
(* for all of them, and with that direction, unless it deletes.            *)
(***************************************************************************)
THEOREM OthersStay == Spec => OnlyChosenRulesChange
  <1>1. ASSUME TypeOK, Next, edits' = edits, NEW n \in Names, NEW d \in Directions,
               RulesOf(n, d)' # RulesOf(n, d)
        PROVE  /\ call'.name \in {n, AllRules}
               /\ call'.kind = "delete" \/ call'.dir = d
    <2>1. PICK r \in firewall \cup firewall' :
             r.name = n /\ r.dir = d /\ ~(r \in firewall /\ r \in firewall')
      BY <1>1 DEF RulesOf
    <2>2. Meant(call', r)
      BY <1>1, <2>1, StepChangesChosen
    <2>3. QED
      BY <2>1, <2>2 DEF Meant
  <1>2. ASSUME TypeOK, [Next]_vars
        PROVE  [edits' = edits =>
                  \A n \in Names, d \in Directions :
                     RulesOf(n, d)' # RulesOf(n, d) =>
                         /\ call'.name \in {n, AllRules}
                         /\ call'.kind = "delete" \/ call'.dir = d]_vars
    BY <1>1, <1>2
  <1>3. QED
    BY <1>2, InitType, NextType, PTL DEF Spec, OnlyChosenRulesChange
------------------------------------------------------------------------------
(***************************************************************************)
(* What an update has done so far, as long as nobody interferes: nothing   *)
(* before the deletion, after which there is no rule; and what it is about *)
(* to make is the merged rule already.                                     *)
(***************************************************************************)
Pending ==
    /\ pc # "idle" => reply = "none"
    /\ pc \in {"compare", "remove"} /\ ~edited =>
          firewall = before /\ Was # {} /\ Keeps(plan)
    /\ pc = "remove" /\ ~edited => Merges(plan)
    /\ pc = "add" /\ ~edited => Now = {} /\ Merges(plan) /\ Keeps(plan)

IInv ==
    /\ TypeOK
    /\ CopyIsUnmade
    /\ Pending
    /\ UpdateMerges
    /\ LossIsReported
    /\ SuccessIsInForce

LEMMA InitIInv == Init => IInv
  <1>1. Init => Pending /\ UpdateMerges /\ SuccessIsInForce
    BY DEF Init, Pending, UpdateMerges, SuccessIsInForce
  <1>2. Init => LossIsReported
    BY DEF Init, LossIsReported
  <1>3. Init => CopyIsUnmade
    BY DEF Init, CopyIsUnmade
  <1>4. QED
    BY <1>1, <1>2, <1>3, InitType DEF IInv

\* What an update takes from the rule it looked up.
LEMMA EffectiveKeeps ==
    ASSUME NEW c \in Updates, NEW r \in Rules, NEW ports \in PortRead(c, r)
    PROVE  LET p == Effective(c, r, ports) IN
           /\ p.action = IF c.set.action # "" THEN c.set.action ELSE r.action
           /\ p.state = IF c.set.state # "" THEN c.set.state ELSE r.state
           /\ IF c.set.port # {} THEN p.ports = c.set.port ELSE Narrower(p.ports, r.ports)
           /\ Chosen(c) = {r} /\ c.set.port = {} =>
                 IF r.ports = {} THEN p.ports = {} ELSE \E x \in r.ports : p.ports = {x}
  <1>1. r.ports = {} \/ (ports # {} /\ ports \subseteq r.ports)
    BY DEF PortRead
  <1>2. Chosen(c) = {r} => IF r.ports = {} THEN ports = {} ELSE \E p \in r.ports : ports = {p}
    BY DEF PortRead
  <1>3. QED
    BY <1>1, <1>2 DEF Effective, Given, Narrower

\* After a step that leaves the call and the history alone.
LEMMA SameCall ==
    ASSUME call' = call, before' = before
    PROVE  /\ Was' = Was
           /\ firewall' = firewall => Now' = Now
           /\ plan' = plan => (Merges(plan)' <=> Merges(plan)) /\ (Keeps(plan)' <=> Keeps(plan))
  <1>1. Was' = Was
    BY DEF Was, Meant
  <1>2. firewall' = firewall => Now' = Now
    BY DEF Now, Meant
  <1>3. plan' = plan => (Merges(plan)' <=> Merges(plan)) /\ (Keeps(plan)' <=> Keeps(plan))
    BY <1>1 DEF Merges, Keeps, Merged, Inherits, PortKept, Narrower
  <1>4. QED
    BY <1>1, <1>2, <1>3

LEMMA SameUpdate ==
    ASSUME NEW CONSTANT p, call' = call, before' = before
    PROVE  Updated(p)' <=> Updated(p)
  <1>1. Was' = Was
    BY DEF Was, Meant
  <1>2. QED
    BY <1>1 DEF Updated, Merged, Inherits, PortKept, Narrower

LEMMA PlanIsUpdated ==
    ASSUME NEW p, Merges(p), Keeps(p)
    PROVE  Updated(p)
  BY DEF Merges, Keeps, Updated

LEMMA BeginsPending ==
    ASSUME TypeOK, NEW c \in Calls, Begins(c)
    PROVE  Pending'
  <1>1. /\ call' = c /\ before' = firewall /\ firewall' = firewall /\ ~edited'
        /\ c.kind = "update" /\ pc = "idle"
    BY DEF Begins, UpdateRefused, UpdateLooksUp, UpdateFindsNothing,
           UpdateLookUpFails, Called
  <1>2. c \in Updates /\ firewall \subseteq Rules
    BY <1>1 DEF Calls, TypeOK
  <1>3. Was' = Chosen(c) /\ Now' = Chosen(c)
    BY <1>1, MeantIsConcerned DEF Was, Now, Chosen
  <1>4. CASE UpdateRefused(c) \/ UpdateLookUpFails(c)
    BY <1>4 DEF UpdateRefused, UpdateLookUpFails, EndUpdate, Pending
  <1>5. CASE UpdateLooksUp(c)
    <2>1. PICK r \in Chosen(c) : \E ports \in PortRead(c, r) : plan' = Effective(c, r, ports)
      BY <1>5 DEF UpdateLooksUp
    <2>2. PICK ports \in PortRead(c, r) : plan' = Effective(c, r, ports)
      BY <2>1
    <2>3. Keeps(plan)'
      <3>1. r \in Rules /\ r \in Was' /\ (Was' = {r} => Chosen(c) = {r})
        BY <1>2, <1>3 DEF Chosen
      <3> DEFINE p == Effective(c, r, ports)
      <3>2. /\ p.action = IF c.set.action # "" THEN c.set.action ELSE r.action
            /\ p.state = IF c.set.state # "" THEN c.set.state ELSE r.state
            /\ IF c.set.port # {} THEN p.ports = c.set.port ELSE Narrower(p.ports, r.ports)
            /\ Chosen(c) = {r} /\ c.set.port = {} =>
                  IF r.ports = {} THEN p.ports = {} ELSE \E x \in r.ports : p.ports = {x}
        BY <1>2, <3>1, EffectiveKeeps
      <3>3. plan' = p /\ call' = c
        BY <1>1, <2>2
      <3> HIDE DEF p
      <3>4. Inherits(plan, r)'
        BY <3>2, <3>3 DEF Inherits, Narrower
      <3>5. Was' = {r} => PortKept(plan, r)'
        BY <3>1, <3>2, <3>3 DEF PortKept
      <3>6. QED
        BY <3>1, <3>4, <3>5 DEF Keeps
    <2>4. QED
      BY <1>1, <1>3, <1>5, <2>1, <2>3 DEF UpdateLooksUp, Pending
  <1>6. CASE UpdateFindsNothing(c)
    <2>1. Was' = {} /\ Now' = {} /\ plan' = Fresh(c)
      BY <1>3, <1>6 DEF UpdateFindsNothing
    <2>2. Merges(plan)' /\ Keeps(plan)'
      BY <1>1, <2>1 DEF Merges, Keeps, Fresh
    <2>3. QED
      BY <1>6, <2>1, <2>2 DEF UpdateFindsNothing, Pending
  <1>7. QED
    BY <1>4, <1>5, <1>6 DEF Begins

LEMMA UpdatePending ==
    ASSUME TypeOK, Pending, UpdateCompares \/ UpdateCommandFails \/ UpdateRemoves
                                \/ UpdateAdds \/ UpdateAddFails
    PROVE  Pending'
  <1>1. call' = call /\ before' = before /\ edited' = edited
    BY DEF UpdateCompares, UpdateCommandFails, UpdateRemoves, UpdateAdds,
           UpdateAddFails, InUpdate
  <1>2. CASE UpdateCompares
    <2>1. /\ firewall' = firewall /\ pc = "compare" /\ reply = "none"
      BY <1>2 DEF UpdateCompares, Pending
    <2>2. PICK r \in Chosen(call) :
             \/ EndUpdate("unchanged")
             \/ /\ plan' = [plan EXCEPT !.ips = Kept(call, r) \cup call.new]
                /\ pc' = "remove" /\ reply' = reply
      BY <1>2 DEF UpdateCompares
    <2>3. CASE EndUpdate("unchanged")
      BY <2>3 DEF EndUpdate, Pending
    <2>4. CASE /\ plan' = [plan EXCEPT !.ips = Kept(call, r) \cup call.new]
               /\ pc' = "remove" /\ reply' = reply
      <3>1. plan \in Plans
        BY <2>1 DEF TypeOK
      <3>2. /\ plan'.ips = (r.ips \ Matches[call.old]) \cup call.new
            /\ plan'.action = plan.action /\ plan'.state = plan.state
            /\ plan'.ports = plan.ports
        BY <2>4, <3>1 DEF Plans, Kept
      <3>3. ASSUME ~edited PROVE Was' # {} /\ firewall' = before' /\ Merges(plan)' /\ Keeps(plan)'
        <4>1. firewall = before /\ Keeps(plan) /\ Was' = Was
          BY <1>1, <2>1, <3>3, SameCall DEF Pending
        <4>2. r \in Was
          BY <4>1, MeantIsConcerned DEF Was, Chosen
        <4>3. Merges(plan)'
          BY <1>1, <3>2, <4>1, <4>2 DEF Merges, Merged
        <4>4. Keeps(plan)'
          BY <1>1, <3>2, <4>1 DEF Keeps, Inherits, PortKept, Narrower
        <4>5. QED
          BY <1>1, <2>1, <4>1, <4>2, <4>3, <4>4
      <3>4. QED
        BY <1>1, <2>1, <2>4, <3>3 DEF Pending
    <2>5. QED
      BY <2>2, <2>3, <2>4
  <1>3. CASE UpdateRemoves
    <2>1. pc = "remove" /\ pc' = "add" /\ plan' = plan /\ reply' = reply
          /\ firewall' = firewall \ Chosen(call)
      BY <1>3 DEF UpdateRemoves
    <2>2. Now' = {}
      BY <1>1, <2>1, MeantIsConcerned DEF Now, Chosen
    <2>3. ~edited => Merges(plan)' /\ Keeps(plan)'
      BY <1>1, <2>1, SameCall DEF Pending
    <2>4. QED
      BY <1>1, <2>1, <2>2, <2>3 DEF Pending
  <1>4. CASE UpdateCommandFails \/ UpdateAdds \/ UpdateAddFails
    BY <1>4 DEF UpdateCommandFails, UpdateAdds, UpdateAddFails, EndUpdate, Pending
  <1>5. QED
    BY <1>2, <1>3, <1>4

LEMMA NextPending ==
    ASSUME TypeOK, Pending, [Next]_vars
    PROVE  Pending'
  <1>1. ASSUME NEW c \in Calls, Single(c) PROVE Pending'
    <2>1. pc' = "idle"
      BY <1>1 DEF Single, CreateRule, CreateFails, SetRule, SetFails, DeleteRule,
                  DeleteFails, Called, AtOnce
    <2>2. QED
      BY <2>1 DEF Pending
  <1>2. CASE Crash
    BY <1>2 DEF Crash, EndUpdate, Pending
  <1>3. CASE Edit
    BY <1>3 DEF Edit, Pending
  <1>4. CASE UNCHANGED vars
    <2>1. call' = call /\ before' = before /\ plan' = plan /\ firewall' = firewall
          /\ pc' = pc /\ reply' = reply /\ edited' = edited
      BY <1>4 DEF vars
    <2>2. QED
      BY <2>1, SameCall DEF Pending
  <1>5. QED
    BY <1>1, <1>2, <1>3, <1>4, NextSteps, BeginsPending, UpdatePending
------------------------------------------------------------------------------
\* What the end of an update has established.
LEMMA NextMerges ==
    ASSUME TypeOK, Pending, UpdateMerges, [Next]_vars
    PROVE  UpdateMerges'
  <1>1. CASE UpdateAdds
    <2>1. /\ pc = "add" /\ firewall' = firewall \cup {plan}
          /\ call' = call /\ before' = before /\ edited' = edited
      BY <1>1 DEF UpdateAdds, InUpdate
    <2>2. Meant(call, plan)
      BY <2>1 DEF Meant, TypeOK
    <2>3. ASSUME ~edited' PROVE \E r \in Now' : Now' = {r} /\ Updated(r)'
      <3>1. Now = {} /\ Merges(plan) /\ Keeps(plan)
        BY <2>1, <2>3 DEF Pending
      <3>2. PICK p : p = plan
        OBVIOUS
      <3>3. Now' = {p}
        BY <2>1, <2>2, <3>1, <3>2 DEF Now, Meant
      <3>4. Updated(p)
        BY <3>1, <3>2, PlanIsUpdated
      <3>5. Updated(p)'
        BY <2>1, <3>4, SameUpdate
      <3>6. QED
        BY <3>3, <3>5
    <2>4. QED
      BY <2>3 DEF UpdateMerges
  <1>2. ASSUME NEW c \in Calls, Single(c) \/ Begins(c) PROVE UpdateMerges'
    <2>1. reply' # "updated"
      BY <1>2 DEF Single, Begins, CreateRule, CreateFails, SetRule, SetFails,
                  DeleteRule, DeleteFails, UpdateRefused, UpdateLooksUp,
                  UpdateFindsNothing, UpdateLookUpFails, EndUpdate
    <2>2. QED
      BY <2>1 DEF UpdateMerges
  <1>3. CASE UpdateCompares \/ UpdateCommandFails \/ UpdateRemoves \/ UpdateAddFails \/ Crash
    <2>1. reply' # "updated"
      BY <1>3 DEF UpdateCompares, UpdateCommandFails, UpdateRemoves, UpdateAddFails,
                  Crash, EndUpdate, Pending
    <2>2. QED
      BY <2>1 DEF UpdateMerges
  <1>4. CASE Edit
    BY <1>4 DEF Edit, UpdateMerges
  <1>5. CASE UNCHANGED vars
    <2>1. Now' = Now /\ call' = call /\ before' = before /\ reply' = reply /\ edited' = edited
      BY <1>5 DEF vars, Now, Meant
    <2>2. \A p : Updated(p)' <=> Updated(p)
      BY <2>1, SameUpdate
    <2>3. QED
      BY <2>1, <2>2 DEF UpdateMerges
  <1>6. QED
    BY <1>1, <1>2, <1>3, <1>4, <1>5, NextSteps

LEMMA NextLoss ==
    ASSUME TypeOK, Pending, UpdateMerges', LossIsReported, [Next]_vars
    PROVE  LossIsReported'
  <1>1. ASSUME NEW c \in Calls, Single(c) PROVE LossIsReported'
    <2>1. call' = c /\ c.kind # "update"
      BY <1>1 DEF Single, CreateRule, CreateFails, SetRule, SetFails, DeleteRule,
                  DeleteFails, Called
    <2>2. QED
      BY <2>1 DEF LossIsReported, Updates
  <1>2. ASSUME NEW c \in Calls, Begins(c) PROVE LossIsReported'
    <2>1. call' = c /\ before' = firewall /\ firewall' = firewall
      BY <1>2 DEF Begins, UpdateRefused, UpdateLooksUp, UpdateFindsNothing,
                  UpdateLookUpFails, Called
    <2>2. Was' = Now'
      BY <2>1 DEF Was, Now
    <2>3. QED
      BY <2>2 DEF LossIsReported
  <1>3. CASE UpdateCompares \/ UpdateCommandFails
    <2>1. /\ call' = call /\ before' = before /\ edited' = edited
          /\ firewall' = firewall /\ pc \in {"compare", "remove"}
      BY <1>3 DEF UpdateCompares, UpdateCommandFails, InUpdate
    <2>2. ~edited => Was' = Now'
      BY <2>1 DEF Pending, Was, Now
    <2>3. QED
      BY <2>1, <2>2 DEF LossIsReported
  <1>4. CASE UpdateRemoves
    BY <1>4 DEF UpdateRemoves, LossIsReported
  <1>5. CASE UpdateAdds
    <2>1. reply' = "updated"
      BY <1>5 DEF UpdateAdds, EndUpdate
    <2>2. QED
      BY <2>1 DEF LossIsReported, UpdateMerges
  <1>6. CASE UpdateAddFails
    <2>1. /\ reply' = "error" /\ call' = call /\ edited' = edited /\ before' = before
          /\ pc = "add" /\ copy' = Stored(copy, Entry(plan))
      BY <1>6 DEF UpdateAddFails, EndUpdate, InUpdate
    <2>2. Entry(plan) \in copy' /\ Entry(plan).name = call.name /\ Entry(plan).ips = plan.ips
      BY <2>1 DEF Stored, Entry, TypeOK
    <2>3. ~edited /\ Was # {} => call.new \subseteq plan.ips
      BY <2>1 DEF Pending, Merges, Merged
    <2>4. Was' = Was
      BY <2>1 DEF Was, Meant
    <2>5. QED
      BY <2>1, <2>2, <2>3, <2>4 DEF LossIsReported
  <1>7. CASE Crash
    BY <1>7 DEF Crash, EndUpdate, LossIsReported
  <1>8. CASE Edit
    BY <1>8 DEF Edit, LossIsReported
  <1>9. CASE UNCHANGED vars
    <2>1. /\ Now' = Now /\ Was' = Was /\ call' = call /\ reply' = reply
          /\ edited' = edited /\ pc' = pc /\ copy' = copy
      BY <1>9 DEF vars, Now, Was, Meant
    <2>2. QED
      BY <2>1 DEF LossIsReported
  <1>10. QED
    BY <1>1, <1>2, <1>3, <1>4, <1>5, <1>6, <1>7, <1>8, <1>9, NextSteps

LEMMA NextSuccess ==
    ASSUME TypeOK, CopyIsUnmade, Pending, SuccessIsInForce, [Next]_vars
    PROVE  SuccessIsInForce'
  <1>1. ASSUME NEW c \in Calls, CreateRule(c) PROVE SuccessIsInForce'
    BY <1>1 DEF CreateRule, Called, SuccessIsInForce, InForce, Wanted
  <1>2. ASSUME NEW c \in Calls, CreateFails(c) PROVE SuccessIsInForce'
    BY <1>2 DEF CreateFails, Called, SuccessIsInForce
  <1>3. ASSUME NEW c \in Calls, SetRule(c) PROVE SuccessIsInForce'
    <2>1. call' = c /\ c.kind \in {"enable", "disable"} /\ firewall \subseteq Rules
      BY <1>3 DEF SetRule, Called, TypeOK
    <2>2. \A q \in firewall : LET s == [q EXCEPT !.state = Asked(c)] IN
             s.name = q.name /\ s.dir = q.dir /\ s.state = Asked(c)
      BY <2>1 DEF Rules
    <2>3. \A r \in Now' : r.state = Asked(c)
      BY <1>3, <2>1, <2>2 DEF SetRule, Now, Meant, Concerns
    <2>4. PICK q \in firewall : Concerns(c, q)
      BY <1>3 DEF SetRule, Chosen
    <2>5. [q EXCEPT !.state = Asked(c)] \in Now'
      BY <1>3, <2>1, <2>2, <2>4 DEF SetRule, Now, Meant, Concerns
    <2>6. InForce(call)'
      BY <2>1, <2>3, <2>5 DEF InForce, Asked
    <2>7. QED
      BY <2>6 DEF SuccessIsInForce
  <1>4. ASSUME NEW c \in Calls, SetFails(c) \/ DeleteFails(c) PROVE SuccessIsInForce'
    <2>1. call' = c /\ unmade' = unmade /\ (reply' = "ok" => Has(copy, c.name))
      BY <1>4 DEF SetFails, DeleteFails, Called
    <2>2. QED
      BY <2>1 DEF Has, CopyIsUnmade, SuccessIsInForce
  <1>5. ASSUME NEW c \in Calls, DeleteRule(c) PROVE SuccessIsInForce'
    <2>1. call' = c /\ c.kind = "delete" /\ firewall' = firewall \ Chosen(c)
      BY <1>5 DEF DeleteRule, Called
    <2>2. Now' = {}
      BY <2>1, MeantIsConcerned DEF Now, Chosen
    <2>3. InForce(call)'
      BY <2>1, <2>2 DEF InForce
    <2>4. QED
      BY <2>3 DEF SuccessIsInForce
  <1>6. ASSUME NEW c \in Calls, Begins(c) PROVE SuccessIsInForce'
    <2>1. reply' # "ok"
      BY <1>6 DEF Begins, UpdateRefused, UpdateLooksUp, UpdateFindsNothing,
                  UpdateLookUpFails, EndUpdate
    <2>2. QED
      BY <2>1 DEF SuccessIsInForce
  <1>7. CASE UpdateCompares \/ UpdateCommandFails \/ UpdateRemoves \/ UpdateAdds
               \/ UpdateAddFails \/ Crash
    <2>1. reply' # "ok"
      BY <1>7 DEF UpdateCompares, UpdateCommandFails, UpdateRemoves, UpdateAdds,
                  UpdateAddFails, Crash, EndUpdate, Pending
    <2>2. QED
      BY <2>1 DEF SuccessIsInForce
  <1>8. CASE Edit
    BY <1>8 DEF Edit, SuccessIsInForce
  <1>9. CASE UNCHANGED vars
    <2>1. /\ Now' = Now /\ call' = call /\ reply' = reply /\ edited' = edited
          /\ firewall' = firewall /\ unmade' = unmade
      BY <1>9 DEF vars, Now, Meant
    <2>2. QED
      BY <2>1 DEF SuccessIsInForce, InForce, Wanted, Asked
  <1>10. QED
    BY <1>1, <1>2, <1>3, <1>4, <1>5, <1>6, <1>7, <1>8, <1>9, NextSteps DEF Single

LEMMA IInvHolds == Spec => []IInv
  <1>1. IInv /\ [Next]_vars => IInv'
    BY NextType, NextCopy, NextPending, NextMerges, NextLoss, NextSuccess DEF IInv
  <1>2. QED
    BY <1>1, InitIInv, PTL DEF Spec

(***************************************************************************)
(* An update that answers "updated" leaves exactly one rule of the name    *)
(* and direction.  If there was one before, it is that rule with the       *)
(* merged addresses and what the call gave; if there were several, its     *)
(* addresses come from one of them and the rest from one, maybe another.   *)
(***************************************************************************)
THEOREM UpdatesMerge == Spec => []UpdateMerges
  <1>1. IInv => UpdateMerges
    BY DEF IInv
  <1>2. QED
    BY <1>1, IInvHolds, PTL

(***************************************************************************)
(* An update that loses the rule says so, and the copy has it, unless the  *)
(* server died in between.                                                 *)
(***************************************************************************)
THEOREM LossesAreReported == Spec => []LossIsReported
  <1>1. IInv => LossIsReported
    BY DEF IInv
  <1>2. QED
    BY <1>1, IInvHolds, PTL

(***************************************************************************)
(* A reported success is the state of the firewall, except for names this  *)
(* process has failed to make a rule for.                                  *)
(***************************************************************************)
THEOREM SuccessesAreInForce == Spec => []SuccessIsInForce
  <1>1. IInv => SuccessIsInForce
    BY DEF IInv
  <1>2. QED
    BY <1>1, IInvHolds, PTL
==============================================================================
