----------------------- MODULE OpenWrtFirewall_proofs ------------------------
(***************************************************************************)
(* The properties of OpenWrtFirewall, for every set of names and values    *)
(* and any number of failures.                                             *)
(***************************************************************************)
EXTENDS OpenWrtFirewall, TLAPS

(***************************************************************************)
(* The inductive invariant.  What a commit writes was staged by several    *)
(* commands, so the invariant follows the call through its stages: which   *)
(* options a creation has set so far, what the section will be when it is  *)
(* committed, and that the sections of all other names that are not in     *)
(* doubt are as in the file all along.                                     *)
(***************************************************************************)
CallFits ==
    /\ pc = "idle" <=> call = NoCall
    /\ pc = "stage" => step \in 1 .. Len(FieldOrder)
    /\ pc = "stage" /\ call.kind # "create" => step = 1

CreatedSoFar ==
    pc = "stage" /\ call.kind = "create" =>
        \A i \in 1 .. step - 1 :
            LET f == FieldOrder[i] IN
            /\ f \in DOMAIN staged[call.name]
            /\ staged[call.name][f] = Assignment(call.spec, f)

ReadyToCommit ==
    pc = "commit" =>
        LET n == call.name IN
        /\ call.kind = "create" => staged[n] = Complete(call.spec, "1")
        /\ call.kind = "delete" => staged[n] = Absent
        /\ call.kind \in {"enable", "disable"} /\ n \notin tainted =>
              /\ file[n] \in CompleteSections
              /\ staged[n] = Put(file[n], "enabled", IF call.kind = "enable" THEN "1" ELSE "0")

InStep ==
    /\ \A n \in Names \ tainted :
          staged[n] # file[n] => HalfWay /\ n = call.name
    /\ pc = "reload" => staged = file

IInv ==
    /\ TypeOK
    /\ CallFits
    /\ CreatedSoFar
    /\ ReadyToCommit
    /\ InStep
    /\ CommittedRulesComplete

\* The options of a section.
LEMMA FieldFacts ==
    /\ Len(FieldOrder) = 5
    /\ FieldOrder[1] = "type" /\ FieldOrder[2] = "src" /\ FieldOrder[3] = "dest_port"
    /\ FieldOrder[4] = "target" /\ FieldOrder[5] = "enabled"
    /\ Fields = {"type", "src", "dest_port", "target", "enabled"}
    /\ \A i \in 1 .. 5 : FieldOrder[i] \in Fields
  <1>1. Len(FieldOrder) = 5
    BY DEF FieldOrder
  <1>2. /\ FieldOrder[1] = "type" /\ FieldOrder[2] = "src" /\ FieldOrder[3] = "dest_port"
        /\ FieldOrder[4] = "target" /\ FieldOrder[5] = "enabled"
    BY DEF FieldOrder
  <1>3. 1 .. Len(FieldOrder) = {1, 2, 3, 4, 5}
    BY <1>1
  <1>4. Fields = {FieldOrder[i] : i \in {1, 2, 3, 4, 5}}
    BY <1>3 DEF Fields
  <1>5. Fields = {"type", "src", "dest_port", "target", "enabled"}
    BY <1>2, <1>4
  <1>6. \A i \in 1 .. 5 : FieldOrder[i] \in Fields
    BY <1>1 DEF Fields
  <1>7. QED
    BY <1>1, <1>2, <1>5, <1>6

\* Sections are functions from options to values.
LEMMA SectionFacts ==
    /\ Absent \in Sections
    /\ \A s \in Sections : /\ DOMAIN s \subseteq Fields
                           /\ s = [f \in DOMAIN s |-> s[f]]
                           /\ \A f \in DOMAIN s : s[f] \in Values
    /\ \A F \in SUBSET Fields : \A s \in [F -> Values] : s \in Sections
  <1>1. \A F \in SUBSET Fields : \A s \in [F -> Values] : s \in Sections
    BY DEF Sections
  <1>2. Absent \in [{} -> Values]
    BY DEF Absent
  <1>3. ASSUME NEW s \in Sections
        PROVE  /\ DOMAIN s \subseteq Fields
               /\ s = [f \in DOMAIN s |-> s[f]]
               /\ \A f \in DOMAIN s : s[f] \in Values
    <2>1. PICK F \in SUBSET Fields : s \in [F -> Values]
      BY DEF Sections
    <2>2. QED
      BY <2>1
  <1>4. QED
    BY <1>1, <1>2, <1>3

\* What is written is a value.
LEMMA AssignmentType ==
    ASSUME NEW spec \in Specs, NEW f \in Fields
    PROVE  Assignment(spec, f) \in Values
  BY DEF Assignment, Values, Specs

\* Setting an option makes a section of a section.
LEMMA PutType ==
    ASSUME NEW s \in Sections, NEW f \in Fields, NEW v \in Values
    PROVE  /\ Put(s, f, v) \in Sections
           /\ DOMAIN Put(s, f, v) = DOMAIN s \cup {f}
           /\ \A g \in DOMAIN s \cup {f} : Put(s, f, v)[g] = IF g = f THEN v ELSE s[g]
           /\ Put(s, f, v) # Absent
  <1>1. DOMAIN Put(s, f, v) = DOMAIN s \cup {f}
    BY DEF Put
  <1>2. \A g \in DOMAIN s \cup {f} : Put(s, f, v)[g] = IF g = f THEN v ELSE s[g]
    BY DEF Put
  <1>3. Put(s, f, v) \in [DOMAIN s \cup {f} -> Values]
    BY SectionFacts DEF Put
  <1>4. DOMAIN s \cup {f} \in SUBSET Fields
    BY SectionFacts
  <1>5. DOMAIN Absent = {}
    BY DEF Absent
  <1>6. QED
    BY <1>1, <1>2, <1>3, <1>4, <1>5, SectionFacts

\* A section with all the options of a specification is complete.
LEMMA AllSetIsComplete ==
    ASSUME NEW s \in Sections, NEW spec \in Specs,
           \A i \in 1 .. 5 : /\ FieldOrder[i] \in DOMAIN s
                             /\ s[FieldOrder[i]] = Assignment(spec, FieldOrder[i])
    PROVE  s = Complete(spec, "1")
  <1>1. \A f \in Fields : f \in DOMAIN s /\ s[f] = Assignment(spec, f)
    BY FieldFacts
  <1>2. DOMAIN s = Fields /\ s = [f \in Fields |-> s[f]]
    BY <1>1, SectionFacts
  <1>3. Assignment(spec, "enabled") = "1"
    BY DEF Assignment
  <1>4. \A f \in Fields : s[f] = IF f = "enabled" THEN "1" ELSE Assignment(spec, f)
    BY <1>1, <1>3
  <1>5. s = [f \in Fields |-> IF f = "enabled" THEN "1" ELSE Assignment(spec, f)]
    BY <1>2, <1>4
  <1>6. QED
    BY <1>5 DEF Complete

\* Switching a complete section on or off leaves it complete.
LEMMA SwitchComplete ==
    ASSUME NEW spec \in Specs, NEW old, NEW new
    PROVE  Put(Complete(spec, old), "enabled", new) = Complete(spec, new)
  <1>1. DOMAIN Complete(spec, old) \cup {"enabled"} = Fields
    BY FieldFacts DEF Complete
  <1>2. \A g \in Fields :
           (IF g = "enabled" THEN new ELSE Complete(spec, old)[g])
              = IF g = "enabled" THEN new ELSE Assignment(spec, g)
    BY DEF Complete
  <1>3. QED
    BY <1>1, <1>2 DEF Put, Complete

\* Complete sections are sections, and none is absent.
LEMMA CompleteType ==
    ASSUME NEW s \in CompleteSections
    PROVE  s \in Sections /\ DOMAIN s = Fields /\ s # Absent
  <1>1. PICK spec \in Specs, e \in {"0", "1"} : s = Complete(spec, e)
    BY DEF CompleteSections
  <1>2. DOMAIN s = Fields
    BY <1>1 DEF Complete
  <1>3. \A f \in Fields : (IF f = "enabled" THEN e ELSE Assignment(spec, f)) \in Values
    BY AssignmentType DEF Values
  <1>4. s \in [Fields -> Values]
    BY <1>1, <1>3 DEF Complete
  <1>5. DOMAIN Absent = {} /\ Fields # {}
    BY FieldFacts DEF Absent
  <1>6. QED
    BY <1>2, <1>4, <1>5, SectionFacts

\* What is known of the call in progress.
LEMMA CallType ==
    ASSUME IInv, pc # "idle"
    PROVE  /\ call \in Calls /\ call.name \in Names
           /\ call.kind \in {"create", "enable", "disable", "delete"}
           /\ call.kind = "create" => call.spec \in Specs
  <1>1. call \in Calls
    BY DEF IInv, TypeOK, CallFits
  <1>2. QED
    BY <1>1 DEF Calls

\* Initially no rule is set and no call in progress.
LEMMA InitIInv == Init => IInv
  <1> SUFFICES ASSUME Init PROVE IInv
    OBVIOUS
  <1>1. TypeOK
    <2>1. [n \in Names |-> Absent] \in [Names -> Sections]
      BY SectionFacts
    <2>2. step \in 1 .. Len(FieldOrder) + 1
      BY FieldFacts DEF Init
    <2>3. QED
      BY <2>1, <2>2 DEF Init, TypeOK
  <1>2. CallFits /\ CreatedSoFar /\ ReadyToCommit /\ InStep /\ CommittedRulesComplete
    BY DEF Init, CallFits, CreatedSoFar, ReadyToCommit, InStep, CommittedRulesComplete
  <1>3. QED
    BY <1>1, <1>2 DEF IInv

\* Beginning a call keeps the invariant.
LEMMA BeginIInv ==
    ASSUME IInv, Begin
    PROVE  IInv'
  <1>1. /\ pc = "idle" /\ call' \in Calls /\ pc' = "stage" /\ step' = 1 /\ reply' = "none"
        /\ shown' = NoList
        /\ UNCHANGED <<file, staged, live, tainted, faults>>
    BY DEF Begin
  <1>2. TypeOK'
    BY <1>1, FieldFacts DEF IInv, TypeOK
  <1>3. CallFits'
    BY <1>1, FieldFacts, OpenWrtAssumption DEF CallFits
  <1>4. CreatedSoFar'
    BY <1>1 DEF CreatedSoFar
  <1>5. ReadyToCommit' /\ CommittedRulesComplete'
    BY <1>1 DEF IInv, ReadyToCommit, CommittedRulesComplete
  <1>6. InStep'
    BY <1>1 DEF IInv, InStep, HalfWay
  <1>7. QED
    BY <1>2, <1>3, <1>4, <1>5, <1>6 DEF IInv

\* Staging concerns the call's own section only.
LEMMA StagingKeepsOthers ==
    ASSUME IInv, pc = "stage", NEW s,
           staged' = [staged EXCEPT ![call.name] = s],
           UNCHANGED <<file, call, tainted>>,
           pc' = "commit" \/ (pc' = "stage" /\ step' > 1)
    PROVE  InStep'
  <1>1. HalfWay'
    BY DEF HalfWay
  <1>2. \A n \in Names : n # call.name => staged'[n] = staged[n]
    BY DEF IInv, TypeOK
  <1>3. QED
    BY <1>1, <1>2 DEF IInv, InStep

\* The next option of a creation keeps the invariant.
LEMMA CreateStepIInv ==
    ASSUME IInv, CreateStep
    PROVE  IInv'
  <1> DEFINE n == call.name
             opt == FieldOrder[step]
             val == Assignment(call.spec, opt)
  <1>1. /\ pc = "stage" /\ call.kind = "create"
        /\ staged' = [staged EXCEPT ![n] = Put(staged[n], opt, val)]
        /\ step' = step + 1
        /\ pc' = IF step = 5 THEN "commit" ELSE "stage"
        /\ UNCHANGED <<file, live, call, reply, shown, tainted, faults>>
    BY FieldFacts DEF CreateStep
  <1>2. call \in Calls /\ n \in Names /\ call.spec \in Specs
    BY <1>1, CallType
  <1>3. step \in 1 .. 5
    BY <1>1, FieldFacts DEF IInv, CallFits
  <1>4. opt \in Fields /\ val \in Values /\ staged[n] \in Sections
    <2>1. opt \in Fields
      BY <1>3, FieldFacts
    <2>2. QED
      BY <1>2, <2>1, AssignmentType DEF IInv, TypeOK
  <1> HIDE DEF opt, val
  <1>5. /\ Put(staged[n], opt, val) \in Sections
        /\ DOMAIN Put(staged[n], opt, val) = DOMAIN staged[n] \cup {opt}
        /\ \A g \in DOMAIN staged[n] \cup {opt} :
              Put(staged[n], opt, val)[g] = IF g = opt THEN val ELSE staged[n][g]
    <2>1. Put(staged[n], opt, val) \in Sections
      BY <1>4, PutType
    <2>2. DOMAIN Put(staged[n], opt, val) = DOMAIN staged[n] \cup {opt}
      BY <1>4, PutType
    <2>3. \A g \in DOMAIN staged[n] \cup {opt} :
              Put(staged[n], opt, val)[g] = IF g = opt THEN val ELSE staged[n][g]
      BY DEF Put
    <2>4. QED
      BY <2>1, <2>2, <2>3
  <1>6. staged'[n] = Put(staged[n], opt, val)
    BY <1>1, <1>2 DEF IInv, TypeOK
  <1>7. \A i \in 1 .. step : /\ FieldOrder[i] \in DOMAIN staged'[n]
                             /\ staged'[n][FieldOrder[i]] = Assignment(call.spec, FieldOrder[i])
    <2> SUFFICES ASSUME NEW i \in 1 .. step
                 PROVE  /\ FieldOrder[i] \in DOMAIN staged'[n]
                        /\ staged'[n][FieldOrder[i]] = Assignment(call.spec, FieldOrder[i])
      OBVIOUS
    <2>1. CASE i = step
      BY <2>1, <1>5, <1>6 DEF opt, val
    <2>2. CASE i # step
      <3>1. i \in 1 .. step - 1
        BY <2>2, <1>3
      <3>2. /\ FieldOrder[i] \in DOMAIN staged[n]
            /\ staged[n][FieldOrder[i]] = Assignment(call.spec, FieldOrder[i])
        BY <3>1, <1>1 DEF IInv, CreatedSoFar
      <3>3. FieldOrder[i] = opt => Assignment(call.spec, FieldOrder[i]) = val
        BY DEF val, opt
      <3>4. QED
        BY <3>2, <3>3, <1>5, <1>6
    <2>3. QED
      BY <2>1, <2>2
  <1>8. TypeOK'
    <2>1. staged' \in [Names -> Sections]
      BY <1>1, <1>2, <1>5 DEF IInv, TypeOK
    <2>2. step' \in 1 .. Len(FieldOrder) + 1
      BY <1>1, <1>3, FieldFacts
    <2>3. QED
      BY <1>1, <2>1, <2>2 DEF IInv, TypeOK
  <1>9. CallFits'
    BY <1>1, <1>3, FieldFacts DEF IInv, CallFits
  <1>10. CreatedSoFar'
    <2>1. step' - 1 = step /\ call' = call
      BY <1>1, <1>3
    <2>2. QED
      BY <1>7, <2>1 DEF CreatedSoFar
  <1>11. ReadyToCommit'
    <2> SUFFICES ASSUME pc' = "commit"
                 PROVE  staged'[n] = Complete(call.spec, "1")
      BY <1>1 DEF ReadyToCommit
    <2>1. step = 5
      BY <1>1
    <2>2. staged'[n] \in Sections
      BY <1>5, <1>6
    <2>3. QED
      BY <1>2, <1>7, <2>1, <2>2, AllSetIsComplete
  <1>12. InStep'
    <2>1. pc' = "commit" \/ (pc' = "stage" /\ step' > 1)
      BY <1>1, <1>3
    <2>2. \E s : staged' = [staged EXCEPT ![call.name] = s]
      BY <1>1
    <2>3. QED
      BY <1>1, <2>1, <2>2, StagingKeepsOthers
  <1>13. CommittedRulesComplete'
    BY <1>1 DEF IInv, CommittedRulesComplete
  <1>14. QED
    BY <1>8, <1>9, <1>10, <1>11, <1>12, <1>13 DEF IInv

\* Switching a rule on or off keeps the invariant.
LEMMA SetEnabledIInv ==
    ASSUME IInv, SetEnabled
    PROVE  IInv'
  <1> DEFINE n == call.name
             v == IF call.kind = "enable" THEN "1" ELSE "0"
  <1>1. /\ pc = "stage" /\ call.kind \in {"enable", "disable"}
        /\ staged[n] # Absent
        /\ staged' = [staged EXCEPT ![n] = Put(staged[n], "enabled", v)]
        /\ pc' = "commit"
        /\ UNCHANGED <<file, live, call, step, reply, shown, tainted, faults>>
    BY DEF SetEnabled, UciAccepts
  <1>2. call \in Calls /\ n \in Names /\ step = 1
    BY <1>1, CallType DEF IInv, CallFits
  <1>3. staged[n] \in Sections /\ Put(staged[n], "enabled", v) \in Sections
    <2>1. staged[n] \in Sections /\ "enabled" \in Fields /\ v \in Values
      BY <1>2, FieldFacts DEF IInv, TypeOK, Values
    <2>2. QED
      BY <2>1, PutType
  <1>4. TypeOK'
    <2>1. staged' \in [Names -> Sections]
      BY <1>1, <1>2, <1>3 DEF IInv, TypeOK
    <2>2. QED
      BY <1>1, <2>1 DEF IInv, TypeOK
  <1>5. CallFits' /\ CreatedSoFar' /\ CommittedRulesComplete'
    BY <1>1, <1>2 DEF IInv, CallFits, CreatedSoFar, CommittedRulesComplete
  <1>6. ReadyToCommit'
    <2>1. staged'[n] = Put(staged[n], "enabled", v)
      BY <1>1, <1>2 DEF IInv, TypeOK
    <2>2. n \notin tainted => staged[n] = file[n]
      BY <1>1, <1>2 DEF IInv, InStep, HalfWay
    <2>3. n \notin tainted => file[n] \in CompleteSections
      BY <1>1, <1>2, <2>2 DEF IInv, CommittedRulesComplete
    <2>4. QED
      BY <1>1, <2>1, <2>2, <2>3 DEF ReadyToCommit
  <1>7. InStep'
    BY <1>1, StagingKeepsOthers
  <1>8. QED
    BY <1>4, <1>5, <1>6, <1>7 DEF IInv

\* Deleting a section keeps the invariant.
LEMMA DeleteSectionIInv ==
    ASSUME IInv, DeleteSection
    PROVE  IInv'
  <1> DEFINE n == call.name
  <1>1. /\ pc = "stage" /\ call.kind = "delete"
        /\ staged' = [staged EXCEPT ![n] = Absent]
        /\ pc' = "commit"
        /\ UNCHANGED <<file, live, call, step, reply, shown, tainted, faults>>
    BY DEF DeleteSection
  <1>2. call \in Calls /\ n \in Names
    BY <1>1, CallType
  <1>3. staged' \in [Names -> Sections] /\ staged'[n] = Absent
    BY <1>1, <1>2, SectionFacts DEF IInv, TypeOK
  <1>4. TypeOK' /\ CallFits' /\ CreatedSoFar' /\ CommittedRulesComplete'
    BY <1>1, <1>3 DEF IInv, TypeOK, CallFits, CreatedSoFar, CommittedRulesComplete
  <1>5. ReadyToCommit'
    BY <1>1, <1>3 DEF ReadyToCommit
  <1>6. InStep'
    BY <1>1, StagingKeepsOthers
  <1>7. QED
    BY <1>4, <1>5, <1>6 DEF IInv

\* A call that ends, however it does, leaves its rule in doubt if it was half-way.
LEMMA EndCallIInv ==
    ASSUME IInv, NEW answer \in {"ok", "error", "none"}, EndCall(answer),
           file' = file, live' \in {live, file}, faults' \in Nat,
           staged' \in {staged, file}, HalfWay => pc # "idle"
    PROVE  IInv'
  <1>1. /\ call' = NoCall /\ pc' = "idle" /\ step' = 1 /\ reply' = answer
        /\ shown' = shown
        /\ tainted' = IF HalfWay THEN tainted \cup {call.name} ELSE tainted
    BY DEF EndCall
  <1>2. TypeOK'
    <2>1. tainted' \subseteq Names
      BY <1>1, CallType DEF IInv, TypeOK
    <2>2. file' \in [Names -> Sections] /\ live' \in [Names -> Sections]
             /\ staged' \in [Names -> Sections]
      BY DEF IInv, TypeOK
    <2>3. shown' # NoList => shown' \in UNION {[N -> ListedRules] : N \in SUBSET Names}
      BY <1>1 DEF IInv, TypeOK
    <2>4. QED
      BY <1>1, <2>1, <2>2, <2>3, FieldFacts DEF TypeOK
  <1>3. CallFits' /\ CreatedSoFar' /\ ReadyToCommit'
    BY <1>1 DEF CallFits, CreatedSoFar, ReadyToCommit
  <1>4. \A n \in Names \ tainted' : staged[n] = file[n]
    BY <1>1 DEF IInv, InStep
  <1>5. InStep'
    BY <1>1, <1>4 DEF InStep
  <1>6. CommittedRulesComplete'
    BY <1>1 DEF IInv, CommittedRulesComplete
  <1>7. QED
    BY <1>2, <1>3, <1>5, <1>6 DEF IInv

\* Committing keeps the invariant: what is written is complete or in doubt.
LEMMA CommitIInv ==
    ASSUME IInv, Commit
    PROVE  IInv'
  <1> DEFINE n == call.name
  <1>1. /\ pc = "commit" /\ file' = staged /\ pc' = "reload"
        /\ tainted' = IF call.kind \in {"create", "delete"} THEN tainted \ {n} ELSE tainted
        /\ UNCHANGED <<staged, live, call, step, reply, shown, faults>>
    BY DEF Commit
  <1>2. /\ call \in Calls /\ n \in Names
        /\ call.kind \in {"create", "enable", "disable", "delete"}
        /\ call.kind = "create" => call.spec \in Specs
    BY <1>1, CallType
  <1>3. TypeOK'
    BY <1>1 DEF IInv, TypeOK
  <1>4. CallFits' /\ CreatedSoFar' /\ ReadyToCommit'
    BY <1>1 DEF IInv, CallFits, CreatedSoFar, ReadyToCommit
  <1>5. InStep'
    BY <1>1 DEF InStep
  <1>6. CommittedRulesComplete'
    <2> SUFFICES ASSUME NEW m \in Names \ tainted'
                 PROVE  staged[m] = Absent \/ staged[m] \in CompleteSections
      BY <1>1 DEF CommittedRulesComplete
    <2>1. CASE m # n
      <3>1. m \notin tainted
        BY <1>1, <2>1
      <3>2. staged[m] = file[m]
        BY <2>1, <3>1 DEF IInv, InStep
      <3>3. QED
        BY <3>1, <3>2 DEF IInv, CommittedRulesComplete
    <2>2. CASE m = n /\ call.kind = "create"
      BY <1>1, <1>2, <2>2 DEF IInv, ReadyToCommit, CompleteSections
    <2>3. CASE m = n /\ call.kind = "delete"
      BY <1>1, <2>3 DEF IInv, ReadyToCommit
    <2>4. CASE m = n /\ call.kind \in {"enable", "disable"}
      <3> DEFINE v == IF call.kind = "enable" THEN "1" ELSE "0"
      <3>1. /\ file[n] \in CompleteSections
            /\ staged[n] = Put(file[n], "enabled", v)
        BY <1>1, <2>4 DEF IInv, ReadyToCommit
      <3>2. PICK spec \in Specs, e \in {"0", "1"} : file[n] = Complete(spec, e)
        BY <3>1 DEF CompleteSections
      <3>3. staged[n] = Complete(spec, v)
        BY <3>1, <3>2, SwitchComplete
      <3>4. QED
        BY <2>4, <3>3 DEF CompleteSections
    <2>5. QED
      BY <1>2, <2>1, <2>2, <2>3, <2>4
  <1>7. QED
    BY <1>3, <1>4, <1>5, <1>6 DEF IInv

\* The four ways a call ends.
LEMMA ReturnIInv ==
    ASSUME IInv, UciFails \/ Reload \/ ReloadFails \/ Crash \/ Reboot
    PROVE  IInv'
  <1>1. HalfWay => pc # "idle"
    BY DEF HalfWay
  <1>2. faults \in Nat
    BY DEF IInv, TypeOK
  <1>3. CASE UciFails
    BY <1>1, <1>2, <1>3, EndCallIInv DEF UciFails, Fault
  <1>4. CASE Reload
    BY <1>1, <1>2, <1>4, EndCallIInv DEF Reload
  <1>5. CASE ReloadFails
    BY <1>1, <1>2, <1>5, EndCallIInv DEF ReloadFails, Fault
  <1>6. CASE Crash
    BY <1>1, <1>2, <1>6, EndCallIInv DEF Crash, Fault
  <1>7. CASE Reboot
    BY <1>1, <1>2, <1>7, EndCallIInv DEF Reboot, Fault
  <1>8. QED
    BY <1>3, <1>4, <1>5, <1>6, <1>7

\* What list_rules makes of a section.
LEMMA ListedType ==
    ASSUME NEW s \in Sections
    PROVE  ListedRule(s) \in ListedRules
  <1>1. \A f \in DOMAIN s : s[f] \in Values
    BY SectionFacts
  <1>2. ("enabled" \in DOMAIN s => s["enabled"] = "1") \in BOOLEAN
    OBVIOUS
  <1>3. QED
    BY <1>1, <1>2 DEF ListedRule, ListedRules

\* Listing changes nothing but what is shown.
LEMMA ListIInv ==
    ASSUME IInv, ListRules \/ ListRulesFails
    PROVE  IInv'
  <1>1. /\ UNCHANGED <<file, staged, live, call, pc, step, reply, tainted>>
        /\ faults' \in Nat
    BY DEF IInv, TypeOK, ListRules, ListRulesFails, Fault
  <1>2. shown' \in UNION {[N -> ListedRules] : N \in SUBSET Names}
    <2>1. CASE ListRules
      <3> DEFINE N == {m \in Names : Listed(staged[m])}
      <3>1. \A n \in N : ListedRule(staged[n]) \in ListedRules
        BY ListedType DEF IInv, TypeOK
      <3>2. shown' = [n \in N |-> ListedRule(staged[n])]
        BY <2>1 DEF ListRules
      <3>3. shown' \in [N -> ListedRules] /\ N \in SUBSET Names
        BY <3>1, <3>2
      <3> HIDE DEF N
      <3>4. QED
        BY <3>3
    <2>2. CASE ListRulesFails
      <3>1. shown' \in [{} -> ListedRules] /\ {} \in SUBSET Names
        BY <2>2 DEF ListRulesFails, Nothing
      <3>2. QED
        BY <3>1
    <2>3. QED
      BY <2>1, <2>2
  <1>3. TypeOK'
    BY <1>1, <1>2 DEF IInv, TypeOK
  <1>4. (CallFits /\ CreatedSoFar /\ ReadyToCommit /\ InStep /\ CommittedRulesComplete)'
    BY <1>1 DEF IInv, CallFits, CreatedSoFar, ReadyToCommit, InStep, HalfWay, CommittedRulesComplete
  <1>5. QED
    BY <1>3, <1>4 DEF IInv

\* The inductive invariant holds in every reachable state.
THEOREM InductiveInvariant == Spec => []IInv
  <1>1. Init => IInv
    BY InitIInv
  <1>2. IInv /\ [Next]_vars => IInv'
    <2> SUFFICES ASSUME IInv, [Next]_vars PROVE IInv'
      OBVIOUS
    <2>1. CASE Begin
      BY <2>1, BeginIInv
    <2>2. CASE CreateStep \/ SetEnabled \/ DeleteSection
      BY <2>2, CreateStepIInv, SetEnabledIInv, DeleteSectionIInv
    <2>3. CASE Commit
      BY <2>3, CommitIInv
    <2>4. CASE UciFails \/ Reload \/ ReloadFails \/ Crash \/ Reboot
      BY <2>4, ReturnIInv
    <2>5. CASE ListRules \/ ListRulesFails
      BY <2>5, ListIInv
    <2>6. CASE UNCHANGED vars
      BY <2>6 DEF vars, IInv, TypeOK, CallFits, CreatedSoFar, ReadyToCommit, InStep,
                  HalfWay, CommittedRulesComplete
    <2>7. QED
      BY <2>1, <2>2, <2>3, <2>4, <2>5, <2>6 DEF Next
  <1>3. QED
    BY <1>1, <1>2, PTL DEF Spec

\* Type correctness: whatever is staged, committed or live, the sections hold
\* nothing but options and values that create_rule, enable_rule and
\* disable_rule write.
THEOREM TypeCorrect == Spec => []TypeOK
  <1>1. IInv => TypeOK
    BY DEF IInv
  <1>2. QED
    BY <1>1, InductiveInvariant, PTL

\* No partial rule is committed except under a name with a call that ended
\* half-way, whatever commits it.
THEOREM RulesAreComplete == Spec => []CommittedRulesComplete
  <1>1. IInv => CommittedRulesComplete
    BY DEF IInv
  <1>2. QED
    BY <1>1, InductiveInvariant, PTL

\* A list is shown between two calls only, and then the file stays as it is.
ListAgrees == ListShowsCommitted /\ (shown # NoList => pc = "idle")

\* A complete section is listed.
LEMMA CompleteIsListed ==
    ASSUME NEW s \in CompleteSections
    PROVE  Listed(s) /\ s # Absent
  <1>1. PICK spec \in Specs, e \in {"0", "1"} : s = Complete(spec, e)
    BY DEF CompleteSections
  <1>2. "type" \in DOMAIN s /\ s["type"] = "rule"
    BY <1>1, FieldFacts DEF Complete, Assignment
  <1>3. QED
    BY <1>2, CompleteType DEF Listed

\* Between two calls what is staged for a rule not in doubt is in the file.
LEMMA ListingAgrees ==
    ASSUME IInv, ListRules
    PROVE  ListShowsCommitted'
  <1>1. /\ pc = "idle" /\ UNCHANGED <<file, staged, tainted>>
        /\ shown' = [n \in {m \in Names : Listed(staged[m])} |-> ListedRule(staged[n])]
    BY DEF ListRules
  <1> SUFFICES ASSUME NEW n \in Names \ tainted
               PROVE  IF file[n] = Absent THEN n \notin DOMAIN shown'
                      ELSE n \in DOMAIN shown' /\ shown'[n] = ListedRule(file[n])
    BY <1>1 DEF ListShowsCommitted
  <1>2. staged[n] = file[n]
    BY <1>1 DEF IInv, InStep, HalfWay
  <1>3. CASE file[n] = Absent
    <2>1. ~Listed(staged[n])
      BY <1>2, <1>3 DEF Listed, Absent
    <2>2. QED
      BY <1>1, <1>3, <2>1
  <1>4. CASE file[n] # Absent
    <2>1. file[n] \in CompleteSections
      BY <1>4 DEF IInv, CommittedRulesComplete
    <2>2. Listed(staged[n])
      BY <1>2, <2>1, CompleteIsListed
    <2>3. QED
      BY <1>1, <1>2, <1>4, <2>2
  <1>5. QED
    BY <1>3, <1>4

\* The list that list_rules returns has of every rule what is committed, unless
\* the rule is in doubt or `uci show` failed and the list is empty.
THEOREM ListIsCommitted == Spec => []ListShowsCommitted
  <1>1. Init => ListAgrees
    BY DEF Init, ListAgrees, ListShowsCommitted
  <1>2. IInv /\ ListAgrees /\ [Next]_vars => ListAgrees'
    <2> SUFFICES ASSUME IInv, ListAgrees, [Next]_vars PROVE ListAgrees'
      OBVIOUS
    <2>1. CASE Begin
      BY <2>1 DEF Begin, ListAgrees, ListShowsCommitted
    <2>2. CASE CreateStep \/ SetEnabled \/ DeleteSection \/ Commit
      BY <2>2 DEF CreateStep, SetEnabled, DeleteSection, Commit, ListAgrees, ListShowsCommitted
    <2>3. CASE UciFails \/ Reload \/ ReloadFails \/ Crash \/ Reboot
      <3>1. /\ file' = file /\ shown' = shown /\ pc' = "idle"
            /\ tainted \subseteq tainted'
        BY <2>3 DEF UciFails, Reload, ReloadFails, Crash, Reboot, EndCall
      <3>2. QED
        BY <3>1 DEF ListAgrees, ListShowsCommitted
    <2>4. CASE ListRules
      <3>1. pc' = "idle"
        BY <2>4 DEF ListRules
      <3>2. QED
        BY <2>4, <3>1, ListingAgrees DEF ListAgrees
    <2>5. CASE ListRulesFails
      BY <2>5 DEF ListRulesFails, ListAgrees, ListShowsCommitted
    <2>6. CASE UNCHANGED vars
      BY <2>6 DEF vars, ListAgrees, ListShowsCommitted
    <2>7. QED
      BY <2>1, <2>2, <2>3, <2>4, <2>5, <2>6 DEF Next
  <1>3. ListAgrees => ListShowsCommitted
    BY DEF ListAgrees
  <1>4. QED
    BY <1>1, <1>2, <1>3, InductiveInvariant, PTL DEF Spec
------------------------------------------------------------------------------
(***************************************************************************)
(* The backend keeps the contract: every step is one of the contract's or  *)
(* is not visible in it.                                                   *)
(***************************************************************************)
rulesBar == [n \in Names |-> RuleOf(file[n])]

\* The rule a complete section stands for.
LEMMA RuleOfComplete ==
    ASSUME NEW spec \in Specs, NEW e \in {"0", "1"}
    PROVE  RuleOf(Complete(spec, e))
              = [spec |-> spec, state |-> IF e = "1" THEN "on" ELSE "off"]
  <1> DEFINE s == Complete(spec, e)
  <1>1. s \in CompleteSections
    BY DEF CompleteSections
  <1>2. DOMAIN s = Fields /\ s # Absent
    BY <1>1, CompleteType
  <1>3. s["src"] = spec.src /\ s["dest_port"] = spec.dest_port /\ s["enabled"] = e
    BY FieldFacts DEF Complete, Assignment
  <1>4. spec = [src |-> spec.src, dest_port |-> spec.dest_port]
    BY DEF Specs
  <1> HIDE DEF s
  <1>5. RuleOf(s) = [spec |-> spec, state |-> IF e = "1" THEN "on" ELSE "off"]
    BY <1>2, <1>3, <1>4 DEF RuleOf
  <1>6. QED
    BY <1>5 DEF s

\* An absent section stands for no rule.
LEMMA RuleOfAbsent == RuleOf(Absent) = NoRule
  BY DEF RuleOf

\* The contract and the backend mean the same by a call.
LEMMA SameCalls == Contract!Calls = Calls
  BY DEF Contract!Calls, Calls

\* The commit is the moment a call takes effect.
LEMMA CommitApplies ==
    ASSUME IInv, Commit
    PROVE  Contract!Apply
  <1> DEFINE n == call.name
  <1>1. /\ pc = "commit" /\ file' = staged /\ pc' = "reload"
        /\ tainted' = IF call.kind \in {"create", "delete"} THEN tainted \ {n} ELSE tainted
        /\ UNCHANGED <<staged, live, call, step, reply, shown, faults>>
    BY DEF Commit
  <1>2. /\ call \in Calls /\ n \in Names
        /\ call.kind \in {"create", "enable", "disable", "delete"}
        /\ call.kind = "create" => call.spec \in Specs
        /\ call # NoCall
    BY <1>1, CallType, OpenWrtAssumption
  <1>3. ASSUME NEW m \in Names \ tainted', m # n
        PROVE  RuleOf(staged[m]) = RuleOf(file[m])
    BY <1>1, <1>3 DEF IInv, InStep
  <1>4. ASSUME n \notin tainted'
        PROVE  RuleOf(staged[n]) = Contract!Effect(call, RuleOf(file[n]))
    <2>1. CASE call.kind = "create"
      BY <1>1, <1>2, <2>1, RuleOfComplete DEF IInv, ReadyToCommit, Contract!Effect
    <2>2. CASE call.kind = "delete"
      BY <1>1, <2>2, RuleOfAbsent DEF IInv, ReadyToCommit, Contract!Effect
    <2>3. CASE call.kind \in {"enable", "disable"}
      <3> DEFINE v == IF call.kind = "enable" THEN "1" ELSE "0"
      <3>1. /\ file[n] \in CompleteSections
            /\ staged[n] = Put(file[n], "enabled", v)
        BY <1>1, <1>4, <2>3 DEF IInv, ReadyToCommit
      <3>2. PICK spec \in Specs, e \in {"0", "1"} : file[n] = Complete(spec, e)
        BY <3>1 DEF CompleteSections
      <3>3. staged[n] = Complete(spec, v)
        BY <3>1, <3>2, SwitchComplete
      <3>4. RuleOf(staged[n]) = [spec |-> spec, state |-> IF v = "1" THEN "on" ELSE "off"]
        BY <3>3, RuleOfComplete
      <3>5. RuleOf(file[n]) = [spec |-> spec, state |-> IF e = "1" THEN "on" ELSE "off"]
        BY <3>2, RuleOfComplete
      <3>6. QED
        BY <2>3, <3>4, <3>5 DEF Contract!Effect
    <2>4. QED
      BY <1>2, <2>1, <2>2, <2>3
  <1>5. \A m \in Names : rulesBar[m] = RuleOf(file[m]) /\ rulesBar'[m] = RuleOf(staged[m])
    BY <1>1 DEF rulesBar
  <1>6. \A m \in Names \ tainted' :
           rulesBar'[m] = IF m = n THEN Contract!Effect(call, rulesBar[m]) ELSE rulesBar[m]
    BY <1>3, <1>4, <1>5
  <1>7. DOMAIN rulesBar' = Names
    BY DEF rulesBar
  <1>8. tainted' = IF Contract!Settles(call) THEN tainted \ {call.name} ELSE tainted
    BY <1>1 DEF Contract!Settles
  <1>9. QED
    BY <1>1, <1>2, <1>6, <1>7, <1>8 DEF Contract!Apply, rulesBar

\* A call that returns, or is cut off, ends in the contract too.
LEMMA ReturnEnds ==
    ASSUME IInv, UciFails \/ Reload \/ ReloadFails \/ Crash \/ Reboot
    PROVE  Contract!ReturnOk \/ Contract!ReturnError \/ Contract!Die
  <1>1. file' = file
    BY DEF UciFails, Reload, ReloadFails, Crash, Reboot
  <1>2. pc = "idle" <=> call = NoCall
    BY DEF IInv, CallFits
  <1>3. ASSUME NEW answer, EndCall(answer)
        PROVE  /\ pc # "idle" => Contract!End(answer)
               /\ pc = "idle" => tainted' = tainted
               /\ call' = NoCall /\ pc' = "idle" /\ reply' = answer
    BY <1>1, <1>3 DEF EndCall, HalfWay, Contract!End
  <1>4. CASE UciFails
    BY <1>2, <1>3, <1>4 DEF UciFails, Contract!ReturnError
  <1>5. CASE Reload \/ ReloadFails
    BY <1>2, <1>3, <1>5 DEF Reload, ReloadFails, Contract!ReturnOk
  <1>6. CASE Crash
    BY <1>2, <1>3, <1>6 DEF Crash, Contract!Die
  <1>7. CASE Reboot
    BY <1>1, <1>2, <1>3, <1>7 DEF Reboot, Contract!Die
  <1>8. QED
    BY <1>4, <1>5, <1>6, <1>7

\* Spec implements the contract of a FirewallManager.
THEOREM OpenWrtKeepsContract == Spec => ImplementsContract
  <1>1. Init => Contract!Init
    BY RuleOfAbsent DEF Init, Contract!Init
  <1>2. IInv /\ [Next]_vars => [Contract!Next]_(Contract!vars)
    <2> SUFFICES ASSUME IInv, [Next]_vars
                 PROVE  Contract!Next \/ UNCHANGED Contract!vars
      OBVIOUS
    <2>1. CASE Begin
      <3>1. call = NoCall
        BY <2>1 DEF Begin, IInv, CallFits
      <3>2. QED
        BY <2>1, <3>1, SameCalls DEF Begin, Contract!Next, Contract!Begin
    <2>2. CASE CreateStep \/ SetEnabled \/ DeleteSection
      BY <2>2 DEF CreateStep, SetEnabled, DeleteSection, Contract!vars
    <2>3. CASE Commit
      BY <2>3, CommitApplies DEF Contract!Next
    <2>4. CASE UciFails \/ Reload \/ ReloadFails \/ Crash \/ Reboot
      BY <2>4, ReturnEnds DEF Contract!Next
    <2>5. CASE ListRules \/ ListRulesFails
      BY <2>5 DEF ListRules, ListRulesFails, Contract!vars
    <2>6. CASE UNCHANGED vars
      BY <2>6 DEF vars, Contract!vars
    <2>7. QED
      BY <2>1, <2>2, <2>3, <2>4, <2>5, <2>6 DEF Next
  <1>3. QED
    BY <1>1, <1>2, InductiveInvariant, PTL DEF Spec, ImplementsContract, Contract!Spec
------------------------------------------------------------------------------
(***************************************************************************)
(* What a call may change of the configuration, and what an Ok says.       *)
(***************************************************************************)
\* What a call that succeeds makes of the section of its rule.
Done(c, section) ==
    /\ c.kind = "create" => section = Complete(c.spec, "1")
    /\ c.kind = "delete" => section = Absent
    /\ c.kind \in {"enable", "disable"} =>
          /\ "enabled" \in DOMAIN section
          /\ section["enabled"] = IF c.kind = "enable" THEN "1" ELSE "0"

\* All that a call has to do is staged before it commits, and stays so.
Effected == pc \in {"commit", "reload"} => Done(call, staged[call.name])

\* No step undoes what is staged for the call in progress.
LEMMA NextEffected ==
    ASSUME IInv, IInv', Effected, [Next]_vars
    PROVE  Effected'
  <1>1. CASE CreateStep \/ DeleteSection
    <2>1. call' = call /\ call.kind \in {"create", "delete"} /\ pc' # "reload"
      BY <1>1 DEF CreateStep, DeleteSection
    <2>2. QED
      BY <2>1 DEF IInv, ReadyToCommit, Effected, Done
  <1>2. CASE SetEnabled
    <2> DEFINE n == call.name
               v == IF call.kind = "enable" THEN "1" ELSE "0"
    <2>1. /\ pc = "stage" /\ call.kind \in {"enable", "disable"} /\ call' = call
          /\ staged' = [staged EXCEPT ![n] = Put(staged[n], "enabled", v)]
      BY <1>2 DEF SetEnabled
    <2>2. n \in Names /\ staged[n] \in Sections
      BY <2>1, CallType DEF IInv, TypeOK
    <2>3. staged'[n] = Put(staged[n], "enabled", v)
      BY <2>1, <2>2 DEF IInv, TypeOK
    <2>4. /\ "enabled" \in DOMAIN Put(staged[n], "enabled", v)
          /\ Put(staged[n], "enabled", v)["enabled"] = v
      BY DEF Put
    <2> HIDE DEF v
    <2>5. QED
      BY <2>1, <2>3, <2>4 DEF Effected, Done, v
  <1>3. CASE Commit
    BY <1>3 DEF Commit, Effected
  <1>4. CASE Begin \/ UciFails \/ Reload \/ ReloadFails \/ Crash \/ Reboot
    <2>1. pc' \in {"idle", "stage"}
      BY <1>4 DEF Begin, UciFails, Reload, ReloadFails, Crash, Reboot, EndCall
    <2>2. QED
      BY <2>1 DEF Effected
  <1>5. CASE ListRules \/ ListRulesFails
    BY <1>5 DEF ListRules, ListRulesFails, Effected
  <1>6. CASE UNCHANGED vars
    BY <1>6 DEF vars, Effected
  <1>7. QED
    BY <1>1, <1>2, <1>3, <1>4, <1>5, <1>6 DEF Next

(***************************************************************************)
(* What remains true although a failing reload is answered with success: a *)
(* call that returns Ok has written its rule to the configuration file, in *)
(* full and as it was told, whatever failed before it.                     *)
(***************************************************************************)
THEOREM SuccessIsCommitted ==
    Spec => [][call # NoCall /\ call' = NoCall /\ reply' = "ok"
                  => Done(call, file'[call.name])]_vars
  <1>1. Init => Effected
    BY DEF Init, Effected
  <1>2. IInv /\ IInv' /\ Effected /\ [Next]_vars => Effected'
    BY NextEffected
  <1>3. IInv /\ Effected /\ [Next]_vars =>
           [call # NoCall /\ call' = NoCall /\ reply' = "ok"
               => Done(call, file'[call.name])]_vars
    <2> SUFFICES ASSUME IInv, Effected, Next, call # NoCall, call' = NoCall, reply' = "ok"
                 PROVE  Done(call, file'[call.name])
      BY DEF vars
    <2>1. Reload \/ ReloadFails
      BY OpenWrtAssumption
         DEF Next, Begin, CreateStep, SetEnabled, DeleteSection, UciFails, Commit, Crash,
             ListRules, ListRulesFails, Reboot, EndCall
    <2>2. pc = "reload" /\ file' = file
      BY <2>1 DEF Reload, ReloadFails
    <2>3. QED
      BY <2>2 DEF IInv, InStep, Effected
  <1>4. QED
    BY <1>1, <1>2, <1>3, InductiveInvariant, PTL DEF Spec

(***************************************************************************)
(* A commit writes all that is staged, for whatever rule.  Nevertheless a  *)
(* call changes the configuration of no rule but its own and those whose   *)
(* last call ended half-way.                                               *)
(***************************************************************************)
THEOREM OthersAreKept ==
    Spec => [][\A n \in Names : file'[n] # file[n] => n = call.name \/ n \in tainted]_vars
  <1>1. IInv /\ [Next]_vars =>
           [\A n \in Names : file'[n] # file[n] => n = call.name \/ n \in tainted]_vars
    <2> SUFFICES ASSUME IInv, Next, NEW n \in Names, file'[n] # file[n]
                 PROVE  n = call.name \/ n \in tainted
      BY DEF vars
    <2>1. file' = staged
      BY DEF Next, Begin, CreateStep, SetEnabled, DeleteSection, UciFails, Commit, Reload,
             ReloadFails, ListRules, ListRulesFails, Crash, Reboot
    <2>2. QED
      BY <2>1 DEF IInv, InStep
  <1>2. QED
    BY <1>1, InductiveInvariant, PTL DEF Spec
==============================================================================
