----------------------------- MODULE Host_proofs -----------------------------
(***************************************************************************)
(* Proofs of the safety properties of Host, for all sets of keys, names    *)
(* and platforms and whatever the bounds on deaths and edits.              *)
(***************************************************************************)
EXTENDS Host, TLAPS

(***************************************************************************)
(* The invariant the properties follow from.  While the server starts, the *)
(* file as it is now is one of those there were; and what a call made of a *)
(* name is of that name.                                                   *)
(***************************************************************************)
FileIsSeen == phase = "retry" => file \in seen

ToldOfItsName == \A n \in Names : told[n] # None => told[n].name = n

IInv == TypeOK /\ FileIsSeen /\ ToldOfItsName /\ KeyWasWritten /\ MemoryIsAsTold

(***************************************************************************)
(* What load_or_default returns for a file that is there in full, or not   *)
(* at all, is a configuration; only half a file has none.                  *)
(***************************************************************************)
LEMMA LoadedIsConfig ==
    ASSUME NEW f \in Files
    PROVE  /\ CanLoad(f) <=> f # Torn
           /\ CanLoad(f) => /\ Loaded(f) \in Configs
                            /\ Loaded(f).key = IF f = Absent THEN DefaultKey ELSE f.key
                            /\ Loaded(f).platform = IF f = Absent THEN "openwrt" ELSE f.platform
  <1>1. Default \in Configs /\ Default.key = DefaultKey /\ Default.platform = "openwrt"
    BY HostAssumption DEF Default, Configs
  <1>2. Absent # Torn /\ None \notin Configs
    BY HostAssumption
  <1>3. CASE f = Torn
    BY <1>2, <1>3 DEF Loaded, CanLoad
  <1>4. CASE f = Absent
    BY <1>1, <1>2, <1>4 DEF Loaded, CanLoad
  <1>5. CASE f \in Configs /\ f # Torn /\ f # Absent
    BY <1>2, <1>5 DEF Loaded, CanLoad
  <1> QED BY <1>3, <1>4, <1>5 DEF Files

(***************************************************************************)
(* Coming up with a file that can be read makes everything true that holds *)
(* of a server that runs.                                                  *)
(***************************************************************************)
LEMMA UpIsSound ==
    ASSUME NEW o \in Platforms \cup {None}, NEW f \in Files, CanLoad(f), Up(o, f),
           f \in seen', override' = o
    PROVE  /\ config' \in Configs
           /\ rules' \subseteq Entries
           /\ told' \in [Names -> Entries \cup {None}]
           /\ ToldOfItsName' /\ KeyWasWritten' /\ MemoryIsAsTold'
  <1>1. f # Torn /\ Loaded(f) \in Configs
        /\ Loaded(f).key = (IF f = Absent THEN DefaultKey ELSE f.key)
        /\ Loaded(f).platform = (IF f = Absent THEN "openwrt" ELSE f.platform)
    BY LoadedIsConfig
  <1>2. config' = IF o = None THEN Loaded(f) ELSE [Loaded(f) EXCEPT !.platform = o]
    BY DEF Up
  <1>3. config' \in Configs /\ config'.key = Loaded(f).key
    BY <1>1, <1>2 DEF Configs
  <1>4. o = None => config'.platform = Loaded(f).platform
    BY <1>2
  <1>5. rules' = {} /\ told' = [n \in Names |-> None]
    BY DEF Up
  <1>6. Backend("openwrt") = "openwrt"
    BY DEF Backend
  <1>7. KeyWasWritten'
    <2>1. f \in (seen \ {Torn})'
      BY <1>1
    <2>2. config'.key = IF f = Absent THEN DefaultKey ELSE f.key
      BY <1>1, <1>3
    <2>3. override' = None => Backend(config'.platform) =
                                 IF f = Absent THEN "openwrt" ELSE Backend(f.platform)
      BY <1>1, <1>4, <1>6
    <2> QED BY <2>1, <2>2, <2>3 DEF KeyWasWritten
  <1>8. ToldOfItsName' /\ MemoryIsAsTold'
    BY <1>5 DEF ToldOfItsName, MemoryIsAsTold
  <1> QED BY <1>3, <1>5, <1>7, <1>8

LEMMA InitHolds == Init => IInv
  <1> SUFFICES ASSUME Init PROVE IInv
    OBVIOUS
  <1>1. TypeOK
    BY DEF Init, TypeOK
  <1>2. FileIsSeen /\ ToldOfItsName /\ KeyWasWritten /\ MemoryIsAsTold
    BY DEF Init, FileIsSeen, ToldOfItsName, KeyWasWritten, MemoryIsAsTold
  <1> QED BY <1>1, <1>2 DEF IInv

(***************************************************************************)
(* A change of the file leaves the server as it is.                        *)
(***************************************************************************)
LEMMA FileSteps ==
    ASSUME IInv, NEW f \in Files, FileBecomes(f), UNCHANGED server,
           writing' \in Platforms \cup {None}
    PROVE  IInv'
  <1> USE DEF IInv, server
  <1>1. file' = f /\ seen' \in {seen, seen \cup {f}} /\ (phase = "retry" => f \in seen')
        /\ (phase = "up" => seen' = seen)
    BY DEF FileBecomes, TypeOK
  <1>2. TypeOK'
    BY <1>1 DEF TypeOK
  <1>3. FileIsSeen' /\ ToldOfItsName' /\ KeyWasWritten' /\ MemoryIsAsTold'
    BY <1>1 DEF FileIsSeen, ToldOfItsName, KeyWasWritten, MemoryIsAsTold
  <1> QED BY <1>2, <1>3

LEMMA StartHolds == IInv /\ (Start \/ Retry) => IInv'
  <1> SUFFICES ASSUME IInv, Start \/ Retry PROVE IInv'
    OBVIOUS
  <1> USE DEF IInv
  <1>0. file' = file /\ writing' = writing
    BY DEF Start, Retry, disk
  <1>1. override' \in Platforms \cup {None} /\ file \in Files /\ seen' \subseteq Files
        /\ file \in (IF Start THEN seen' ELSE {file})
    BY DEF Start, Retry, TypeOK
  <1>2. file \in seen'
    BY DEF Start, Retry, FileIsSeen
  <1>3. CASE CanLoad(file)
    <2>1. Up(override', file)
      BY <1>3 DEF Start, Retry
    <2>2. config' \in Configs /\ rules' \subseteq Entries /\ told' \in [Names -> Entries \cup {None}]
          /\ ToldOfItsName' /\ KeyWasWritten' /\ MemoryIsAsTold'
      BY <1>1, <1>2, <1>3, <2>1, UpIsSound
    <2>3. phase' = "up" /\ config' # None
      BY <2>1, <2>2, HostAssumption DEF Up
    <2>4. TypeOK' /\ FileIsSeen'
      BY <1>0, <1>1, <2>2, <2>3 DEF TypeOK, FileIsSeen
    <2> QED BY <2>2, <2>4
  <1>4. CASE ~CanLoad(file)
    <2>1. phase' \in {"retry", "down"} /\ phase # "up" /\ UNCHANGED <<config, rules, told>>
      BY <1>4 DEF Start, Retry
    <2>2. TypeOK'
      BY <1>0, <1>1, <2>1 DEF TypeOK
    <2>3. FileIsSeen' /\ ToldOfItsName' /\ KeyWasWritten' /\ MemoryIsAsTold'
      BY <1>0, <1>2, <2>1 DEF FileIsSeen, ToldOfItsName, KeyWasWritten, MemoryIsAsTold
    <2> QED BY <2>2, <2>3
  <1> QED BY <1>3, <1>4

LEMMA ServerDiesHolds == IInv /\ ServerDies => IInv'
  <1> SUFFICES ASSUME IInv, ServerDies PROVE IInv'
    OBVIOUS
  <1>1. TypeOK'
    BY DEF IInv, ServerDies, disk, TypeOK
  <1>2. FileIsSeen' /\ ToldOfItsName' /\ KeyWasWritten' /\ MemoryIsAsTold'
    BY DEF IInv, ServerDies, FileIsSeen, ToldOfItsName, KeyWasWritten, MemoryIsAsTold
  <1> QED BY <1>1, <1>2 DEF IInv

(***************************************************************************)
(* A call of the Linux backend about the name n leaves the rules of other  *)
(* names as they were, and makes of n what it tells.                       *)
(***************************************************************************)
LEMMA CallHolds ==
    ASSUME IInv, Called, NEW n \in Names, NEW e \in Entries \cup {None},
           e # None => e.name = n,
           told' = [told EXCEPT ![n] = e],
           rules' = Without(rules, n) \cup ({e} \ {None})
    PROVE  IInv'
  <1> USE DEF IInv
  <1>1. phase = "up" /\ phase' = "up" /\ UNCHANGED <<file, writing, override, config, seen>>
    BY DEF Called, OnLinux, disk
  <1>2. rules = {told[m] : m \in Names} \ {None}
    BY <1>1 DEF MemoryIsAsTold
  <1>3. /\ told' \in [Names -> Entries \cup {None}]
        /\ \A m \in Names : told'[m] = IF m = n THEN e ELSE told[m]
    BY DEF TypeOK
  <1>4. TypeOK'
    BY <1>1, <1>3 DEF TypeOK, Without
  <1>5. ToldOfItsName'
    BY <1>3 DEF ToldOfItsName
  <1>6. rules' = {told'[m] : m \in Names} \ {None}
    <2>1. ASSUME NEW x \in rules' PROVE x \in {told'[m] : m \in Names} \ {None}
      BY <1>2, <1>3, HostAssumption DEF Without, ToldOfItsName
    <2>2. ASSUME NEW m \in Names, told'[m] # None PROVE told'[m] \in rules'
      BY <1>2, <1>3, <2>2 DEF Without, ToldOfItsName
    <2> QED BY <2>1, <2>2
  <1>7. MemoryIsAsTold' /\ FileIsSeen' /\ KeyWasWritten'
    BY <1>1, <1>6 DEF MemoryIsAsTold, FileIsSeen, KeyWasWritten
  <1> QED BY <1>4, <1>5, <1>7

LEMMA CreateHolds ==
    ASSUME IInv, NEW n \in Names, NEW s \in Srcs, Create(n, s)
    PROVE  IInv'
  <1> DEFINE entry == [name |-> n, src |-> s, state |-> "on"]
  <1>1. entry \in Entries /\ entry.name = n /\ entry # None
    BY HostAssumption DEF Entries
  <1>2. told' = [told EXCEPT ![n] = entry] /\ rules' = Without(rules, n) \cup {entry} /\ Called
    BY DEF Create, Stored
  <1> HIDE DEF entry
  <1>3. rules' = Without(rules, n) \cup ({entry} \ {None})
    BY <1>1, <1>2
  <1> QED BY <1>1, <1>2, <1>3, CallHolds

LEMMA SwitchHolds ==
    ASSUME IInv, NEW n \in Names, NEW state \in {"on", "off"}, Switch(n, state)
    PROVE  IInv'
  <1> USE DEF IInv
  <1> DEFINE entry == [told[n] EXCEPT !.state = state]
  <1>1. rules = {told[m] : m \in Names} \ {None} /\ Called
    BY DEF MemoryIsAsTold, Switch, Called, OnLinux
  <1>2. told[n] # None /\ told[n] \in rules /\ told[n].name = n /\ told[n] \in Entries
    BY <1>1 DEF Switch, Has, ToldOfItsName, TypeOK
  <1>3. \A x \in rules : x.name = n => x = told[n]
    BY <1>1 DEF ToldOfItsName
  <1>4. entry \in Entries /\ entry.name = n /\ entry # None
    BY <1>2, HostAssumption DEF Entries
  <1>5. told' = [told EXCEPT ![n] = entry]
    BY DEF Switch
  <1>6. rules' = Without(rules, n) \cup ({entry} \ {None})
    <2>1. rules' = {IF x.name = n THEN [x EXCEPT !.state = state] ELSE x : x \in rules}
      BY DEF Switch, Switched
    <2>2. rules' = {IF x.name = n THEN entry ELSE x : x \in rules}
      BY <1>3, <2>1
    <2> HIDE DEF entry
    <2> QED BY <1>2, <1>4, <2>2 DEF Without
  <1> HIDE DEF entry
  <1> QED BY <1>1, <1>4, <1>5, <1>6, CallHolds

LEMMA DeleteHolds ==
    ASSUME IInv, NEW n \in Names, Delete(n)
    PROVE  IInv'
  <1>1. told' = [told EXCEPT ![n] = None] /\ rules' = Without(rules, n) \cup ({None} \ {None}) /\ Called
    BY DEF Delete
  <1> QED BY <1>1, CallHolds

LEMMA Inductive == IInv /\ [Next]_vars => IInv'
  <1> SUFFICES ASSUME IInv, [Next]_vars PROVE IInv'
    OBVIOUS
  <1>0. Torn \in Files /\ Absent \in Files /\ writing \in Platforms \cup {None}
    BY DEF Files, IInv, TypeOK
  <1>1. CASE InitTruncates
    BY <1>0, <1>1, FileSteps DEF InitTruncates
  <1>2. CASE InitWrites
    <2>1. [Default EXCEPT !.platform = writing] \in Files
      BY <1>0, <1>2, HostAssumption DEF InitWrites, Default, Configs, Files
    <2> QED BY <1>2, <2>1, FileSteps DEF InitWrites
  <1>3. CASE InitDies
    <2>1. UNCHANGED <<file, phase, override, config, rules, told, seen>> /\ writing' = None
      BY <1>3 DEF InitDies, server
    <2> QED BY <2>1 DEF IInv, TypeOK, FileIsSeen, ToldOfItsName, KeyWasWritten, MemoryIsAsTold
  <1>4. CASE Edit
    BY <1>0, <1>4, FileSteps DEF Edit
  <1>5. CASE Start \/ Retry
    BY <1>5, StartHolds
  <1>6. CASE ServerDies
    BY <1>6, ServerDiesHolds
  <1>7. ASSUME NEW n \in Names, NEW s \in Srcs, Create(n, s) PROVE IInv'
    BY <1>7, CreateHolds
  <1>8. ASSUME NEW n \in Names, NEW state \in {"on", "off"}, Switch(n, state) PROVE IInv'
    BY <1>8, SwitchHolds
  <1>9. ASSUME NEW n \in Names, Delete(n) PROVE IInv'
    BY <1>9, DeleteHolds
  <1>10. CASE UNCHANGED vars
    BY <1>10 DEF vars, IInv, TypeOK, FileIsSeen, ToldOfItsName, KeyWasWritten, MemoryIsAsTold
  <1> QED BY <1>1, <1>2, <1>3, <1>4, <1>5, <1>6, <1>7, <1>8, <1>9, <1>10 DEF Next

LEMMA Invariant == Spec => []IInv
  BY InitHolds, Inductive, PTL DEF Spec

(***************************************************************************)
(* Type correctness: a server that runs has a configuration, and the       *)
(* memory of the Linux backend holds rules it was given.                   *)
(***************************************************************************)
THEOREM TypeCorrect == Spec => []TypeOK
  <1>1. IInv => TypeOK
    BY DEF IInv
  <1> QED BY Invariant, <1>1, PTL

(***************************************************************************)
(* A server never runs with what half a file says: the key it accepts is   *)
(* one that was there in full, or the default because there was no file.   *)
(***************************************************************************)
THEOREM KeysWereWritten == Spec => []KeyWasWritten
  <1>1. IInv => KeyWasWritten
    BY DEF IInv
  <1> QED BY Invariant, <1>1, PTL

(***************************************************************************)
(* The Linux backend's Vec is a function of names, and lists what the      *)
(* calls of this run made of them.                                         *)
(***************************************************************************)
THEOREM MemoriesAreAsTold == Spec => []MemoryIsAsTold
  <1>1. IInv => MemoryIsAsTold
    BY DEF IInv
  <1> QED BY Invariant, <1>1, PTL
==============================================================================
