------------------------ MODULE SlidingWindow_proofs -------------------------
(***************************************************************************)
(* What the operators of SlidingWindow return, for every limit, window and *)
(* finite log.                                                             *)
(***************************************************************************)
EXTENDS SlidingWindow, FiniteSetTheorems, TLAPS

\* One more element makes a finite set larger by at most one.
LEMMA AddOne ==
    ASSUME NEW S, NEW x, IsFiniteSet(S)
    PROVE  /\ IsFiniteSet(S \cup {x})
           /\ Cardinality(S) \in Nat /\ Cardinality(S \cup {x}) \in Nat
           /\ Cardinality(S) <= Cardinality(S \cup {x})
           /\ Cardinality(S \cup {x}) <= Cardinality(S) + 1
           /\ x \notin S => Cardinality(S \cup {x}) = Cardinality(S) + 1
  <1>1. IsFiniteSet(S \cup {x})
    BY FS_AddElement
  <1>2. Cardinality(S) \in Nat
    BY FS_CardinalityType
  <1>3. x \in S => Cardinality(S \cup {x}) = Cardinality(S)
    BY FS_AddElement
  <1>4. x \notin S => Cardinality(S \cup {x}) = Cardinality(S) + 1
    BY FS_AddElement
  <1>5. QED
    BY <1>1, <1>2, <1>3, <1>4

\* What retain leaves is part of the log, finite, and no larger.
LEMMA LiveFinite ==
    ASSUME NEW log, NEW t, IsFiniteSet(log)
    PROVE  /\ Live(log, t) \subseteq log
           /\ IsFiniteSet(Live(log, t))
           /\ Cardinality(Live(log, t)) \in Nat
           /\ Cardinality(Live(log, t)) <= Cardinality(log)
  <1>1. Live(log, t) \in SUBSET log
    BY DEF Live
  <1>2. IsFiniteSet(Live(log, t)) /\ Cardinality(Live(log, t)) <= Cardinality(log)
    BY <1>1, FS_Subset
  <1>3. QED
    BY <1>1, <1>2, FS_CardinalityType

\* The entry push adds to a finite log is an entry.
LEMMA NewEntryType ==
    ASSUME NEW log, NEW t \in Nat, IsFiniteSet(log)
    PROVE  NewEntry(log, t) \in Entries
  <1> DEFINE same == {e \in log : e.at = t}
  <1>1. same \in SUBSET log
    OBVIOUS
  <1>2. Cardinality(same) \in Nat
    BY <1>1, FS_Subset, FS_CardinalityType
  <1>3. QED
    BY <1>2 DEF NewEntry, Entries

\* Numbering the admissions of an instant keeps them apart: when the entries
\* of a log are numbered without gaps, the one push adds is not among them.
LEMMA NewEntryFresh ==
    ASSUME NEW log \in SUBSET Entries, NEW t \in Nat, IsFiniteSet(log),
           \A e \in log : e.nth <= Cardinality({x \in log : x.at = e.at})
    PROVE  /\ NewEntry(log, t) \notin log
           /\ \A e \in log \cup {NewEntry(log, t)} :
                 e.nth <= Cardinality({x \in log \cup {NewEntry(log, t)} : x.at = e.at})
  <1> DEFINE new == NewEntry(log, t)
             At(u) == {x \in log : x.at = u}
             AtNow(u) == {x \in log \cup {new} : x.at = u}
  <1>1. \A u : IsFiniteSet(At(u)) /\ Cardinality(At(u)) \in Nat
    <2>1. \A u : At(u) \in SUBSET log
      OBVIOUS
    <2>2. QED
      BY <2>1, FS_Subset, FS_CardinalityType
  <1>2. new.at = t /\ new.nth = Cardinality(At(t)) + 1
    BY DEF NewEntry
  <1>a. \A e \in log : e.nth \in Nat /\ e.nth <= Cardinality(At(e.at))
    BY DEF Entries
  <1>b. \A u, x : x \in At(u) <=> x \in log /\ x.at = u
    OBVIOUS
  <1>c. \A u : AtNow(u) = IF u = t THEN At(u) \cup {new} ELSE At(u)
    BY <1>2
  <1> HIDE DEF new, At, AtNow
  <1>3. new \notin log
    <2>1. SUFFICES ASSUME new \in log PROVE FALSE
      OBVIOUS
    <2>2. new.nth <= Cardinality(At(t))
      BY <2>1, <1>2, <1>a
    <2>3. QED
      BY <2>2, <1>1, <1>2
  <1>4. ASSUME NEW e \in log \cup {new}
        PROVE  e.nth <= Cardinality(AtNow(e.at))
    <2>1. CASE e.at = t
      <3>1. AtNow(t) = At(t) \cup {new} /\ new \notin At(t)
        BY <1>3, <1>b, <1>c
      <3>2. Cardinality(AtNow(t)) = Cardinality(At(t)) + 1
        BY <3>1, <1>1, AddOne
      <3>3. e \in log => e.nth \in Nat /\ e.nth <= Cardinality(At(t))
        BY <2>1, <1>a
      <3>4. QED
        BY <2>1, <3>2, <3>3, <1>1, <1>2
    <2>2. CASE e.at # t
      <3>1. AtNow(e.at) = At(e.at) /\ e \in log
        BY <2>2, <1>2, <1>c
      <3>2. QED
        BY <3>1, <1>a
    <2>3. QED
      BY <2>1, <2>2
  <1>5. QED
    BY <1>3, <1>4 DEF new, AtNow

\* Under a limit, check_and_record leaves no more than the limit allows if it
\* found no more.
LEMMA CheckAndRecordBound ==
    ASSUME NEW log, NEW t, IsFiniteSet(log), Cardinality(log) <= RateLimit
    PROVE  /\ IsFiniteSet(CheckAndRecord(log, t))
           /\ Cardinality(CheckAndRecord(log, t)) <= RateLimit
  <1>0. RateLimit \in Nat /\ Cardinality(log) \in Nat
    BY RateLimitAssumption, FS_CardinalityType
  <1>1. CASE RateLimit = 0
    BY <1>1 DEF CheckAndRecord
  <1>2. CASE RateLimit # 0 /\ Allows(log, t)
    <2>1. CheckAndRecord(log, t) = Live(log, t) \cup {NewEntry(log, t)}
      BY <1>2 DEF CheckAndRecord
    <2>2. Cardinality(Live(log, t)) < RateLimit
      BY <1>2 DEF Allows
    <2>3. IsFiniteSet(Live(log, t)) /\ Cardinality(Live(log, t)) \in Nat
      BY LiveFinite
    <2>4. /\ IsFiniteSet(Live(log, t) \cup {NewEntry(log, t)})
          /\ Cardinality(Live(log, t) \cup {NewEntry(log, t)}) \in Nat
          /\ Cardinality(Live(log, t) \cup {NewEntry(log, t)})
                <= Cardinality(Live(log, t)) + 1
      BY <2>3, AddOne
    <2>5. QED
      BY <1>0, <2>1, <2>2, <2>3, <2>4
  <1>3. CASE RateLimit # 0 /\ ~Allows(log, t)
    <2>1. CheckAndRecord(log, t) = Live(log, t)
      BY <1>3 DEF CheckAndRecord
    <2>2. QED
      BY <1>0, <2>1, LiveFinite
  <1>4. QED
    BY <1>1, <1>2, <1>3
==============================================================================
