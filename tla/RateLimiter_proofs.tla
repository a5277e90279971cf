------------------------- MODULE RateLimiter_proofs --------------------------
(***************************************************************************)
(* The properties of RateLimiter, for every limit, every window, every set *)
(* of addresses and every spacing of the requests.                         *)
(***************************************************************************)
EXTENDS RateLimiter, SlidingWindow_proofs

(***************************************************************************)
(* The strengthening that makes the properties above inductive: the log of *)
(* an address is the part of its admission history that can still be in    *)
(* the window, nothing in the history lies in the future, and the entries  *)
(* of one instant are numbered without gaps, so that pushing adds one.     *)
(***************************************************************************)
LogsTyped ==
    /\ now \in Nat
    /\ requests \in [Ips -> SUBSET Entries]
    /\ admitted \in [Ips -> SUBSET Entries]
    /\ refused \in [Ips -> SUBSET Entries]

LogMatchesHistory ==
    \A ip \in Ips :
        /\ requests[ip] \subseteq admitted[ip]
        /\ RateLimit # 0 => Live(requests[ip], now) = Live(admitted[ip], now)

HistoryInPast ==
    \A ip \in Ips : \A e \in admitted[ip] \cup refused[ip] : e.at <= now

Numbered(log) ==
    IsFiniteSet(log) /\ \A e \in log : e.nth <= Cardinality({x \in log : x.at = e.at})

HistoryNumbered ==
    \A ip \in Ips : Numbered(admitted[ip]) /\ Numbered(refused[ip])

IInv ==
    /\ LogsTyped
    /\ LogMatchesHistory
    /\ HistoryInPast
    /\ HistoryNumbered
    /\ WindowBound
    /\ RefusedOnlyWhenFull
    /\ LogBounded

\* The history of an address and its log agree on everything still in the
\* window, so check_and_record counts exactly the recent admissions.
LEMMA LogCountsWindow ==
    ASSUME IInv, NEW ip \in Ips, RateLimit # 0
    PROVE  Live(requests[ip], now) = WindowEndingAt(ip, now)
  <1>1. \A e \in admitted[ip] : e.at <= now
    BY DEF IInv, HistoryInPast
  <1>2. Live(admitted[ip], now) = WindowEndingAt(ip, now)
    BY <1>1 DEF Live, WindowEndingAt
  <1>3. QED
    BY <1>2 DEF IInv, LogMatchesHistory

\* Every window of a history is finite.
LEMMA WindowFinite ==
    ASSUME IInv, NEW ip \in Ips, NEW t
    PROVE  IsFiniteSet(WindowEndingAt(ip, t)) /\ Cardinality(WindowEndingAt(ip, t)) \in Nat
  <1>1. WindowEndingAt(ip, t) \in SUBSET admitted[ip]
    BY DEF WindowEndingAt
  <1>2. IsFiniteSet(admitted[ip])
    BY DEF IInv, HistoryNumbered, Numbered
  <1>3. QED
    BY <1>1, <1>2, FS_Subset, FS_CardinalityType

\* The new entry is the same whether it is numbered in the log or in the history.
LEMMA SameNewEntry ==
    ASSUME IInv, NEW ip \in Ips, RateLimit # 0
    PROVE  NewEntry(requests[ip], now) = NewEntry(admitted[ip], now)
  <1>1. /\ requests[ip] \in SUBSET Entries /\ admitted[ip] \in SUBSET Entries
        /\ now \in Nat
    BY DEF IInv, LogsTyped
  <1>2. \A log \in SUBSET Entries :
           {e \in log : e.at = now} = {e \in Live(log, now) : e.at = now}
    BY <1>1, RateWindowAssumption DEF Live, Entries
  <1>3. Live(requests[ip], now) = Live(admitted[ip], now)
    BY DEF IInv, LogMatchesHistory
  <1>4. {e \in requests[ip] : e.at = now} = {e \in admitted[ip] : e.at = now}
    BY <1>1, <1>2, <1>3
  <1>5. QED
    BY <1>4 DEF NewEntry

\* Nothing has happened at first, so everything holds.
LEMMA InitIInv == Init => IInv
  <1>1. IsFiniteSet({}) /\ Cardinality({}) = 0
    BY FS_EmptySet
  <1> SUFFICES ASSUME Init PROVE IInv
    OBVIOUS
  <1>2. LogsTyped /\ LogMatchesHistory /\ HistoryInPast
    BY DEF Init, LogsTyped, LogMatchesHistory, HistoryInPast, Live
  <1>3. HistoryNumbered
    BY <1>1 DEF Init, HistoryNumbered, Numbered
  <1>4. LogBounded
    BY <1>1, RateLimitAssumption DEF Init, LogBounded
  <1>5. WindowBound
    <2>1. \A ip \in Ips : \A t : WindowEndingAt(ip, t) = {}
      BY DEF Init, WindowEndingAt
    <2>2. QED
      BY <1>1, <2>1, RateLimitAssumption DEF WindowBound
  <1>6. RefusedOnlyWhenFull
    BY DEF Init, RefusedOnlyWhenFull
  <1>7. QED
    BY <1>2, <1>3, <1>4, <1>5, <1>6 DEF IInv

\* An admission keeps the invariant.
LEMMA AdmitIInv ==
    ASSUME IInv, NEW ip \in Ips, Admit(ip)
    PROVE  IInv'
  <1> DEFINE log  == requests[ip]
             hist == admitted[ip]
             new  == NewEntry(hist, now)
  <1>0. /\ now \in Nat /\ RateLimit \in Nat /\ RateWindow \in Nat \ {0}
        /\ requests \in [Ips -> SUBSET Entries]
        /\ admitted \in [Ips -> SUBSET Entries]
        /\ refused \in [Ips -> SUBSET Entries]
    BY RateLimitAssumption, RateWindowAssumption DEF IInv, LogsTyped
  <1>1. /\ now' = now /\ refused' = refused
        /\ requests' = [requests EXCEPT ![ip] = CheckAndRecord(log, now)]
        /\ admitted' = [admitted EXCEPT ![ip] = hist \cup {new}]
    BY DEF Admit
  <1>2. Numbered(hist)
    BY DEF IInv, HistoryNumbered
  <1>3. new \in Entries /\ new.at = now /\ new \notin hist
    <2>1. new \in Entries
      BY <1>0, <1>2, NewEntryType DEF Numbered
    <2>2. new \notin hist
      BY <1>0, <1>2, NewEntryFresh DEF Numbered
    <2>3. QED
      BY <2>1, <2>2 DEF NewEntry
  <1>4. Numbered(hist \cup {new})
    <2>1. /\ IsFiniteSet(hist) /\ hist \in SUBSET Entries
          /\ \A e \in hist : e.nth <= Cardinality({x \in hist : x.at = e.at})
      BY <1>0, <1>2 DEF Numbered
    <2>2. \A e \in hist \cup {new} :
             e.nth <= Cardinality({x \in hist \cup {new} : x.at = e.at})
      BY <1>0, <2>1, NewEntryFresh
    <2>3. IsFiniteSet(hist \cup {new})
      BY <2>1, FS_AddElement
    <2>4. QED
      BY <2>2, <2>3 DEF Numbered
  <1>5. CheckAndRecord(log, now) = IF RateLimit = 0 THEN log ELSE Live(log, now) \cup {new}
    BY SameNewEntry DEF CheckAndRecord, Admit
  <1>6. log \subseteq hist
    BY DEF IInv, LogMatchesHistory
  <1>7. Live(log, now) \subseteq log
    BY DEF Live
  <1>8. RateLimit # 0 => Live(log, now) = Live(hist, now)
    BY DEF IInv, LogMatchesHistory
  <1> HIDE DEF new
  <1>9. LogsTyped'
    BY <1>0, <1>1, <1>3, <1>5, <1>7 DEF LogsTyped
  <1>10. LogMatchesHistory'
    <2> SUFFICES ASSUME NEW o \in Ips
                 PROVE  /\ requests'[o] \subseteq admitted'[o]
                        /\ RateLimit # 0 => Live(requests'[o], now) = Live(admitted'[o], now)
      BY <1>1 DEF LogMatchesHistory, Live
    <2>1. CASE o = ip
      <3>1. /\ requests'[o] = CheckAndRecord(log, now)
            /\ admitted'[o] = hist \cup {new}
        BY <1>0, <1>1, <2>1
      <3>2. \A s : Live(Live(s, now) \cup {new}, now) = Live(s \cup {new}, now)
        BY DEF Live
      <3>3. \A s : Live(s \cup {new}, now) = Live(s, now) \cup Live({new}, now)
        BY DEF Live
      <3>4. QED
        BY <3>1, <3>2, <3>3, <1>5, <1>6, <1>7, <1>8
    <2>2. CASE o # ip
      BY <1>0, <1>1, <2>2 DEF IInv, LogMatchesHistory
    <2>3. QED
      BY <2>1, <2>2
  <1>11. HistoryInPast'
    BY <1>0, <1>1, <1>3 DEF IInv, HistoryInPast
  <1>12. HistoryNumbered'
    BY <1>0, <1>1, <1>4 DEF IInv, HistoryNumbered
  <1>13. \A o \in Ips : \A t : WindowEndingAt(o, t)' =
            IF o = ip /\ now <= t /\ t - now < RateWindow
            THEN WindowEndingAt(o, t) \cup {new} ELSE WindowEndingAt(o, t)
    BY <1>0, <1>1, <1>3 DEF WindowEndingAt
  <1>14. WindowBound'
    <2> SUFFICES ASSUME RateLimit # 0, NEW o \in Ips, NEW t \in 0 .. now
                 PROVE  Cardinality(WindowEndingAt(o, t)') <= RateLimit
      BY <1>1 DEF WindowBound, WindowEndingAt
    <2>1. Cardinality(WindowEndingAt(o, t)) <= RateLimit
      BY DEF IInv, WindowBound
    <2>2. CASE o = ip /\ t = now
      <3>1. Cardinality(WindowEndingAt(ip, now)) < RateLimit
        BY LogCountsWindow DEF Admit, Allows
      <3>2. /\ Cardinality(WindowEndingAt(ip, now)) \in Nat
            /\ Cardinality(WindowEndingAt(ip, now) \cup {new}) \in Nat
            /\ Cardinality(WindowEndingAt(ip, now) \cup {new})
                   <= Cardinality(WindowEndingAt(ip, now)) + 1
        BY WindowFinite, AddOne
      <3>3. WindowEndingAt(o, t)' = WindowEndingAt(ip, now) \cup {new}
        BY <1>0, <1>13, <2>2
      <3>4. QED
        BY <1>0, <3>1, <3>2, <3>3
    <2>3. CASE ~(o = ip /\ t = now)
      <3>1. WindowEndingAt(o, t)' = WindowEndingAt(o, t)
        BY <1>0, <1>13, <2>3
      <3>2. QED
        BY <2>1, <3>1
    <2>4. QED
      BY <2>2, <2>3
  <1>15. RefusedOnlyWhenFull'
    <2> SUFFICES ASSUME NEW o \in Ips, NEW r \in refused[o]
                 PROVE  RateLimit # 0 /\ Cardinality(WindowEndingAt(o, r.at)') >= RateLimit
      BY <1>1 DEF RefusedOnlyWhenFull, WindowEndingAt
    <2>1. RateLimit # 0 /\ Cardinality(WindowEndingAt(o, r.at)) >= RateLimit
      BY DEF IInv, RefusedOnlyWhenFull
    <2>2. /\ Cardinality(WindowEndingAt(o, r.at)) \in Nat
          /\ Cardinality(WindowEndingAt(o, r.at) \cup {new}) \in Nat
          /\ Cardinality(WindowEndingAt(o, r.at))
                <= Cardinality(WindowEndingAt(o, r.at) \cup {new})
      BY WindowFinite, AddOne
    <2>3. \/ WindowEndingAt(o, r.at)' = WindowEndingAt(o, r.at)
          \/ WindowEndingAt(o, r.at)' = WindowEndingAt(o, r.at) \cup {new}
      BY <1>13
    <2>4. CASE WindowEndingAt(o, r.at)' = WindowEndingAt(o, r.at)
      BY <2>1, <2>4
    <2>5. CASE WindowEndingAt(o, r.at)' = WindowEndingAt(o, r.at) \cup {new}
      <3>1. Cardinality(WindowEndingAt(o, r.at) \cup {new}) >= RateLimit
        BY <1>0, <2>1, <2>2
      <3>2. QED
        BY <2>1, <2>5, <3>1
    <2>6. QED
      BY <2>3, <2>4, <2>5
  <1>16. LogBounded'
    <2> SUFFICES ASSUME NEW o \in Ips
                 PROVE  Cardinality(requests'[o]) <= RateLimit
      BY DEF LogBounded
    <2>1. CASE o = ip
      <3>1. IsFiniteSet(log) /\ Cardinality(log) <= RateLimit
        BY <1>2, <1>6, FS_Subset DEF IInv, LogBounded, Numbered
      <3>2. requests'[o] = CheckAndRecord(log, now)
        BY <1>0, <1>1, <2>1
      <3>3. QED
        BY <3>1, <3>2, CheckAndRecordBound
    <2>2. CASE o # ip
      BY <1>0, <1>1, <2>2 DEF IInv, LogBounded
    <2>3. QED
      BY <2>1, <2>2
  <1>17. QED
    BY <1>9, <1>10, <1>11, <1>12, <1>14, <1>15, <1>16 DEF IInv

\* A refusal keeps the invariant.
LEMMA RefuseIInv ==
    ASSUME IInv, NEW ip \in Ips, Refuse(ip)
    PROVE  IInv'
  <1> DEFINE log == requests[ip]
             new == NewEntry(refused[ip], now)
  <1>0. /\ now \in Nat /\ RateLimit \in Nat /\ RateWindow \in Nat \ {0}
        /\ requests \in [Ips -> SUBSET Entries]
        /\ admitted \in [Ips -> SUBSET Entries]
        /\ refused \in [Ips -> SUBSET Entries]
    BY RateLimitAssumption, RateWindowAssumption DEF IInv, LogsTyped
  <1>1. /\ now' = now /\ admitted' = admitted
        /\ refused' = [refused EXCEPT ![ip] = @ \cup {new}]
        /\ requests' = [requests EXCEPT ![ip] = CheckAndRecord(log, now)]
    BY DEF Refuse
  <1>2. RateLimit # 0 /\ CheckAndRecord(log, now) = Live(log, now)
    BY DEF Refuse, Allows, CheckAndRecord
  <1>3. Live(log, now) \subseteq log /\ Live(Live(log, now), now) = Live(log, now)
    BY DEF Live
  <1>4. IsFiniteSet(log) /\ Cardinality(log) <= RateLimit
    <2>1. log \in SUBSET admitted[ip] /\ IsFiniteSet(admitted[ip])
      BY DEF IInv, LogMatchesHistory, HistoryNumbered, Numbered
    <2>2. QED
      BY <2>1, FS_Subset DEF IInv, LogBounded
  <1>5. new \in Entries /\ new.at = now /\ Numbered(refused[ip] \cup {new})
    <2>1. /\ IsFiniteSet(refused[ip]) /\ refused[ip] \in SUBSET Entries
          /\ \A e \in refused[ip] : e.nth <= Cardinality({x \in refused[ip] : x.at = e.at})
      BY <1>0 DEF IInv, HistoryNumbered, Numbered
    <2>2. \A e \in refused[ip] \cup {new} :
             e.nth <= Cardinality({x \in refused[ip] \cup {new} : x.at = e.at})
      BY <1>0, <2>1, NewEntryFresh
    <2>3. IsFiniteSet(refused[ip] \cup {new})
      BY <2>1, FS_AddElement
    <2>4. new \in Entries
      BY <1>0, <2>1, NewEntryType
    <2>5. QED
      BY <2>2, <2>3, <2>4 DEF Numbered, NewEntry
  <1> HIDE DEF new
  <1>6. \A o \in Ips : /\ requests'[o] \subseteq requests[o]
                       /\ Live(requests'[o], now) = Live(requests[o], now)
    BY <1>0, <1>1, <1>2, <1>3
  <1>7. LogsTyped'
    BY <1>0, <1>1, <1>2, <1>3, <1>5 DEF LogsTyped
  <1>8. LogMatchesHistory'
    BY <1>1, <1>6 DEF IInv, LogMatchesHistory, Live
  <1>9. HistoryInPast' /\ HistoryNumbered'
    BY <1>0, <1>1, <1>5 DEF IInv, HistoryInPast, HistoryNumbered
  <1>10. \A o, t : WindowEndingAt(o, t)' = WindowEndingAt(o, t)
    BY <1>1 DEF WindowEndingAt
  <1>11. WindowBound'
    BY <1>1, <1>10 DEF IInv, WindowBound
  <1>12. RefusedOnlyWhenFull'
    <2> SUFFICES ASSUME NEW o \in Ips, NEW r \in refused'[o]
                 PROVE  RateLimit # 0 /\ Cardinality(WindowEndingAt(o, r.at)) >= RateLimit
      BY <1>10 DEF RefusedOnlyWhenFull
    <2>1. CASE r \in refused[o]
      BY <2>1 DEF IInv, RefusedOnlyWhenFull
    <2>2. CASE r \notin refused[o]
      <3>1. o = ip /\ r.at = now
        BY <1>0, <1>1, <1>5, <2>2
      <3>2. Cardinality(WindowEndingAt(ip, now)) \in Nat
        BY WindowFinite
      <3>3. ~(Cardinality(WindowEndingAt(ip, now)) < RateLimit)
        BY <1>2, LogCountsWindow DEF Refuse, Allows
      <3>4. QED
        BY <1>0, <1>2, <3>1, <3>2, <3>3
    <2>3. QED
      BY <2>1, <2>2
  <1>13. LogBounded'
    <2> SUFFICES ASSUME NEW o \in Ips
                 PROVE  Cardinality(requests'[o]) <= RateLimit
      BY DEF LogBounded
    <2>1. CASE o = ip
      BY <1>0, <1>1, <1>4, <2>1, CheckAndRecordBound
    <2>2. CASE o # ip
      BY <1>0, <1>1, <2>2 DEF IInv, LogBounded
    <2>3. QED
      BY <2>1, <2>2
  <1>14. QED
    BY <1>7, <1>8, <1>9, <1>11, <1>12, <1>13 DEF IInv

\* Time passing only takes entries out of the windows.
LEMMA TickIInv ==
    ASSUME IInv, Tick
    PROVE  IInv'
  <1>0. now \in Nat /\ RateLimit \in Nat /\ RateWindow \in Nat \ {0}
    BY RateLimitAssumption, RateWindowAssumption DEF IInv, LogsTyped
  <1>1. /\ now' = now + 1 /\ requests' = requests
        /\ admitted' = admitted /\ refused' = refused
    BY DEF Tick
  <1>2. LogsTyped'
    BY <1>0, <1>1 DEF IInv, LogsTyped
  <1>3. \A log \in SUBSET Entries : Live(log, now + 1) = Live(Live(log, now), now + 1)
    BY <1>0 DEF Live, Entries
  <1>4. LogMatchesHistory'
    BY <1>1, <1>3 DEF IInv, LogMatchesHistory, LogsTyped
  <1>5. HistoryInPast'
    <2>1. \A ip \in Ips : \A e \in admitted[ip] \cup refused[ip] : e.at \in Nat
      BY DEF IInv, LogsTyped, Entries
    <2>2. QED
      BY <1>0, <1>1, <2>1 DEF IInv, HistoryInPast
  <1>6. HistoryNumbered'
    BY <1>1 DEF IInv, HistoryNumbered
  <1>7. \A ip, t : WindowEndingAt(ip, t)' = WindowEndingAt(ip, t)
    BY <1>1 DEF WindowEndingAt
  <1>8. WindowBound'
    <2> SUFFICES ASSUME RateLimit # 0, NEW ip \in Ips, NEW t \in 0 .. (now + 1)
                 PROVE  Cardinality(WindowEndingAt(ip, t)) <= RateLimit
      BY <1>1, <1>7 DEF WindowBound
    <2>1. CASE t \in 0 .. now
      BY <2>1 DEF IInv, WindowBound
    <2>2. CASE t = now + 1
      <3>1. WindowEndingAt(ip, t) \in SUBSET WindowEndingAt(ip, now)
        BY <1>0, <2>2 DEF WindowEndingAt, IInv, HistoryInPast, LogsTyped, Entries
      <3>2. /\ IsFiniteSet(WindowEndingAt(ip, now))
            /\ Cardinality(WindowEndingAt(ip, now)) \in Nat
            /\ Cardinality(WindowEndingAt(ip, t)) \in Nat
        BY WindowFinite
      <3>3. Cardinality(WindowEndingAt(ip, t)) <= Cardinality(WindowEndingAt(ip, now))
        BY <3>1, <3>2, FS_Subset
      <3>4. Cardinality(WindowEndingAt(ip, now)) <= RateLimit
        BY <1>0 DEF IInv, WindowBound
      <3>5. QED
        BY <1>0, <3>2, <3>3, <3>4
    <2>3. QED
      BY <1>0, <2>1, <2>2
  <1>9. RefusedOnlyWhenFull' /\ LogBounded'
    BY <1>1, <1>7 DEF IInv, RefusedOnlyWhenFull, LogBounded
  <1>10. QED
    BY <1>2, <1>4, <1>5, <1>6, <1>8, <1>9 DEF IInv

\* The strengthened invariant holds in every reachable state.
THEOREM InductiveInvariant == Spec => []IInv
  <1>1. Init => IInv
    BY InitIInv
  <1>2. IInv /\ [Next]_vars => IInv'
    <2> SUFFICES ASSUME IInv, [Next]_vars PROVE IInv'
      OBVIOUS
    <2>1. ASSUME NEW ip \in Ips, Admit(ip) PROVE IInv'
      BY <2>1, AdmitIInv
    <2>2. ASSUME NEW ip \in Ips, Refuse(ip) PROVE IInv'
      BY <2>2, RefuseIInv
    <2>3. CASE Tick
      BY <2>3, TickIInv
    <2>4. CASE UNCHANGED vars
      BY <2>4 DEF vars, IInv, LogsTyped, LogMatchesHistory, HistoryInPast,
                  HistoryNumbered, Numbered, WindowBound, WindowEndingAt,
                  RefusedOnlyWhenFull, LogBounded
    <2>5. QED
      BY <2>1, <2>2, <2>3, <2>4 DEF Next
  <1>3. QED
    BY <1>1, <1>2, PTL DEF Spec

\* Type correctness, for every limit, window and set of addresses.
THEOREM TypeCorrect == Spec => []TypeOK
  <1>1. IInv => TypeOK
    <2> SUFFICES ASSUME IInv PROVE TypeOK
      OBVIOUS
    <2>1. \A ip \in Ips : /\ requests[ip] \subseteq admitted[ip]
                          /\ admitted[ip] \in SUBSET Entries /\ refused[ip] \in SUBSET Entries
                          /\ \A e \in admitted[ip] \cup refused[ip] : e.at <= now
      BY DEF IInv, LogsTyped, LogMatchesHistory, HistoryInPast
    <2>2. \A ip \in Ips : /\ requests[ip] \in SUBSET PastEntries
                          /\ admitted[ip] \in SUBSET PastEntries
                          /\ refused[ip] \in SUBSET PastEntries
      BY <2>1 DEF PastEntries
    <2>3. QED
      BY <2>2 DEF IInv, LogsTyped, TypeOK
  <1>2. QED
    BY <1>1, InductiveInvariant, PTL

\* No window of RateWindow ticks ever holds more than RateLimit admissions of
\* one address: the bound check_and_record is there for.
THEOREM WindowIsBounded == Spec => []WindowBound
  <1>1. IInv => WindowBound
    BY DEF IInv
  <1>2. QED
    BY <1>1, InductiveInvariant, PTL

\* Whoever is refused has used up the limit within the window before.
THEOREM RefusalsAreJustified == Spec => []RefusedOnlyWhenFull
  <1>1. IInv => RefusedOnlyWhenFull
    BY DEF IInv
  <1>2. QED
    BY <1>1, InductiveInvariant, PTL

\* The memory kept for one address is bounded by the limit.
THEOREM LogIsBounded == Spec => []LogBounded
  <1>1. IInv => LogBounded
    BY DEF IInv
  <1>2. QED
    BY <1>1, InductiveInvariant, PTL
==============================================================================
