---------------------------- MODULE SlidingWindow ----------------------------
(***************************************************************************)
(* The algorithm inside RateLimiter::check_and_record (src/src/server.rs): *)
(* a log of the admissions of one IP address, from which the entries that  *)
(* have left the window are removed before their number is compared with   *)
(* the configured limit.                                                   *)
(*                                                                         *)
(* The code keeps a Vec<Instant>.  Only its length and its elements        *)
(* matter, never their order, and two elements may be equal; a log is      *)
(* therefore a set of entries [at, nth], where nth numbers the admissions  *)
(* of the same instant.  Instants are monotonic and counted in ticks.      *)
(*                                                                         *)
(* A definition with _Bug in its name is the one after it with a plausible *)
(* mistake; it shows that a property can tell the difference.              *)
(***************************************************************************)
EXTENDS Integers, FiniteSets

CONSTANTS RateLimit,    \* max_per_minute; 0 switches the limiter off
          RateWindow    \* the length of the window (60 seconds in the code)

ASSUME RateLimitAssumption == RateLimit \in Nat
ASSUME RateWindowAssumption == RateWindow \in Nat \ {0}

Entries == [at : Nat, nth : Nat \ {0}]

\* What `retain` leaves of the log at instant t.
Live(log, t) == {e \in log : t - e.at < RateWindow}

\* Bug: what is stored is the instant at which the entry leaves the window.
NewEntry_Bug(log, t) ==
    [at |-> t + RateWindow, nth |-> Cardinality({e \in log : e.at = t + RateWindow}) + 1]

\* The element `push(now)` adds: one more than the log holds for that instant.
NewEntry(log, t) ==
    [at |-> t, nth |-> Cardinality({e \in log : e.at = t}) + 1]

\* Bug: the comparison with the limit admits one request too many.
Allows_Bug(log, t) == RateLimit = 0 \/ Cardinality(Live(log, t)) <= RateLimit

\* The value check_and_record returns.
Allows(log, t) == RateLimit = 0 \/ Cardinality(Live(log, t)) < RateLimit

\* Bug: a refused request is recorded as well.
CheckAndRecord_BugRefused(log, t) == Live(log, t) \cup {NewEntry(log, t)}

\* Bug: the entries that left the window are not counted, but kept.
CheckAndRecord_BugKept(log, t) ==
    IF RateLimit # 0 /\ Allows(log, t) THEN log \cup {NewEntry(log, t)} ELSE log

\* The log check_and_record leaves behind.
CheckAndRecord(log, t) ==
    IF RateLimit = 0 THEN log
    ELSE IF Allows(log, t) THEN Live(log, t) \cup {NewEntry(log, t)}
    ELSE Live(log, t)
==============================================================================
