----------------------------- MODULE RateLimiter -----------------------------
(***************************************************************************)
(* The RateLimiter of the server (src/src/server.rs), serving requests of  *)
(* several IP addresses over one stretch of time.  `requests` is the map   *)
(* of the code; `admitted` and `refused` are history variables the code    *)
(* does not have, which the properties speak about.                        *)
(***************************************************************************)
EXTENDS SlidingWindow

CONSTANTS Ips,        \* the addresses datagrams come from
          MaxNow,     \* bound on the clock
          MaxAsked    \* bound on the requests of one address at one instant

ASSUME BoundsAssumption == MaxNow \in Nat /\ MaxAsked \in Nat

VARIABLES now,        \* Instant::now()
          requests,   \* requests[ip]: the log kept for ip
          admitted,   \* admitted[ip]: every entry ever admitted for ip
          refused     \* refused[ip]: every request ever refused, as an entry

vars == <<now, requests, admitted, refused>>

Init ==
    /\ now = 0
    /\ requests = [ip \in Ips |-> {}]
    /\ admitted = [ip \in Ips |-> {}]
    /\ refused = [ip \in Ips |-> {}]

AskedNow(ip) == {e \in admitted[ip] \cup refused[ip] : e.at = now}

\* check_and_record(ip) returns true.
Admit(ip) ==
    /\ Cardinality(AskedNow(ip)) < MaxAsked
    /\ Allows(requests[ip], now)
    /\ requests' = [requests EXCEPT ![ip] = CheckAndRecord(@, now)]
    /\ admitted' = [admitted EXCEPT ![ip] = @ \cup {NewEntry(@, now)}]
    /\ UNCHANGED <<now, refused>>

\* check_and_record(ip) returns false; the log is still pruned.
Refuse(ip) ==
    /\ Cardinality(AskedNow(ip)) < MaxAsked
    /\ ~Allows(requests[ip], now)
    /\ requests' = [requests EXCEPT ![ip] = CheckAndRecord(@, now)]
    /\ refused' = [refused EXCEPT ![ip] = @ \cup {NewEntry(@, now)}]
    /\ UNCHANGED <<now, admitted>>

Tick ==
    /\ now < MaxNow
    /\ now' = now + 1
    /\ UNCHANGED <<requests, admitted, refused>>

Next ==
    \/ \E ip \in Ips : Admit(ip) \/ Refuse(ip)
    \/ Tick

Spec == Init /\ [][Next]_vars

------------------------------------------------------------------------------

\* Entries of the past; duration_since has no answer for an instant of the future.
PastEntries == {e \in Entries : e.at <= now}

TypeOK ==
    /\ now \in Nat
    /\ requests \in [Ips -> SUBSET PastEntries]
    /\ admitted \in [Ips -> SUBSET PastEntries]
    /\ refused \in [Ips -> SUBSET PastEntries]

\* The admissions of ip in the window that ends at t (and contains t).
WindowEndingAt(ip, t) == {e \in admitted[ip] : e.at <= t /\ t - e.at < RateWindow}

(***************************************************************************)
(* However the requests are spaced, no stretch of RateWindow ticks, and    *)
(* not only the windows that start at a full minute, holds more than       *)
(* RateLimit admissions of one address.                                    *)
(***************************************************************************)
WindowBound ==
    RateLimit # 0 =>
        \A ip \in Ips : \A t \in 0 .. now :
            Cardinality(WindowEndingAt(ip, t)) <= RateLimit

(***************************************************************************)
(* A request is refused only when the limit is used up: the window that    *)
(* ends at the refusal holds RateLimit admissions of that same address.    *)
(* Requests that were refused themselves, requests of other addresses and  *)
(* admissions older than the window never cost anybody a request, and a    *)
(* limit of 0 refuses nothing.                                             *)
(***************************************************************************)
RefusedOnlyWhenFull ==
    \A ip \in Ips : \A r \in refused[ip] :
        RateLimit # 0 /\ Cardinality(WindowEndingAt(ip, r.at)) >= RateLimit

(***************************************************************************)
(* The log of an address never outgrows the limit, so a flood from one     *)
(* address costs a bounded amount of memory.                               *)
(***************************************************************************)
LogBounded ==
    \A ip \in Ips : Cardinality(requests[ip]) <= RateLimit
==============================================================================
