-------------------------------- MODULE Knock --------------------------------
(***************************************************************************)
(* The knock protocol end to end: client commands (src/src/client.rs), the *)
(* UDP network between, and the server's loop (Server::run in              *)
(* src/src/server.rs) with its whitelist, its rate limiter, the            *)
(* authentication and time stamp checks of src/src/crypto.rs, the call of  *)
(* the firewall and the response.                                          *)
(*                                                                         *)
(* Every client command is a process of its own: it sends one datagram and *)
(* waits for one.  The server is one thread; between accepting a command   *)
(* and answering it time passes, its clock may be set and it may crash.    *)
(*                                                                         *)
(* The network loses, duplicates, delays, reorders and corrupts datagrams. *)
(* A datagram that was sent stays in `net` or `replies` for good: it can   *)
(* be delivered at any time and any number of times, intact or not, and is *)
(* lost when it never is.  The address a request shows is not part of what *)
(* the key protects: a copy that is sent on by somebody else shows another *)
(* one than its maker's, and the server goes by the one shown.             *)
(*                                                                         *)
(* Three clocks matter.  `time` counts the seconds that pass; the rate     *)
(* limiter's Instant follows it.  The server's wall clock is ahead of it   *)
(* by `offset`, which an administrator or NTP changes, and the clock of    *)
(* the client's machine by the `skew` of the command.                      *)
(*                                                                         *)
(* A command's own address is the one under which responses reach it, the  *)
(* address a NAT gives it if there is one.                                 *)
(*                                                                         *)
(* Abstracted: the cipher (a datagram opens under the key it was made with *)
(* unless it was corrupted), the text of messages, and what a firewall     *)
(* call does (it succeeds or fails; the backends have their own modules).  *)
(* A failed recv_from of the server changes nothing and is a stuttering    *)
(* step.  A definition with _Bug in its name is the one after it with a    *)
(* plausible mistake; it shows that a property can tell the difference.    *)
(***************************************************************************)
EXTENDS SlidingWindow

CONSTANTS
    Cmds,           \* client commands, each one run of the client program
    Ips, Keys,      \* source addresses; pre-shared keys
    Profiles,       \* what a command can be: records [ip, key, shape, timeout, skew]
    Ports,          \* the ephemeral ports bind("0.0.0.0:0") may give out
    AllowedIps,     \* config.allowed_ips; empty allows every address
    ServerKey,      \* the server's shared_key
    ReplayWindow,   \* REPLAY_WINDOW_SECS
    Offsets,        \* the offsets the server's wall clock may have
    NoOrder, NoJob, \* stand for the absence of an order and of a job
    MaxTime,        \* bound on the time
    MaxCrashes      \* bound on the crashes

Shapes == {"call",          \* a complete command for the firewall
           "incomplete",    \* unknown action or missing parameters
           "foreign"}       \* not a CommandPayload, from another version

Addresses == [ip : Ips, port : Ports]
Orders == [what : Profiles, stamp : Nat, port : Ports, sentAt : Nat]
Datagrams == [cmd : Cmds, from : Addresses, intact : BOOLEAN]
Jobs == [cmd : Cmds, from : Addresses, wall : Nat, time : Nat]
Replies == [to : Addresses, cmd : Cmds, wall : Nat, ok : BOOLEAN]
Invocations == [cmd : Cmds, from : Addresses, wall : Nat, time : Nat, at : Nat,
                run : Nat, nth : Nat, ok : BOOLEAN]

ASSUME ProfilesAssumption ==
    Profiles \subseteq [ip : Ips, key : Keys, shape : Shapes, timeout : Nat, skew : Int]
ASSUME ClocksAssumption ==
    ReplayWindow \in Nat /\ Offsets \subseteq Int /\ MaxTime \in Nat /\ MaxCrashes \in Nat
ASSUME AbsenceAssumption == NoOrder \notin Orders /\ NoJob \notin Jobs

VARIABLES
    time,       \* seconds since the start
    offset,     \* the server's wall clock minus time
    \* the clients
    status,     \* status[c]: "idle", "waiting", or how the command ended
    order,      \* order[c]: what c sent, its stamp, its port and when
    \* the network, including the receive buffers
    net,        \* the commands whose request was sent
    replies,    \* the responses sent; `cmd` and `wall` are not in the payload
    \* the server
    pc,         \* "down", or the point of the loop it is at
    job,        \* the command in hand, src_addr, the clocks when it was taken in
    verdict,    \* success of the response about to be sent
    requests,   \* RateLimiter.requests
    crashes,    \* how often the server crashed; also numbers its runs
    calls       \* history: the firewall calls, each made `at` a time; nth numbers them

clients == <<status, order>>
server == <<pc, job, verdict, requests, crashes, calls>>
vars == <<time, offset, clients, net, replies, server>>

Reports == {"succeeded", "refused", "timedout", "aborted"}
------------------------------------------------------------------------------
\* src/src/crypto.rs

\* Bug: seconds before the epoch are not replaced by 0.
Clock_Bug(t) == t

\* CryptoManager::current_timestamp on a clock that shows t.
Clock(t) == IF t < 0 THEN 0 ELSE t

ServerClock == Clock(time + offset)

\* Bug: a stamp from the future is never too far away.
Timely_BugFuture(stamp, current) == current - stamp <= ReplayWindow

\* Bug: a stamp from the past is never too far away.
Timely_BugPast(stamp, current) == stamp - current <= ReplayWindow

\* CryptoManager::verify_timestamp succeeds.
Timely(stamp, current) ==
    LET diff == IF current < stamp THEN stamp - current ELSE current - stamp
    IN  ~(diff > ReplayWindow)

\* CryptoManager::decrypt succeeds for the holder of `key`.
Opens(datagram, key) == datagram.intact /\ order[datagram.cmd].what.key = key
------------------------------------------------------------------------------
\* src/src/client.rs

\* The address of a command's socket.
Address(c) == [ip |-> order[c].what.ip, port |-> order[c].port]

\* Ports are exclusive among the sockets of one machine.
PortFree(ip, port) ==
    \A d \in Cmds : status[d] = "waiting" => Address(d) # [ip |-> ip, port |-> port]

\* Bug: a timeout of 0 is accepted, which the socket takes for no timeout.
Send_Bug(c) ==
    \E p \in Profiles, port \in Ports :
        /\ status[c] = "idle"
        /\ PortFree(p.ip, port)
        /\ time + p.timeout <= MaxTime
        /\ order' = [order EXCEPT ![c] = [what |-> p, stamp |-> Clock(time + p.skew),
                                          port |-> port, sentAt |-> time]]
        /\ status' = [status EXCEPT ![c] = "waiting"]
        /\ net' = net \cup {c}
        /\ UNCHANGED <<time, offset, replies, server>>

\* send_command up to send_to.  set_read_timeout refuses a timeout of 0.
Send(c) ==
    \E p \in Profiles, port \in Ports :
        /\ status[c] = "idle"
        /\ PortFree(p.ip, port)
        /\ p.timeout > 0
        /\ time + p.timeout <= MaxTime
        /\ order' = [order EXCEPT ![c] = [what |-> p, stamp |-> Clock(time + p.skew),
                                          port |-> port, sentAt |-> time]]
        /\ status' = [status EXCEPT ![c] = "waiting"]
        /\ net' = net \cup {c}
        /\ UNCHANGED <<time, offset, replies, server>>

\* bind, set_read_timeout or send_to fails, and the command with it.
NotSent(c) ==
    /\ status[c] = "idle"
    /\ status' = [status EXCEPT ![c] = "aborted"]
    /\ UNCHANGED <<time, offset, order, net, replies, server>>

\* recv_from returns r: it was sent to the socket of c.
Deliverable(c, r) == r.to = Address(c)

\* Bug: whatever the response says counts as success.
Conclusion_Bug(c, r, intact) ==
    IF ~intact \/ order[c].what.key # ServerKey THEN "aborted" ELSE "succeeded"

\* What send_command makes of the response; nothing ties it to the request.
Conclusion(c, r, intact) ==
    IF ~intact \/ order[c].what.key # ServerKey THEN "aborted"
    ELSE IF r.ok THEN "succeeded" ELSE "refused"

\* recv_from returns a response.
TakeReply(c) ==
    \E r \in replies, intact \in BOOLEAN :
        /\ status[c] = "waiting"
        /\ Deliverable(c, r)
        /\ status' = [status EXCEPT ![c] = Conclusion(c, r, intact)]
        /\ UNCHANGED <<time, offset, order, net, replies, server>>

\* recv_from fails for another reason than the timeout, and the command with it.
ReceiveFails(c) ==
    /\ status[c] = "waiting"
    /\ status' = [status EXCEPT ![c] = "aborted"]
    /\ UNCHANGED <<time, offset, order, net, replies, server>>

\* recv_from gives up; a timeout of 0 would mean to wait for ever.
ClientTimeout(c) ==
    /\ status[c] = "waiting"
    /\ order[c].what.timeout > 0
    /\ time >= order[c].sentAt + order[c].what.timeout
    /\ status' = [status EXCEPT ![c] = "timedout"]
    /\ UNCHANGED <<time, offset, order, net, replies, server>>
------------------------------------------------------------------------------
\* src/src/server.rs: the loop of Server::run

\* Server::run starts, for the first time or after a crash, with a new limiter.
Start ==
    /\ pc = "down"
    /\ pc' = "recv"
    /\ requests' = [ip \in Ips |-> {}]
    /\ UNCHANGED <<time, offset, clients, net, replies, job, verdict, crashes, calls>>

\* recv_from returns d at the top of the loop, with the address it shows.
Receive(d) ==
    /\ pc = "recv"
    /\ d.cmd \in net
    /\ UNCHANGED <<time, offset, clients, net, crashes, calls>>

\* `continue`: the datagram is dropped without an answer.
BackToRecv == UNCHANGED <<replies, pc, job, verdict>>

\* client_ip
SourceIp(d) == d.from.ip

\* Bug: the list is not looked at.
Listed_Bug(ip) == TRUE

\* 1. the whitelist
Listed(ip) == AllowedIps = {} \/ ip \in AllowedIps

\* 2. check_and_record, before anything is known about the content
Record(ip) == requests' = [requests EXCEPT ![ip] = CheckAndRecord(@, time)]

DropUnlisted(d) ==
    /\ Receive(d)
    /\ ~Listed(SourceIp(d))
    /\ UNCHANGED requests
    /\ BackToRecv

DropOverLimit(d) ==
    /\ Receive(d)
    /\ Listed(SourceIp(d))
    /\ ~Allows(requests[SourceIp(d)], time)
    /\ Record(SourceIp(d))
    /\ BackToRecv

Admitted(d) ==
    /\ Receive(d)
    /\ Listed(SourceIp(d))
    /\ Allows(requests[SourceIp(d)], time)
    /\ Record(SourceIp(d))

\* 3. from_utf8 or decrypt fails
DropUnreadable(d) ==
    /\ Admitted(d)
    /\ ~Opens(d, ServerKey)
    /\ BackToRecv

Take(d, next) ==
    /\ pc' = next
    /\ job' = [cmd |-> d.cmd, from |-> d.from, wall |-> ServerClock, time |-> time]
    /\ UNCHANGED replies

\* 4. the plaintext is no CommandPayload: answered with an error
RejectUnparsable(d) ==
    /\ Admitted(d)
    /\ Opens(d, ServerKey)
    /\ order[d.cmd].what.shape = "foreign"
    /\ Take(d, "respond")
    /\ verdict' = FALSE

\* 5. verify_timestamp fails
DropExpired(d) ==
    /\ Admitted(d)
    /\ Opens(d, ServerKey)
    /\ order[d.cmd].what.shape # "foreign"
    /\ ~Timely(order[d.cmd].stamp, ServerClock)
    /\ BackToRecv

\* 6. everything is in order: on to execute_command
Accept(d) ==
    /\ Admitted(d)
    /\ Opens(d, ServerKey)
    /\ order[d.cmd].what.shape # "foreign"
    /\ Timely(order[d.cmd].stamp, ServerClock)
    /\ Take(d, "execute")
    /\ UNCHANGED verdict

\* The call of the firewall that is made now for the job.
Invocation(ok) ==
    [cmd |-> job.cmd, from |-> job.from, wall |-> job.wall, time |-> job.time,
     at |-> time, run |-> crashes, nth |-> Cardinality(calls), ok |-> ok]

\* Bug: execute_command reports success without looking at the result.
ExecuteCall_Bug ==
    /\ pc = "execute"
    /\ order[job.cmd].what.shape = "call"
    /\ \E ok \in BOOLEAN : verdict' = TRUE /\ calls' = calls \cup {Invocation(ok)}
    /\ pc' = "respond"
    /\ UNCHANGED <<time, offset, clients, net, replies, job, requests, crashes>>

\* execute_command calls the firewall, which succeeds or fails.
ExecuteCall ==
    /\ pc = "execute"
    /\ order[job.cmd].what.shape = "call"
    /\ \E ok \in BOOLEAN : verdict' = ok /\ calls' = calls \cup {Invocation(ok)}
    /\ pc' = "respond"
    /\ UNCHANGED <<time, offset, clients, net, replies, job, requests, crashes>>

\* execute_command answers a usage error without calling the firewall.
ExecuteIncomplete ==
    /\ pc = "execute"
    /\ order[job.cmd].what.shape # "call"
    /\ verdict' = FALSE
    /\ pc' = "respond"
    /\ UNCHANGED <<time, offset, clients, net, replies, job, requests, crashes, calls>>

Execute == ExecuteCall \/ ExecuteIncomplete

Response(ok) == [to |-> job.from, cmd |-> job.cmd, wall |-> job.wall, ok |-> ok]

\* Bug: failures are not answered.
Answer_Bug == IF verdict THEN {Response(TRUE)} ELSE {}

\* The response, to the address the request has shown.
Answer == {Response(verdict)}

\* send_response; if send_to fails, the error is logged: the network loses it.
Respond ==
    /\ pc = "respond"
    /\ replies' = replies \cup Answer
    /\ pc' = "recv"
    /\ job' = NoJob
    /\ verdict' = FALSE
    /\ UNCHANGED <<time, offset, clients, net, requests, crashes, calls>>

\* The process dies, wherever it is.
Crash ==
    /\ pc # "down"
    /\ crashes < MaxCrashes
    /\ crashes' = crashes + 1
    /\ pc' = "down"
    /\ job' = NoJob
    /\ verdict' = FALSE
    /\ UNCHANGED <<time, offset, clients, net, replies, requests, calls>>
------------------------------------------------------------------------------
\* The clocks

SetClock ==
    /\ offset' \in Offsets \ {offset}
    /\ UNCHANGED <<time, clients, net, replies, server>>

Tick ==
    /\ time < MaxTime
    /\ time' = time + 1
    /\ UNCHANGED <<offset, clients, net, replies, server>>
------------------------------------------------------------------------------
Init ==
    /\ time = 0
    /\ offset \in Offsets
    /\ status = [c \in Cmds |-> "idle"]
    /\ order = [c \in Cmds |-> NoOrder]
    /\ net = {} /\ replies = {}
    /\ pc = "down" /\ job = NoJob /\ verdict = FALSE
    /\ requests = [ip \in Ips |-> {}]
    /\ crashes = 0
    /\ calls = {}

ClientStep ==
    \E c \in Cmds :
        Send(c) \/ NotSent(c) \/ TakeReply(c) \/ ReceiveFails(c) \/ ClientTimeout(c)

ServerReceives ==
    \E d \in Datagrams :
        \/ DropUnlisted(d)
        \/ DropOverLimit(d)
        \/ DropUnreadable(d)
        \/ RejectUnparsable(d)
        \/ DropExpired(d)
        \/ Accept(d)

ServerStep == Start \/ ServerReceives \/ Execute \/ Respond \/ Crash

Next == ClientStep \/ ServerStep \/ SetClock \/ Tick

Spec == Init /\ [][Next]_vars

(***************************************************************************)
(* Time passes, a read timeout fires, and the server's thread goes on by   *)
(* itself.  Nothing is assumed of a firewall call: Command::output waits   *)
(* for the external program without a timeout, and it may never end.       *)
(* Nothing is assumed of the network, and nobody has to restart a server.  *)
(***************************************************************************)
Fairness ==
    /\ WF_vars(Tick)
    /\ \A c \in Cmds : WF_vars(ClientTimeout(c))
    /\ WF_vars(ExecuteIncomplete)
    /\ WF_vars(Respond)

FairSpec == Spec /\ Fairness
------------------------------------------------------------------------------
TypeOK ==
    /\ time \in Nat
    /\ offset \in Offsets
    /\ status \in [Cmds -> {"idle", "waiting"} \cup Reports]
    /\ order \in [Cmds -> Orders \cup {NoOrder}]
    /\ net \subseteq Cmds
    /\ replies \subseteq Replies
    /\ pc \in {"down", "recv", "execute", "respond"}
    /\ job \in Jobs \cup {NoJob}
    /\ verdict \in BOOLEAN
    /\ requests \in [Ips -> SUBSET Entries]
    /\ crashes \in Nat
    /\ calls \subseteq Invocations

\* The addresses the configuration lets in.
PermittedIps == IF AllowedIps = {} THEN Ips ELSE AllowedIps \cap Ips

\* A command the server may act on when it shows the address `from`.
Trusted(c, from) ==
    /\ order[c] # NoOrder
    /\ order[c].what.key = ServerKey
    /\ from.ip \in PermittedIps

(***************************************************************************)
(* Every firewall call was made for a complete command under the server's  *)
(* key that came from a listed address, and whose stamp was within         *)
(* ReplayWindow of the server's clock, on either side, when it was taken   *)
(* in, whatever was duplicated, reordered or set back since.               *)
(***************************************************************************)
CalledInWindow ==
    \A k \in calls :
        /\ Trusted(k.cmd, k.from)
        /\ order[k.cmd].what.shape = "call"
        /\ k.wall - order[k.cmd].stamp \in -ReplayWindow .. ReplayWindow

(***************************************************************************)
(* The clocks that make a command stale are not the same clock.  In real   *)
(* time a command is taken in at most ReplayWindow seconds, plus the       *)
(* greatest disagreement between the client's clock and the server's,      *)
(* after it was sent: a delayed or duplicated datagram has no effect later *)
(* than that.  (A client whose clock is before 1970 stamps 0 and is not    *)
(* bound by it.)                                                           *)
(***************************************************************************)
FreshInRealTime ==
    \A k \in calls :
        LET o == order[k.cmd] IN
        o.sentAt + o.what.skew >= 0 =>
            \E off \in Offsets :
                k.time - o.sentAt <= ReplayWindow + o.what.skew - off

(***************************************************************************)
(* A client that reports success is right that the firewall was called     *)
(* successfully for a command that the server received under the client's  *)
(* own address and port.  Not for its own command: the response names no   *)
(* request, so after a timeout the port may pass to another command, and   *)
(* that one gets the late answer; nor only for commands of this machine:   *)
(* a datagram sent on from this address is answered here.                  *)
(***************************************************************************)
SuccessHasSource ==
    \A c \in Cmds : status[c] = "succeeded" =>
        \E k \in calls : k.ok /\ k.from = Address(c)

(***************************************************************************)
(* Every response ever sent was earned.  It went to a listed address from  *)
(* which a command under the server's key had arrived, within ReplayWindow *)
(* of its stamp (unless it was of another version, and has none); and if   *)
(* it claims success, the firewall was called successfully for this        *)
(* command as it arrived from this address.  The server does not know more *)
(* of the address than that: it need not be the one of who made the        *)
(* command.                                                                *)
(***************************************************************************)
RepliesAreEarned ==
    \A r \in replies :
        LET o == order[r.cmd] IN
        /\ Trusted(r.cmd, r.to)
        /\ o.what.shape = "foreign" \/ r.wall - o.stamp \in -ReplayWindow .. ReplayWindow
        /\ r.ok => \E k \in calls : k.ok /\ k.cmd = r.cmd /\ k.from = r.to

\* Whether the call l falls into the window that ends with the call k.
InWindowOf(l, k) == l.at <= k.at /\ k.at - l.at < RateWindow

(***************************************************************************)
(* The limiter counts requests when they arrive, the firewall is called    *)
(* later, by as much as the calls before it take.  Still no window in      *)
(* which firewall calls are made holds more of them for one source address *)
(* than the limit and one, duplicates included: the server is one thread,  *)
(* so only the first call of a window can have been admitted before it     *)
(* began.  The log is lost in a crash: the bound is per run.               *)
(***************************************************************************)
CallsWithinLimit ==
    RateLimit # 0 =>
        \A k \in calls :
            Cardinality({l \in calls : l.run = k.run /\ l.from.ip = k.from.ip /\ InWindowOf(l, k)})
                <= RateLimit + 1

(***************************************************************************)
(* README.md line 10: the 30 second window keeps replayed requests out.  A *)
(* datagram delivered twice within the window is carried out twice.        *)
(***************************************************************************)
CalledAtMostOnce ==
    \A k, l \in calls : k.cmd = l.cmd => k = l

(***************************************************************************)
(* No command waits for ever: whatever the network and the server do, the  *)
(* client reports something to its user.                                   *)
(***************************************************************************)
ClientAlwaysReports ==
    \A c \in Cmds : status[c] = "waiting" ~> status[c] \in Reports

\* The server waits for an external program.
Calling == pc = "execute" /\ order[job.cmd].what.shape = "call"

(***************************************************************************)
(* A command the server has accepted is answered, with success or failure, *)
(* unless the server dies first, or the firewall call made for a command   *)
(* never returns: the only thing that stops the loop is an external        *)
(* program that does not end.                                              *)
(***************************************************************************)
AcceptedIsAnswered ==
    \A c \in Cmds :
        (pc = "execute" /\ job.cmd = c)
            ~> (pc = "down" \/ (\E r \in replies : r.cmd = c) \/ []Calling)

\* The service this is meant to be, see KnockService.
Service == INSTANCE KnockService WITH
    calls <- {[cmd |-> k.cmd, from |-> k.from, wall |-> k.wall, ok |-> k.ok] : k \in calls}

(***************************************************************************)
(* The protocol, with its network, clocks, limiter and crashes, implements *)
(* the service: every step of it is a step of KnockService or changes      *)
(* nothing a user or the firewall can see.                                 *)
(***************************************************************************)
ImplementsService == Service!Spec
==============================================================================
