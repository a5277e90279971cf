---------------------------- MODULE Knock_proofs -----------------------------
(***************************************************************************)
(* The safety properties of Knock and its refinement of KnockService, for  *)
(* every set of commands, profiles, ports and clocks, every window and     *)
(* every limit.                                                            *)
(***************************************************************************)
EXTENDS Knock, SlidingWindow_proofs

(***************************************************************************)
(* The inductive invariant.  What a call, a response or a report rests on  *)
(* is checked several steps earlier and by another process, so each part   *)
(* says what has been established at one point and stays true: an order is *)
(* written once, by Send, and never changed; what was sent has an order;   *)
(* the job in the server's hands has passed the checks; and the verdict    *)
(* about to be sent is that of a call.                                     *)
(***************************************************************************)
OrderedWhenSent ==
    \A c \in Cmds :
        /\ status[c] = "idle" => order[c] = NoOrder
        /\ status[c] \in {"waiting", "succeeded"} => order[c] # NoOrder
        /\ c \in net => order[c] # NoOrder

StampedBySender ==
    \A c \in Cmds : order[c] # NoOrder =>
        order[c].stamp = Clock(order[c].sentAt + order[c].what.skew)

LogsFinite == IsFiniteSet(calls) /\ \A ip \in Ips : IsFiniteSet(requests[ip])

\* The stamp of c was within the window when the clock showed wall.
WithinWindow(c, wall) == wall - order[c].stamp \in -ReplayWindow .. ReplayWindow

JobChecked ==
    /\ pc \in {"execute", "respond"} => job \in Jobs /\ Trusted(job.cmd, job.from)
    /\ pc = "execute" =>
          /\ Timely(order[job.cmd].stamp, job.wall)
          /\ \E off \in Offsets : job.wall = Clock(job.time + off)
    /\ pc = "respond" => order[job.cmd].what.shape = "foreign" \/ WithinWindow(job.cmd, job.wall)
    /\ pc = "respond" /\ verdict =>
          \E k \in calls : k.ok /\ k.cmd = job.cmd /\ k.from = job.from

IInv ==
    /\ TypeOK
    /\ OrderedWhenSent
    /\ StampedBySender
    /\ LogsFinite
    /\ JobChecked
    /\ CalledInWindow
    /\ FreshInRealTime
    /\ SuccessHasSource
    /\ RepliesAreEarned

\* Clocks show natural numbers.
LEMMA ClockType == \A t \in Int : Clock(t) \in Nat
  BY DEF Clock

\* The whitelist test is membership in the permitted addresses.
LEMMA ListedIsPermitted == \A ip \in Ips : Listed(ip) <=> ip \in PermittedIps
  BY DEF Listed, PermittedIps

\* The invariant holds of the initial states.
LEMMA InitIInv == Init => IInv
  <1> SUFFICES ASSUME Init PROVE IInv
    OBVIOUS
  <1>1. TypeOK
    BY DEF Init, TypeOK
  <1>2. LogsFinite
    BY FS_EmptySet DEF Init, LogsFinite
  <1>3. OrderedWhenSent /\ StampedBySender /\ JobChecked
    BY DEF Init, OrderedWhenSent, StampedBySender, JobChecked
  <1>4. CalledInWindow /\ FreshInRealTime /\ SuccessHasSource /\ RepliesAreEarned
    BY DEF Init, CalledInWindow, FreshInRealTime, SuccessHasSource, RepliesAreEarned
  <1>5. QED
    BY <1>1, <1>2, <1>3, <1>4 DEF IInv

\* Send gives a command an order; every order there was stays as it is.
LEMMA SendKeepsOrders ==
    ASSUME IInv, NEW c \in Cmds, Send(c)
    PROVE  /\ order[c] = NoOrder
           /\ order'[c] \in Orders /\ order'[c] # NoOrder
           /\ order'[c].stamp = Clock(order'[c].sentAt + order'[c].what.skew)
           /\ \A d \in Cmds : d # c => order'[d] = order[d]
           /\ order' \in [Cmds -> Orders \cup {NoOrder}]
  <1>1. PICK p \in Profiles, port \in Ports :
           /\ status[c] = "idle"
           /\ order' = [order EXCEPT ![c] = [what |-> p, stamp |-> Clock(time + p.skew),
                                             port |-> port, sentAt |-> time]]
    BY DEF Send
  <1> DEFINE o == [what |-> p, stamp |-> Clock(time + p.skew), port |-> port, sentAt |-> time]
  <1>2. order[c] = NoOrder
    BY <1>1 DEF IInv, OrderedWhenSent
  <1>3. time \in Nat /\ p.skew \in Int /\ order \in [Cmds -> Orders \cup {NoOrder}]
    BY ProfilesAssumption DEF IInv, TypeOK
  <1>4. o \in Orders
    BY <1>3, ClockType DEF Orders
  <1>5. o # NoOrder
    BY <1>4, AbsenceAssumption
  <1>6. order'[c] = o /\ \A d \in Cmds : d # c => order'[d] = order[d]
    BY <1>1, <1>3
  <1>7. order' \in [Cmds -> Orders \cup {NoOrder}]
    BY <1>1, <1>3, <1>4
  <1>8. QED
    BY <1>2, <1>4, <1>5, <1>6, <1>7

\* Issuing a command keeps the invariant.
LEMMA SendIInv ==
    ASSUME IInv, NEW c \in Cmds, Send(c)
    PROVE  IInv'
  <1>0. /\ status[c] = "idle"
        /\ status' = [status EXCEPT ![c] = "waiting"]
        /\ net' = net \cup {c}
        /\ UNCHANGED <<time, offset, replies, server>>
    BY DEF Send
  <1>1. /\ order[c] = NoOrder
        /\ order'[c] \in Orders /\ order'[c] # NoOrder
        /\ order'[c].stamp = Clock(order'[c].sentAt + order'[c].what.skew)
        /\ \A d \in Cmds : d # c => order'[d] = order[d]
        /\ order' \in [Cmds -> Orders \cup {NoOrder}]
    BY SendKeepsOrders
  <1>2. TypeOK'
    BY <1>0, <1>1 DEF IInv, TypeOK, server
  <1>3. \A d \in Cmds : order[d] # NoOrder => order'[d] = order[d]
    BY <1>1
  <1>4. \A d \in Cmds, a \in Addresses :
            Trusted(d, a) => Trusted(d, a)' /\ order'[d] = order[d]
    BY <1>3 DEF Trusted
  <1>5. \A d \in Cmds : order[d] # NoOrder => Address(d)' = Address(d)
    BY <1>3 DEF Address
  <1>6. OrderedWhenSent'
    BY <1>0, <1>1 DEF IInv, TypeOK, OrderedWhenSent
  <1>7. StampedBySender'
    BY <1>1 DEF IInv, StampedBySender
  <1>8. LogsFinite'
    BY <1>0 DEF IInv, LogsFinite, server
  <1>9. JobChecked'
    <2>1. pc' = pc /\ job' = job /\ verdict' = verdict /\ calls' = calls
      BY <1>0 DEF server
    <2>2. job \in Jobs => job.cmd \in Cmds /\ job.from \in Addresses
      BY DEF Jobs
    <2>3. QED
      BY <2>1, <2>2, <1>4 DEF IInv, JobChecked, WithinWindow
  <1>10. \A k \in calls : /\ k.cmd \in Cmds /\ k.from \in Addresses
                           /\ Trusted(k.cmd, k.from) /\ order[k.cmd] # NoOrder
    BY DEF IInv, TypeOK, Invocations, CalledInWindow, Trusted
  <1>11. calls' = calls /\ replies' = replies
    BY <1>0 DEF server
  <1>12. CalledInWindow' /\ FreshInRealTime'
    BY <1>4, <1>10, <1>11 DEF IInv, CalledInWindow, FreshInRealTime
  <1>13. SuccessHasSource'
    <2> SUFFICES ASSUME NEW d \in Cmds, status'[d] = "succeeded"
                 PROVE  \E k \in calls : k.ok /\ k.from = Address(d)'
      BY <1>11 DEF SuccessHasSource
    <2>1. status[d] = "succeeded" /\ order[d] # NoOrder
      BY <1>0 DEF IInv, TypeOK, OrderedWhenSent
    <2>2. PICK k \in calls : k.ok /\ k.from = Address(d)
      BY <2>1 DEF IInv, SuccessHasSource
    <2>3. QED
      BY <2>1, <2>2, <1>5
  <1>14. RepliesAreEarned'
    <2>1. \A r \in replies : r.cmd \in Cmds /\ r.to \in Addresses /\ Trusted(r.cmd, r.to)
      BY DEF IInv, TypeOK, Replies, RepliesAreEarned
    <2>2. QED
      BY <2>1, <1>4, <1>11 DEF IInv, RepliesAreEarned
  <1>15. QED
    BY <1>2, <1>6, <1>7, <1>8, <1>9, <1>12, <1>13, <1>14 DEF IInv

\* A command that ends, but for taking a response, keeps the invariant.
LEMMA EndIInv ==
    ASSUME IInv, NEW c \in Cmds, NotSent(c) \/ ReceiveFails(c) \/ ClientTimeout(c)
    PROVE  IInv'
  <1>1. /\ \E result \in {"aborted", "timedout"} : status' = [status EXCEPT ![c] = result]
        /\ UNCHANGED <<time, offset, order, net, replies, server>>
    BY DEF NotSent, ReceiveFails, ClientTimeout
  <1>2. TypeOK'
    BY <1>1 DEF IInv, TypeOK, Reports, server
  <1>3. OrderedWhenSent'
    BY <1>1 DEF IInv, TypeOK, OrderedWhenSent
  <1>4. \A d \in Cmds : status'[d] = "succeeded" => status[d] = "succeeded"
    BY <1>1 DEF IInv, TypeOK
  <1>5. SuccessHasSource'
    BY <1>1, <1>4 DEF IInv, SuccessHasSource, Address, server
  <1>6. QED
    BY <1>1, <1>2, <1>3, <1>5
       DEF IInv, StampedBySender, LogsFinite, JobChecked, CalledInWindow,
           WithinWindow, FreshInRealTime, RepliesAreEarned, Trusted, server

\* Taking a response keeps the invariant: a success is the firewall's.
LEMMA TakeReplyIInv ==
    ASSUME IInv, NEW c \in Cmds, TakeReply(c)
    PROVE  IInv'
  <1>1. PICK r \in replies, intact \in BOOLEAN :
           /\ status[c] = "waiting"
           /\ Deliverable(c, r)
           /\ status' = [status EXCEPT ![c] = Conclusion(c, r, intact)]
           /\ UNCHANGED <<time, offset, order, net, replies, server>>
    BY DEF TakeReply
  <1>2. Conclusion(c, r, intact) \in Reports
    BY DEF Conclusion, Reports
  <1>3. TypeOK'
    BY <1>1, <1>2 DEF IInv, TypeOK, server
  <1>4. OrderedWhenSent'
    BY <1>1, <1>2 DEF IInv, TypeOK, OrderedWhenSent, Reports
  <1>5. SuccessHasSource'
    <2> SUFFICES ASSUME NEW d \in Cmds, status'[d] = "succeeded"
                 PROVE  \E k \in calls : k.ok /\ k.from = Address(d)
      BY <1>1 DEF SuccessHasSource, Address, server
    <2>1. CASE d = c
      <3>1. r.ok
        BY <1>1, <2>1 DEF IInv, TypeOK, Conclusion
      <3>2. r.to = Address(d)
        BY <1>1, <2>1 DEF Deliverable
      <3>3. \E k \in calls : k.ok /\ k.from = r.to
        BY <1>1, <3>1 DEF IInv, RepliesAreEarned
      <3>4. QED
        BY <3>2, <3>3
    <2>2. CASE d # c
      BY <1>1, <2>2 DEF IInv, TypeOK, SuccessHasSource
    <2>3. QED
      BY <2>1, <2>2
  <1>6. QED
    BY <1>1, <1>3, <1>4, <1>5
       DEF IInv, StampedBySender, LogsFinite, JobChecked, CalledInWindow,
           WithinWindow, FreshInRealTime, RepliesAreEarned, Trusted, server

\* What the limiter does to its logs keeps them finite sets of entries.
LEMMA RecordType ==
    ASSUME IInv, NEW ip \in Ips, Record(ip), calls' = calls
    PROVE  /\ requests' \in [Ips -> SUBSET Entries]
           /\ LogsFinite'
  <1> DEFINE log == requests[ip]
  <1>1. time \in Nat /\ requests \in [Ips -> SUBSET Entries]
    BY DEF IInv, TypeOK
  <1>2. IsFiniteSet(log) /\ log \in SUBSET Entries
    BY <1>1 DEF IInv, LogsFinite
  <1>3. NewEntry(log, time) \in Entries
    BY <1>1, <1>2, NewEntryType
  <1>4. Live(log, time) \in SUBSET Entries /\ IsFiniteSet(Live(log, time))
    BY <1>2, LiveFinite
  <1>5. IsFiniteSet(Live(log, time) \cup {NewEntry(log, time)})
    BY <1>4, AddOne
  <1>6. CheckAndRecord(log, time) \in SUBSET Entries /\ IsFiniteSet(CheckAndRecord(log, time))
    BY <1>2, <1>3, <1>4, <1>5 DEF CheckAndRecord
  <1>7. requests' = [requests EXCEPT ![ip] = CheckAndRecord(log, time)]
    BY DEF Record
  <1>8. \A o \in Ips : requests'[o] = IF o = ip THEN CheckAndRecord(log, time) ELSE requests[o]
    BY <1>1, <1>7
  <1>9. LogsFinite'
    BY <1>6, <1>8 DEF IInv, LogsFinite
  <1>10. QED
    BY <1>1, <1>6, <1>7, <1>9

\* A datagram in the network has an order, and shows an address.
LEMMA SourceType ==
    ASSUME IInv, NEW d \in Datagrams, Receive(d)
    PROVE  /\ d.cmd \in Cmds /\ order[d.cmd] # NoOrder /\ order[d.cmd] \in Orders
           /\ d.from \in Addresses /\ SourceIp(d) \in Ips
  <1>1. d.cmd \in Cmds /\ order[d.cmd] # NoOrder
    BY DEF Datagrams, Receive, IInv, OrderedWhenSent
  <1>2. order[d.cmd] \in Orders
    BY <1>1 DEF IInv, TypeOK
  <1>3. d.from \in Addresses /\ SourceIp(d) \in Ips
    BY DEF Datagrams, Addresses, SourceIp
  <1>4. QED
    BY <1>1, <1>2, <1>3

\* Dropping a datagram keeps the invariant.
LEMMA DropIInv ==
    ASSUME IInv, NEW d \in Datagrams,
           DropUnlisted(d) \/ DropOverLimit(d) \/ DropUnreadable(d) \/ DropExpired(d)
    PROVE  IInv'
  <1>1. /\ UNCHANGED <<time, offset, clients, net, crashes, calls>>
        /\ UNCHANGED <<replies, pc, job, verdict>>
        /\ Receive(d)
        /\ requests' = requests \/ Record(SourceIp(d))
    BY DEF DropUnlisted, DropOverLimit, DropUnreadable, DropExpired, Admitted,
           Receive, BackToRecv
  <1>2. requests' \in [Ips -> SUBSET Entries] /\ LogsFinite'
    <2>1. CASE requests' = requests
      BY <1>1, <2>1 DEF IInv, TypeOK, LogsFinite
    <2>2. CASE Record(SourceIp(d))
      BY <1>1, <2>2, SourceType, RecordType
    <2>3. QED
      BY <1>1, <2>1, <2>2
  <1>3. TypeOK'
    BY <1>1, <1>2 DEF IInv, TypeOK, clients
  <1>4. QED
    BY <1>1, <1>2, <1>3
       DEF IInv, OrderedWhenSent, StampedBySender, JobChecked, WithinWindow, CalledInWindow,
           FreshInRealTime, SuccessHasSource, RepliesAreEarned, Trusted, Address, clients

\* Taking a datagram in, to execute or to reject it, keeps the invariant.
LEMMA TakeIInv ==
    ASSUME IInv, NEW d \in Datagrams, RejectUnparsable(d) \/ Accept(d)
    PROVE  IInv'
  <1>1. /\ UNCHANGED <<time, offset, clients, net, crashes, calls, replies>>
        /\ Receive(d)
        /\ Listed(SourceIp(d))
        /\ Record(SourceIp(d))
        /\ Opens(d, ServerKey)
        /\ job' = [cmd |-> d.cmd, from |-> d.from, wall |-> ServerClock, time |-> time]
    BY DEF RejectUnparsable, Accept, Admitted, Receive, Take
  <1>2. \/ /\ pc' = "respond" /\ verdict' = FALSE
           /\ order[d.cmd].what.shape = "foreign"
        \/ /\ pc' = "execute" /\ verdict' = verdict
           /\ Timely(order[d.cmd].stamp, ServerClock)
    BY DEF RejectUnparsable, Accept, Take
  <1>3. requests' \in [Ips -> SUBSET Entries] /\ LogsFinite'
    BY <1>1, SourceType, RecordType
  <1>4. job' \in Jobs
    <2>1. ServerClock \in Nat /\ time \in Nat
      BY ClocksAssumption, ClockType DEF IInv, TypeOK, ServerClock
    <2>2. QED
      BY <1>1, <2>1, SourceType DEF Jobs
  <1>5. TypeOK'
    BY <1>1, <1>2, <1>3, <1>4 DEF IInv, TypeOK, clients
  <1>6. Trusted(d.cmd, d.from)
    BY <1>1, SourceType, ListedIsPermitted DEF Trusted, SourceIp, Opens
  <1>7. JobChecked'
    <2>1. /\ job'.cmd = d.cmd /\ job'.from = d.from
          /\ job'.wall = ServerClock /\ job'.time = time
      BY <1>1
    <2>2. Trusted(job.cmd, job.from)'
      BY <1>1, <1>6, <2>1 DEF Trusted, clients
    <2>3. \E off \in Offsets : job'.wall = Clock(job'.time + off)
      BY <2>1 DEF IInv, TypeOK, ServerClock
    <2>4. CASE pc' = "respond" /\ verdict' = FALSE /\ order[d.cmd].what.shape = "foreign"
      BY <1>1, <1>4, <2>1, <2>2, <2>4 DEF JobChecked, clients
    <2>5. CASE pc' = "execute" /\ Timely(order[d.cmd].stamp, ServerClock)
      <3>1. Timely(order'[job'.cmd].stamp, job'.wall)
        BY <1>1, <2>1, <2>5 DEF clients
      <3>2. QED
        BY <1>4, <2>2, <2>3, <2>5, <3>1 DEF JobChecked, Timely
    <2>6. QED
      BY <1>2, <2>4, <2>5
  <1>8. QED
    BY <1>1, <1>3, <1>5, <1>7
       DEF IInv, OrderedWhenSent, StampedBySender, CalledInWindow,
           FreshInRealTime, SuccessHasSource, RepliesAreEarned, Trusted, Address, clients

\* The real-time bound follows from the clocks: the stamp is the sender's
\* clock, the check used the server's, and the two are Clock readings.
LEMMA TimelyIsFresh ==
    ASSUME NEW sentAt \in Nat, NEW skew \in Int, NEW t \in Nat, NEW off \in Int,
           Timely(Clock(sentAt + skew), Clock(t + off))
    PROVE  /\ Clock(t + off) - Clock(sentAt + skew) \in -ReplayWindow .. ReplayWindow
           /\ sentAt + skew >= 0 => t - sentAt <= ReplayWindow + skew - off
  BY ClocksAssumption DEF Timely, Clock

\* A firewall call keeps the invariant.
LEMMA ExecuteCallIInv ==
    ASSUME IInv, ExecuteCall
    PROVE  IInv'
  <1>1. PICK ok \in BOOLEAN : verdict' = ok /\ calls' = calls \cup {Invocation(ok)}
    BY DEF ExecuteCall
  <1> DEFINE new == Invocation(ok)
  <1>2. /\ pc = "execute" /\ pc' = "respond"
        /\ order[job.cmd].what.shape = "call"
        /\ UNCHANGED <<time, offset, clients, net, replies, job, requests, crashes>>
    BY DEF ExecuteCall
  <1>3. /\ job \in Jobs /\ Trusted(job.cmd, job.from)
        /\ Timely(order[job.cmd].stamp, job.wall)
    BY <1>2 DEF IInv, JobChecked
  <1>c. Cardinality(calls) \in Nat
    BY FS_CardinalityType DEF IInv, LogsFinite
  <1>4. new \in Invocations
    BY <1>3, <1>c DEF Jobs, Invocation, Invocations, IInv, TypeOK
  <1>5. /\ new.cmd = job.cmd /\ new.from = job.from /\ new.wall = job.wall
        /\ new.time = job.time /\ new.ok = ok
    BY DEF Invocation
  <1> HIDE DEF new
  <1>6. calls' = calls \cup {new}
    BY <1>1 DEF new
  <1>7. TypeOK'
    BY <1>1, <1>2, <1>4, <1>6 DEF IInv, TypeOK, clients
  <1>f. LogsFinite'
    BY <1>2, <1>6, AddOne DEF IInv, LogsFinite
  <1>8. job.cmd \in Cmds /\ order[job.cmd] \in Orders
    BY <1>3 DEF Jobs, Trusted, IInv, TypeOK
  <1> DEFINE o == order[job.cmd]
  <1>9. /\ o.sentAt \in Nat /\ o.what.skew \in Int /\ job.time \in Nat
        /\ o.stamp = Clock(o.sentAt + o.what.skew)
    BY <1>3, <1>8, ProfilesAssumption DEF Orders, Jobs, Trusted, IInv, StampedBySender
  <1>10. PICK off \in Offsets : job.wall = Clock(job.time + off)
    BY <1>2 DEF IInv, JobChecked
  <1>11. /\ job.wall - o.stamp \in -ReplayWindow .. ReplayWindow
         /\ o.sentAt + o.what.skew >= 0 =>
               job.time - o.sentAt <= ReplayWindow + o.what.skew - off
    <2>1. off \in Int
      BY ClocksAssumption
    <2>2. Timely(Clock(o.sentAt + o.what.skew), Clock(job.time + off))
      BY <1>3, <1>9, <1>10
    <2>3. QED
      BY <1>9, <1>10, <2>1, <2>2, TimelyIsFresh
  <1>12. CalledInWindow'
    BY <1>2, <1>3, <1>5, <1>6, <1>11 DEF IInv, CalledInWindow, Trusted, clients
  <1>13. FreshInRealTime'
    BY <1>2, <1>5, <1>6, <1>11 DEF IInv, FreshInRealTime, clients
  <1>14. JobChecked'
    BY <1>1, <1>2, <1>3, <1>5, <1>6, <1>11 DEF JobChecked, WithinWindow, Trusted, clients
  <1>15. SuccessHasSource'
    BY <1>2, <1>6 DEF IInv, SuccessHasSource, Address, clients
  <1>16. RepliesAreEarned'
    BY <1>2, <1>6 DEF IInv, RepliesAreEarned, Trusted, clients
  <1>17. QED
    BY <1>2, <1>7, <1>f, <1>12, <1>13, <1>14, <1>15, <1>16
       DEF IInv, OrderedWhenSent, StampedBySender, clients

\* Answering a usage error keeps the invariant.
LEMMA ExecuteIncompleteIInv ==
    ASSUME IInv, ExecuteIncomplete
    PROVE  IInv'
  <1>1. /\ pc = "execute" /\ pc' = "respond" /\ verdict' = FALSE
        /\ UNCHANGED <<time, offset, clients, net, replies, job, requests, crashes, calls>>
    BY DEF ExecuteIncomplete
  <1>2. TypeOK'
    BY <1>1 DEF IInv, TypeOK, clients
  <1>s. WithinWindow(job.cmd, job.wall)
    <2>1. job \in Jobs /\ order[job.cmd] # NoOrder /\ Timely(order[job.cmd].stamp, job.wall)
      BY <1>1 DEF IInv, JobChecked, Trusted
    <2>2. job.wall \in Nat /\ order[job.cmd].stamp \in Nat
      BY <2>1 DEF Jobs, Orders, IInv, TypeOK
    <2>3. QED
      BY <2>1, <2>2, ClocksAssumption DEF Timely, WithinWindow
  <1>3. JobChecked'
    BY <1>1, <1>s DEF IInv, JobChecked, WithinWindow, Trusted, clients
  <1>4. QED
    BY <1>1, <1>2, <1>3
       DEF IInv, OrderedWhenSent, StampedBySender, LogsFinite, CalledInWindow,
           FreshInRealTime, SuccessHasSource, RepliesAreEarned, Trusted, Address, clients

\* Sending a response keeps the invariant.
LEMMA RespondIInv ==
    ASSUME IInv, Respond
    PROVE  IInv'
  <1> DEFINE r == Response(verdict)
  <1>1. /\ pc = "respond" /\ pc' = "recv" /\ job' = NoJob /\ verdict' = FALSE
        /\ replies' = replies \cup {r}
        /\ UNCHANGED <<time, offset, clients, net, requests, crashes, calls>>
    BY DEF Respond, Answer
  <1>2. /\ job \in Jobs /\ Trusted(job.cmd, job.from)
        /\ order[job.cmd].what.shape = "foreign" \/ WithinWindow(job.cmd, job.wall)
        /\ verdict => \E k \in calls : k.ok /\ k.cmd = job.cmd /\ k.from = job.from
    BY <1>1 DEF IInv, JobChecked
  <1>4. r \in Replies
    BY <1>2 DEF Jobs, Response, Replies, IInv, TypeOK
  <1>5. r.to = job.from /\ r.cmd = job.cmd /\ r.wall = job.wall /\ r.ok = verdict
    BY DEF Response
  <1> HIDE DEF r
  <1>6. TypeOK'
    BY <1>1, <1>4 DEF IInv, TypeOK, clients
  <1>7. RepliesAreEarned'
    BY <1>1, <1>2, <1>5 DEF IInv, RepliesAreEarned, WithinWindow, Trusted, clients
  <1>8. JobChecked'
    BY <1>1 DEF JobChecked
  <1>9. QED
    BY <1>1, <1>6, <1>7, <1>8
       DEF IInv, OrderedWhenSent, StampedBySender, LogsFinite, CalledInWindow,
           FreshInRealTime, SuccessHasSource, Trusted, Address, clients

\* Starting and crashing keep the invariant.
LEMMA StartCrashIInv ==
    ASSUME IInv, Start \/ Crash
    PROVE  IInv'
  <1>1. /\ UNCHANGED <<time, offset, clients, net, replies, calls>>
        /\ crashes' \in {crashes, crashes + 1}
        /\ requests' = requests \/ requests' = [ip \in Ips |-> {}]
        /\ \/ pc' = "recv" /\ UNCHANGED <<job, verdict>>
           \/ pc' = "down" /\ job' = NoJob /\ verdict' = FALSE
    BY DEF Start, Crash
  <1>2. TypeOK'
    <2>1. requests' \in [Ips -> SUBSET Entries]
      BY <1>1 DEF IInv, TypeOK
    <2>2. crashes' \in Nat
      BY <1>1 DEF IInv, TypeOK
    <2>3. /\ pc' \in {"down", "recv", "execute", "respond"}
          /\ job' \in Jobs \cup {NoJob} /\ verdict' \in BOOLEAN
      BY <1>1 DEF IInv, TypeOK
    <2>4. QED
      BY <1>1, <2>1, <2>2, <2>3 DEF IInv, TypeOK, clients
  <1>3. LogsFinite'
    BY <1>1, FS_EmptySet DEF IInv, LogsFinite
  <1>4. JobChecked'
    BY <1>1 DEF JobChecked
  <1>5. QED
    BY <1>1, <1>2, <1>3, <1>4
       DEF IInv, OrderedWhenSent, StampedBySender, CalledInWindow,
           FreshInRealTime, SuccessHasSource, RepliesAreEarned, Trusted, Address, clients

\* Time passing, a clock that is set, and stuttering keep the invariant.
LEMMA ClocksIInv ==
    ASSUME IInv, SetClock \/ Tick \/ UNCHANGED vars
    PROVE  IInv'
  <1>1. /\ UNCHANGED <<clients, net, replies, server>>
        /\ time' \in {time, time + 1} /\ offset' \in Offsets
    BY DEF SetClock, Tick, vars, IInv, TypeOK
  <1>2. TypeOK'
    BY <1>1 DEF IInv, TypeOK, clients, server
  <1>3. QED
    BY <1>1, <1>2
       DEF IInv, OrderedWhenSent, StampedBySender, LogsFinite, JobChecked, WithinWindow,
           CalledInWindow, FreshInRealTime, SuccessHasSource, RepliesAreEarned, Trusted,
           Address, clients, server

\* The inductive invariant holds in every reachable state.
THEOREM InductiveInvariant == Spec => []IInv
  <1>1. Init => IInv
    BY InitIInv
  <1>2. IInv /\ [Next]_vars => IInv'
    <2> SUFFICES ASSUME IInv, [Next]_vars PROVE IInv'
      OBVIOUS
    <2>1. CASE ClientStep
      <3>1. PICK c \in Cmds : \/ Send(c) \/ NotSent(c) \/ TakeReply(c)
                              \/ ReceiveFails(c) \/ ClientTimeout(c)
        BY <2>1 DEF ClientStep
      <3>2. QED
        BY <3>1, SendIInv, EndIInv, TakeReplyIInv
    <2>2. CASE ServerReceives
      <3>1. PICK d \in Datagrams :
               \/ DropUnlisted(d) \/ DropOverLimit(d) \/ DropUnreadable(d)
               \/ RejectUnparsable(d) \/ DropExpired(d) \/ Accept(d)
        BY <2>2 DEF ServerReceives
      <3>2. QED
        BY <3>1, DropIInv, TakeIInv
    <2>3. CASE ExecuteCall \/ ExecuteIncomplete
      BY <2>3, ExecuteCallIInv, ExecuteIncompleteIInv
    <2>4. CASE Start \/ Respond \/ Crash
      BY <2>4, StartCrashIInv, RespondIInv
    <2>5. CASE SetClock \/ Tick \/ UNCHANGED vars
      BY <2>5, ClocksIInv
    <2>6. QED
      BY <2>1, <2>2, <2>3, <2>4, <2>5 DEF Next, ServerStep, Execute
  <1>3. QED
    BY <1>1, <1>2, PTL DEF Spec

\* Type correctness.
THEOREM TypeCorrect == Spec => []TypeOK
  <1>1. IInv => TypeOK
    BY DEF IInv
  <1>2. QED
    BY <1>1, InductiveInvariant, PTL

\* The firewall is only ever called for complete, authentic, listed commands
\* whose stamp was within the window when they were taken in.
THEOREM CallsAreChecked == Spec => []CalledInWindow
  <1>1. IInv => CalledInWindow
    BY DEF IInv
  <1>2. QED
    BY <1>1, InductiveInvariant, PTL

\* However the clocks are set, no command takes effect later than the window
\* and the disagreement of the clocks allow.
THEOREM CallsAreFresh == Spec => []FreshInRealTime
  <1>1. IInv => FreshInRealTime
    BY DEF IInv
  <1>2. QED
    BY <1>1, InductiveInvariant, PTL

\* A success a client reports goes back to a firewall call that succeeded.
THEOREM SuccessesAreReal == Spec => []SuccessHasSource
  <1>1. IInv => SuccessHasSource
    BY DEF IInv
  <1>2. QED
    BY <1>1, InductiveInvariant, PTL

\* Responses go to listed addresses that have shown a current command under the
\* key, and tell what the firewall said.
THEOREM ResponsesAreEarned == Spec => []RepliesAreEarned
  <1>1. IInv => RepliesAreEarned
    BY DEF IInv
  <1>2. QED
    BY <1>1, InductiveInvariant, PTL
------------------------------------------------------------------------------
(***************************************************************************)
(* The refinement.  The firewall calls a user of the service knows of are  *)
(* those of Knock without the server's own bookkeeping.                    *)
(***************************************************************************)
Visible(k) == [cmd |-> k.cmd, from |-> k.from, wall |-> k.wall, ok |-> k.ok]
ServiceCalls == {[cmd |-> k.cmd, from |-> k.from, wall |-> k.wall, ok |-> k.ok] : k \in calls}

\* A step that leaves orders, reports and calls alone is a stutter.
LEMMA HiddenStep ==
    ASSUME UNCHANGED <<status, order, calls>>
    PROVE  UNCHANGED Service!vars
  BY DEF Service!vars

\* Send issues the command.
LEMMA SendIssues ==
    ASSUME IInv, NEW c \in Cmds, Send(c)
    PROVE  Service!Issue(c)
  <1>1. /\ status[c] = "idle"
        /\ status' = [status EXCEPT ![c] = "waiting"]
        /\ calls' = calls
    BY DEF Send, server
  <1>2. order'[c] \in Orders /\ order' = [order EXCEPT ![c] = order'[c]]
    <2>1. PICK o : order' = [order EXCEPT ![c] = o]
      BY DEF Send
    <2>2. order'[c] = o
      BY <2>1 DEF IInv, TypeOK
    <2>3. QED
      BY <2>1, <2>2, SendKeepsOrders
  <1>3. QED
    BY <1>1, <1>2 DEF Service!Issue, Service!Orders, Orders

\* However a command ends, the service reports it.
LEMMA EndReports ==
    ASSUME IInv, IInv', NEW c \in Cmds,
           NotSent(c) \/ TakeReply(c) \/ ReceiveFails(c) \/ ClientTimeout(c)
    PROVE  Service!Report(c)
  <1>1. /\ UNCHANGED <<order, calls>>
        /\ \E result \in Reports : status' = [status EXCEPT ![c] = result]
        /\ \/ status[c] = "waiting"
           \/ status[c] = "idle" /\ status' = [status EXCEPT ![c] = "aborted"]
    BY DEF NotSent, TakeReply, ReceiveFails, ClientTimeout, Conclusion, Reports, server
  <1>2. /\ status' = [status EXCEPT ![c] = status'[c]]
        /\ status'[c] \in Reports
        /\ status[c] = "waiting" \/ (status[c] = "idle" /\ status'[c] = "aborted")
    <2>1. status \in [Cmds -> {"idle", "waiting"} \cup Reports]
      BY DEF IInv, TypeOK
    <2>2. QED
      BY <1>1, <2>1
  <1>3. status'[c] = "succeeded" => Service!CallSucceeded(c)
    <2> SUFFICES ASSUME status'[c] = "succeeded"
                 PROVE  Service!CallSucceeded(c)
      OBVIOUS
    <2>1. PICK k \in calls : k.ok /\ k.from = Address(c)
      BY <1>1 DEF IInv, SuccessHasSource, Address
    <2>2. Visible(k) \in ServiceCalls
      BY DEF Visible, ServiceCalls
    <2>3. \E v \in ServiceCalls : v.ok /\ v.from = Address(c)
      BY <2>1, <2>2 DEF Visible
    <2>4. QED
      BY <2>3 DEF ServiceCalls, Service!CallSucceeded, Service!Sender, Address
  <1>4. QED
    BY <1>1, <1>2, <1>3 DEF Service!Report, Service!Reports, Reports

\* The server's firewall call is the service's.
LEMMA ExecuteCalls ==
    ASSUME IInv, IInv', NEW c \in Cmds, c = job.cmd, ExecuteCall
    PROVE  Service!Call(c)
  <1>1. PICK ok \in BOOLEAN : calls' = calls \cup {Invocation(ok)}
    BY DEF ExecuteCall
  <1> DEFINE new == Invocation(ok)
             v   == [cmd |-> c, from |-> job.from, wall |-> job.wall, ok |-> ok]
  <1>2. /\ pc = "execute" /\ order[job.cmd].what.shape = "call"
        /\ UNCHANGED <<order, status>>
    BY DEF ExecuteCall, clients
  <1>3. job \in Jobs /\ Trusted(job.cmd, job.from)
    BY <1>2 DEF IInv, JobChecked
  <1>4. job.cmd \in Cmds
    BY <1>3 DEF Jobs
  <1>5. Service!Entitled(c)
    BY <1>2, <1>3 DEF Trusted, Service!Entitled
  <1>6. v \in Service!Calls
    BY <1>3 DEF Jobs, Addresses, Trusted, Service!Calls
  <1>7. ServiceCalls' = ServiceCalls \cup {v}
    <2>1. ServiceCalls' = {Visible(k) : k \in calls \cup {new}}
      BY <1>1 DEF ServiceCalls, Visible
    <2>2. Visible(new) = v
      BY DEF Visible, Invocation
    <2>3. ServiceCalls = {Visible(k) : k \in calls}
      BY DEF ServiceCalls, Visible
    <2>4. QED
      BY <2>1, <2>2, <2>3
  <1>8. Service!Fresh(c, v.wall)
    <2>1. new \in calls' /\ new.cmd = job.cmd /\ new.wall = job.wall
      BY <1>1 DEF Invocation
    <2>2. job.wall - order[job.cmd].stamp \in -ReplayWindow .. ReplayWindow
      BY <1>2, <2>1 DEF IInv, CalledInWindow
    <2>3. QED
      BY <2>2 DEF Service!Fresh
  <1>9. v.cmd = c
    OBVIOUS
  <1> HIDE DEF v, new
  <1>10. \E k \in ServiceCalls' :
            /\ k \in Service!Calls
            /\ k.cmd = c
            /\ Service!Fresh(c, k.wall)
            /\ ServiceCalls' = ServiceCalls \cup {k}
    BY <1>6, <1>7, <1>8, <1>9
  <1>11. QED
    BY <1>2, <1>4, <1>5, <1>10 DEF Service!Call, ServiceCalls

\* Every other step of the server and the clocks is hidden.
LEMMA OtherStepsHidden ==
    ASSUME \/ Start \/ ServerReceives \/ ExecuteIncomplete \/ Respond \/ Crash
           \/ SetClock \/ Tick \/ UNCHANGED vars
    PROVE  UNCHANGED <<status, order, calls>>
  BY DEF Start, ServerReceives, DropUnlisted, DropOverLimit, DropUnreadable,
         RejectUnparsable, DropExpired, Accept, Admitted, Receive, ExecuteIncomplete,
         Respond, Crash, SetClock, Tick, vars, clients, server

\* Knock implements KnockService: every behaviour of clients, network, clocks
\* and server is one the service allows.
THEOREM KnockRefinesService == Spec => ImplementsService
  <1>1. Init => Service!Init
    BY DEF Init, Service!Init
  <1>2. IInv /\ IInv' /\ [Next]_vars => [Service!Next]_(Service!vars)
    <2> SUFFICES ASSUME IInv, IInv', [Next]_vars
                 PROVE  Service!Next \/ UNCHANGED Service!vars
      OBVIOUS
    <2>1. CASE ClientStep
      <3>1. PICK c \in Cmds : \/ Send(c) \/ NotSent(c) \/ TakeReply(c)
                              \/ ReceiveFails(c) \/ ClientTimeout(c)
        BY <2>1 DEF ClientStep
      <3>2. QED
        BY <3>1, SendIssues, EndReports DEF Service!Next
    <2>2. CASE ExecuteCall
      <3>1. job.cmd \in Cmds
        BY <2>2 DEF ExecuteCall, IInv, JobChecked, Jobs
      <3>2. PICK c \in Cmds : c = job.cmd
        BY <3>1
      <3>3. QED
        BY <2>2, <3>2, ExecuteCalls DEF Service!Next
    <2>3. CASE \/ Start \/ ServerReceives \/ ExecuteIncomplete \/ Respond \/ Crash
               \/ SetClock \/ Tick \/ UNCHANGED vars
      BY <2>3, OtherStepsHidden, HiddenStep
    <2>4. QED
      BY <2>1, <2>2, <2>3 DEF Next, ServerStep, Execute
  <1>3. QED
    BY <1>1, <1>2, InductiveInvariant, PTL DEF Spec, ImplementsService, Service!Spec
------------------------------------------------------------------------------
(***************************************************************************)
(* Within one run of the server no window holds more firewall calls for a  *)
(* source address than the limit and one.                                  *)
(*                                                                         *)
(* The limiter counts admissions, most of which lead to no call, and the   *)
(* call comes later than the admission it is counted by.  The invariant    *)
(* ties the two together: the log covers the admissions that led to a call *)
(* of this run, and the one of the command about to be executed, for every *)
(* moment still to come; and calls and admissions alternate, for the       *)
(* server is one thread.  So of the calls of a window, at most one was     *)
(* admitted before it.                                                     *)
(***************************************************************************)

\* The calls of this run for ip whose admission a window ending at t holds.
Recent(ip, t) == {k \in calls : k.run = crashes /\ k.from.ip = ip /\ t - k.time < RateWindow}

\* Whether a command of ip that such a window holds is about to be executed.
Pending(ip, t) ==
    IF pc = "execute" /\ job.from.ip = ip /\ t - job.time < RateWindow THEN 1 ELSE 0

\* The calls of a run for ip whose admission the window ending at t holds.
AdmittedInWindow(run, ip, t) ==
    {k \in calls : k.run = run /\ k.from.ip = ip /\ k.time <= t /\ t - k.time < RateWindow}

Numbered(log) == \A e \in log : e.nth <= Cardinality({x \in log : x.at = e.at})

LogsNumbered == \A ip \in Ips : Numbered(requests[ip])

CallsInPast ==
    /\ IsFiniteSet(calls)
    /\ \A k \in calls : k.run <= crashes /\ k.time <= k.at /\ k.at <= time
    /\ pc = "down" => \A k \in calls : k.run # crashes
    /\ pc = "execute" =>
          /\ job.time <= time
          /\ \A k \in calls : k.run = crashes => k.at <= job.time

\* A command is taken in after the call before it was made.
CallsSerial ==
    /\ \A k \in calls : k.nth < Cardinality(calls)
    /\ \A k, l \in calls :
          /\ k.nth = l.nth => k = l
          /\ k.run = l.run /\ k.nth < l.nth => k.at <= l.time

LogCoversCalls ==
    \A ip \in Ips : \A t \in Nat : t >= time =>
        Cardinality(Recent(ip, t)) + Pending(ip, t) <= Cardinality(Live(requests[ip], t))

JobWithinLimit ==
    pc = "execute" => Cardinality(AdmittedInWindow(crashes, job.from.ip, job.time)) < RateLimit

AdmissionsWithinLimit ==
    \A run \in Nat, ip \in Ips, t \in Nat :
        Cardinality(AdmittedInWindow(run, ip, t)) <= RateLimit

LInv ==
    /\ LogsNumbered
    /\ CallsInPast
    /\ CallsSerial
    /\ RateLimit # 0 => LogCoversCalls /\ JobWithinLimit /\ AdmissionsWithinLimit

------------------------------------------------------------------------------
\* What check_and_record does to the windows that are still to come.
LEMMA RecordCovers ==
    ASSUME NEW log \in SUBSET Entries, NEW t \in Nat, IsFiniteSet(log), Numbered(log)
    PROVE  /\ Numbered(CheckAndRecord(log, t))
           /\ RateLimit # 0 =>
                 \A u \in Nat : u >= t =>
                    Cardinality(Live(log, u)) + (IF Allows(log, t) /\ u - t < RateWindow THEN 1 ELSE 0)
                       <= Cardinality(Live(CheckAndRecord(log, t), u))
  <1> DEFINE live == Live(log, t)
             new == NewEntry(log, t)
  <1>1. /\ live \in SUBSET Entries /\ IsFiniteSet(live)
        /\ \A e \in log : e.at = t => e \in live
    BY LiveFinite, RateWindowAssumption DEF Live
  <1>2. \A e \in live : {x \in live : x.at = e.at} = {x \in log : x.at = e.at}
    BY DEF Live
  <1>3. Numbered(live)
    BY <1>2, LiveFinite DEF Numbered
  <1>4. NewEntry(live, t) = new
    <2>1. {x \in live : x.at = t} = {x \in log : x.at = t}
      BY <1>1, LiveFinite
    <2>2. QED
      BY <2>1 DEF NewEntry
  <1>5. new \notin live /\ Numbered(live \cup {new})
    BY <1>1, <1>3, <1>4, NewEntryFresh DEF Numbered
  <1>6. new.at = t
    BY DEF NewEntry
  <1>7. \A u \in Nat : u >= t => Live(live, u) = Live(log, u)
    BY RateWindowAssumption DEF Live, Entries
  <1>8. CASE RateLimit = 0
    BY <1>8 DEF CheckAndRecord
  <1>9. CASE RateLimit # 0 /\ ~Allows(log, t)
    <2>1. CheckAndRecord(log, t) = live
      BY <1>9 DEF CheckAndRecord
    <2>2. \A u \in Nat : Cardinality(Live(log, u)) \in Nat
      BY LiveFinite
    <2>3. QED
      BY <1>3, <1>7, <1>9, <2>1, <2>2
  <1>10. CASE RateLimit # 0 /\ Allows(log, t)
    <2>1. CheckAndRecord(log, t) = live \cup {new}
      BY <1>10 DEF CheckAndRecord
    <2> SUFFICES ASSUME NEW u \in Nat, u >= t
                 PROVE  Cardinality(Live(log, u)) + (IF u - t < RateWindow THEN 1 ELSE 0)
                           <= Cardinality(Live(live \cup {new}, u))
      BY <1>5, <1>10, <2>1
    <2> HIDE DEF live, new
    <2>2. IsFiniteSet(Live(log, u)) /\ Cardinality(Live(log, u)) \in Nat
      BY LiveFinite
    <2>3. CASE u - t < RateWindow
      <3>1. Live(live \cup {new}, u) = Live(log, u) \cup {new} /\ new \notin Live(log, u)
        BY <1>5, <1>6, <1>7, <2>3 DEF Live
      <3>2. QED
        BY <2>2, <2>3, <3>1, AddOne
    <2>4. CASE ~(u - t < RateWindow)
      <3>1. Live(live \cup {new}, u) = Live(log, u)
        BY <1>6, <1>7, <2>4 DEF Live
      <3>2. QED
        BY <2>2, <2>4, <3>1
    <2>5. QED
      BY <2>3, <2>4
  <1>11. QED
    BY <1>8, <1>9, <1>10

\* Everything counted is finite.
LEMMA CountsAreNumbers ==
    ASSUME IInv, LInv
    PROVE  /\ \A ip, t : /\ IsFiniteSet(Recent(ip, t))
                         /\ Cardinality(Recent(ip, t)) \in Nat
                         /\ Pending(ip, t) \in {0, 1}
           /\ \A run, ip, t : /\ IsFiniteSet(AdmittedInWindow(run, ip, t))
                              /\ Cardinality(AdmittedInWindow(run, ip, t)) \in Nat
           /\ \A ip \in Ips : \A t : Cardinality(Live(requests[ip], t)) \in Nat
  <1>1. IsFiniteSet(calls)
    BY DEF LInv, CallsInPast
  <1>2. \A ip, t : Recent(ip, t) \in SUBSET calls
    BY DEF Recent
  <1>3. \A run, ip, t : AdmittedInWindow(run, ip, t) \in SUBSET calls
    BY DEF AdmittedInWindow
  <1>4. \A ip \in Ips : \A t : Cardinality(Live(requests[ip], t)) \in Nat
    BY LiveFinite DEF IInv, LogsFinite
  <1>5. \A ip, t : Pending(ip, t) \in {0, 1}
    BY DEF Pending
  <1>6. QED
    BY <1>1, <1>2, <1>3, <1>4, <1>5, FS_Subset, FS_CardinalityType

\* The instants of calls and of the command in hand are numbers.
LEMMA InstantsAreNumbers ==
    ASSUME IInv
    PROVE  /\ time \in Nat /\ crashes \in Nat
           /\ \A k \in calls : /\ k.time \in Nat /\ k.at \in Nat /\ k.run \in Nat
                              /\ k.nth \in Nat /\ k.from.ip \in Ips
           /\ pc = "execute" => job.time \in Nat /\ job.from.ip \in Ips
  BY DEF IInv, TypeOK, Invocations, Addresses, JobChecked, Jobs

\* Steps that leave calls, logs and the run alone, and put no new job in hand.
LEMMA QuietLInv ==
    ASSUME IInv, LInv,
           UNCHANGED <<calls, requests, crashes>>,
           time' \in Nat, time' >= time,
           (pc' = pc /\ job' = job) \/ pc' \in {"recv", "respond"}
    PROVE  LInv'
  <1>1. \A ip, t : Recent(ip, t)' = Recent(ip, t)
    BY DEF Recent
  <1>2. \A run, ip, t : AdmittedInWindow(run, ip, t)' = AdmittedInWindow(run, ip, t)
    BY DEF AdmittedInWindow
  <1>3. \A ip, t : Pending(ip, t)' = Pending(ip, t) \/ Pending(ip, t)' = 0
    BY DEF Pending
  <1>4. LogsNumbered' /\ CallsSerial'
    BY DEF LInv, LogsNumbered, CallsSerial
  <1>5. CallsInPast'
    BY InstantsAreNumbers DEF LInv, CallsInPast
  <1>6. ASSUME RateLimit # 0 PROVE LogCoversCalls'
    <2> SUFFICES ASSUME NEW ip \in Ips, NEW t \in Nat, t >= time'
                 PROVE  Cardinality(Recent(ip, t)') + Pending(ip, t)'
                           <= Cardinality(Live(requests[ip], t))
      BY DEF LogCoversCalls, Live
    <2>1. Cardinality(Recent(ip, t)) + Pending(ip, t) <= Cardinality(Live(requests[ip], t))
      BY InstantsAreNumbers, <1>6 DEF LInv, LogCoversCalls
    <2>2. QED
      BY <1>1, <1>3, <2>1, CountsAreNumbers
  <1>7. ASSUME RateLimit # 0 PROVE JobWithinLimit' /\ AdmissionsWithinLimit'
    BY <1>2, <1>7 DEF LInv, JobWithinLimit, AdmissionsWithinLimit
  <1>8. QED
    BY <1>4, <1>5, <1>6, <1>7 DEF LInv

\* A datagram that gets past the whitelist is recorded; if it is to be executed
\* it was admitted, and is the pending one.
LEMMA RecordLInv ==
    ASSUME IInv, LInv, NEW ip \in Ips, Record(ip), pc = "recv",
           UNCHANGED <<time, calls, crashes>>,
           \/ pc' \in {"recv", "respond"}
           \/ /\ pc' = "execute" /\ Allows(requests[ip], time)
              /\ job'.time = time /\ job'.from.ip = ip
    PROVE  LInv'
  <1>1. \A o, t : Recent(o, t)' = Recent(o, t)
    BY DEF Recent
  <1>2. \A run, o, t : AdmittedInWindow(run, o, t)' = AdmittedInWindow(run, o, t)
    BY DEF AdmittedInWindow
  <1>3. time \in Nat /\ requests \in [Ips -> SUBSET Entries]
    BY DEF IInv, TypeOK
  <1>4. \A o \in Ips : requests'[o] = IF o = ip THEN CheckAndRecord(requests[ip], time)
                                      ELSE requests[o]
    BY <1>3 DEF Record
  <1>5. /\ Numbered(CheckAndRecord(requests[ip], time))
        /\ RateLimit # 0 =>
              \A u \in Nat : u >= time =>
                 Cardinality(Live(requests[ip], u))
                       + (IF Allows(requests[ip], time) /\ u - time < RateWindow THEN 1 ELSE 0)
                    <= Cardinality(Live(CheckAndRecord(requests[ip], time), u))
    BY <1>3, RecordCovers DEF IInv, LogsFinite, LInv, LogsNumbered
  <1>6. LogsNumbered' /\ CallsSerial'
    BY <1>4, <1>5 DEF LInv, LogsNumbered, CallsSerial
  <1>7. CallsInPast'
    BY <1>3 DEF LInv, CallsInPast
  <1>8. \A o \in Ips : \A t : Cardinality(Live(requests'[o], t)) \in Nat
    <2>1. LogsFinite'
      BY RecordType
    <2>2. QED
      BY <2>1, LiveFinite DEF LogsFinite
  <1>9. \A o, t : Pending(o, t) = 0
    BY DEF Pending
  <1>10. ASSUME RateLimit # 0 PROVE LogCoversCalls'
    <2> SUFFICES ASSUME NEW o \in Ips, NEW t \in Nat, t >= time
                 PROVE  Cardinality(Recent(o, t)) + Pending(o, t)'
                           <= Cardinality(Live(requests'[o], t))
      BY <1>1 DEF LogCoversCalls, Live
    <2>1. Cardinality(Recent(o, t)) <= Cardinality(Live(requests[o], t))
      BY <1>9, <1>10, CountsAreNumbers DEF LInv, LogCoversCalls
    <2>2. /\ Cardinality(Recent(o, t)) \in Nat
          /\ Cardinality(Live(requests[o], t)) \in Nat
          /\ Cardinality(Live(requests'[o], t)) \in Nat
      BY <1>8, CountsAreNumbers
    <2>3. CASE o # ip
      <3>1. requests'[o] = requests[o]
        BY <1>4, <2>3
      <3>2. Pending(o, t)' = 0
        BY <2>3 DEF Pending
      <3>3. QED
        BY <2>1, <2>2, <3>1, <3>2
    <2>4. CASE o = ip
      <3>1. Pending(o, t)' <= IF Allows(requests[ip], time) /\ t - time < RateWindow THEN 1 ELSE 0
        BY <2>4 DEF Pending
      <3>2. Pending(o, t)' \in {0, 1}
        BY DEF Pending
      <3>3. Cardinality(Live(requests[o], t))
                  + (IF Allows(requests[ip], time) /\ t - time < RateWindow THEN 1 ELSE 0)
               <= Cardinality(Live(requests'[o], t))
        BY <1>4, <1>5, <1>10, <2>4
      <3>4. QED
        BY <2>1, <2>2, <3>1, <3>2, <3>3
    <2>5. QED
      BY <2>3, <2>4
  <1>11. ASSUME RateLimit # 0, pc' = "execute"
         PROVE  Cardinality(AdmittedInWindow(crashes, ip, time)) < RateLimit
    <2>1. Allows(requests[ip], time)
      BY <1>11
    <2>2. AdmittedInWindow(crashes, ip, time) = Recent(ip, time)
      BY InstantsAreNumbers DEF AdmittedInWindow, Recent, LInv, CallsInPast
    <2>3. Cardinality(Recent(ip, time)) <= Cardinality(Live(requests[ip], time))
      BY <1>3, <1>9, <1>11, CountsAreNumbers DEF LInv, LogCoversCalls
    <2>4. Cardinality(Live(requests[ip], time)) < RateLimit
      BY <1>11, <2>1 DEF Allows
    <2>5. QED
      BY <2>2, <2>3, <2>4, CountsAreNumbers, RateLimitAssumption
  <1>12. ASSUME RateLimit # 0 PROVE JobWithinLimit' /\ AdmissionsWithinLimit'
    <2>1. AdmissionsWithinLimit'
      BY <1>2, <1>12 DEF LInv, AdmissionsWithinLimit
    <2>2. pc' = "execute" => job'.from.ip = ip /\ job'.time = time
      OBVIOUS
    <2>3. QED
      BY <1>2, <1>11, <1>12, <2>1, <2>2 DEF JobWithinLimit
  <1>13. QED
    BY <1>6, <1>7, <1>10, <1>12 DEF LInv

\* The pending command becomes a call.
LEMMA ExecuteCallLInv ==
    ASSUME IInv, LInv, ExecuteCall
    PROVE  LInv'
  <1>1. PICK ok \in BOOLEAN : calls' = calls \cup {Invocation(ok)}
    BY DEF ExecuteCall
  <1> DEFINE new == Invocation(ok)
             ip == job.from.ip
  <1>2. /\ pc = "execute" /\ pc' = "respond"
        /\ UNCHANGED <<time, job, requests, crashes>>
    BY DEF ExecuteCall
  <1>3. /\ new.from = job.from /\ new.time = job.time /\ new.at = time
        /\ new.run = crashes /\ new.nth = Cardinality(calls)
    BY DEF Invocation
  <1>4. calls' = calls \cup {new}
    BY <1>1
  <1> HIDE DEF new
  <1>5. /\ job.time \in Nat /\ ip \in Ips /\ time \in Nat /\ crashes \in Nat
        /\ \A k \in calls : k.time \in Nat /\ k.at \in Nat /\ k.nth \in Nat
    BY <1>2, InstantsAreNumbers
  <1>6. LogsNumbered'
    BY <1>2 DEF LInv, LogsNumbered
  <1>7. /\ job.time <= time
        /\ \A k \in calls : k.run = crashes => k.time <= k.at /\ k.at <= job.time
    BY <1>2 DEF LInv, CallsInPast
  <1>8. CallsInPast'
    <2>1. IsFiniteSet(calls \cup {new})
      BY AddOne DEF LInv, CallsInPast
    <2>2. QED
      BY <1>2, <1>3, <1>4, <1>5, <1>7, <2>1 DEF LInv, CallsInPast
  <1>c. CallsSerial'
    <2>1. \A k \in calls : k.nth < Cardinality(calls)
      BY DEF LInv, CallsSerial
    <2>2. Cardinality(calls) \in Nat /\ IsFiniteSet(calls)
      BY FS_CardinalityType DEF LInv, CallsInPast
    <2>3. new \notin calls
      BY <1>3, <2>1, <2>2
    <2>4. Cardinality(calls') = Cardinality(calls) + 1
      BY <1>4, <2>2, <2>3, AddOne
    <2>5. \A k \in calls' : k.nth < Cardinality(calls')
      BY <1>3, <1>4, <1>5, <2>1, <2>2, <2>4
    <2>6. ASSUME NEW k \in calls', NEW l \in calls'
          PROVE  /\ k.nth = l.nth => k = l
                 /\ k.run = l.run /\ k.nth < l.nth => k.at <= l.time
      <3>1. CASE k \in calls /\ l \in calls
        BY <3>1 DEF LInv, CallsSerial
      <3>2. CASE k \in calls /\ l = new
        BY <1>3, <1>5, <1>7, <2>1, <2>2, <3>2
      <3>3. CASE k = new /\ l \in calls
        BY <1>3, <1>5, <2>1, <2>2, <3>3
      <3>4. CASE k = new /\ l = new
        BY <1>3, <2>2, <3>4
      <3>5. QED
        BY <1>4, <3>1, <3>2, <3>3, <3>4
    <2>7. QED
      BY <2>5, <2>6 DEF CallsSerial
  <1>9. ASSUME RateLimit # 0 PROVE LogCoversCalls'
    <2> SUFFICES ASSUME NEW o \in Ips, NEW t \in Nat, t >= time
                 PROVE  Cardinality(Recent(o, t)') + Pending(o, t)'
                           <= Cardinality(Live(requests[o], t))
      BY <1>2 DEF LogCoversCalls, Live
    <2>1. Cardinality(Recent(o, t)) + Pending(o, t) <= Cardinality(Live(requests[o], t))
      BY <1>9 DEF LInv, LogCoversCalls
    <2>2. Pending(o, t)' = 0
      BY <1>2 DEF Pending
    <2>3. /\ IsFiniteSet(Recent(o, t)) /\ Cardinality(Recent(o, t)) \in Nat
          /\ Cardinality(Live(requests[o], t)) \in Nat
      BY CountsAreNumbers
    <2>4. CASE ip = o /\ t - job.time < RateWindow
      <3>1. Pending(o, t) = 1
        BY <1>2, <2>4 DEF Pending
      <3>2. Recent(o, t)' = Recent(o, t) \cup {new}
        BY <1>2, <1>3, <1>4, <2>4 DEF Recent
      <3>3. Cardinality(Recent(o, t)') \in Nat
               /\ Cardinality(Recent(o, t)') <= Cardinality(Recent(o, t)) + 1
        BY <2>3, <3>2, AddOne
      <3>4. QED
        BY <2>1, <2>2, <2>3, <3>1, <3>3
    <2>5. CASE ~(ip = o /\ t - job.time < RateWindow)
      <3>1. Pending(o, t) = 0
        BY <2>5 DEF Pending
      <3>2. Recent(o, t)' = Recent(o, t)
        BY <1>2, <1>3, <1>4, <2>5 DEF Recent
      <3>3. QED
        BY <2>1, <2>2, <2>3, <3>1, <3>2
    <2>6. QED
      BY <2>4, <2>5
  <1>10. JobWithinLimit'
    BY <1>2 DEF JobWithinLimit
  <1>11. ASSUME RateLimit # 0 PROVE AdmissionsWithinLimit'
    <2> DEFINE before == AdmittedInWindow(crashes, ip, job.time)
    <2> SUFFICES ASSUME NEW run \in Nat, NEW o \in Ips, NEW t \in Nat
                 PROVE  Cardinality(AdmittedInWindow(run, o, t)') <= RateLimit
      BY DEF AdmissionsWithinLimit
    <2>1. Cardinality(AdmittedInWindow(run, o, t)) <= RateLimit
      BY <1>11 DEF LInv, AdmissionsWithinLimit
    <2>2. Cardinality(before) < RateLimit /\ IsFiniteSet(before)
      BY <1>2, <1>11, CountsAreNumbers DEF LInv, JobWithinLimit
    <2>3. CASE run = crashes /\ o = ip /\ job.time <= t /\ t - job.time < RateWindow
      <3>1. AdmittedInWindow(run, o, t)' = AdmittedInWindow(run, o, t) \cup {new}
        BY <1>3, <1>4, <2>3 DEF AdmittedInWindow
      <3>2. AdmittedInWindow(run, o, t) \subseteq before
        BY <1>5, <1>7, <2>3, RateWindowAssumption DEF AdmittedInWindow
      <3>3. AdmittedInWindow(run, o, t)' \subseteq before \cup {new}
        BY <3>1, <3>2
      <3>4. /\ IsFiniteSet(before \cup {new})
            /\ Cardinality(before \cup {new}) \in Nat /\ Cardinality(before) \in Nat
            /\ Cardinality(before \cup {new}) <= Cardinality(before) + 1
        BY <2>2, AddOne
      <3>5. /\ Cardinality(AdmittedInWindow(run, o, t)') \in Nat
            /\ Cardinality(AdmittedInWindow(run, o, t)') <= Cardinality(before \cup {new})
        BY <3>3, <3>4, FS_Subset, FS_CardinalityType
      <3>6. QED
        BY <2>2, <3>4, <3>5, RateLimitAssumption
    <2>4. CASE ~(run = crashes /\ o = ip /\ job.time <= t /\ t - job.time < RateWindow)
      <3>1. AdmittedInWindow(run, o, t)' = AdmittedInWindow(run, o, t)
        BY <1>3, <1>4, <2>4 DEF AdmittedInWindow
      <3>2. QED
        BY <2>1, <3>1
    <2>5. QED
      BY <2>3, <2>4
  <1>12. QED
    BY <1>6, <1>8, <1>c, <1>9, <1>10, <1>11 DEF LInv

\* A server that starts has an empty log and has made no calls.
LEMMA StartLInv ==
    ASSUME IInv, LInv, Start
    PROVE  LInv'
  <1>1. /\ pc = "down" /\ pc' = "recv"
        /\ requests' = [o \in Ips |-> {}]
        /\ UNCHANGED <<time, calls, crashes>>
    BY DEF Start
  <1>2. LogsNumbered' /\ CallsSerial'
    BY <1>1 DEF LogsNumbered, Numbered, LInv, CallsSerial
  <1>3. CallsInPast'
    BY <1>1 DEF LInv, CallsInPast
  <1>4. LogCoversCalls'
    <2> SUFFICES ASSUME NEW o \in Ips, NEW t \in Nat
                 PROVE  Cardinality(Recent(o, t)') + Pending(o, t)'
                           <= Cardinality(Live(requests[o], t)')
      BY DEF LogCoversCalls, Live
    <2>1. Recent(o, t)' = {} /\ Pending(o, t)' = 0 /\ Live(requests[o], t)' = {}
      BY <1>1 DEF LInv, CallsInPast, Recent, Pending, Live
    <2>2. QED
      BY <2>1, FS_EmptySet
  <1>5. JobWithinLimit'
    BY <1>1 DEF JobWithinLimit
  <1>6. ASSUME RateLimit # 0 PROVE AdmissionsWithinLimit'
    BY <1>1, <1>6 DEF LInv, AdmissionsWithinLimit, AdmittedInWindow
  <1>7. QED
    BY <1>2, <1>3, <1>4, <1>5, <1>6 DEF LInv

\* A crash begins a new run, which no call belongs to.
LEMMA CrashLInv ==
    ASSUME IInv, LInv, Crash
    PROVE  LInv'
  <1>1. /\ pc' = "down" /\ crashes' = crashes + 1
        /\ UNCHANGED <<time, calls, requests>>
    BY DEF Crash
  <1>2. /\ LogsNumbered' /\ CallsSerial' /\ JobWithinLimit'
        /\ RateLimit # 0 => AdmissionsWithinLimit'
    BY <1>1 DEF LInv, LogsNumbered, CallsSerial, JobWithinLimit, AdmissionsWithinLimit,
                AdmittedInWindow
  <1>3. crashes \in Nat /\ \A k \in calls : k.run \in Nat /\ k.run # crashes + 1
    BY DEF IInv, TypeOK, Invocations, LInv, CallsInPast
  <1>4. CallsInPast'
    BY <1>1, <1>3 DEF LInv, CallsInPast, IInv, TypeOK, Invocations
  <1>5. LogCoversCalls'
    <2> SUFFICES ASSUME NEW o \in Ips, NEW t \in Nat
                 PROVE  Cardinality(Recent(o, t)') + Pending(o, t)'
                           <= Cardinality(Live(requests[o], t))
      BY <1>1 DEF LogCoversCalls, Live
    <2>1. Recent(o, t)' = {} /\ Pending(o, t)' = 0
      BY <1>1, <1>3 DEF Recent, Pending
    <2>2. QED
      BY <2>1, FS_EmptySet, CountsAreNumbers
  <1>6. QED
    BY <1>2, <1>4, <1>5 DEF LInv

\* What the clients, the clocks and the network do.
LEMMA OthersLInv ==
    ASSUME IInv, LInv, ClientStep \/ SetClock \/ Tick \/ UNCHANGED vars
    PROVE  LInv'
  <1>1. UNCHANGED server /\ time' \in {time, time + 1}
    BY DEF ClientStep, Send, NotSent, TakeReply, ReceiveFails, ClientTimeout, SetClock, Tick, vars
  <1>2. QED
    BY <1>1, QuietLInv, InstantsAreNumbers DEF server

\* What the server does with a datagram.
LEMMA ReceivesLInv ==
    ASSUME IInv, LInv, ServerReceives
    PROVE  LInv'
  <1>1. PICK d \in Datagrams :
           \/ DropUnlisted(d) \/ DropOverLimit(d) \/ DropUnreadable(d)
           \/ RejectUnparsable(d) \/ DropExpired(d) \/ Accept(d)
    BY DEF ServerReceives
  <1>2. /\ Receive(d) /\ pc = "recv" /\ SourceIp(d) \in Ips
        /\ UNCHANGED <<time, calls, crashes>>
    BY <1>1, SourceType
       DEF DropUnlisted, DropOverLimit, DropUnreadable, RejectUnparsable, DropExpired,
           Accept, Admitted, Receive
  <1>3. CASE DropUnlisted(d)
    <2>1. requests' = requests /\ pc' = "recv" /\ time \in Nat
      BY <1>2, <1>3 DEF DropUnlisted, BackToRecv, IInv, TypeOK
    <2>2. QED
      BY <1>2, <2>1, QuietLInv
  <1>4. CASE DropOverLimit(d) \/ DropUnreadable(d) \/ RejectUnparsable(d) \/ DropExpired(d)
    <2>1. Record(SourceIp(d)) /\ pc' \in {"recv", "respond"}
      BY <1>2, <1>4 DEF DropOverLimit, DropUnreadable, RejectUnparsable, DropExpired,
                        Admitted, BackToRecv, Take
    <2>2. QED
      BY <1>2, <2>1, RecordLInv
  <1>5. CASE Accept(d)
    <2>1. /\ Record(SourceIp(d)) /\ Allows(requests[SourceIp(d)], time)
          /\ pc' = "execute"
          /\ job' = [cmd |-> d.cmd, from |-> d.from, wall |-> ServerClock, time |-> time]
      BY <1>5 DEF Accept, Admitted, Take
    <2>2. job'.time = time /\ job'.from.ip = SourceIp(d)
      BY <2>1 DEF SourceIp
    <2>3. QED
      BY <1>2, <2>1, <2>2, RecordLInv
  <1>6. QED
    BY <1>1, <1>3, <1>4, <1>5

\* The invariant of this module, together with that of Knock_proofs, holds in
\* every reachable state.
THEOREM LimitInvariant == Spec => []LInv
  <1>1. Init => LInv
    <2> SUFFICES ASSUME Init PROVE LInv
      OBVIOUS
    <2>1. LogsNumbered /\ CallsInPast /\ CallsSerial /\ JobWithinLimit
      BY FS_EmptySet DEF Init, LogsNumbered, Numbered, CallsInPast, CallsSerial, JobWithinLimit
    <2>a. AdmissionsWithinLimit
      <3>1. \A run, ip, t : AdmittedInWindow(run, ip, t) = {}
        BY DEF Init, AdmittedInWindow
      <3>2. QED
        BY <3>1, FS_EmptySet, RateLimitAssumption DEF AdmissionsWithinLimit
    <2>2. LogCoversCalls
      <3> SUFFICES ASSUME NEW o \in Ips, NEW t \in Nat
                   PROVE  Cardinality(Recent(o, t)) + Pending(o, t)
                             <= Cardinality(Live(requests[o], t))
        BY DEF LogCoversCalls
      <3>1. Recent(o, t) = {} /\ Pending(o, t) = 0 /\ Live(requests[o], t) = {}
        BY DEF Init, Recent, Pending, Live
      <3>2. QED
        BY <3>1, FS_EmptySet
    <2>3. QED
      BY <2>1, <2>a, <2>2 DEF LInv
  <1>2. IInv /\ LInv /\ [Next]_vars => LInv'
    <2> SUFFICES ASSUME IInv, LInv, [Next]_vars PROVE LInv'
      OBVIOUS
    <2>1. CASE ClientStep \/ SetClock \/ Tick \/ UNCHANGED vars
      BY <2>1, OthersLInv
    <2>2. CASE Start \/ Crash
      BY <2>2, StartLInv, CrashLInv
    <2>3. CASE ServerReceives
      BY <2>3, ReceivesLInv
    <2>4. CASE ExecuteCall
      BY <2>4, ExecuteCallLInv
    <2>5. CASE ExecuteIncomplete \/ Respond
      <3>1. /\ UNCHANGED <<time, calls, requests, crashes>>
            /\ pc' \in {"recv", "respond"} /\ time \in Nat
        BY <2>5 DEF ExecuteIncomplete, Respond, IInv, TypeOK
      <3>2. QED
        BY <3>1, QuietLInv
    <2>6. QED
      BY <2>1, <2>2, <2>3, <2>4, <2>5 DEF Next, ServerStep, Execute
  <1>3. QED
    BY <1>1, <1>2, InductiveInvariant, PTL DEF Spec

\* Of the calls a window holds, at most one was admitted before it began.
LEMMA WindowOfCalls ==
    ASSUME RateLimit # 0, IInv, LInv, NEW k \in calls
    PROVE  Cardinality({l \in calls : l.run = k.run /\ l.from.ip = k.from.ip /\ InWindowOf(l, k)})
              <= RateLimit + 1
  <1> DEFINE window == {l \in calls : l.run = k.run /\ l.from.ip = k.from.ip /\ InWindowOf(l, k)}
             admitted == AdmittedInWindow(k.run, k.from.ip, k.at)
             late == window \ admitted
  <1>1. /\ k.at \in Nat /\ k.run \in Nat /\ k.from.ip \in Ips
        /\ \A l \in calls : l.time \in Nat /\ l.at \in Nat /\ l.nth \in Nat
    BY InstantsAreNumbers
  <1>2. /\ IsFiniteSet(admitted) /\ Cardinality(admitted) \in Nat
        /\ Cardinality(admitted) <= RateLimit
    BY <1>1, CountsAreNumbers DEF LInv, AdmissionsWithinLimit
  <1>3. \A l \in late : l \in calls /\ l.run = k.run /\ k.at - l.at < RateWindow
                          /\ k.at - l.time >= RateWindow
    BY <1>1, RateWindowAssumption DEF AdmittedInWindow, InWindowOf, LInv, CallsInPast
  <1>4. ASSUME NEW l \in late, NEW m \in late PROVE l = m
    <2>1. ~(l.nth < m.nth) /\ ~(m.nth < l.nth)
      BY <1>1, <1>3, RateWindowAssumption DEF LInv, CallsSerial
    <2>2. QED
      BY <1>1, <1>3, <2>1 DEF LInv, CallsSerial
  <1>5. PICK x : window \subseteq admitted \cup {x}
    <2>1. CASE late = {}
      BY <2>1
    <2>2. CASE late # {}
      BY <1>4, <2>2
    <2>3. QED
      BY <2>1, <2>2
  <1>6. /\ IsFiniteSet(admitted \cup {x})
        /\ Cardinality(admitted \cup {x}) \in Nat
        /\ Cardinality(admitted \cup {x}) <= Cardinality(admitted) + 1
    BY <1>2, AddOne
  <1>7. Cardinality(window) \in Nat /\ Cardinality(window) <= Cardinality(admitted \cup {x})
    BY <1>5, <1>6, FS_Subset, FS_CardinalityType
  <1>8. QED
    BY <1>2, <1>6, <1>7, RateLimitAssumption

\* However many datagrams are duplicated and whatever else is sent, the firewall
\* calls one run makes for one source address stay, in every window they are made
\* in, within the limit and one.
THEOREM CallsAreLimited == Spec => []CallsWithinLimit
  <1>1. IInv /\ LInv => CallsWithinLimit
    BY WindowOfCalls DEF CallsWithinLimit
  <1>2. QED
    BY <1>1, InductiveInvariant, LimitInvariant, PTL
------------------------------------------------------------------------------
(***************************************************************************)
(* How often a datagram can be carried out.  The time stamp does not keep  *)
(* duplicates out; what limits those that show one address is that they    *)
(* all arrive within the time the stamp is accepted, and the limiter       *)
(* counts them as requests of this address.  For that the time must fit    *)
(* into the limiter's window.  Copies that show other addresses are        *)
(* counted for those.                                                      *)
(***************************************************************************)

\* A stamp is accepted for less than the limiter's window: with the 30 and 60
\* seconds of the code, the client's clock is less than 30 seconds ahead.
ClocksClose ==
    \A p \in Profiles, off \in Offsets : ReplayWindow + p.skew - off < RateWindow

\* The calls one run of the server made for the command c as it came from ip.
CallsOf(c, ip, run) == {k \in calls : k.cmd = c /\ k.from.ip = ip /\ k.run = run}

\* Nothing is done for a command before it was sent.
CallsFollowOrders ==
    /\ \A c \in Cmds : order[c] # NoOrder => order[c].sentAt <= time
    /\ pc = "execute" => order[job.cmd].sentAt <= job.time
    /\ \A k \in calls : order[k.cmd].sentAt <= k.time

\* However often the network delivers a datagram under an address, the server
\* carries it out no more often than the limiter admits requests in one window.
ReplaysAreBounded ==
    \A c \in Cmds : order[c] # NoOrder /\ order[c].sentAt + order[c].what.skew >= 0 =>
        \A ip \in Ips, run \in Nat : Cardinality(CallsOf(c, ip, run)) <= RateLimit

RInv == CallsFollowOrders /\ ReplaysAreBounded

\* A step that makes no call; orders once given and the job stay as they are.
LEMMA NoCallRInv ==
    ASSUME IInv, RInv, calls' = calls, time' >= time, time' \in Nat,
           \A c \in Cmds : \/ order'[c] = order[c]
                           \/ order[c] = NoOrder /\ order'[c].sentAt = time,
           \/ /\ pc' = "execute" /\ job'.cmd \in Cmds /\ order[job'.cmd] # NoOrder
              /\ \/ job' = job /\ pc = "execute"
                 \/ job'.time = time
           \/ pc' # "execute"
    PROVE  RInv'
  <1>1. time \in Nat /\ \A c \in Cmds : order[c] # NoOrder => order[c].sentAt \in Nat
    BY DEF IInv, TypeOK, Orders
  <1>2. \A k \in calls : k.cmd \in Cmds /\ order[k.cmd] # NoOrder
    BY DEF IInv, TypeOK, Invocations, CalledInWindow, Trusted
  <1>3. CallsFollowOrders'
    <2>1. ASSUME NEW c \in Cmds, order'[c] # NoOrder PROVE order'[c].sentAt <= time'
      BY <1>1, <2>1 DEF RInv, CallsFollowOrders
    <2>2. ASSUME pc' = "execute" PROVE order'[job'.cmd].sentAt <= job'.time
      BY <1>1, <2>2 DEF RInv, CallsFollowOrders
    <2>3. ASSUME NEW k \in calls PROVE order'[k.cmd].sentAt <= k.time
      BY <1>2 DEF RInv, CallsFollowOrders
    <2>4. QED
      BY <2>1, <2>2, <2>3 DEF CallsFollowOrders
  <1>4. ReplaysAreBounded'
    <2> SUFFICES ASSUME NEW c \in Cmds, order'[c] # NoOrder,
                        order'[c].sentAt + order'[c].what.skew >= 0,
                        NEW ip \in Ips, NEW run \in Nat
                 PROVE  Cardinality(CallsOf(c, ip, run)') <= RateLimit
      BY DEF ReplaysAreBounded
    <2>1. CallsOf(c, ip, run)' = CallsOf(c, ip, run)
      BY DEF CallsOf
    <2>2. CASE order'[c] = order[c]
      BY <2>1, <2>2 DEF RInv, ReplaysAreBounded
    <2>3. CASE order[c] = NoOrder
      <3>1. CallsOf(c, ip, run) = {}
        BY <1>2, <2>3 DEF CallsOf
      <3>2. QED
        BY <2>1, <3>1, FS_EmptySet, RateLimitAssumption
    <2>4. QED
      BY <2>2, <2>3
  <1>5. QED
    BY <1>3, <1>4 DEF RInv

\* A call is made while the limiter still remembers all earlier ones for the
\* same command, and admitted the command on top of them.
LEMMA ExecuteCallRInv ==
    ASSUME RateLimit # 0, ClocksClose, IInv, IInv', LInv, RInv, ExecuteCall
    PROVE  RInv'
  <1>1. PICK ok \in BOOLEAN : calls' = calls \cup {Invocation(ok)}
    BY DEF ExecuteCall
  <1> DEFINE new == Invocation(ok)
  <1>2. /\ pc = "execute" /\ pc' = "respond"
        /\ UNCHANGED <<time, order, job, crashes>>
    BY DEF ExecuteCall, clients
  <1>3. /\ new.cmd = job.cmd /\ new.from = job.from
        /\ new.time = job.time /\ new.run = crashes
    BY DEF Invocation
  <1>4. calls' = calls \cup {new}
    BY <1>1
  <1> HIDE DEF new
  <1>5. CallsFollowOrders'
    BY <1>2, <1>3, <1>4 DEF RInv, CallsFollowOrders
  <1>6. ASSUME NEW c \in Cmds, order[c] # NoOrder,
               order[c].sentAt + order[c].what.skew >= 0,
               NEW ip \in Ips, NEW run \in Nat
        PROVE  Cardinality(CallsOf(c, ip, run)') <= RateLimit
    <2>1. Cardinality(CallsOf(c, ip, run)) <= RateLimit
      BY <1>6 DEF RInv, ReplaysAreBounded
    <2>2. CASE c = job.cmd /\ ip = job.from.ip /\ run = crashes
      <3> DEFINE before == AdmittedInWindow(crashes, job.from.ip, job.time)
      <3>1. /\ order[c].sentAt \in Nat /\ order[c].what \in Profiles
            /\ order[c].what.skew \in Int /\ job.time \in Nat
        BY <1>2, <1>6, ProfilesAssumption DEF IInv, TypeOK, Orders, JobChecked, Jobs
      <3>2. PICK off \in Offsets :
               job.time - order[c].sentAt <= ReplayWindow + order[c].what.skew - off
        BY <1>2, <1>3, <1>4, <1>6, <2>2 DEF IInv, FreshInRealTime
      <3>3. off \in Int /\ ReplayWindow \in Nat
        BY ClocksAssumption
      <3>4. ReplayWindow + order[c].what.skew - off < RateWindow
        BY <3>1 DEF ClocksClose
      <3>5. job.time - order[c].sentAt < RateWindow
        BY <3>1, <3>2, <3>3, <3>4, RateWindowAssumption
      <3>6. CallsOf(c, ip, run) \subseteq before
        <4>1. SUFFICES ASSUME NEW k \in CallsOf(c, ip, run) PROVE k \in before
          OBVIOUS
        <4>2. k \in calls /\ k.cmd = job.cmd /\ k.from.ip = ip /\ k.run = crashes
          BY <2>2 DEF CallsOf
        <4>3. k.time <= job.time
          BY <1>2, <3>1, <4>2, InstantsAreNumbers DEF LInv, CallsInPast
        <4>4. order[c].sentAt <= k.time /\ k.time \in Nat
          BY <2>2, <4>2 DEF RInv, CallsFollowOrders, IInv, TypeOK, Invocations
        <4>5. job.time - k.time < RateWindow
          BY <3>1, <3>5, <4>3, <4>4, RateWindowAssumption
        <4>6. QED
          BY <2>2, <4>2, <4>3, <4>5 DEF AdmittedInWindow
      <3>7. /\ IsFiniteSet(before) /\ Cardinality(before) \in Nat
            /\ Cardinality(before) < RateLimit
        BY <1>2, CountsAreNumbers DEF LInv, JobWithinLimit
      <3>8. CallsOf(c, ip, run)' = CallsOf(c, ip, run) \cup {new}
        BY <1>3, <1>4, <2>2 DEF CallsOf
      <3>9. /\ IsFiniteSet(CallsOf(c, ip, run)) /\ Cardinality(CallsOf(c, ip, run)) \in Nat
            /\ Cardinality(CallsOf(c, ip, run)) <= Cardinality(before)
        BY <3>6, <3>7, FS_Subset, FS_CardinalityType
      <3>10. Cardinality(CallsOf(c, ip, run) \cup {new}) \in Nat
             /\ Cardinality(CallsOf(c, ip, run) \cup {new}) <= Cardinality(CallsOf(c, ip, run)) + 1
        BY <3>9, AddOne
      <3>11. QED
        BY <3>7, <3>8, <3>9, <3>10, RateLimitAssumption
    <2>3. CASE ~(c = job.cmd /\ ip = job.from.ip /\ run = crashes)
      <3>1. CallsOf(c, ip, run)' = CallsOf(c, ip, run)
        BY <1>3, <1>4, <2>3 DEF CallsOf
      <3>2. QED
        BY <2>1, <3>1
    <2>4. QED
      BY <2>2, <2>3
  <1>7. QED
    BY <1>2, <1>5, <1>6 DEF RInv, ReplaysAreBounded

\* Every other step makes no call.
LEMMA OthersRInv ==
    ASSUME IInv, RInv, [Next]_vars, ~ExecuteCall
    PROVE  RInv'
  <1>1. time \in Nat
    BY DEF IInv, TypeOK
  <1>2. pc = "execute" => job.cmd \in Cmds /\ order[job.cmd] # NoOrder
    BY DEF IInv, JobChecked, Jobs, Trusted
  <1>3. ASSUME NEW c \in Cmds, Send(c) PROVE RInv'
    <2>1. /\ order[c] = NoOrder /\ order'[c].sentAt = time
          /\ \A d \in Cmds : d # c => order'[d] = order[d]
      <3>1. PICK p \in Profiles, port \in Ports :
               order' = [order EXCEPT ![c] = [what |-> p, stamp |-> Clock(time + p.skew),
                                              port |-> port, sentAt |-> time]]
        BY <1>3 DEF Send
      <3>2. order'[c].sentAt = time
        BY <3>1 DEF IInv, TypeOK
      <3>3. QED
        BY <1>3, <3>2, SendKeepsOrders
    <2>2. UNCHANGED <<time, calls, pc, job>>
      BY <1>3 DEF Send, server
    <2>3. QED
      BY <1>1, <1>2, <2>1, <2>2, NoCallRInv
  <1>4. ASSUME NEW c \in Cmds,
               NotSent(c) \/ TakeReply(c) \/ ReceiveFails(c) \/ ClientTimeout(c)
        PROVE  RInv'
    <2>1. UNCHANGED <<time, order, calls, pc, job>>
      BY <1>4 DEF NotSent, TakeReply, ReceiveFails, ClientTimeout, server
    <2>2. QED
      BY <1>1, <1>2, <2>1, NoCallRInv
  <1>5. ASSUME NEW d \in Datagrams,
               DropUnlisted(d) \/ DropOverLimit(d) \/ DropUnreadable(d) \/ DropExpired(d)
        PROVE  RInv'
    <2>1. UNCHANGED <<time, order, calls, pc, job>>
      BY <1>5 DEF DropUnlisted, DropOverLimit, DropUnreadable, DropExpired, Admitted,
                  Receive, BackToRecv, clients
    <2>2. QED
      BY <1>1, <1>2, <2>1, NoCallRInv
  <1>6. ASSUME NEW d \in Datagrams, RejectUnparsable(d) \/ Accept(d) PROVE RInv'
    <2>1. /\ UNCHANGED <<time, order, calls>> /\ Receive(d)
          /\ job' = [cmd |-> d.cmd, from |-> d.from, wall |-> ServerClock, time |-> time]
      BY <1>6 DEF RejectUnparsable, Accept, Admitted, Receive, Take, clients
    <2>2. job'.cmd = d.cmd /\ job'.time = time
      BY <2>1
    <2>3. d.cmd \in Cmds /\ order[d.cmd] # NoOrder
      BY <2>1, SourceType
    <2>4. QED
      BY <1>1, <2>1, <2>2, <2>3, NoCallRInv
  <1>7. ASSUME Start \/ ExecuteIncomplete \/ Respond \/ Crash PROVE RInv'
    <2>1. UNCHANGED <<time, order, calls>> /\ pc' # "execute"
      BY <1>7 DEF Start, ExecuteIncomplete, Respond, Crash, clients
    <2>2. QED
      BY <1>1, <2>1, NoCallRInv
  <1>8. ASSUME SetClock \/ Tick \/ UNCHANGED vars PROVE RInv'
    <2>1. UNCHANGED <<order, calls, pc, job>> /\ time' \in {time, time + 1}
      BY <1>8 DEF SetClock, Tick, vars, clients, server
    <2>2. time' \in Nat /\ time' >= time
      BY <1>1, <2>1
    <2>3. QED
      BY <1>2, <2>1, <2>2, NoCallRInv
  <1>9. QED
    BY <1>3, <1>4, <1>5, <1>6, <1>7, <1>8 DEF Next, ClientStep, ServerStep, ServerReceives, Execute

(***************************************************************************)
(* The counterpart of CalledAtMostOnce, which the code does not keep: with *)
(* a limit, and with clocks close enough for the window of the stamps to   *)
(* lie within that of the limiter, one run of the server carries a command *)
(* out at most RateLimit times for each address its copies show, whatever  *)
(* the network duplicates.  Over all addresses it is RateLimit times for   *)
(* each address the whitelist lets in.                                     *)
(***************************************************************************)
THEOREM ReplaysAreLimited ==
    RateLimit # 0 /\ ClocksClose /\ Spec => []ReplaysAreBounded
  <1>1. Init => RInv
    BY DEF Init, RInv, CallsFollowOrders, ReplaysAreBounded
  <1>2. RateLimit # 0 /\ ClocksClose /\ IInv /\ IInv' /\ LInv /\ RInv /\ [Next]_vars => RInv'
    BY ExecuteCallRInv, OthersRInv
  <1>3. RInv => ReplaysAreBounded
    BY DEF RInv
  <1>4. ASSUME RateLimit # 0, ClocksClose PROVE Spec => []ReplaysAreBounded
    <2>1. IInv /\ IInv' /\ LInv /\ RInv /\ [Next]_vars => RInv'
      BY <1>2, <1>4
    <2>2. QED
      BY <1>1, <2>1, <1>3, InductiveInvariant, LimitInvariant, PTL DEF Spec
  <1>5. QED
    BY <1>4
==============================================================================
