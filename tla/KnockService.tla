---------------------------- MODULE KnockService -----------------------------
(***************************************************************************)
(* What udp-knock promises, without sockets, ciphers or a limiter.         *)
(*                                                                         *)
(* A user issues commands, each an order made at some moment with a time   *)
(* stamp.  The firewall behind the server is called for an order           *)
(*   - only if the order was issued under the server's key, and says       *)
(*     completely what to do;                                              *)
(*   - only when it arrives from a permitted address;                      *)
(*   - only while the server's clock is within ReplayWindow of the stamp.  *)
(* A command is reported exactly once.  It is reported as a success only   *)
(* after a firewall call that succeeded, made for an order that arrived    *)
(* from the command's own address.                                         *)
(*                                                                         *)
(* The service does not promise that a call is made at all, nor that it is *)
(* made once: UDP may lose a command, and it may deliver it twice.  Nor    *)
(* does it promise that an order arrives from the address of who issued    *)
(* it: whoever sends a copy on shows an address of his own.                *)
(***************************************************************************)
EXTENDS Integers

CONSTANTS Cmds,            \* the commands
          Profiles,        \* what a command can be: ip, key, shape, ...
          Ports,           \* the sender's ports
          PermittedIps,    \* the addresses that may talk to the server
          ServerKey,       \* the server's pre-shared key
          ReplayWindow,    \* seconds a stamp stays valid
          NoOrder          \* the order of a command not yet issued

VARIABLES order,    \* order[c]: what was issued, from which port, when
          status,   \* status[c]: "idle", "waiting" or the report
          calls     \* the firewall calls made so far

vars == <<order, status, calls>>

Orders == [what : Profiles, stamp : Nat, port : Ports, sentAt : Nat]
Calls == [cmd : Cmds, from : [ip : PermittedIps, port : Ports], wall : Nat, ok : BOOLEAN]
Reports == {"succeeded", "refused", "timedout", "aborted"}

Sender(c) == [ip |-> order[c].what.ip, port |-> order[c].port]

Init ==
    /\ order = [c \in Cmds |-> NoOrder]
    /\ status = [c \in Cmds |-> "idle"]
    /\ calls = {}

Issue(c) ==
    /\ status[c] = "idle"
    /\ status' = [status EXCEPT ![c] = "waiting"]
    /\ order'[c] \in Orders
    /\ order' = [order EXCEPT ![c] = order'[c]]
    /\ UNCHANGED calls

Entitled(c) ==
    /\ order[c] # NoOrder
    /\ order[c].what.key = ServerKey
    /\ order[c].what.shape = "call"

Fresh(c, wall) == wall - order[c].stamp \in -ReplayWindow .. ReplayWindow

Call(c) ==
    /\ Entitled(c)
    /\ \E k \in calls' :
          /\ k \in Calls
          /\ k.cmd = c
          /\ Fresh(c, k.wall)
          /\ calls' = calls \cup {k}
    /\ UNCHANGED <<order, status>>

CallSucceeded(c) == \E k \in calls : k.ok /\ k.from = Sender(c)

Report(c) ==
    /\ \/ status[c] = "waiting" /\ status'[c] \in Reports
       \/ status[c] = "idle" /\ status'[c] = "aborted"
    /\ status'[c] = "succeeded" => CallSucceeded(c)
    /\ status' = [status EXCEPT ![c] = status'[c]]
    /\ UNCHANGED <<order, calls>>

Next == \E c \in Cmds : Issue(c) \/ Call(c) \/ Report(c)

Spec == Init /\ [][Next]_vars
==============================================================================
