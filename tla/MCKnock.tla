------------------------------- MODULE MCKnock -------------------------------
(***************************************************************************)
(* Knock on small instances.  The profiles cover what the checks of the    *)
(* server tell apart; the datagrams show any address, whoever made them.   *)
(***************************************************************************)
EXTENDS Knock, TLC

CONSTANTS c1, c2

MCCmds == {c1, c2}
MCIps == {"lan", "wan"}
MCKeys == {"psk", "other"}

Profile(ip, key, shape, timeout, skew) ==
    [ip |-> ip, key |-> key, shape |-> shape, timeout |-> timeout, skew |-> skew]

MCProfiles ==
    { Profile("lan", "psk", "call", 1, 0),
      Profile("wan", "psk", "call", 1, 2),
      Profile("lan", "psk", "foreign", 1, 0),
      Profile("lan", "other", "call", 1, -1) }

MCOffsets == {0, 1}

\* For liveness: how a command ends matters, not why it is dropped.  A timeout
\* of 0 is what `-t 0` asks for.
MCLiveProfiles ==
    { Profile("lan", "psk", "call", 1, 0),
      Profile("lan", "psk", "incomplete", 2, 0),
      Profile("lan", "psk", "call", 0, 0) }

Symmetry == Permutations(MCCmds)
==============================================================================
