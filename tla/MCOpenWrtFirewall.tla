-------------------------- MODULE MCOpenWrtFirewall --------------------------
(***************************************************************************)
(* OpenWrtFirewall on a small instance.                                    *)
(***************************************************************************)
EXTENDS OpenWrtFirewall, TLC

Symmetry == Permutations(Names)
==============================================================================
