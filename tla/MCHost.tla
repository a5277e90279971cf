-------------------------------- MODULE MCHost --------------------------------
(***************************************************************************)
(* Host on a small instance.                                               *)
(***************************************************************************)
EXTENDS Host, TLC

Symmetry == Permutations(Names)
==============================================================================
