---------------------------- MODULE MCInterChain ----------------------------
(***************************************************************************)
(* InterChain for TLC.                                                     *)
(***************************************************************************)
EXTENDS InterChain, TLC

CONSTANTS n1, n2

Symmetry == Permutations(Nodes)
=============================================================================
