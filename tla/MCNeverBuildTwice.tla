-------------------------- MODULE MCNeverBuildTwice --------------------------
(***************************************************************************)
(* Instances of NeverBuildTwice for TLC.                                   *)
(***************************************************************************)
EXTENDS NeverBuildTwice, TLC

Symmetry == Permutations(Callers)
=============================================================================
