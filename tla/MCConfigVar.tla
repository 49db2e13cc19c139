---------------------------- MODULE MCConfigVar ----------------------------
(***************************************************************************)
(* Instances of ConfigVar for TLC.                                         *)
(***************************************************************************)
EXTENDS ConfigVar, TLC

Symmetry == Permutations(Threads) \cup Permutations(Vars) \cup Permutations(Listeners)
=============================================================================
