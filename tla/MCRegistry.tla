------------------------------ MODULE MCRegistry ------------------------------
(***************************************************************************)
(* Instances of module Registry for TLC.                                   *)
(***************************************************************************)
EXTENDS Registry

Symmetry == Permutations(Caller)
=============================================================================
