---------------------------- MODULE MCObligations ----------------------------
(***************************************************************************)
(* Instances of module Obligations for TLC.                                *)
(***************************************************************************)
EXTENDS Obligations, TLC

Symmetry == Permutations(Role)
=============================================================================
