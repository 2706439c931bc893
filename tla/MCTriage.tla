------------------------------- MODULE MCTriage -------------------------------
(***************************************************************************)
(* Instances of module Triage for TLC.                                     *)
(***************************************************************************)
EXTENDS Triage, TLC
=============================================================================
