------------------------------ MODULE MCStopHook ------------------------------
(***************************************************************************)
(* Instances of module StopHook for TLC.                                   *)
(***************************************************************************)
EXTENDS StopHook
=============================================================================
