------------------------------- MODULE MCWatch -------------------------------
(***************************************************************************)
(* Instances of module Watch for TLC.                                      *)
(***************************************************************************)
EXTENDS Watch, TLC

CONSTANTS w1, w2, t1, t2
MCTwoTokens == w1 :> t1 @@ w2 :> t2
=============================================================================
