------------------------------ MODULE MCDelivery ------------------------------
(***************************************************************************)
(* Instances of module Delivery for TLC.                                   *)
(***************************************************************************)
EXTENDS Delivery

CONSTANTS a, b
ToOneOrBoth == {{a}, {a, b}}
=============================================================================
