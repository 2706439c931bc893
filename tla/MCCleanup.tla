------------------------------ MODULE MCCleanup ------------------------------
(***************************************************************************)
(* Instances of module Cleanup for TLC.                                    *)
(***************************************************************************)
EXTENDS Cleanup, TLC

CONSTANTS k1, k2, t

\* A text that mentions both keys and cites message 1.
MCNamedIn == t :> {k1, k2}
MCCitedIn == t :> {1}

Linked   == [proc |-> TRUE, pinKey |-> k1, wantsDecision |-> TRUE]
Unlinked == [proc |-> TRUE, pinKey |-> NoKey, wantsDecision |-> TRUE]

MCDrafts == {Linked, Unlinked}

Symmetry == Permutations(Role)
=============================================================================
