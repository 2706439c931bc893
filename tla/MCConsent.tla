------------------------------ MODULE MCConsent ------------------------------
(* Small instances of Consent. *)
EXTENDS Consent, TLC

CONSTANTS k1, t1, t2

\* The texts: t1 mentions the key, t2 does not.
MCNamedIn == t1 :> {k1} @@ t2 :> {}
MCOneText == t1 :> {k1}

Linked   == [proc |-> TRUE, pinKey |-> k1, wantsDecision |-> TRUE]
Unlinked == [proc |-> TRUE, pinKey |-> NoKey, wantsDecision |-> TRUE]
Plain    == [proc |-> FALSE, pinKey |-> NoKey, wantsDecision |-> TRUE]

LinkedOnly        == {Linked}
LinkedOrUnlinked  == {Linked, Unlinked}
AnyShape          == {Linked, Unlinked, Plain}

Symmetry == Permutations(Role)
=============================================================================
