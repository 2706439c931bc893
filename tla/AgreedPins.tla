------------------------------ MODULE AgreedPins ------------------------------
(***************************************************************************)
(* What a channel's pins promise, without clocks, events, nudges or        *)
(* retirement: a version of a contract is written only on a proposal that  *)
(* everyone it needs agrees to as it is worded at that moment, and each    *)
(* proposal is spent on one version.  Module Consent implements it.        *)
(***************************************************************************)
EXTENDS Naturals, Sequences

CONSTANTS Role, Key, Reserved, Proposal

VARIABLES
  quorums,    \* Proposal -> the sets of roles each of which suffices; {}: not made yet
  agreeing,   \* Proposal -> the roles that agree to it as it is worded now
  withdrawn,  \* the proposals taken back
  ledger      \* the versions written: <<key, proposal>>; free writes have no proposal

vars == <<quorums, agreeing, withdrawn, ledger>>

Spent(p)    == \E i \in DOMAIN ledger : ledger[i][2] = {p}
Contract(k) == k \in Reserved \/ \E i \in DOMAIN ledger : ledger[i][1] = k /\ ledger[i][2] # {}
Made(p)     == quorums[p] # {} /\ p \notin withdrawn

Init ==
  /\ quorums = [p \in Proposal |-> {}]
  /\ agreeing = [p \in Proposal |-> {}]
  /\ withdrawn = {}
  /\ ledger = <<>>

Propose(p, q) ==
  /\ quorums[p] = {}
  /\ q # {} /\ {} \notin q
  /\ quorums' = [quorums EXCEPT ![p] = q]
  /\ UNCHANGED <<agreeing, withdrawn, ledger>>

Decide(p, r, yes) ==
  /\ Made(p)
  /\ agreeing' = [agreeing EXCEPT ![p] = IF yes THEN @ \cup {r} ELSE @ \ {r}]
  /\ UNCHANGED <<quorums, withdrawn, ledger>>

\* New words: whoever agreed, agreed to the old ones.
Reword(p) ==
  /\ Made(p) /\ ~Spent(p)
  /\ agreeing' = [agreeing EXCEPT ![p] = {}]
  /\ UNCHANGED <<quorums, withdrawn, ledger>>

Withdraw(p) ==
  /\ Made(p) /\ ~Spent(p)
  /\ withdrawn' = withdrawn \cup {p}
  /\ UNCHANGED <<quorums, agreeing, ledger>>

WriteAgreed(k, p) ==
  /\ Made(p) /\ ~Spent(p)
  /\ \E q \in quorums[p] : q \subseteq agreeing[p]
  /\ ledger' = Append(ledger, <<k, {p}>>)
  /\ UNCHANGED <<quorums, agreeing, withdrawn>>

WriteFree(k) ==
  /\ ~Contract(k)
  /\ ledger' = Append(ledger, <<k, {}>>)
  /\ UNCHANGED <<quorums, agreeing, withdrawn>>

Next ==
  \/ \E p \in Proposal, q \in SUBSET SUBSET Role : Propose(p, q)
  \/ \E p \in Proposal, r \in Role, yes \in BOOLEAN : Decide(p, r, yes)
  \/ \E p \in Proposal : Reword(p) \/ Withdraw(p)
  \/ \E k \in Key : WriteFree(k) \/ \E p \in Proposal : WriteAgreed(k, p)

Spec == Init /\ [][Next]_vars
=============================================================================
