------------------------------- MODULE DebtLoop -------------------------------
(***************************************************************************)
(* What a channel promises about a debt, without event logs, work statuses *)
(* or lists: it takes both of its parties to get rid of it.  One of them   *)
(* closes it, the other one agrees that it is closed, and either may       *)
(* dispute that.  Module Obligations implements it.                        *)
(***************************************************************************)
CONSTANTS Role, Debt

VARIABLES
  stage,     \* Debt -> "not raised", "raised" or "forgotten"
  parties,   \* Debt -> the two roles it is between
  closedBy   \* Debt -> those of them who say that it is closed

vars == <<stage, parties, closedBy>>

Init ==
  /\ stage = [d \in Debt |-> "not raised"]
  /\ parties = [d \in Debt |-> {}]
  /\ closedBy = [d \in Debt |-> {}]

Raise(d, owed, owing) ==
  /\ stage[d] = "not raised"
  /\ owed # owing
  /\ stage' = [stage EXCEPT ![d] = "raised"]
  /\ parties' = [parties EXCEPT ![d] = {owed, owing}]
  /\ UNCHANGED closedBy

Close(d, r) ==
  /\ stage[d] = "raised" /\ r \in parties[d] \ closedBy[d]
  /\ closedBy' = [closedBy EXCEPT ![d] = @ \cup {r}]
  /\ UNCHANGED <<stage, parties>>

Dispute(d) ==
  /\ stage[d] = "raised" /\ closedBy[d] # {}
  /\ closedBy' = [closedBy EXCEPT ![d] = {}]
  /\ UNCHANGED <<stage, parties>>

Forget(d) ==
  /\ stage[d] = "raised" /\ closedBy[d] = parties[d]
  /\ stage' = [stage EXCEPT ![d] = "forgotten"]
  /\ UNCHANGED <<parties, closedBy>>

Next == \E d \in Debt :
  \/ \E owed, owing \in Role : Raise(d, owed, owing)
  \/ \E r \in Role : Close(d, r)
  \/ Dispute(d) \/ Forget(d)

Spec == Init /\ [][Next]_vars
=============================================================================
