-------------------------------- MODULE Access --------------------------------
(***************************************************************************)
(* What the registry of a channel promises, without rows, transactions and *)
(* clocks: whatever is asked for is done at once and completely, a role    *)
(* has one token, and a token or key is never again what it once was.      *)
(* Module Registry implements it.                                          *)
(***************************************************************************)
CONSTANTS
  Role,
  Founders,   \* those that the channel begins with
  Token,      \* all tokens and keys that there can be
  Admin       \* whose keys are revoked only by name

VARIABLES
  channel,   \* "absent", "live" or "deleted"
  holder,    \* Role -> the tokens that work for it
  asker,     \* Token -> who asked for the key
  stage      \* Token -> how far it has come; a key begins as a link

vars == <<channel, holder, asker, stage>>

Unissued == {t \in Token : stage[t] = "unissued"}
Key      == {t \in Token : stage[t] \in {"link", "session", "shut"}}
Trusted(who) == who = Admin \/ (who \in Token /\ stage[who] = "held")

\* No two roles share a token, and those that are held are held by somebody.
Distributed(h, s) ==
  /\ \A r, o \in Role : r # o => h[r] \cap h[o] = {}
  /\ \A t \in Token : s[t] = "held" <=> \E r \in Role : t \in h[r]
OneEach(h, R) ==
  \A r \in Role : IF r \in R THEN \E t \in Token : h[r] = {t} ELSE h[r] = {}

\* In time nothing comes in by a link or a session.
Ages(t) == stage'[t] = stage[t] \/ (stage[t] \in {"link", "session"} /\ stage'[t] = "shut")
Goes(t) == stage'[t] = stage[t] \/ (t \in Key /\ stage'[t] = "revoked")

-----------------------------------------------------------------------------
\* A key from before the channel was looked at is a link, and its asker is trusted.
Init ==
  \/ /\ channel = "absent"
     /\ holder = [r \in Role |-> {}]
     /\ stage = [t \in Token |-> "unissued"]
     /\ \A t \in Token : asker[t] = Admin
  \/ /\ channel = "live"
     /\ OneEach(holder, Founders) /\ Distributed(holder, stage)
     /\ \A t \in Token : /\ stage[t] \in {"unissued", "held", "link"}
                         /\ t \in Key => Trusted(asker[t])

\* All founders get a token, or nobody does.
Found ==
  /\ channel = "absent" /\ channel' = "live"
  /\ OneEach(holder', Founders) /\ Distributed(holder', stage')
  /\ \A t \in Token : stage'[t] = stage[t] \/ (t \in Unissued /\ stage'[t] = "held")
  /\ UNCHANGED asker

Add(r, new) ==
  /\ channel = "live" /\ holder[r] = {} /\ new \in Unissued
  /\ holder' = [holder EXCEPT ![r] = {new}]
  /\ stage' = [stage EXCEPT ![new] = "held"]
  /\ UNCHANGED <<channel, asker>>

\* The old token goes when the new one comes, with every key that it asked for.
Rotate(r, old, new) ==
  /\ channel = "live" /\ holder[r] = {old} /\ new \in Unissued
  /\ holder' = [holder EXCEPT ![r] = {new}]
  /\ stage'[old] = "revoked" /\ stage'[new] = "held"
  /\ \A t \in Token \ {old, new} :
        IF t \in Key /\ asker[t] = old THEN stage'[t] = "revoked" ELSE Ages(t) \/ Goes(t)
  /\ UNCHANGED <<channel, asker>>

\* The key of an asker who is trusted no longer never works.
Offer(who, new) ==
  /\ channel = "live" /\ new \in Unissued
  /\ asker' = [asker EXCEPT ![new] = who]
  /\ stage'[new] = IF Trusted(who) THEN "link" ELSE "revoked"
  /\ \A t \in Token \ {new} : Goes(t)
  /\ UNCHANGED <<channel, holder>>

\* The only way to a session is its link.
Open(key) ==
  /\ channel = "live"
  /\ stage[key] = "link" /\ stage'[key] = "session"
  /\ \A t \in Token \ {key} : Ages(t)
  /\ UNCHANGED <<channel, holder, asker>>

Age == (\A t \in Token : Ages(t)) /\ UNCHANGED <<channel, holder, asker>>

RevokeKeys ==
  /\ stage' = [t \in Token |-> IF t \in Key THEN "revoked" ELSE stage[t]]
  /\ UNCHANGED <<channel, holder, asker>>

Delete ==
  /\ channel = "live" /\ channel' = "deleted"
  /\ holder' = [r \in Role |-> {}]
  /\ stage' = [t \in Token |-> IF t \in Unissued THEN "unissued" ELSE "revoked"]
  /\ UNCHANGED asker

Next ==
  \/ Found \/ Age \/ RevokeKeys \/ Delete
  \/ \E r \in Role, new \in Token : Add(r, new)
  \/ \E r \in Role, old, new \in Token : Rotate(r, old, new)
  \/ \E who \in Token \cup {Admin}, new \in Token : Offer(who, new)
  \/ \E key \in Token : Open(key)

Spec == Init /\ [][Next]_vars
=============================================================================
