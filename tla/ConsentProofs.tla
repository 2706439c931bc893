----------------------------- MODULE ConsentProofs -----------------------------
(***************************************************************************)
(* What module Consent guarantees for every roster, mailbox and clock: its *)
(* types, that only votes on the present text count, and that the approval *)
(* records of the pins stand.                                              *)
(***************************************************************************)
EXTENDS Consent, SequenceTheorems, FiniteSetTheorems, TLAPS

\* Nothing on record is younger than the clock, and nobody has voted on a
\* message that was not sent: what FreshMeansCurrentText rests on.
RecordsArePast ==
  /\ \A m \in Id, r \in Role : vote[m][r].at <= clock
  /\ \A m \in Id : m \notin Sent => \A r \in Role : vote[m][r].decision = "none"

IInv == TypeOK /\ RecordsArePast /\ FreshMeansCurrentText

-----------------------------------------------------------------------------
(* The tables. *)

LEMMA SentIsId ==
  ASSUME TypeOK
  PROVE  /\ Sent = 1..Len(message) /\ Len(message) \in Nat
         /\ Sent \subseteq Id
         /\ \A m \in Sent : message[m] \in Message
BY BoundsAssumption DEF TypeOK, Sent, Id

\* Everyone whom send_message may address or declare a voter is another role.
LEMMA OthersOnly ==
  ASSUME NEW r \in Role, NEW key, NEW to \in SUBSET Role, NEW voters \in SUBSET Role,
         to \in Audiences(r, key), voters \in Electorates(r, key)
  PROVE  r \notin to \cup voters
BY DEF Audiences, Electorates, Voters

LEMMA Initially == Init => IInv
<1> SUFFICES ASSUME Init PROVE IInv
  OBVIOUS
<1>1. Sent = {}
  BY DEF Init, Sent
<1>2. TypeOK
  BY <1>1, BoundsAssumption DEF Init, TypeOK, Id, NoVote, Vote, Time
<1>3. RecordsArePast
  BY <1>1 DEF Init, RecordsArePast, NoVote
<1>4. FreshMeansCurrentText
  BY <1>1 DEF FreshMeansCurrentText
<1> QED
  BY <1>2, <1>3, <1>4 DEF IInv

\* Each tool, and the clock, keeps the tables well-formed.
LEMMA SendKeeps ==
  ASSUME IInv, NEW r \in Role, NEW draft \in Drafts, NEW to \in SUBSET Role,
         NEW voters \in SUBSET Role, NEW about \in 0..MaxMsg, NEW text \in Text,
         SendMessage(r, draft, to, voters, about, text)
  PROVE  IInv'
<1> DEFINE n == Len(message) + 1
           row == [from |-> r, to |-> to, proc |-> draft.proc, pinKey |-> draft.pinKey,
                   about |-> about, voters |-> voters, wantsDecision |-> draft.wantsDecision,
                   text |-> text, revisedAt |-> 0]
<1>1. row \in Message
  BY DraftsAssumption, BoundsAssumption DEF Message, Time
<1>2. TypeOK /\ message \in Seq(Message) /\ n \in Id
  BY BoundsAssumption DEF IInv, TypeOK, SendMessage, Id
<1>3. message' = Append(message, row)
  BY DEF SendMessage
<1>4. /\ message' \in Seq(Message)
      /\ Len(message') = n
      /\ \A m \in 1..Len(message) : message'[m] = message[m]
      /\ message'[n] = row
  <2> HIDE DEF row
  <2> QED
    BY <1>1, <1>2, <1>3, AppendProperties
<1>5. Sent = 1..Len(message) /\ Sent' = 1..n /\ Len(message) \in Nat
  BY <1>2, <1>4 DEF Sent
<1>6. r \notin to \cup voters
  BY OthersOnly DEF SendMessage
<1>7. about < n
  BY <1>5 DEF SendMessage, Live
<1>8. \A q \in Role : vote[n][q].decision = "none"
  BY <1>2, <1>5 DEF IInv, RecordsArePast
<1>9. UNCHANGED <<clock, deleted, superseded, vote, pins, deaths, onText>>
  BY DEF SendMessage
<1>10. TypeOK'
  <2>1. Len(message') <= MaxMsg
    BY <1>2, <1>4, <1>5 DEF Id
  <2>2. deleted' \subseteq Sent' /\ superseded' \subseteq Sent'
    BY <1>2, <1>5, <1>9 DEF TypeOK
  <2>3. ASSUME NEW m \in Sent'
        PROVE  /\ message'[m].from \notin message'[m].to \cup message'[m].voters
               /\ message'[m].about < m
               /\ \A q \in Role : vote'[m][q].decision # "none" => q # message'[m].from
    <3>1. CASE m = n
      BY <3>1, <1>4, <1>6, <1>7, <1>8, <1>9
    <3>2. CASE m \in Sent
      BY <3>2, <1>2, <1>4, <1>5, <1>9 DEF TypeOK
    <3> QED
      BY <3>1, <3>2, <1>5
  <2> QED
    BY <2>1, <2>2, <2>3, <1>2, <1>4, <1>9 DEF TypeOK
<1>11. RecordsArePast'
  BY <1>5, <1>9 DEF IInv, RecordsArePast
<1>12. FreshMeansCurrentText'
  <2> SUFFICES ASSUME NEW m \in Sent', NEW q \in Role, Fresh(m, q)'
               PROVE  (q \in onText[m])'
    BY DEF FreshMeansCurrentText
  <2>1. m # n
    BY <1>8, <1>9 DEF Fresh
  <2>2. m \in Sent /\ message'[m] = message[m]
    BY <2>1, <1>4, <1>5
  <2> QED
    BY <2>2, <1>9 DEF Fresh, IInv, FreshMeansCurrentText
<1> QED
  BY <1>10, <1>11, <1>12 DEF IInv

\* A revision leaves no fresh vote: all are as old as the revision or older.
LEMMA ReviseKeeps ==
  ASSUME IInv, NEW r \in Role, NEW m \in Id, NEW text \in Text, ReviseMessage(r, m, text)
  PROVE  IInv'
<1> DEFINE row == [message[m] EXCEPT !.text = text, !.revisedAt = clock]
<1>1. TypeOK /\ message \in Seq(Message) /\ m \in Sent
  BY DEF IInv, TypeOK, ReviseMessage, Live
<1>2. Sent = 1..Len(message) /\ Len(message) \in Nat /\ message[m] \in Message
  BY <1>1, SentIsId
<1>3. clock \in Time /\ clock # 0 /\ clock \in Nat
  BY <1>1, BoundsAssumption DEF TypeOK, Time
<1>4. /\ row \in Message
      /\ row.from = message[m].from /\ row.to = message[m].to
      /\ row.voters = message[m].voters /\ row.about = message[m].about
      /\ row.revisedAt = clock
  BY <1>2, <1>3 DEF Message
<1>5. message' = [message EXCEPT ![m] = row]
  BY DEF ReviseMessage
<1>6. /\ message' \in Seq(Message) /\ Len(message') = Len(message)
      /\ message'[m] = row
      /\ \A i \in Sent : i # m => message'[i] = message[i]
  <2> HIDE DEF row
  <2> QED
    BY <1>1, <1>2, <1>4, <1>5, ExceptSeq
<1>7. Sent' = Sent
  BY <1>1, <1>2, <1>6 DEF Sent
<1>8. UNCHANGED <<clock, deleted, superseded, vote, pins, deaths>>
      /\ onText' = [onText EXCEPT ![m] = {}]
  BY DEF ReviseMessage
<1>9. TypeOK'
  <2>1. onText' \in [Id -> SUBSET Role]
    BY <1>1, <1>8 DEF TypeOK
  <2>2. \A i \in Sent : /\ message'[i].from = message[i].from
                        /\ message'[i].to = message[i].to
                        /\ message'[i].voters = message[i].voters
                        /\ message'[i].about = message[i].about
    <3> HIDE DEF row
    <3> QED
      BY <1>4, <1>6
  <2>3. \A i \in Sent' :
          /\ message'[i].from \notin message'[i].to \cup message'[i].voters
          /\ message'[i].about < i
          /\ \A q \in Role : vote'[i][q].decision # "none" => q # message'[i].from
    BY <2>2, <1>1, <1>7, <1>8 DEF TypeOK
  <2> QED
    BY <2>1, <2>3, <1>1, <1>6, <1>7, <1>8 DEF TypeOK
<1>10. RecordsArePast'
  BY <1>7, <1>8 DEF IInv, RecordsArePast
<1>11. FreshMeansCurrentText'
  <2> SUFFICES ASSUME NEW i \in Sent, NEW q \in Role, Fresh(i, q)'
               PROVE  (q \in onText[i])'
    BY <1>7 DEF FreshMeansCurrentText
  <2>1. i \in Id
    BY <1>1, SentIsId
  <2>2. i # m
    <3>1. vote[m][q].at <= clock /\ vote[m][q].at \in Nat
      BY <1>1 DEF IInv, RecordsArePast, TypeOK, Vote, Time
    <3>2. message'[m].revisedAt = clock
      BY <1>4, <1>6
    <3> QED
      BY <3>1, <3>2, <1>3, <1>8 DEF Fresh
  <2>3. Fresh(i, q)
    BY <2>2, <1>6, <1>8 DEF Fresh
  <2> QED
    BY <2>1, <2>2, <2>3, <1>1, <1>8 DEF IInv, FreshMeansCurrentText, TypeOK
<1> QED
  BY <1>9, <1>10, <1>11 DEF IInv

\* A vote is cast on the text of the moment, by a role that is not the author.
LEMMA AcknowledgeKeeps ==
  ASSUME IInv, NEW r \in Role, NEW m \in Id, NEW d \in Decision, Acknowledge(r, m, d)
  PROVE  IInv'
<1> DEFINE cast == [decision |-> d, at |-> clock]
<1>1. TypeOK /\ m \in Sent /\ r # message[m].from
  BY DEF IInv, Acknowledge, Live
<1>2. cast \in Vote /\ cast.at = clock /\ clock \in Nat
  BY <1>1, DecisionAssumption, BoundsAssumption DEF TypeOK, Vote, Time
<1>3. /\ vote' = [vote EXCEPT ![m][r] = cast]
      /\ onText' = [onText EXCEPT ![m] = @ \cup {r}]
      /\ superseded' = superseded \cup NudgesAnswered(m, r)
      /\ UNCHANGED <<clock, message, deleted, pins>>
  BY DEF Acknowledge
<1>4. /\ vote' \in [Id -> [Role -> Vote]]
      /\ vote'[m][r] = cast
      /\ \A i \in Id, q \in Role : i # m \/ q # r => vote'[i][q] = vote[i][q]
  <2> HIDE DEF cast
  <2> QED
    BY <1>1, <1>2, <1>3 DEF TypeOK
<1>5. Sent' = Sent /\ Sent \subseteq Id
  BY <1>1, <1>3, SentIsId DEF Sent
<1>6. TypeOK'
  <2>1. superseded' \subseteq Sent /\ deaths' \subseteq Id \X Role
    BY <1>1, <1>3 DEF TypeOK, NudgesAnswered, Acknowledge
  <2>2. onText' \in [Id -> SUBSET Role]
    BY <1>1, <1>3 DEF TypeOK
  <2>3. \A i \in Sent, q \in Role : vote'[i][q].decision # "none" => q # message[i].from
    BY <1>1, <1>4, <1>5 DEF TypeOK
  <2> QED
    BY <2>1, <2>2, <2>3, <1>1, <1>3, <1>4, <1>5 DEF TypeOK
<1>7. RecordsArePast'
  <2>1. ASSUME NEW i \in Id, NEW q \in Role PROVE vote'[i][q].at <= clock
    <3>1. CASE i = m /\ q = r
      <4> HIDE DEF cast
      <4> QED
        BY <3>1, <1>2, <1>4
    <3>2. CASE i # m \/ q # r
      BY <3>2, <1>4 DEF IInv, RecordsArePast
    <3> QED
      BY <3>1, <3>2
  <2>2. \A i \in Id : i \notin Sent => \A q \in Role : vote'[i][q].decision = "none"
    BY <1>1, <1>4 DEF IInv, RecordsArePast
  <2> QED
    BY <2>1, <2>2, <1>3, <1>5 DEF RecordsArePast
<1>8. FreshMeansCurrentText'
  <2> SUFFICES ASSUME NEW i \in Sent, NEW q \in Role, Fresh(i, q)'
               PROVE  q \in onText'[i]
    BY <1>5 DEF FreshMeansCurrentText
  <2>1. CASE i = m /\ q = r
    BY <2>1, <1>1, <1>3 DEF TypeOK
  <2>2. CASE i # m \/ q # r
    <3>1. Fresh(i, q)
      BY <2>2, <1>3, <1>4, <1>5 DEF Fresh
    <3> QED
      BY <3>1, <1>1, <1>3, <1>5 DEF IInv, FreshMeansCurrentText, TypeOK
  <2> QED
    BY <2>1, <2>2
<1> QED
  BY <1>6, <1>7, <1>8 DEF IInv

\* The new version is the last row of its table.
LEMMA VersionAppends ==
  ASSUME TypeOK, NEW k \in Key, NEW a \in 0..MaxMsg,
         pins' = Append(pins, [key |-> k, approvedBy |-> a, at |-> clock])
  PROVE  /\ pins \in Seq(Version) /\ pins' \in Seq(Version)
         /\ DOMAIN pins = 1..Len(pins) /\ Len(pins) \in Nat
         /\ DOMAIN pins' = 1..(Len(pins) + 1) /\ Len(pins') = Len(pins) + 1
         /\ \A i \in DOMAIN pins : pins'[i] = pins[i]
         /\ pins'[Len(pins) + 1] = [key |-> k, approvedBy |-> a, at |-> clock]
<1> DEFINE new == [key |-> k, approvedBy |-> a, at |-> clock]
<1>1. new \in Version /\ pins \in Seq(Version) /\ pins' = Append(pins, new)
  BY BoundsAssumption DEF TypeOK, Version, Time
<1> HIDE DEF new
<1>2. /\ pins' \in Seq(Version)
      /\ DOMAIN pins = 1..Len(pins) /\ Len(pins) \in Nat
      /\ DOMAIN pins' = 1..(Len(pins) + 1) /\ Len(pins') = Len(pins) + 1
      /\ \A i \in DOMAIN pins : pins'[i] = pins[i]
      /\ pins'[Len(pins) + 1] = new
  BY <1>1, AppendProperties
<1> QED
  BY <1>1, <1>2 DEF new

LEMMA PinAppends ==
  ASSUME TypeOK, NEW r \in Role, NEW k \in Key, NEW a \in 0..MaxMsg, PinSet(r, k, a)
  PROVE  /\ pins \in Seq(Version) /\ pins' \in Seq(Version)
         /\ DOMAIN pins = 1..Len(pins) /\ Len(pins) \in Nat
         /\ DOMAIN pins' = 1..(Len(pins) + 1) /\ Len(pins') = Len(pins) + 1
         /\ \A i \in DOMAIN pins : pins'[i] = pins[i]
         /\ pins'[Len(pins) + 1] = [key |-> k, approvedBy |-> a, at |-> clock]
BY VersionAppends DEF PinSet

LEMMA PinKeeps ==
  ASSUME IInv, NEW r \in Role, NEW k \in Key, NEW a \in 0..MaxMsg, PinSet(r, k, a)
  PROVE  IInv'
<1>1. TypeOK /\ UNCHANGED <<clock, message, deleted, vote, deaths, onText>> /\ Sent' = Sent
  BY DEF IInv, PinSet, Sent
<1>2. superseded' \subseteq Sent
  BY <1>1 DEF PinSet, TypeOK, ProposalsFor, Cascade
<1>3. pins' \in Seq(Version) /\ Len(pins') <= MaxPin
  BY <1>1, PinAppends, BoundsAssumption DEF PinSet
<1>4. TypeOK'
  BY <1>1, <1>2, <1>3 DEF TypeOK
<1>5. RecordsArePast' /\ FreshMeansCurrentText'
  BY <1>1 DEF IInv, RecordsArePast, FreshMeansCurrentText, Fresh
<1> QED
  BY <1>4, <1>5 DEF IInv

LEMMA DeleteKeeps ==
  ASSUME IInv, NEW r \in Role, NEW m \in Id, DeleteMessage(r, m)
  PROVE  IInv'
<1>1. TypeOK /\ UNCHANGED <<clock, message, vote, pins, deaths, onText>> /\ Sent' = Sent
  BY DEF IInv, DeleteMessage, Sent
<1>2. superseded' \subseteq Sent /\ deleted' \subseteq Sent
  BY <1>1 DEF DeleteMessage, TypeOK, Cascade, Live
<1>3. TypeOK'
  BY <1>1, <1>2 DEF TypeOK
<1>4. RecordsArePast' /\ FreshMeansCurrentText'
  BY <1>1 DEF IInv, RecordsArePast, FreshMeansCurrentText, Fresh
<1> QED
  BY <1>3, <1>4 DEF IInv

LEMMA TickKeeps ==
  ASSUME IInv, Tick
  PROVE  IInv'
<1>1. TypeOK /\ clock \in Nat /\ clock' = clock + 1 /\ clock < MaxTime /\ Sent' = Sent
      /\ UNCHANGED <<message, deleted, superseded, vote, pins, deaths, onText>>
  BY BoundsAssumption DEF IInv, TypeOK, Tick, Sent
<1>2. TypeOK'
  BY <1>1, BoundsAssumption DEF TypeOK
<1>3. RecordsArePast'
  <2>1. \A i \in Id, q \in Role : vote[i][q].at \in Nat
    BY <1>1, BoundsAssumption DEF TypeOK, Vote, Time
  <2> QED
    BY <2>1, <1>1 DEF IInv, RecordsArePast
<1>4. FreshMeansCurrentText'
  BY <1>1 DEF IInv, FreshMeansCurrentText, Fresh
<1> QED
  BY <1>2, <1>3, <1>4 DEF IInv

LEMMA Inductive ==
  ASSUME IInv, [Next]_vars
  PROVE  IInv'
<1>1. CASE Send
  BY <1>1, SendKeeps DEF Send
<1>2. CASE Revise
  BY <1>2, ReviseKeeps DEF Revise
<1>3. CASE Ack
  BY <1>3, AcknowledgeKeeps DEF Ack
<1>4. CASE Pin
  BY <1>4, PinKeeps DEF Pin
<1>5. CASE Delete
  BY <1>5, DeleteKeeps DEF Delete
<1>6. CASE Tick
  BY <1>6, TickKeeps
<1>7. CASE UNCHANGED vars
  <2>1. Sent' = Sent
    BY <1>7 DEF vars, Sent
  <2> QED
    BY <2>1, <1>7 DEF vars, IInv, TypeOK, RecordsArePast, FreshMeansCurrentText, Fresh
<1> QED
  BY <1>1, <1>2, <1>3, <1>4, <1>5, <1>6, <1>7 DEF Next

LEMMA Always == Spec => []IInv
<1>1. Init => IInv
  BY Initially
<1>2. IInv /\ [Next]_vars => IInv'
  BY Inductive
<1> QED
  BY <1>1, <1>2, PTL DEF Spec

\* The tables stay well-formed: no role is asked to decide on its own message
\* or votes on one, and every message is about an earlier one.
THEOREM TypeCorrect == Spec => []TypeOK
BY Always, PTL DEF IInv

\* A vote counts only if it was cast on the text as it now stands: the strict
\* comparison of timestamps in db/pins.py is enough, with any number of votes
\* and revisions in one millisecond.
THEOREM OnlyCurrentVotesCount == Spec => []FreshMeansCurrentText
BY Always, PTL DEF IInv

-----------------------------------------------------------------------------
(* The approval records. *)

Records == ApprovalsStand /\ OneApprovalOneVersion /\ ContractStaysContract

\* Only pin_set writes a version, so every other step has to keep ApprovalsStand
\* alone: it must not delete a proposal that a version names, nor relabel it.
LEMMA OtherStepsKeepRecords ==
  ASSUME TypeOK, Records, pins' = pins, superseded \subseteq superseded',
         Sent \subseteq Sent',
         \A m \in Sent : /\ message'[m].proc = message[m].proc
                         /\ message'[m].pinKey = message[m].pinKey,
         \A m \in deleted' : m \in deleted \/ ~ApprovalUsed(m)
  PROVE  Records'
<1>1. ApprovalsStand'
  <2> SUFFICES ASSUME NEW i \in DOMAIN pins, pins[i].approvedBy # 0
               PROVE  LET m == pins[i].approvedBy IN
                        /\ m \in Sent'
                        /\ message'[m].proc /\ m \notin deleted' /\ m \in superseded'
                        /\ message'[m].pinKey \in {pins[i].key, NoKey}
    BY DEF ApprovalsStand
  <2> DEFINE m == pins[i].approvedBy
  <2>1. /\ m \in Sent /\ message[m].proc /\ m \notin deleted /\ m \in superseded
        /\ message[m].pinKey \in {pins[i].key, NoKey}
    BY DEF Records, ApprovalsStand
  <2>2. ApprovalUsed(m)
    BY DEF ApprovalUsed
  <2>3. m \notin deleted'
    BY <2>1, <2>2
  <2>4. message'[m].proc = message[m].proc /\ message'[m].pinKey = message[m].pinKey
    BY <2>1
  <2> QED
    BY <2>1, <2>3, <2>4
<1>2. OneApprovalOneVersion' /\ ContractStaysContract'
  BY DEF Records, OneApprovalOneVersion, ContractStaysContract
<1> QED
  BY <1>1, <1>2 DEF Records

\* What pin_set requires of the proposal that approved_by names.
LEMMA ApprovedProposal ==
  ASSUME NEW r \in Role, NEW k \in Key, NEW a \in 0..MaxMsg, PinSet(r, k, a), a # 0
  PROVE  /\ a \in Sent' /\ message'[a].proc /\ a \notin deleted' /\ a \in superseded'
         /\ message'[a].pinKey \in {k, NoKey}
         /\ ~ApprovalUsed(a)
<1>1. /\ Live(a) /\ ApprovalNamesKey(a, k) /\ ~ApprovalUsed(a)
      /\ UNCHANGED <<message, deleted>> /\ Sent' = Sent
      /\ superseded' = superseded \cup ProposalsFor(k) \cup Cascade(ProposalsFor(k))
  BY DEF PinSet, CheckPinApproval, Sent
<1>2. a \in superseded \/ a \in ProposalsFor(k)
  BY <1>1 DEF Live, Standing, ApprovalNamesKey, ProposalsFor
<1>3. message[a].proc /\ message[a].pinKey \in {k, NoKey}
  BY <1>1 DEF ApprovalNamesKey, ClaimedBy
<1> QED
  BY <1>1, <1>2, <1>3 DEF Live

\* A version that is free where it may be, or spends a new approval, leaves every
\* approval spent once and every contract a contract.
LEMMA VersionKeepsContracts ==
  ASSUME TypeOK, OneApprovalOneVersion, ContractStaysContract,
         NEW k \in Key, NEW a \in 0..MaxMsg,
         pins' = Append(pins, [key |-> k, approvedBy |-> a, at |-> clock]),
         a # 0 => ~ApprovalUsed(a), a = 0 => ~Protected(k)
  PROVE  OneApprovalOneVersion' /\ ContractStaysContract'
<1> DEFINE n == Len(pins) + 1
<1>1. /\ DOMAIN pins = 1..Len(pins) /\ Len(pins) \in Nat /\ DOMAIN pins' = 1..n
      /\ \A i \in DOMAIN pins : pins'[i] = pins[i]
      /\ pins'[n].key = k /\ pins'[n].approvedBy = a
  <2>1. /\ DOMAIN pins = 1..Len(pins) /\ Len(pins) \in Nat
        /\ DOMAIN pins' = 1..(Len(pins) + 1)
        /\ \A i \in DOMAIN pins : pins'[i] = pins[i]
    BY VersionAppends
  <2>2. pins'[Len(pins) + 1] = [key |-> k, approvedBy |-> a, at |-> clock]
    BY VersionAppends
  <2> QED
    BY <2>1, <2>2
<1>2. OneApprovalOneVersion'
  <2> SUFFICES ASSUME NEW i \in 1..n, NEW j \in 1..n, pins'[i].approvedBy # 0,
                      pins'[i].approvedBy = pins'[j].approvedBy
               PROVE  i = j
    BY <1>1 DEF OneApprovalOneVersion
  <2>1. a # 0 => \A h \in DOMAIN pins : pins[h].approvedBy # a
    BY DEF ApprovalUsed
  <2>2. CASE i \in DOMAIN pins /\ j \in DOMAIN pins
    BY <2>2, <1>1 DEF OneApprovalOneVersion
  <2>3. CASE i = n \/ j = n
    BY <2>1, <2>3, <1>1
  <2> QED
    BY <2>2, <2>3, <1>1
<1>3. ContractStaysContract'
  <2> SUFFICES ASSUME NEW j \in 1..n,
                      \/ pins'[j].key \in Reserved
                      \/ \E i \in 1..j : pins'[i].key = pins'[j].key /\ pins'[i].approvedBy # 0
               PROVE  pins'[j].approvedBy # 0
    BY <1>1 DEF ContractStaysContract
  <2>1. CASE j \in DOMAIN pins
    <3>1. 1..j \subseteq DOMAIN pins
      BY <2>1, <1>1
    <3> QED
      BY <2>1, <3>1, <1>1 DEF ContractStaysContract
  <2>2. CASE j = n
    <3> SUFFICES ASSUME a = 0 PROVE FALSE
      BY <2>2, <1>1
    <3>1. k \notin Reserved /\ \A i \in VersionsOf(k) : pins[i].approvedBy = 0
      BY DEF Protected, EverApproved
    <3>2. PICK i \in 1..n : pins'[i].key = k /\ pins'[i].approvedBy # 0
      BY <2>2, <3>1, <1>1
    <3>3. i \in DOMAIN pins
      BY <3>2, <1>1
    <3> QED
      BY <3>1, <3>2, <3>3, <1>1 DEF VersionsOf
  <2> QED
    BY <2>1, <2>2, <1>1
<1> QED
  BY <1>2, <1>3

LEMMA PinKeepsRecords ==
  ASSUME TypeOK, Records, NEW r \in Role, NEW k \in Key, NEW a \in 0..MaxMsg, PinSet(r, k, a)
  PROVE  Records'
<1> DEFINE n == Len(pins) + 1
<1>1. /\ DOMAIN pins = 1..Len(pins) /\ Len(pins) \in Nat /\ DOMAIN pins' = 1..n
      /\ \A i \in DOMAIN pins : pins'[i] = pins[i]
      /\ pins'[n].key = k /\ pins'[n].approvedBy = a
  <2>1. /\ DOMAIN pins = 1..Len(pins) /\ Len(pins) \in Nat
        /\ DOMAIN pins' = 1..(Len(pins) + 1)
        /\ \A i \in DOMAIN pins : pins'[i] = pins[i]
    BY PinAppends
  <2>2. pins'[Len(pins) + 1] = [key |-> k, approvedBy |-> a, at |-> clock]
    BY PinAppends
  <2> QED
    BY <2>1, <2>2
<1>2. UNCHANGED <<message, deleted>> /\ Sent' = Sent /\ superseded \subseteq superseded'
  BY DEF PinSet, Sent
<1>3. ApprovalsStand'
  <2> SUFFICES ASSUME NEW i \in 1..n, pins'[i].approvedBy # 0
               PROVE  LET m == pins'[i].approvedBy IN
                        /\ m \in Sent'
                        /\ message'[m].proc /\ m \notin deleted' /\ m \in superseded'
                        /\ message'[m].pinKey \in {pins'[i].key, NoKey}
    BY <1>1 DEF ApprovalsStand
  <2>1. CASE i = n
    BY <2>1, <1>1, ApprovedProposal
  <2>2. CASE i \in DOMAIN pins
    BY <2>2, <1>1, <1>2 DEF Records, ApprovalsStand
  <2> QED
    BY <2>1, <2>2, <1>1
<1>4. OneApprovalOneVersion' /\ ContractStaysContract'
  <2>1. a # 0 => ~ApprovalUsed(a)
    BY ApprovedProposal
  <2>2. /\ pins' = Append(pins, [key |-> k, approvedBy |-> a, at |-> clock])
        /\ a = 0 => ~Protected(k)
    BY DEF PinSet, CheckPinApproval
  <2> QED
    BY <2>1, <2>2, VersionKeepsContracts DEF Records
<1> QED
  BY <1>3, <1>4 DEF Records

LEMMA RecordsInductive ==
  ASSUME TypeOK, Records, [Next]_vars
  PROVE  Records'
<1>1. /\ message \in Seq(Message) /\ Sent = 1..Len(message) /\ Len(message) \in Nat
      /\ \A m \in Sent : message[m] \in Message
  BY SentIsId DEF TypeOK
<1>2. CASE Send
  <2>1. PICK row : message' = Append(message, row)
    BY <1>2 DEF Send, SendMessage
  <2>2. UNCHANGED <<deleted, superseded, pins>>
    BY <1>2 DEF Send, SendMessage
  <2>3. Sent \subseteq Sent' /\ \A m \in Sent : message'[m] = message[m]
    BY <2>1, <1>1 DEF Sent
  <2> QED
    BY <2>2, <2>3, OtherStepsKeepRecords
<1>3. CASE Revise
  <2>1. PICK m \in Id, text \in Text :
          message' = [message EXCEPT ![m].text = text, ![m].revisedAt = clock]
    BY <1>3 DEF Revise, ReviseMessage
  <2>2. UNCHANGED <<deleted, superseded, pins>>
    BY <1>3 DEF Revise, ReviseMessage
  <2>3. Sent' = Sent
    BY <2>1, <1>1 DEF Sent
  <2>4. ASSUME NEW i \in Sent
        PROVE  message'[i].proc = message[i].proc /\ message'[i].pinKey = message[i].pinKey
    BY <2>1, <1>1 DEF Message, Sent
  <2> QED
    BY <2>2, <2>3, <2>4, OtherStepsKeepRecords
<1>4. CASE Ack
  <2>1. UNCHANGED <<message, deleted, pins>> /\ superseded \subseteq superseded' /\ Sent' = Sent
    BY <1>4 DEF Ack, Acknowledge, Sent
  <2> QED
    BY <2>1, OtherStepsKeepRecords
<1>5. CASE Pin
  BY <1>5, PinKeepsRecords DEF Pin
<1>6. CASE Delete
  <2>1. PICK m \in Id : ~ApprovalUsed(m) /\ deleted' = deleted \cup {m}
    BY <1>6 DEF Delete, DeleteMessage
  <2>2. UNCHANGED <<message, pins>> /\ superseded \subseteq superseded' /\ Sent' = Sent
    BY <1>6 DEF Delete, DeleteMessage, Sent
  <2> QED
    BY <2>1, <2>2, OtherStepsKeepRecords
<1>7. CASE Tick \/ UNCHANGED vars
  <2>1. UNCHANGED <<message, deleted, superseded, pins>> /\ Sent' = Sent
    BY <1>7 DEF Tick, vars, Sent
  <2> QED
    BY <2>1, OtherStepsKeepRecords
<1> QED
  BY <1>2, <1>3, <1>4, <1>5, <1>6, <1>7 DEF Next

LEMMA RecordsAlways == Spec => []Records
<1>1. Init => Records
  BY DEF Init, Records, ApprovalsStand, OneApprovalOneVersion, ContractStaysContract
<1>2. TypeOK /\ Records /\ [Next]_vars => Records'
  BY RecordsInductive
<1> QED
  BY <1>1, <1>2, TypeCorrect, PTL DEF Spec

\* The proposal that a version names as its approval is never deleted, is a
\* proposal for that key, and has left everybody's list.
THEOREM ApprovalsAreKept == Spec => []ApprovalsStand
BY RecordsAlways, PTL DEF Records

\* No proposal approves two versions.
THEOREM ApprovalsAreSpentOnce == Spec => []OneApprovalOneVersion
BY RecordsAlways, PTL DEF Records

\* A key whose pin was once agreed, or that is reserved, never again gets a
\* version that names no agreed proposal.
THEOREM ContractsAreKept == Spec => []ContractStaysContract
BY RecordsAlways, PTL DEF Records

-----------------------------------------------------------------------------
(* What happens to the rows.                                                *)

\* The fields of a row that no tool ever changes.
SameRow(x, y) ==
  /\ x.from = y.from /\ x.to = y.to /\ x.proc = y.proc /\ x.pinKey = y.pinKey
  /\ x.about = y.about /\ x.voters = y.voters /\ x.wantsDecision = y.wantsDecision

LEMMA RowsStay ==
  ASSUME TypeOK, [Next]_vars
  PROVE  Sent \subseteq Sent' /\ \A m \in Sent : SameRow(message'[m], message[m])
<1>1. /\ message \in Seq(Message) /\ Sent = 1..Len(message) /\ Len(message) \in Nat
      /\ \A m \in Sent : message[m] \in Message
  BY SentIsId DEF TypeOK
<1>2. CASE Send
  <2>1. PICK row : message' = Append(message, row)
    BY <1>2 DEF Send, SendMessage
  <2>2. Sent \subseteq Sent' /\ \A m \in Sent : message'[m] = message[m]
    BY <2>1, <1>1 DEF Sent
  <2> QED
    BY <2>2 DEF SameRow
<1>3. CASE Revise
  <2>1. PICK m \in Id, text \in Text :
          message' = [message EXCEPT ![m].text = text, ![m].revisedAt = clock]
    BY <1>3 DEF Revise, ReviseMessage
  <2>2. Sent' = Sent
    BY <2>1, <1>1 DEF Sent
  <2>3. ASSUME NEW i \in Sent PROVE SameRow(message'[i], message[i])
    BY <2>1, <1>1 DEF Message, Sent, SameRow
  <2> QED
    BY <2>2, <2>3
<1>4. CASE Ack \/ Pin \/ Delete \/ Tick \/ UNCHANGED vars
  <2>1. UNCHANGED message /\ Sent' = Sent
    BY <1>4 DEF Ack, Acknowledge, Pin, PinSet, Delete, DeleteMessage, Tick, vars, Sent
  <2> QED
    BY <2>1 DEF SameRow
<1> QED
  BY <1>2, <1>3, <1>4 DEF Next

\* No tool rewrites a text that approved a version.
LEMMA UsedTextStays ==
  ASSUME TypeOK, [Next]_vars, NEW a \in Sent, ApprovalUsed(a)
  PROVE  message'[a].text = message[a].text
<1>1. /\ message \in Seq(Message) /\ Sent = 1..Len(message) /\ Len(message) \in Nat
      /\ \A m \in Sent : message[m] \in Message
  BY SentIsId DEF TypeOK
<1>2. CASE Send
  <2>1. PICK row : message' = Append(message, row)
    BY <1>2 DEF Send, SendMessage
  <2> QED
    BY <1>1, <2>1
<1>3. CASE Revise
  <2>1. PICK m \in Id, text \in Text :
          /\ m \in Sent /\ ~ApprovalUsed(m)
          /\ message' = [message EXCEPT ![m].text = text, ![m].revisedAt = clock]
    BY <1>3 DEF Revise, ReviseMessage, Live
  <2>2. a # m
    BY <2>1
  <2>3. message'[a] = message[a]
    BY <1>1, <2>1, <2>2
  <2> QED
    BY <2>3
<1>4. CASE Ack \/ Pin \/ Delete \/ Tick \/ UNCHANGED vars
  BY <1>4 DEF Ack, Acknowledge, Pin, PinSet, Delete, DeleteMessage, Tick, vars
<1> QED
  BY <1>2, <1>3, <1>4 DEF Next

\* revise_message refuses a message that approves a version, and nothing else
\* rewrites a text, so what was agreed on can always be read.
THEOREM ApprovedTextsAreFrozen == Spec => ApprovedTextFrozen
<1> DEFINE Frozen == \A i \in DOMAIN pins : pins[i].approvedBy # 0 =>
             message'[pins[i].approvedBy].text = message[pins[i].approvedBy].text
<1>1. ASSUME TypeOK, Records, [Next]_vars PROVE Frozen
  <2> SUFFICES ASSUME NEW i \in DOMAIN pins, pins[i].approvedBy # 0
               PROVE  message'[pins[i].approvedBy].text = message[pins[i].approvedBy].text
    OBVIOUS
  <2>1. pins[i].approvedBy \in Sent /\ ApprovalUsed(pins[i].approvedBy)
    BY <1>1 DEF Records, ApprovalsStand, ApprovalUsed
  <2> QED
    BY <1>1, <2>1, UsedTextStays
<1>2. TypeOK /\ Records /\ [Next]_vars => [Frozen]_vars
  BY <1>1
<1> QED
  BY <1>2, TypeCorrect, RecordsAlways, PTL DEF Spec, ApprovedTextFrozen

-----------------------------------------------------------------------------
(* Retiring.                                                                *)

\* What hangs on what is retired is retired.
LEMMA CascadeIsClosed ==
  ASSUME TypeOK, NEW S \in SUBSET Id, NEW m \in S \cup Cascade(S), NEW n \in Sent, Standing(n),
         message[n].about = m
  PROVE  n \in S \cup Cascade(S)
<1> DEFINE Closed(C) == /\ S \subseteq C
                        /\ \A i \in Sent : Standing(i) /\ message[i].about \in C => i \in C
<1>1. ASSUME NEW C \in SUBSET Id, Closed(C) PROVE n \in C
  <2>1. m \in C
    BY <1>1 DEF Cascade
  <2> QED
    BY <1>1, <2>1
<1> QED
  BY <1>1 DEF Cascade

\* Only pin_set and delete_message settle anything, and both cascade.
LEMMA SettlingStep ==
  ASSUME TypeOK, [Next]_vars, pins' # pins \/ deleted' # deleted
  PROVE  RetiredTakeTheirNudges
<1>1. Sent \subseteq Id
  BY SentIsId
<1>2. CASE Pin
  <2>1. PICK k \in Key :
          /\ superseded' = superseded \cup ProposalsFor(k) \cup Cascade(ProposalsFor(k))
          /\ deleted' = deleted
    BY <1>2 DEF Pin, PinSet
  <2>2. ProposalsFor(k) \in SUBSET Id
    BY <1>1 DEF ProposalsFor
  <2> SUFFICES ASSUME NEW m \in Sent, NEW n \in Sent, Standing(m), Standing(n),
                      m \in deleted' \cup superseded', message[n].about = m
               PROVE  n \in superseded'
    BY DEF RetiredTakeTheirNudges
  <2>3. m \in ProposalsFor(k) \cup Cascade(ProposalsFor(k))
    BY <2>1 DEF Standing, Live
  <2>4. n \in ProposalsFor(k) \cup Cascade(ProposalsFor(k))
    BY <2>2, <2>3, CascadeIsClosed
  <2> QED
    BY <2>1, <2>4
<1>3. CASE Delete
  <2>1. PICK d \in Id : superseded' = superseded \cup Cascade({d}) /\ deleted' = deleted \cup {d}
    BY <1>3 DEF Delete, DeleteMessage
  <2> SUFFICES ASSUME NEW m \in Sent, NEW n \in Sent, Standing(m), Standing(n),
                      m \in deleted' \cup superseded', message[n].about = m
               PROVE  n \in deleted' \cup superseded'
    BY DEF RetiredTakeTheirNudges
  <2>2. m \in {d} \cup Cascade({d})
    BY <2>1 DEF Standing, Live
  <2>3. n \in {d} \cup Cascade({d})
    BY <2>2, CascadeIsClosed
  <2> QED
    BY <2>1, <2>3
<1>4. (Send \/ Revise \/ Ack \/ Tick) => pins' = pins /\ deleted' = deleted
  BY DEF Send, SendMessage, Revise, ReviseMessage, Ack, Acknowledge, Tick
<1>5. UNCHANGED vars => pins' = pins /\ deleted' = deleted
  BY DEF vars
<1> QED
  BY <1>2, <1>3, <1>4, <1>5 DEF Next

\* pin_set and delete_message retire with a message all that asks about it,
\* however long the chain of messages about messages (db/supersede.py).
THEOREM NudgesAreRetired == Spec => SettlingRetiresNudges
<1>1. TypeOK /\ [Next]_vars => [pins' # pins \/ deleted' # deleted => RetiredTakeTheirNudges]_vars
  BY SettlingStep
<1> QED
  BY <1>1, TypeCorrect, PTL DEF Spec, SettlingRetiresNudges

-----------------------------------------------------------------------------
(* Rounds.                                                                  *)

\* A void that is on record was declared.
VoidsAreDeclared ==
  \A m \in Id, r \in Role : vote[m][r].decision = "void" => <<m, r>> \in deaths

\* Before a second round on a key was opened, a voter declared the first one dead,
\* unless it has been retired.
RoundsDieFirst ==
  \A m, n \in Sent :
    /\ m < n /\ Standing(m) /\ message[m].proc
    /\ message[m].pinKey # NoKey /\ message[n].pinKey = message[m].pinKey
    => \E r \in Electorate(m) : <<m, r>> \in deaths

Rounds == VoidsAreDeclared /\ RoundsDieFirst

\* Sending apart, what stands has been standing, and no death is forgotten.
LEMMA OtherStepsKeepRounds ==
  ASSUME TypeOK, RoundsDieFirst, [Next]_vars, Sent' = Sent, deaths \subseteq deaths',
         deleted \subseteq deleted', superseded \subseteq superseded'
  PROVE  RoundsDieFirst'
<1> SUFFICES ASSUME NEW m \in Sent, NEW n \in Sent, m < n, Standing(m)', message'[m].proc,
                    message'[m].pinKey # NoKey, message'[n].pinKey = message'[m].pinKey
             PROVE  \E r \in Electorate(m)' : <<m, r>> \in deaths'
  BY DEF RoundsDieFirst
<1>1. SameRow(message'[m], message[m]) /\ SameRow(message'[n], message[n])
  BY RowsStay
<1>2. Standing(m)
  BY DEF Standing, Live
<1>3. \E r \in Electorate(m) : <<m, r>> \in deaths
  BY <1>1, <1>2 DEF RoundsDieFirst, SameRow
<1>4. Electorate(m)' = Electorate(m)
  BY <1>1 DEF Electorate, SameRow
<1> QED
  BY <1>3, <1>4

\* A round is opened when every other one on its key is retired or declared dead.
LEMMA SendKeepsRounds ==
  ASSUME TypeOK, Rounds, NEW r \in Role, NEW draft \in Drafts, NEW to \in SUBSET Role,
         NEW voters \in SUBSET Role, NEW about \in 0..MaxMsg, NEW text \in Text,
         SendMessage(r, draft, to, voters, about, text)
  PROVE  RoundsDieFirst'
<1>1. /\ message \in Seq(Message) /\ Sent = 1..Len(message) /\ Len(message) \in Nat
      /\ Sent \subseteq Id /\ \A m \in Sent : message[m] \in Message
  BY SentIsId DEF TypeOK
<1>2. PICK row : message' = Append(message, row) /\ row.pinKey = draft.pinKey
  BY DEF SendMessage
<1>3. PICK new : new = Len(message) + 1
  OBVIOUS
<1>4. /\ Sent' = 1..new /\ message'[new].pinKey = draft.pinKey
      /\ \A m \in Sent : message'[m] = message[m]
  BY <1>1, <1>2, <1>3 DEF Sent
<1>5. UNCHANGED <<deleted, superseded, vote, deaths>> /\ KeyIsFree(draft.pinKey)
  BY DEF SendMessage
<1> SUFFICES ASSUME NEW m \in Sent', NEW n \in Sent', m < n, Standing(m)', message'[m].proc,
                    message'[m].pinKey # NoKey, message'[n].pinKey = message'[m].pinKey
             PROVE  \E q \in Electorate(m)' : <<m, q>> \in deaths'
  BY DEF RoundsDieFirst
<1>6. m \in Sent /\ message'[m] = message[m]
  BY <1>1, <1>3, <1>4
<1>7. Standing(m) /\ Electorate(m)' = Electorate(m)
  BY <1>5, <1>6 DEF Standing, Live, Electorate
<1>8. \E q \in Electorate(m) : <<m, q>> \in deaths
  <2>1. CASE n \in Sent
    BY <1>4, <1>6, <1>7, <2>1 DEF Rounds, RoundsDieFirst
  <2>2. CASE n = new
    <3>1. OpenRounds(message[m].pinKey) = {}
      BY <1>4, <1>5, <1>6, <2>2 DEF KeyIsFree
    <3>2. VoidedBy(m) # {}
      BY <1>6, <1>7, <3>1 DEF OpenRounds
    <3>3. PICK q \in Electorate(m) : vote[m][q].decision = "void"
      BY <3>2 DEF VoidedBy, FreshlySays
    <3>4. q \in Role /\ m \in Id
      BY <1>1, <1>6 DEF Electorate, Message
    <3> QED
      BY <3>3, <3>4 DEF Rounds, VoidsAreDeclared
  <2>3. n \in Sent \/ n = new
    BY <1>1, <1>3, <1>4
  <2> QED
    BY <2>1, <2>2, <2>3
<1> QED
  BY <1>5, <1>7, <1>8

LEMMA RoundsInductive ==
  ASSUME TypeOK, Rounds, [Next]_vars
  PROVE  Rounds'
<1>1. CASE Send
  <2>1. PICK r \in Role, draft \in Drafts, to \in SUBSET Role, voters \in SUBSET Role,
             about \in 0..MaxMsg, text \in Text : SendMessage(r, draft, to, voters, about, text)
    BY <1>1 DEF Send
  <2>2. RoundsDieFirst'
    BY <2>1, SendKeepsRounds
  <2>3. VoidsAreDeclared'
    BY <2>1 DEF SendMessage, Rounds, VoidsAreDeclared
  <2> QED
    BY <2>2, <2>3 DEF Rounds
<1>2. CASE Ack
  <2>1. PICK r \in Role, m \in Id, d \in Decision : Acknowledge(r, m, d)
    BY <1>2 DEF Ack
  <2>2. /\ vote' = [vote EXCEPT ![m][r] = [decision |-> d, at |-> clock]]
        /\ deaths' = IF d = "void" THEN deaths \cup {<<m, r>>} ELSE deaths
        /\ UNCHANGED <<message, deleted>> /\ superseded \subseteq superseded'
    BY <2>1 DEF Acknowledge
  <2>3. deaths \subseteq deaths' /\ (d = "void" => <<m, r>> \in deaths') /\ Sent' = Sent
    BY <2>2 DEF Sent
  <2>4. RoundsDieFirst'
    BY <2>2, <2>3, OtherStepsKeepRounds DEF Rounds
  <2>5. /\ vote'[m][r].decision = d
        /\ \A i \in Id, q \in Role : i # m \/ q # r => vote'[i][q] = vote[i][q]
    BY <2>2 DEF TypeOK
  <2>6. ASSUME NEW i \in Id, NEW q \in Role, vote'[i][q].decision = "void"
        PROVE  <<i, q>> \in deaths'
    <3>1. CASE i = m /\ q = r
      BY <2>3, <2>5, <2>6, <3>1
    <3>2. CASE i # m \/ q # r
      BY <2>3, <2>5, <2>6, <3>2 DEF Rounds, VoidsAreDeclared
    <3> QED
      BY <3>1, <3>2
  <2> QED
    BY <2>4, <2>6 DEF Rounds, VoidsAreDeclared
<1>3. CASE Revise \/ Pin \/ Delete \/ Tick \/ UNCHANGED vars
  <2>1. UNCHANGED <<vote, deaths>> /\ deleted \subseteq deleted' /\ superseded \subseteq superseded'
    BY <1>3 DEF Revise, ReviseMessage, Pin, PinSet, Delete, DeleteMessage, Tick, vars
  <2>2. Sent' = Sent
    <3>1. CASE Revise
      BY <3>1, SentIsId DEF Revise, ReviseMessage, TypeOK, Sent
    <3>2. CASE Pin \/ Delete \/ Tick \/ UNCHANGED vars
      BY <3>2 DEF Pin, PinSet, Delete, DeleteMessage, Tick, vars, Sent
    <3> QED
      BY <1>3, <3>1, <3>2
  <2>3. RoundsDieFirst'
    BY <2>1, <2>2, OtherStepsKeepRounds DEF Rounds
  <2> QED
    BY <2>1, <2>3 DEF Rounds, VoidsAreDeclared
<1> QED
  BY <1>1, <1>2, <1>3 DEF Next

\* Two rounds on one key are open together only when a voter declared the older
\* one dead, however rounds are opened, voided, revised and retired: the void
\* that frees the key in send_message may be taken back, but it was there.
THEOREM SecondRoundsFollowDeaths == Spec => []SecondRoundOnlyOverADeadOne
<1>1. Init => Rounds
  <2>1. Init => Sent = {}
    BY DEF Init, Sent
  <2> QED
    BY <2>1 DEF Init, Rounds, VoidsAreDeclared, RoundsDieFirst, NoVote
<1>2. TypeOK /\ Rounds /\ [Next]_vars => Rounds'
  BY RoundsInductive
<1>3. Rounds => SecondRoundOnlyOverADeadOne
  <2> SUFFICES ASSUME Rounds, NEW k \in Key, NEW m \in OpenRounds(k), NEW n \in OpenRounds(k), m < n
               PROVE  \E r \in Electorate(m) : <<m, r>> \in deaths
    BY DEF SecondRoundOnlyOverADeadOne
  <2>1. k # NoKey
    BY KeysAssumption
  <2> QED
    BY <2>1 DEF Rounds, RoundsDieFirst, OpenRounds
<1> QED
  BY <1>1, <1>2, <1>3, TypeCorrect, PTL DEF Spec

\* In a hosted channel a proposal for a key is sent to everyone else.
RoundsAreForAll ==
  \A m \in Sent : message[m].pinKey # NoKey => message[m].to = Role \ {message[m].from}

LEMMA ForAllInductive ==
  ASSUME Hosted, TypeOK, RoundsAreForAll, [Next]_vars
  PROVE  RoundsAreForAll'
<1>1. \A m \in Sent : message[m].pinKey # NoKey => message[m].to = Role \ {message[m].from}
  BY DEF RoundsAreForAll
<1>2. \A m \in Sent : SameRow(message'[m], message[m])
  BY RowsStay
<1>3. ASSUME NEW m \in Sent' \ Sent, message'[m].pinKey # NoKey
      PROVE  message'[m].to = Role \ {message'[m].from}
  <2>1. /\ message \in Seq(Message) /\ Sent = 1..Len(message) /\ Len(message) \in Nat
    BY SentIsId DEF TypeOK
  <2>2. CASE Send
    <3>1. PICK r \in Role, draft \in Drafts, to \in SUBSET Role, voters \in SUBSET Role,
               about \in 0..MaxMsg, text \in Text :
                 SendMessage(r, draft, to, voters, about, text)
      BY <2>2 DEF Send
    <3>2. PICK row : /\ message' = Append(message, row) /\ to \in Audiences(r, draft.pinKey)
                     /\ row.from = r /\ row.to = to /\ row.pinKey = draft.pinKey
      BY <3>1 DEF SendMessage
    <3>3. message'[m] = row
      BY <2>1, <3>2 DEF Sent
    <3> QED
      BY <1>3, <3>2, <3>3 DEF Audiences
  <2>3. CASE Revise
    BY <2>1, <2>3 DEF Revise, ReviseMessage, Sent
  <2>4. CASE Ack \/ Pin \/ Delete \/ Tick \/ UNCHANGED vars
    BY <2>4 DEF Ack, Acknowledge, Pin, PinSet, Delete, DeleteMessage, Tick, vars, Sent
  <2> QED
    BY <2>2, <2>3, <2>4 DEF Next
<1> QED
  BY <1>1, <1>2, <1>3 DEF RoundsAreForAll, SameRow

LEMMA ForAllMeansAsked ==
  ASSUME TypeOK, RoundsAreForAll
  PROVE  VoterIsAsked
<1> SUFFICES ASSUME NEW k \in Key, NEW m \in OpenRounds(k), NEW r \in Needed(m),
                    message[m].wantsDecision, message[m].about = 0, ~Fresh(m, r)
             PROVE  m \in AwaitingAck(r)
  BY DEF VoterIsAsked
<1>1. /\ m \in Sent /\ Standing(m) /\ message[m].proc /\ message[m].pinKey # NoKey
      /\ message[m] \in Message /\ message[m].from \notin message[m].voters
  BY KeysAssumption, SentIsId DEF OpenRounds, TypeOK
<1>2. /\ r \in Role /\ r # message[m].from
      /\ message[m].voters = {} \/ r \in message[m].voters
  BY <1>1 DEF Needed, Message
<1>3. r \in message[m].to
  BY <1>1, <1>2 DEF RoundsAreForAll
<1> QED
  BY <1>1, <1>2, <1>3 DEF AwaitingAck

\* In a hosted channel, a role whose consent an open round waits for finds it in
\* its awaiting_ack: the audience that send_message requires, the listing of
\* db/pins.py and the quorum of pin_set agree on who is awaited.
THEOREM VotersAreAsked == ASSUME Hosted PROVE Spec => []VoterIsAsked
<1>1. Init => RoundsAreForAll
  BY DEF Init, RoundsAreForAll, Sent
<1>2. TypeOK /\ RoundsAreForAll /\ [Next]_vars => RoundsAreForAll'
  BY ForAllInductive
<1>3. TypeOK /\ RoundsAreForAll => VoterIsAsked
  BY ForAllMeansAsked
<1> QED
  BY <1>1, <1>2, <1>3, TypeCorrect, PTL DEF Spec

-----------------------------------------------------------------------------
(* The steps, and what they are in AgreedPins.                              *)

QuorumsOf(m) == IF m \in Sent THEN Quorums(m) ELSE {}
Entry(v)     == <<v.key, IF v.approvedBy = 0 THEN {} ELSE {v.approvedBy}>>
Ledger       == [i \in DOMAIN pins |-> Entry(pins[i])]

LEMMA AgreedStays ==
  ASSUME \A m \in Id : QuorumsOf(m)' = QuorumsOf(m) /\ Agreeing(m)' = Agreeing(m),
         deleted' = deleted, pins' = pins
  PROVE  UNCHANGED Agreed!vars
BY DEF Agreed!vars, QuorumsOf

LEMMA AgreedProposes ==
  ASSUME NEW m \in Id, NEW q \in SUBSET SUBSET Role, q # {}, {} \notin q,
         QuorumsOf(m) = {}, QuorumsOf(m)' = q,
         \A o \in Id \ {m} : QuorumsOf(o)' = QuorumsOf(o),
         \A o \in Id : Agreeing(o)' = Agreeing(o), deleted' = deleted, pins' = pins
  PROVE  Agreed!Next
<1>1. Agreed!Propose(m, q)
  BY DEF Agreed!Propose, QuorumsOf
<1> QED
  BY <1>1 DEF Agreed!Next

LEMMA AgreedDecides ==
  ASSUME NEW m \in Id, NEW r \in Role, NEW yes \in BOOLEAN, QuorumsOf(m) # {}, m \notin deleted,
         \A o \in Id : QuorumsOf(o)' = QuorumsOf(o),
         \A o \in Id \ {m} : Agreeing(o)' = Agreeing(o),
         yes => Agreeing(m)' = Agreeing(m) \cup {r},
         ~yes => Agreeing(m)' = Agreeing(m) \ {r}, deleted' = deleted, pins' = pins
  PROVE  Agreed!Next
<1>1. Agreed!Decide(m, r, yes)
  BY DEF Agreed!Decide, Agreed!Made, QuorumsOf
<1> QED
  BY <1>1 DEF Agreed!Next

LEMMA NotSpent ==
  ASSUME NEW m \in Id, ~ApprovalUsed(m)
  PROVE  ~Agreed!Spent(m)
BY BoundsAssumption DEF Agreed!Spent, ApprovalUsed, Id

LEMMA AgreedRewords ==
  ASSUME NEW m \in Id, QuorumsOf(m) # {}, m \notin deleted, ~ApprovalUsed(m),
         \A o \in Id : QuorumsOf(o)' = QuorumsOf(o),
         \A o \in Id \ {m} : Agreeing(o)' = Agreeing(o), Agreeing(m)' = {},
         deleted' = deleted, pins' = pins
  PROVE  Agreed!Next
<1>1. Agreed!Reword(m)
  BY NotSpent DEF Agreed!Reword, Agreed!Made, QuorumsOf
<1> QED
  BY <1>1 DEF Agreed!Next

LEMMA AgreedWithdraws ==
  ASSUME NEW m \in Id, QuorumsOf(m) # {}, m \notin deleted, ~ApprovalUsed(m),
         \A o \in Id : QuorumsOf(o)' = QuorumsOf(o) /\ Agreeing(o)' = Agreeing(o),
         deleted' = deleted \cup {m}, pins' = pins
  PROVE  Agreed!Next
<1>1. Agreed!Withdraw(m)
  BY NotSpent DEF Agreed!Withdraw, Agreed!Made, QuorumsOf
<1> QED
  BY <1>1 DEF Agreed!Next

LEMMA LedgerAppends ==
  ASSUME TypeOK, NEW r \in Role, NEW k \in Key, NEW a \in 0..MaxMsg, PinSet(r, k, a)
  PROVE  Ledger' = Append(Ledger, <<k, IF a = 0 THEN {} ELSE {a}>>)
<1> DEFINE n == Len(pins) + 1
           e == <<k, IF a = 0 THEN {} ELSE {a}>>
<1>1. /\ DOMAIN pins = 1..Len(pins) /\ Len(pins) \in Nat /\ DOMAIN pins' = 1..n
      /\ \A i \in DOMAIN pins : pins'[i] = pins[i]
  BY PinAppends
<1>2. Entry(pins'[n]) = e
  <2>1. pins'[n] = [key |-> k, approvedBy |-> a, at |-> clock]
    BY PinAppends
  <2> QED
    BY <2>1 DEF Entry
<1> HIDE DEF e
<1>3. Ledger' = [i \in 1..n |-> Entry(pins'[i])]
  BY <1>1 DEF Ledger, Entry
<1>4. Ledger = [i \in 1..Len(pins) |-> Entry(pins[i])]
  BY <1>1 DEF Ledger
<1>5. Len(Ledger) = Len(pins)
  BY <1>1, <1>4
<1>6. Append(Ledger, e) = [i \in 1..n |-> IF i \in 1..Len(pins) THEN Entry(pins[i]) ELSE e]
  BY <1>1, <1>4, <1>5
<1>7. ASSUME NEW i \in 1..n
      PROVE  Entry(pins'[i]) = IF i \in 1..Len(pins) THEN Entry(pins[i]) ELSE e
  <2>1. CASE i \in 1..Len(pins)
    BY <1>1, <2>1
  <2>2. CASE i = n
    BY <1>1, <1>2, <2>2
  <2> QED
    BY <1>1, <2>1, <2>2
<1>8. Ledger' = Append(Ledger, e)
  BY <1>3, <1>6, <1>7
<1> QED
  BY <1>8 DEF e

LEMMA AgreedWritesFree ==
  ASSUME NEW k \in Key, ~Protected(k), Ledger' = Append(Ledger, <<k, {}>>),
         \A o \in Id : QuorumsOf(o)' = QuorumsOf(o) /\ Agreeing(o)' = Agreeing(o),
         deleted' = deleted
  PROVE  Agreed!Next
<1>1. ~Agreed!Contract(k)
  BY DEF Agreed!Contract, Protected, EverApproved, VersionsOf
<1>2. Agreed!WriteFree(k)
  BY <1>1 DEF Agreed!WriteFree, QuorumsOf, Ledger, Entry
<1> QED
  BY <1>2 DEF Agreed!Next

LEMMA AgreedWritesAgreed ==
  ASSUME NEW k \in Key, NEW a \in Id, QuorumsOf(a) # {}, a \notin deleted, ~ApprovalUsed(a),
         NEW q \in QuorumsOf(a), q \subseteq Agreeing(a), Ledger' = Append(Ledger, <<k, {a}>>),
         \A o \in Id : QuorumsOf(o)' = QuorumsOf(o) /\ Agreeing(o)' = Agreeing(o),
         deleted' = deleted
  PROVE  Agreed!Next
<1>1. Agreed!Made(a) /\ ~Agreed!Spent(a)
  BY NotSpent DEF Agreed!Made, QuorumsOf
<1>2. Agreed!WriteAgreed(k, a)
  BY <1>1 DEF Agreed!WriteAgreed, QuorumsOf, Ledger, Entry
<1> QED
  BY <1>2 DEF Agreed!Next

\* Everybody has somebody to agree with.
LEMMA OthersExist == \A r \in Role : Role \ {r} # {}
<1> SUFFICES ASSUME NEW r \in Role, Role = {r} PROVE FALSE
  OBVIOUS
<1>1. Cardinality({r}) = 1
  BY FS_Singleton
<1> QED
  BY <1>1, RolesAssumption

LEMMA QuorumsExist ==
  ASSUME NEW m, message[m] \in Message
  PROVE  Quorums(m) # {} /\ {} \notin Quorums(m) /\ Quorums(m) \in SUBSET SUBSET Role
<1>1. message[m].from \in Role /\ message[m].voters \subseteq Role
  BY DEF Message
<1>2. Role \ {message[m].from} # {}
  BY <1>1, OthersExist
<1>3. Needed(m) # {} /\ Needed(m) \subseteq Role
  BY <1>1, <1>2 DEF Needed
<1>4. CASE AnyoneWillDo(m)
  <2>1. Quorums(m) = {{r} : r \in Role \ {message[m].from}}
    BY <1>4 DEF Quorums
  <2>2. PICK r \in Role : r # message[m].from
    BY <1>2
  <2>3. {r} \in Quorums(m)
    BY <2>1, <2>2
  <2> QED
    BY <2>1, <2>3
<1>5. CASE ~AnyoneWillDo(m)
  <2>1. Quorums(m) = {Needed(m)}
    BY <1>5 DEF Quorums
  <2> QED
    BY <1>3, <2>1
<1> QED
  BY <1>4, <1>5

\* The quorums of a message are settled when it is sent.
LEMMA QuorumsStay ==
  ASSUME TypeOK, [Next]_vars
  PROVE  \A m \in Sent : QuorumsOf(m)' = QuorumsOf(m)
<1> SUFFICES ASSUME NEW m \in Sent PROVE QuorumsOf(m)' = QuorumsOf(m)
  OBVIOUS
<1>1. m \in Sent' /\ SameRow(message'[m], message[m])
  BY RowsStay
<1>2. Quorums(m)' = Quorums(m)
  BY <1>1 DEF Quorums, AnyoneWillDo, Needed, SameRow
<1> QED
  BY <1>1, <1>2 DEF QuorumsOf

LEMMA SendMaps ==
  ASSUME IInv, Send
  PROVE  Agreed!Next
<1>1. PICK r \in Role, draft \in Drafts, to \in SUBSET Role, voters \in SUBSET Role,
           about \in 0..MaxMsg, text \in Text : SendMessage(r, draft, to, voters, about, text)
  BY DEF Send
<1>2. PICK m \in Nat : m = Len(message) + 1
  BY DEF IInv, TypeOK
<1>3. /\ Sent = 1..Len(message) /\ Len(message) \in Nat /\ message \in Seq(Message)
      /\ m \in Id /\ m \notin Sent
  BY <1>1, <1>2, SentIsId, BoundsAssumption DEF IInv, TypeOK, SendMessage, Id
<1>4. Sent' = Sent \cup {m}
  <2>1. PICK row : message' = Append(message, row)
    BY <1>1 DEF SendMessage
  <2> QED
    BY <1>2, <1>3, <2>1 DEF Sent
<1>5. message'[m] \in Message
  <2>1. TypeOK'
    BY <1>1, SendKeeps DEF IInv
  <2> QED
    <3>1. message' \in Seq(Message)
      BY <2>1 DEF TypeOK
    <3>2. m \in DOMAIN message'
      BY <1>4 DEF Sent
    <3> QED
      BY <3>1, <3>2
<1>6. UNCHANGED <<deleted, vote, pins, onText>>
  BY <1>1 DEF SendMessage
<1>7. \A o \in Id : Agreeing(o)' = Agreeing(o)
  BY <1>6 DEF Agreeing
<1>8. \A o \in Id \ {m} : QuorumsOf(o)' = QuorumsOf(o)
  <2>1. \A o \in Sent : QuorumsOf(o)' = QuorumsOf(o)
    BY QuorumsStay DEF IInv, Next
  <2> QED
    BY <1>4, <2>1 DEF QuorumsOf
<1>9. QuorumsOf(m) = {} /\ QuorumsOf(m)' = Quorums(m)'
  BY <1>3, <1>4 DEF QuorumsOf
<1>10. /\ Quorums(m)' # {} /\ {} \notin Quorums(m)' /\ Quorums(m)' \in SUBSET SUBSET Role
  <2>1. /\ message'[m].from \in Role /\ message'[m].voters \subseteq Role
    BY <1>5 DEF Message
  <2>2. Role \ {message'[m].from} # {}
    BY <2>1, OthersExist
  <2>3. Needed(m)' # {} /\ Needed(m)' \subseteq Role
    BY <2>1, <2>2 DEF Needed
  <2>4. CASE AnyoneWillDo(m)'
    <3>1. Quorums(m)' = {{q} : q \in Role \ {message'[m].from}}
      BY <2>4 DEF Quorums
    <3>2. PICK q \in Role : q # message'[m].from
      BY <2>2
    <3>3. {q} \in Quorums(m)'
      BY <3>1, <3>2
    <3> QED
      BY <3>1, <3>3
  <2>5. CASE ~AnyoneWillDo(m)'
    <3>1. Quorums(m)' = {Needed(m)'}
      BY <2>5 DEF Quorums
    <3> QED
      BY <2>3, <3>1
  <2> QED
    BY <2>4, <2>5
<1> QED
  BY <1>3, <1>6, <1>7, <1>8, <1>9, <1>10, AgreedProposes

\* What a tool is called on.
LEMMA LiveIsMade ==
  ASSUME TypeOK, NEW m, Live(m)
  PROVE  m \in Id /\ m \in Sent /\ m \notin deleted /\ QuorumsOf(m) = Quorums(m) /\ QuorumsOf(m) # {}
<1>1. m \in Sent /\ m \in Id /\ message[m] \in Message
  BY SentIsId DEF Live
<1> QED
  BY <1>1, QuorumsExist DEF Live, QuorumsOf

LEMMA ReviseMaps ==
  ASSUME IInv, NEW r \in Role, NEW m \in Id, NEW text \in Text, ReviseMessage(r, m, text),
         \A o \in Id : QuorumsOf(o)' = QuorumsOf(o)
  PROVE  Agreed!Next
<1>1. /\ Live(m) /\ ~ApprovalUsed(m) /\ onText' = [onText EXCEPT ![m] = {}]
      /\ UNCHANGED <<deleted, vote, pins>>
  BY DEF ReviseMessage
<1>2. onText'[m] = {} /\ \A o \in Id \ {m} : onText'[o] = onText[o]
  BY <1>1 DEF IInv, TypeOK
<1>3. Agreeing(m)' = {} /\ \A o \in Id \ {m} : Agreeing(o)' = Agreeing(o)
  BY <1>1, <1>2 DEF Agreeing
<1>4. QuorumsOf(m) # {} /\ m \notin deleted
  BY <1>1, LiveIsMade DEF IInv
<1> QED
  BY <1>1, <1>3, <1>4, AgreedRewords

LEMMA AcknowledgeMaps ==
  ASSUME IInv, NEW r \in Role, NEW m \in Id, NEW d \in Decision, Acknowledge(r, m, d),
         \A o \in Id : QuorumsOf(o)' = QuorumsOf(o)
  PROVE  Agreed!Next
<1>1. /\ Live(m) /\ onText' = [onText EXCEPT ![m] = @ \cup {r}]
      /\ vote' = [vote EXCEPT ![m][r] = [decision |-> d, at |-> clock]]
      /\ UNCHANGED <<deleted, pins>>
  BY DEF Acknowledge
<1>2. /\ onText'[m] = onText[m] \cup {r} /\ \A o \in Id \ {m} : onText'[o] = onText[o]
      /\ vote'[m][r].decision = d /\ \A q \in Role : q # r => vote'[m][q] = vote[m][q]
      /\ \A o \in Id \ {m} : vote'[o] = vote[o]
      /\ onText[m] \subseteq Role
  BY <1>1 DEF IInv, TypeOK
<1>3. \A o \in Id \ {m} : Agreeing(o)' = Agreeing(o)
  BY <1>2 DEF Agreeing
<1>4. PICK yes \in BOOLEAN : yes <=> d = "agree"
  OBVIOUS
<1>5. yes => Agreeing(m)' = Agreeing(m) \cup {r}
  BY <1>2, <1>4 DEF Agreeing
<1>6. ~yes => Agreeing(m)' = Agreeing(m) \ {r}
  BY <1>2, <1>4 DEF Agreeing
<1>7. QuorumsOf(m) # {} /\ m \notin deleted
  BY <1>1, LiveIsMade DEF IInv
<1> QED
  BY <1>1, <1>3, <1>5, <1>6, <1>7, AgreedDecides

\* A quorum that pin_set finds by comparing times agrees to the present text.
LEMMA QuorumAgrees ==
  ASSUME IInv, NEW a \in Id, NEW k \in Key, Live(a), QuorumReached(a, k)
  PROVE  \E q \in QuorumsOf(a) : q \subseteq Agreeing(a)
<1>1. QuorumsOf(a) = Quorums(a) /\ a \in Sent
  BY LiveIsMade DEF IInv
<1>2. FreshAgrees(a) \subseteq Agreeing(a)
  BY <1>1 DEF IInv, FreshMeansCurrentText, FreshAgrees, FreshlySays, Agreeing
<1>3. CASE AnyoneWillDo(a)
  <2>1. PICK r \in Role : r \in FreshAgrees(a) /\ vote[a][r].decision = "agree"
    BY <1>3 DEF QuorumReached, FreshAgrees, FreshlySays
  <2>2. r # message[a].from
    BY <1>1, <2>1 DEF IInv, TypeOK
  <2>3. {r} \in Quorums(a)
    BY <1>3, <2>2 DEF Quorums
  <2> QED
    BY <1>1, <1>2, <2>1, <2>3
<1>4. CASE ~AnyoneWillDo(a)
  BY <1>1, <1>2, <1>4 DEF QuorumReached, Quorums
<1> QED
  BY <1>3, <1>4

LEMMA PinMaps ==
  ASSUME IInv, NEW r \in Role, NEW k \in Key, NEW a \in 0..MaxMsg, PinSet(r, k, a),
         \A o \in Id : QuorumsOf(o)' = QuorumsOf(o)
  PROVE  Agreed!Next
<1>1. CheckPinApproval(k, r, a) /\ UNCHANGED <<deleted, vote, onText>>
  BY DEF PinSet
<1>2. \A o \in Id : Agreeing(o)' = Agreeing(o)
  BY <1>1 DEF Agreeing
<1>3. Ledger' = Append(Ledger, <<k, IF a = 0 THEN {} ELSE {a}>>)
  BY LedgerAppends DEF IInv
<1>4. CASE a = 0
  <2>1. ~Protected(k)
    BY <1>1, <1>4 DEF CheckPinApproval
  <2>2. Ledger' = Append(Ledger, <<k, {}>>)
    BY <1>3, <1>4
  <2> QED
    BY <1>1, <1>2, <2>1, <2>2, AgreedWritesFree
<1>5. CASE a # 0
  <2>1. Live(a) /\ ~ApprovalUsed(a) /\ QuorumReached(a, k)
    BY <1>1, <1>5 DEF CheckPinApproval
  <2>2. a \in Id /\ QuorumsOf(a) # {} /\ a \notin deleted
    BY <2>1, LiveIsMade DEF IInv
  <2>3. PICK q \in QuorumsOf(a) : q \subseteq Agreeing(a)
    BY <2>1, <2>2, QuorumAgrees
  <2>4. Ledger' = Append(Ledger, <<k, {a}>>)
    BY <1>3, <1>5
  <2> QED
    BY <1>1, <1>2, <2>1, <2>2, <2>3, <2>4, AgreedWritesAgreed
<1> QED
  BY <1>4, <1>5

LEMMA DeleteMaps ==
  ASSUME IInv, NEW r \in Role, NEW m \in Id, DeleteMessage(r, m),
         \A o \in Id : QuorumsOf(o)' = QuorumsOf(o)
  PROVE  Agreed!Next
<1>1. /\ Live(m) /\ ~ApprovalUsed(m) /\ deleted' = deleted \cup {m}
      /\ UNCHANGED <<vote, pins, onText>>
  BY DEF DeleteMessage
<1>2. \A o \in Id : Agreeing(o)' = Agreeing(o)
  BY <1>1 DEF Agreeing
<1>3. QuorumsOf(m) # {} /\ m \notin deleted
  BY <1>1, LiveIsMade DEF IInv
<1> QED
  BY <1>1, <1>2, <1>3, AgreedWithdraws

LEMMA StepMaps ==
  ASSUME IInv, [Next]_vars
  PROVE  [Agreed!Next]_(Agreed!vars)
<1>1. CASE Send
  BY <1>1, SendMaps
<1>2. CASE ~Send
  <2>1. Sent' = Sent
    <3>1. CASE Revise
      BY <3>1, SentIsId DEF IInv, Revise, ReviseMessage, TypeOK, Sent
    <3>2. CASE Ack \/ Pin \/ Delete \/ Tick \/ UNCHANGED vars
      BY <3>2 DEF Ack, Acknowledge, Pin, PinSet, Delete, DeleteMessage, Tick, vars, Sent
    <3> QED
      BY <1>2, <3>1, <3>2 DEF Next
  <2>2. \A o \in Id : QuorumsOf(o)' = QuorumsOf(o)
    <3>1. \A o \in Sent : QuorumsOf(o)' = QuorumsOf(o)
      BY QuorumsStay DEF IInv
    <3> QED
      BY <2>1, <3>1 DEF QuorumsOf
  <2>3. CASE Revise
    BY <2>2, <2>3, ReviseMaps DEF Revise
  <2>4. CASE Ack
    BY <2>2, <2>4, AcknowledgeMaps DEF Ack
  <2>5. CASE Pin
    BY <2>2, <2>5, PinMaps DEF Pin
  <2>6. CASE Delete
    BY <2>2, <2>6, DeleteMaps DEF Delete
  <2>7. CASE Tick \/ UNCHANGED vars
    <3>1. UNCHANGED <<deleted, vote, pins, onText>>
      BY <2>7 DEF Tick, vars
    <3>2. \A o \in Id : Agreeing(o)' = Agreeing(o)
      BY <3>1 DEF Agreeing
    <3> QED
      BY <2>2, <3>1, <3>2, AgreedStays
  <2> QED
    BY <1>2, <2>3, <2>4, <2>5, <2>6, <2>7 DEF Next
<1> QED
  BY <1>1, <1>2

\* Consent implements AgreedPins: pin_set writes a version of a contract only
\* when a quorum agrees to the text as it is worded at that moment, although it
\* goes by the times of votes, revisions and versions alone, and each proposal
\* is spent on one version.
THEOREM ConsentImplementsAgreedPins == Spec => PinsAreAgreed
<1>1. Init => Agreed!Init
  <2> SUFFICES ASSUME Init PROVE Agreed!Init
    OBVIOUS
  <2>1. Sent = {} /\ deleted = {} /\ pins = <<>>
    BY DEF Init, Sent
  <2>2. \A m \in Id : Agreeing(m) = {}
    BY DEF Init, Agreeing
  <2> QED
    BY <2>1, <2>2 DEF Agreed!Init
<1>2. IInv /\ [Next]_vars => [Agreed!Next]_(Agreed!vars)
  BY StepMaps
<1> QED
  BY <1>1, <1>2, Always, PTL DEF Spec, PinsAreAgreed, Agreed!Spec
=============================================================================
