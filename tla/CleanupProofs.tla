----------------------------- MODULE CleanupProofs -----------------------------
(***************************************************************************)
(* What module Cleanup guarantees for every history, text and key: a pass  *)
(* over settled rounds, its undo and the live rules retire messages beside *)
(* one another, and what the channel has agreed on comes to no harm.       *)
(*                                                                         *)
(* The tools of module Consent go on as they are proved there; what is new *)
(* is the versions that were written before the rules, which retired       *)
(* nothing, and the steps that only retire and put back.                   *)
(***************************************************************************)
EXTENDS Cleanup, ConsentProofs, WellFoundedInduction

Event ==
  [event : {"superseded", "superseded_backfill", "superseded_undone"},
   by : SUBSET Role, keys : SUBSET Key]

CleanTypeOK ==
  /\ TypeOK
  /\ before \in BOOLEAN
  /\ created \in Seq(Nat) /\ Len(created) = Len(message)
  /\ setBy \in Seq(Role) /\ Len(setBy) = Len(pins)
  /\ log \in [Id -> Seq(Event)]
  /\ byRules \subseteq Id

\* Retired, and undo_backfill will find that a live rule did it.
RetiredForGood(m) ==
  m \in superseded /\ Retirements(m) # {} /\ LastRetirement(m).event = "superseded"

\* Nothing is retired before the rules, nor without an event on record; and
\* where a live rule ever retired a message, its event is the newest retirement.
RetirementsAreRecorded ==
  /\ \A m \in superseded : ~before /\ Retirements(m) # {}
  /\ \A m \in byRules : RetiredForGood(m)

\* ApprovalsStand, but for the retirement: versions of the old releases retire
\* nothing, and a pass that did may be undone.
ApprovalsRemain ==
  \A i \in DOMAIN pins : pins[i].approvedBy # 0 =>
    LET m == pins[i].approvedBy IN
      /\ m \in Sent
      /\ message[m].proc /\ m \notin deleted
      /\ message[m].pinKey \in {pins[i].key, NoKey}

CleanRecords == ApprovalsRemain /\ OneApprovalOneVersion /\ ContractStaysContract

CleanInv == IInv /\ CleanTypeOK /\ RetirementsAreRecorded /\ CleanRecords

-----------------------------------------------------------------------------
(* The log of retirements.                                                  *)

LEMMA NewestIs ==
  ASSUME NEW S \in SUBSET Nat, NEW i \in S, \A j \in S : j <= i
  PROVE  NewestOf(S) = i
<1>1. \A j \in S : (\A x \in S : x <= j) => j = i
  OBVIOUS
<1> QED
  BY <1>1 DEF NewestOf

\* A retirement that is logged is the newest event and the newest retirement.
LEMMA LoggedIsNewest ==
  ASSUME log \in [Id -> Seq(Event)], NEW S, NEW e, Logged(S, e), NEW m \in Id, m \in S,
         e.event \in {"superseded", "superseded_backfill"}
  PROVE  /\ NewestEvent(m)' = e
         /\ Retirements(m)' # {}
         /\ LastRetirement(m)' = e
<1> DEFINE n == Len(log[m]) + 1
<1>1. log[m] \in Seq(Event) /\ log'[m] = Append(log[m], e)
  BY DEF Logged
<1>2. n \in Nat /\ Len(log'[m]) = n /\ DOMAIN log'[m] = 1..n /\ log'[m][n] = e
  BY <1>1
<1>3. Retirements(m)' \in SUBSET Nat /\ n \in Retirements(m)' /\ \A j \in Retirements(m)' : j <= n
  BY <1>2 DEF Retirements
<1>4. NewestOf(Retirements(m)') = n
  BY <1>3, NewestIs
<1> QED
  BY <1>2, <1>3, <1>4 DEF NewestEvent, LastRetirement

LEMMA UnloggedStays ==
  ASSUME log \in [Id -> Seq(Event)], NEW S, NEW e, Logged(S, e), NEW m \in Id, m \notin S
  PROVE  /\ Retirements(m)' = Retirements(m)
         /\ LastRetirement(m)' = LastRetirement(m)
<1>1. log'[m] = log[m]
  BY DEF Logged
<1>2. Retirements(m)' = Retirements(m)
  BY <1>1 DEF Retirements
<1> QED
  BY <1>1, <1>2 DEF LastRetirement

LEMMA LogKeepsType ==
  ASSUME log \in [Id -> Seq(Event)], NEW S, NEW e \in Event, Logged(S, e)
  PROVE  log' \in [Id -> Seq(Event)]
<1>1. \A m \in Id : Append(log[m], e) \in Seq(Event)
  OBVIOUS
<1> QED
  BY <1>1 DEF Logged

-----------------------------------------------------------------------------
(* What a pass retires.                                                     *)

\* All that the cascade adds hangs on something that is retired with it.
LEMMA CascadeHangs ==
  ASSUME TypeOK, NEW S \in SUBSET Id, NEW n \in Cascade(S), n \notin S
  PROVE  message[n].about \in S \cup Cascade(S)
<1> SUFFICES ASSUME message[n].about \notin S \cup Cascade(S)
             PROVE  FALSE
  OBVIOUS
<1> DEFINE C == (S \cup Cascade(S)) \ {n}
<1>1. Cascade(S) \subseteq Id
  BY SentIsId DEF Cascade
<1>2. C \in SUBSET Id /\ S \subseteq C
  BY <1>1
<1>3. ASSUME NEW i \in Sent, Standing(i), message[i].about \in C
      PROVE  i \in C
  <2>1. i \in S \cup Cascade(S)
    BY <1>3, CascadeIsClosed
  <2> QED
    BY <1>3, <2>1
<1>4. n \in C
  BY <1>2, <1>3 DEF Cascade
<1> QED
  BY <1>4

LEMMA CandidatesStand ==
  /\ Settled \subseteq {m \in Sent : Standing(m)}
  /\ Candidates \subseteq {m \in Sent : Standing(m)}
<1>1. Settled \subseteq {m \in Sent : Standing(m)}
  BY DEF Settled, Claims, IsProposal, AboutTheDead, CitesTheDead, Proposals
<1>2. CitesAny(Settled) \subseteq {m \in Sent : Standing(m)}
  BY DEF CitesAny, Proposals, IsProposal
<1> QED
  BY <1>1, <1>2 DEF Candidates

\* One pass: what it names, and what hangs on that.
Pass(r, ids, keys) ==
  /\ r \in Role /\ keys \in SUBSET Key /\ ids \in SUBSET InPass(keys)
  /\ ~before /\ ApplyBackfill(r, ids, keys)

LEMMA ApplyIsAPass ==
  ASSUME Apply
  PROVE  \E r, ids, keys : Pass(r, ids, keys)
BY DEF Apply, Pass

LEMMA PassRetires ==
  ASSUME CleanTypeOK, NEW r, NEW ids, NEW keys, Pass(r, ids, keys)
  PROVE  LET all == ids \cup Cascade(ids) IN
         /\ ids \subseteq Candidates /\ ids \subseteq Id
         /\ all \subseteq Sent /\ all \cap superseded = {}
         /\ superseded' = superseded \cup all
         /\ Logged(all, ByCleanup(r, keys))
         /\ UNCHANGED <<clock, message, deleted, vote, pins, deaths, onText>>
         /\ UNCHANGED <<before, created, setBy, byRules>>
<1>1. ids \subseteq Candidates
  BY DEF Pass, InPass
<1>2. ids \subseteq {m \in Sent : Standing(m)}
  BY <1>1, CandidatesStand
<1>3. Cascade(ids) \subseteq {m \in Sent : Standing(m)}
  BY DEF Cascade
<1>4. ids \subseteq Id
  BY <1>2, SentIsId DEF CleanTypeOK
<1>5. (ids \cup Cascade(ids)) \cap superseded = {}
  BY <1>2, <1>3 DEF Standing
<1> QED
  BY <1>1, <1>2, <1>3, <1>4, <1>5 DEF Pass, ApplyBackfill

-----------------------------------------------------------------------------
(* The steps, as module Consent knows them.                                 *)

\* The steps that only retire messages or put them back.
OnlyRetires ==
  /\ superseded' \subseteq Sent
  /\ UNCHANGED <<clock, message, deleted, vote, pins, deaths, onText>>

LEMMA PassOnlyRetires ==
  ASSUME CleanTypeOK, Apply
  PROVE  OnlyRetires
<1>1. PICK r, ids, keys : Pass(r, ids, keys)
  BY ApplyIsAPass
<1>2. superseded \subseteq Sent
  BY DEF CleanTypeOK, TypeOK
<1> QED
  BY <1>1, <1>2, PassRetires DEF OnlyRetires

LEMMA UndoOnlyRetires ==
  ASSUME CleanTypeOK, Undo
  PROVE  OnlyRetires
BY DEF CleanTypeOK, TypeOK, Undo, UndoBackfill, OnlyRetires

LEMMA ToolsAreConsents ==
  ASSUME OtherTools \/ TimePasses \/ OldSend \/ RulesArrive \/ UNCHANGED cleanVars
  PROVE  [Next]_vars
<1>1. CASE OtherTools
  BY <1>1 DEF OtherTools, Next, Pin
<1>2. CASE TimePasses
  BY <1>2 DEF TimePasses, Next
<1>3. CASE OldSend
  BY <1>3 DEF OldSend, Next
<1>4. CASE RulesArrive
  BY <1>4 DEF RulesArrive
<1>5. CASE UNCHANGED cleanVars
  BY <1>5 DEF cleanVars
<1> QED
  BY <1>1, <1>2, <1>3, <1>4, <1>5

AnyOldPin == \E r \in Role, k \in Key, a \in 0..MaxMsg : OldPin(r, k, a)

\* Every step: of Consent, of the old releases, or one that only retires.
LEMMA Steps ==
  ASSUME CleanTypeOK, [CleanNext]_cleanVars
  PROVE  [Next]_vars \/ AnyOldPin \/ OnlyRetires
BY PassOnlyRetires, UndoOnlyRetires, ToolsAreConsents DEF CleanNext, Old, AnyOldPin

-----------------------------------------------------------------------------
(* The tables.                                                              *)

LEMMA OldPinKeeps ==
  ASSUME IInv, AnyOldPin
  PROVE  IInv'
<1>1. PICK r \in Role, k \in Key, a \in 0..MaxMsg : OldPin(r, k, a)
  BY DEF AnyOldPin
<1>2. /\ TypeOK /\ Sent' = Sent /\ Len(pins) < MaxPin
      /\ UNCHANGED <<clock, message, deleted, superseded, vote, deaths, onText>>
      /\ pins' = Append(pins, [key |-> k, approvedBy |-> a, at |-> clock])
  BY <1>1 DEF IInv, OldPin, Sent
<1>3. pins' \in Seq(Version) /\ Len(pins') = Len(pins) + 1 /\ Len(pins) \in Nat
  BY <1>2, VersionAppends
<1>4. Len(pins') <= MaxPin
  BY <1>2, <1>3, BoundsAssumption
<1>5. TypeOK'
  BY <1>2, <1>3, <1>4 DEF TypeOK
<1>6. RecordsArePast' /\ FreshMeansCurrentText'
  BY <1>2 DEF IInv, RecordsArePast, FreshMeansCurrentText, Fresh
<1> QED
  BY <1>5, <1>6 DEF IInv

LEMMA RetiringKeeps ==
  ASSUME IInv, OnlyRetires
  PROVE  IInv'
<1>1. /\ TypeOK /\ Sent' = Sent /\ superseded' \subseteq Sent
      /\ UNCHANGED <<clock, message, deleted, vote, pins, deaths, onText>>
  BY DEF IInv, OnlyRetires, Sent
<1>2. TypeOK'
  BY <1>1 DEF TypeOK
<1>3. RecordsArePast' /\ FreshMeansCurrentText'
  BY <1>1 DEF IInv, RecordsArePast, FreshMeansCurrentText, Fresh
<1> QED
  BY <1>2, <1>3 DEF IInv

\* The clock, when it stands for when a message was sent.
LEMMA CreatedKeeps ==
  ASSUME TypeOK, created \in Seq(Nat), Len(created) = Len(message), Send,
         created' = Append(created, clock)
  PROVE  created' \in Seq(Nat) /\ Len(created') = Len(message')
<1>1. clock \in Nat /\ message \in Seq(Message) /\ Len(message) \in Nat
  BY BoundsAssumption DEF TypeOK
<1>2. PICK row : message' = Append(message, row)
  BY DEF Send, SendMessage
<1>3. Len(message') = Len(message) + 1
  BY <1>1, <1>2
<1> QED
  BY <1>1, <1>3

LEMMA SetByKeeps ==
  ASSUME TypeOK, setBy \in Seq(Role), Len(setBy) = Len(pins),
         NEW r \in Role, NEW k \in Key, NEW a \in 0..MaxMsg,
         pins' = Append(pins, [key |-> k, approvedBy |-> a, at |-> clock]),
         setBy' = Append(setBy, r)
  PROVE  setBy' \in Seq(Role) /\ Len(setBy') = Len(pins')
<1>1. Len(pins') = Len(pins) + 1
  BY VersionAppends
<1> QED
  BY <1>1

LEMMA RetiredAreIds ==
  ASSUME TypeOK'
  PROVE  superseded' \subseteq Id
<1>1. message' \in Seq(Message) /\ Len(message') <= MaxMsg /\ superseded' \subseteq DOMAIN message'
  BY DEF TypeOK, Sent
<1> QED
  BY <1>1, BoundsAssumption DEF Id

\* The tools that send and revise keep as many rows as there are times of them.
LEMMA ReviseKeepsLength ==
  ASSUME TypeOK, Revise
  PROVE  Len(message') = Len(message)
BY DEF TypeOK, Revise, ReviseMessage

LEMMA TablesInductive ==
  ASSUME CleanTypeOK, TypeOK', [CleanNext]_cleanVars
  PROVE  CleanTypeOK'
<1>1. TypeOK /\ log \in [Id -> Seq(Event)]
  BY DEF CleanTypeOK
<1>2. CASE Apply
  <2>1. PICK r, ids, keys : Pass(r, ids, keys)
    BY <1>2, ApplyIsAPass
  <2>2. ByCleanup(r, keys) \in Event
    BY <2>1 DEF Pass, ByCleanup, Event
  <2>3. log' \in [Id -> Seq(Event)]
    BY <1>1, <2>1, <2>2, PassRetires, LogKeepsType
  <2> QED
    BY <2>1, <2>3, PassRetires DEF CleanTypeOK
<1>3. CASE Undo
  <2>1. PICK r, ids : UndoBackfill(r, ids)
    BY <1>3 DEF Undo
  <2>2. Undone \in Event
    BY DEF Undone, Event
  <2>3. log' \in [Id -> Seq(Event)]
    BY <1>1, <2>1, <2>2, LogKeepsType DEF UndoBackfill
  <2> QED
    BY <2>1, <2>3 DEF CleanTypeOK, UndoBackfill
<1>4. CASE OtherTools
  <2>1. ByTheRules \in Event
    BY DEF ByTheRules, Event
  <2>2. log' \in [Id -> Seq(Event)] /\ before' \in BOOLEAN
    BY <1>1, <1>4, <2>1, LogKeepsType DEF OtherTools, Retiring, CleanTypeOK
  <2>0. byRules' \subseteq Id
    BY <1>4, RetiredAreIds DEF OtherTools, Retiring, CleanTypeOK
  <2>3. CASE Send /\ created' = Append(created, clock) /\ UNCHANGED setBy
    <3>1. created' \in Seq(Nat) /\ Len(created') = Len(message')
      BY <2>3, CreatedKeeps DEF CleanTypeOK
    <3>2. UNCHANGED pins
      BY <2>3 DEF Send, SendMessage
    <3> QED
      BY <2>0, <2>2, <2>3, <3>1, <3>2 DEF CleanTypeOK
  <2>4. CASE (Revise \/ Ack \/ Delete) /\ UNCHANGED <<created, setBy>>
    <3>1. UNCHANGED pins /\ Len(message') = Len(message)
      BY <1>1, <2>4, ReviseKeepsLength
      DEF Revise, ReviseMessage, Ack, Acknowledge, Delete, DeleteMessage
    <3> QED
      BY <2>0, <2>2, <2>4, <3>1 DEF CleanTypeOK
  <2>5. CASE \E r \in Role, k \in Key, a \in 0..MaxMsg :
               PinSet(r, k, a) /\ setBy' = Append(setBy, r) /\ UNCHANGED created
    <3>1. PICK r \in Role, k \in Key, a \in 0..MaxMsg :
            PinSet(r, k, a) /\ setBy' = Append(setBy, r) /\ UNCHANGED created
      BY <2>5
    <3>2. setBy' \in Seq(Role) /\ Len(setBy') = Len(pins')
      BY <3>1, SetByKeeps DEF CleanTypeOK, PinSet
    <3>3. UNCHANGED <<message, created>>
      BY <3>1 DEF PinSet
    <3> QED
      BY <2>0, <2>2, <3>2, <3>3 DEF CleanTypeOK
  <2> QED
    BY <1>4, <2>3, <2>4, <2>5 DEF OtherTools
<1>5. CASE TimePasses
  BY <1>5 DEF CleanTypeOK, TimePasses, Tick
<1>6. CASE OldSend
  <2>1. created' \in Seq(Nat) /\ Len(created') = Len(message')
    BY <1>6, CreatedKeeps DEF CleanTypeOK, OldSend
  <2>2. UNCHANGED pins
    BY <1>6 DEF OldSend, Send, SendMessage
  <2> QED
    BY <1>6, <2>1, <2>2 DEF CleanTypeOK, OldSend
<1>7. CASE RulesArrive
  BY <1>7 DEF CleanTypeOK, RulesArrive, vars
<1>8. CASE AnyOldPin
  <2>1. PICK r \in Role, k \in Key, a \in 0..MaxMsg : OldPin(r, k, a)
    BY <1>8 DEF AnyOldPin
  <2>2. setBy' \in Seq(Role) /\ Len(setBy') = Len(pins')
    BY <2>1, SetByKeeps DEF CleanTypeOK, OldPin
  <2> QED
    BY <2>1, <2>2 DEF CleanTypeOK, OldPin
<1>9. CASE UNCHANGED cleanVars
  BY <1>9 DEF CleanTypeOK, cleanVars, vars
<1> QED
  BY <1>2, <1>3, <1>4, <1>5, <1>6, <1>7, <1>8, <1>9 DEF CleanNext, Old, AnyOldPin

\* undo_backfill goes by the newest retirement, and no pass retires again what
\* is retired: what a live rule retired stays so.
LEMMA ForGoodStays ==
  ASSUME CleanTypeOK, NEW m \in Id, RetiredForGood(m), [CleanNext]_cleanVars
  PROVE  RetiredForGood(m)'
<1>1. /\ log \in [Id -> Seq(Event)] /\ m \in superseded
      /\ Retirements(m) # {} /\ LastRetirement(m).event = "superseded"
  BY DEF CleanTypeOK, RetiredForGood
<1>2. CASE Apply
  <2>1. PICK r, ids, keys : Pass(r, ids, keys)
    BY <1>2, ApplyIsAPass
  <2>2. PICK all : all = ids \cup Cascade(ids)
    OBVIOUS
  <2>3. /\ all \cap superseded = {} /\ superseded' = superseded \cup all
        /\ Logged(all, ByCleanup(r, keys))
    BY <2>1, <2>2, PassRetires
  <2>4. m \notin all
    BY <1>1, <2>3
  <2> QED
    BY <1>1, <2>3, <2>4, UnloggedStays DEF RetiredForGood
<1>3. CASE Undo
  <2>1. PICK r, ids : UndoBackfill(r, ids)
    BY <1>3 DEF Undo
  <2>2. m \notin ids
    BY <1>1, <2>1 DEF UndoBackfill, MayUndo
  <2> QED
    BY <1>1, <2>1, <2>2, UnloggedStays DEF RetiredForGood, UndoBackfill
<1>4. CASE OtherTools
  <2>1. superseded \subseteq superseded'
    BY <1>4 DEF OtherTools, Send, SendMessage, Revise, ReviseMessage, Ack, Acknowledge, Delete,
                DeleteMessage, PinSet
  <2>2. Logged(superseded' \ superseded, ByTheRules)
    BY <1>4 DEF OtherTools, Retiring
  <2>3. m \in superseded' /\ m \notin superseded' \ superseded
    BY <1>1, <2>1
  <2> QED
    BY <1>1, <2>2, <2>3, UnloggedStays DEF RetiredForGood
<1>5. CASE TimePasses \/ Old \/ UNCHANGED cleanVars
  <2>1. UNCHANGED <<superseded, log>>
    BY <1>5 DEF TimePasses, Tick, Old, OldSend, Send, SendMessage, RulesArrive, OldPin,
                cleanVars, vars
  <2> QED
    BY <1>1, <2>1 DEF RetiredForGood, LastRetirement, Retirements
<1> QED
  BY <1>2, <1>3, <1>4, <1>5 DEF CleanNext

LEMMA RetirementsInductive ==
  ASSUME CleanTypeOK, CleanTypeOK', RetirementsAreRecorded, [CleanNext]_cleanVars
  PROVE  RetirementsAreRecorded'
<1>1. superseded' \subseteq Id /\ byRules \subseteq Id /\ log \in [Id -> Seq(Event)]
  BY RetiredAreIds DEF CleanTypeOK
<1>2. \A m \in byRules : RetiredForGood(m)'
  BY <1>1, ForGoodStays DEF RetirementsAreRecorded
<1>3. CASE Apply
  <2>1. PICK r, ids, keys : Pass(r, ids, keys)
    BY <1>3, ApplyIsAPass
  <2>2. PICK all : all = ids \cup Cascade(ids)
    OBVIOUS
  <2>3. /\ superseded' = superseded \cup all /\ Logged(all, ByCleanup(r, keys))
        /\ UNCHANGED <<before, byRules>> /\ ~before
    BY <2>1, <2>2, PassRetires DEF Pass
  <2>4. ByCleanup(r, keys).event = "superseded_backfill"
    BY DEF ByCleanup
  <2>5. \A m \in superseded' : Retirements(m)' # {}
    BY <1>1, <2>3, <2>4, LoggedIsNewest, UnloggedStays DEF RetirementsAreRecorded
  <2> QED
    BY <1>2, <2>3, <2>5 DEF RetirementsAreRecorded
<1>4. CASE Undo
  <2>1. PICK r, ids : UndoBackfill(r, ids)
    BY <1>4 DEF Undo
  <2>2. /\ superseded' = superseded \ ids /\ Logged(ids, Undone)
        /\ UNCHANGED <<before, byRules>>
    BY <2>1 DEF UndoBackfill
  <2>3. \A m \in superseded' : Retirements(m)' # {}
    BY <1>1, <2>2, UnloggedStays DEF RetirementsAreRecorded
  <2> QED
    BY <1>2, <2>2, <2>3 DEF RetirementsAreRecorded
<1>5. CASE OtherTools
  <2>1. PICK fresh : fresh = superseded' \ superseded
    OBVIOUS
  <2>2. /\ Logged(fresh, ByTheRules) /\ byRules' = byRules \cup fresh
        /\ ~before /\ UNCHANGED before
    BY <1>5, <2>1 DEF OtherTools, Retiring
  <2>3. ByTheRules.event = "superseded"
    BY DEF ByTheRules
  <2>4. \A m \in fresh : RetiredForGood(m)'
    BY <1>1, <2>1, <2>2, <2>3, LoggedIsNewest DEF RetiredForGood
  <2>5. \A m \in superseded' \ fresh : Retirements(m)' # {}
    BY <1>1, <2>1, <2>2, UnloggedStays DEF RetirementsAreRecorded
  <2>6. \A m \in superseded' : Retirements(m)' # {}
    BY <2>4, <2>5 DEF RetiredForGood
  <2> QED
    BY <1>2, <2>2, <2>4, <2>6 DEF RetirementsAreRecorded
<1>6. CASE TimePasses \/ Old \/ UNCHANGED cleanVars
  <2>1. UNCHANGED <<superseded, log, byRules>> /\ (before \/ UNCHANGED before)
    BY <1>6 DEF TimePasses, Tick, Old, OldSend, Send, SendMessage, RulesArrive, OldPin,
                cleanVars, vars
  <2>2. \A m \in superseded : Retirements(m)' = Retirements(m)
    BY <2>1 DEF Retirements
  <2> QED
    BY <1>2, <2>1, <2>2 DEF RetirementsAreRecorded
<1> QED
  BY <1>3, <1>4, <1>5, <1>6 DEF CleanNext

-----------------------------------------------------------------------------
(* The approval records.                                                    *)

LEMMA VersionKeepsRecords ==
  ASSUME TypeOK, CleanRecords, NEW k \in Key, NEW a \in 0..MaxMsg,
         pins' = Append(pins, [key |-> k, approvedBy |-> a, at |-> clock]),
         UNCHANGED <<message, deleted>>,
         a # 0 => /\ Live(a) /\ message[a].proc /\ message[a].pinKey \in {k, NoKey}
                  /\ ~ApprovalUsed(a),
         a = 0 => ~Protected(k)
  PROVE  CleanRecords'
<1>1. OneApprovalOneVersion' /\ ContractStaysContract'
  BY VersionKeepsContracts DEF CleanRecords
<1> DEFINE n == Len(pins) + 1
<1>2. /\ DOMAIN pins = 1..Len(pins) /\ Len(pins) \in Nat /\ DOMAIN pins' = 1..n
      /\ \A i \in DOMAIN pins : pins'[i] = pins[i]
  BY VersionAppends
<1>3. pins'[n].key = k /\ pins'[n].approvedBy = a
  <2>1. pins'[n] = [key |-> k, approvedBy |-> a, at |-> clock]
    BY VersionAppends
  <2> QED
    BY <2>1
<1>4. ApprovalsRemain'
  <2> SUFFICES ASSUME NEW i \in 1..n, pins'[i].approvedBy # 0
               PROVE  LET m == pins'[i].approvedBy IN
                        /\ m \in Sent'
                        /\ message'[m].proc /\ m \notin deleted'
                        /\ message'[m].pinKey \in {pins'[i].key, NoKey}
    BY <1>2 DEF ApprovalsRemain
  <2>1. CASE i = n
    BY <1>3, <2>1 DEF Live, Sent
  <2>2. CASE i \in DOMAIN pins
    BY <1>2, <2>2 DEF CleanRecords, ApprovalsRemain, Sent
  <2> QED
    BY <1>2, <2>1, <2>2
<1> QED
  BY <1>1, <1>4 DEF CleanRecords

LEMMA OtherStepsKeep ==
  ASSUME CleanRecords, pins' = pins, Sent \subseteq Sent',
         \A m \in Sent : /\ message'[m].proc = message[m].proc
                         /\ message'[m].pinKey = message[m].pinKey,
         \A m \in deleted' : m \in deleted \/ ~ApprovalUsed(m)
  PROVE  CleanRecords'
<1>1. ApprovalsRemain'
  <2> SUFFICES ASSUME NEW i \in DOMAIN pins, pins[i].approvedBy # 0
               PROVE  LET m == pins[i].approvedBy IN
                        /\ m \in Sent'
                        /\ message'[m].proc /\ m \notin deleted'
                        /\ message'[m].pinKey \in {pins[i].key, NoKey}
    BY DEF ApprovalsRemain
  <2> DEFINE m == pins[i].approvedBy
  <2>1. /\ m \in Sent /\ message[m].proc /\ m \notin deleted
        /\ message[m].pinKey \in {pins[i].key, NoKey}
    BY DEF CleanRecords, ApprovalsRemain
  <2>2. ApprovalUsed(m)
    BY DEF ApprovalUsed
  <2> QED
    BY <2>1, <2>2
<1>2. OneApprovalOneVersion' /\ ContractStaysContract'
  BY DEF CleanRecords, OneApprovalOneVersion, ContractStaysContract
<1> QED
  BY <1>1, <1>2 DEF CleanRecords

LEMMA ToolsKeepRecords ==
  ASSUME TypeOK, CleanRecords, [Next]_vars
  PROVE  CleanRecords'
<1>1. CASE Pin
  <2>1. PICK r \in Role, k \in Key, a \in 0..MaxMsg : PinSet(r, k, a)
    BY <1>1 DEF Pin
  <2>2. a # 0 => /\ Live(a) /\ message[a].proc /\ message[a].pinKey \in {k, NoKey}
                 /\ ~ApprovalUsed(a)
    BY <2>1 DEF PinSet, CheckPinApproval, ApprovalNamesKey, ClaimedBy
  <2>3. a = 0 => ~Protected(k)
    BY <2>1 DEF PinSet, CheckPinApproval
  <2>4. /\ UNCHANGED <<message, deleted>>
        /\ pins' = Append(pins, [key |-> k, approvedBy |-> a, at |-> clock])
    BY <2>1 DEF PinSet
  <2> QED
    BY <2>2, <2>3, <2>4, VersionKeepsRecords
<1>2. CASE ~Pin
  <2>1. Sent \subseteq Sent' /\ \A m \in Sent : SameRow(message'[m], message[m])
    BY RowsStay
  <2>2. pins' = pins
    BY <1>2 DEF Next, Send, SendMessage, Revise, ReviseMessage, Ack, Acknowledge, Delete,
                DeleteMessage, Tick, vars
  <2>3. \A m \in deleted' : m \in deleted \/ ~ApprovalUsed(m)
    BY <1>2 DEF Next, Send, SendMessage, Revise, ReviseMessage, Ack, Acknowledge, Delete,
                DeleteMessage, Tick, vars
  <2> QED
    BY <2>1, <2>2, <2>3, OtherStepsKeep DEF SameRow
<1> QED
  BY <1>1, <1>2

LEMMA RecordsRemain ==
  ASSUME CleanTypeOK, CleanRecords, [CleanNext]_cleanVars
  PROVE  CleanRecords'
<1>1. TypeOK
  BY DEF CleanTypeOK
<1>2. CASE [Next]_vars
  BY <1>1, <1>2, ToolsKeepRecords
<1>3. CASE AnyOldPin
  <2>1. PICK r \in Role, k \in Key, a \in 0..MaxMsg : OldPin(r, k, a)
    BY <1>3 DEF AnyOldPin
  <2>2. a # 0 => /\ Live(a) /\ message[a].proc /\ message[a].pinKey \in {k, NoKey}
                 /\ ~ApprovalUsed(a)
    BY <2>1 DEF OldPin, ClaimedBy
  <2>3. /\ UNCHANGED <<message, deleted>>
        /\ a = 0 => ~Protected(k)
        /\ pins' = Append(pins, [key |-> k, approvedBy |-> a, at |-> clock])
    BY <2>1 DEF OldPin
  <2> QED
    BY <1>1, <2>2, <2>3, VersionKeepsRecords
<1>4. CASE OnlyRetires
  <2>1. UNCHANGED <<message, deleted, pins>> /\ Sent' = Sent
    BY <1>4 DEF OnlyRetires, Sent
  <2> QED
    BY <2>1, OtherStepsKeep
<1> QED
  BY <1>2, <1>3, <1>4, Steps

-----------------------------------------------------------------------------
(* The invariant.                                                           *)

LEMMA CleanInitially == CleanInit => CleanInv
<1> SUFFICES ASSUME CleanInit PROVE CleanInv
  OBVIOUS
<1>1. IInv /\ superseded = {} /\ pins = <<>> /\ message = <<>>
  BY Initially DEF CleanInit, Init
<1>2. byRules = {} /\ log \in [Id -> Seq(Event)]
  BY DEF CleanInit
<1>3. CleanTypeOK
  BY <1>1, <1>2 DEF CleanInit, CleanTypeOK, IInv
<1>4. RetirementsAreRecorded
  BY <1>1, <1>2 DEF RetirementsAreRecorded
<1>5. CleanRecords
  BY <1>1 DEF CleanRecords, ApprovalsRemain, OneApprovalOneVersion, ContractStaysContract
<1> QED
  BY <1>1, <1>3, <1>4, <1>5 DEF CleanInv

LEMMA CleanInductive ==
  ASSUME CleanInv, [CleanNext]_cleanVars
  PROVE  CleanInv'
<1>1. IInv'
  BY Steps, Inductive, OldPinKeeps, RetiringKeeps DEF CleanInv
<1>2. CleanTypeOK'
  BY <1>1, TablesInductive DEF CleanInv, IInv
<1>3. RetirementsAreRecorded'
  BY <1>2, RetirementsInductive DEF CleanInv
<1>4. CleanRecords'
  BY RecordsRemain DEF CleanInv
<1> QED
  BY <1>1, <1>2, <1>3, <1>4 DEF CleanInv

LEMMA CleanAlways == CleanSpec => []CleanInv
<1>1. CleanInit => CleanInv
  BY CleanInitially
<1>2. CleanInv /\ [CleanNext]_cleanVars => CleanInv'
  BY CleanInductive
<1> QED
  BY <1>1, <1>2, PTL DEF CleanSpec

\* The tables stay well-formed, those that the cleanup reads included, and each
\* retired message has the event that retired it.
THEOREM CleanupIsTyped == CleanSpec => [](CleanTypeOK /\ RetirementsAreRecorded)
BY CleanAlways, PTL DEF CleanInv

\* No history of old releases, passes and undos makes a vote on an earlier text
\* count.
THEOREM CurrentVotesCountStill == CleanSpec => []FreshMeansCurrentText
BY CleanAlways, PTL DEF CleanInv, IInv

\* What the pins stand on outlives every cleanup: the approving proposal is
\* there, undeleted and for that key, approves no second version, and a
\* contract stays one, also one of the time before the retirement rules.
THEOREM CleanupKeepsApprovals == CleanSpec => []CleanRecords
BY CleanAlways, PTL DEF CleanInv

\* No cleanup or undo makes the text that a version was agreed on revisable.
THEOREM CleanupKeepsTexts == CleanSpec => ApprovedTextFrozen
<1> DEFINE Frozen == \A i \in DOMAIN pins : pins[i].approvedBy # 0 =>
             message'[pins[i].approvedBy].text = message[pins[i].approvedBy].text
<1>1. ASSUME CleanInv, [CleanNext]_cleanVars PROVE Frozen
  <2> SUFFICES ASSUME NEW i \in DOMAIN pins, pins[i].approvedBy # 0
               PROVE  message'[pins[i].approvedBy].text = message[pins[i].approvedBy].text
    OBVIOUS
  <2>1. pins[i].approvedBy \in Sent /\ ApprovalUsed(pins[i].approvedBy)
    BY <1>1 DEF CleanInv, CleanRecords, ApprovalsRemain, ApprovalUsed
  <2>2. CASE [Next]_vars
    BY <1>1, <2>1, <2>2, UsedTextStays DEF CleanInv, IInv
  <2>3. CASE AnyOldPin \/ OnlyRetires
    BY <2>3 DEF AnyOldPin, OldPin, OnlyRetires
  <2> QED
    BY <1>1, <2>2, <2>3, Steps DEF CleanInv
<1>2. CleanInv /\ [CleanNext]_cleanVars => [Frozen]_vars
  BY <1>1
<1> QED
  BY <1>2, CleanAlways, PTL DEF CleanSpec, ApprovedTextFrozen

-----------------------------------------------------------------------------
(* What stays retired.                                                      *)

\* What a live rule ever retired is retired, whoever asks and whatever passes
\* and undos the message went through before and since: undo_backfill finds the
\* newest of the retirements in the log (db/supersede.py).
THEOREM RetiredByTheRulesStays == CleanSpec => []LiveRetirementsStay
<1>1. CleanInv => LiveRetirementsStay
  BY DEF CleanInv, RetirementsAreRecorded, RetiredForGood, LiveRetirementsStay
<1> QED
  BY <1>1, CleanAlways, PTL

\* The same over a whole history: from then on it is retired for good.
THEOREM RetiredByTheRulesForGood ==
  ASSUME NEW m \in Id
  PROVE  CleanSpec => [](RetiredForGood(m) => [](m \in superseded))
<1>1. CleanInv /\ RetiredForGood(m) /\ [CleanNext]_cleanVars => RetiredForGood(m)'
  BY ForGoodStays DEF CleanInv
<1>2. RetiredForGood(m) => m \in superseded
  BY DEF RetiredForGood
<1> QED
  BY <1>1, <1>2, CleanAlways, PTL DEF CleanSpec

-----------------------------------------------------------------------------
(* What a pass may retire.                                                  *)

\* Only a pass writes an event of a cleanup.
LEMMA OnlyAPassCleansUp ==
  ASSUME CleanInv, CleanInv', [CleanNext]_cleanVars, CleanedUp # {}
  PROVE  \E r, ids, keys : Pass(r, ids, keys) /\ CleanedUp = ids \cup Cascade(ids)
<1>1. superseded' \subseteq Id
  BY RetiredAreIds DEF CleanInv, IInv
<1>2. Apply
  <2>1. CASE OtherTools
    <3>1. Logged(superseded' \ superseded, ByTheRules) /\ log \in [Id -> Seq(Event)]
      BY <2>1 DEF CleanInv, CleanTypeOK, OtherTools, Retiring
    <3>2. ByTheRules.event = "superseded"
      BY DEF ByTheRules
    <3>3. \A m \in superseded' \ superseded : NewestEvent(m)' = ByTheRules
      BY <1>1, <3>1, <3>2, LoggedIsNewest
    <3> QED
      BY <3>2, <3>3 DEF CleanedUp
  <2>2. CASE Undo \/ TimePasses \/ Old \/ UNCHANGED cleanVars
    BY <2>2 DEF Undo, UndoBackfill, TimePasses, Tick, Old, OldSend, Send, SendMessage,
                RulesArrive, OldPin, cleanVars, vars, CleanedUp
  <2> QED
    BY <2>1, <2>2 DEF CleanNext
<1>3. PICK r, ids, keys : Pass(r, ids, keys)
  BY <1>2, ApplyIsAPass
<1>4. PICK all : all = ids \cup Cascade(ids)
  OBVIOUS
<1>5. /\ all \cap superseded = {} /\ superseded' = superseded \cup all
      /\ Logged(all, ByCleanup(r, keys))
  BY <1>3, <1>4, PassRetires DEF CleanInv
<1>6. superseded' \ superseded = all
  BY <1>5
<1>7. \A m \in all : NewestEvent(m)'.event = "superseded_backfill"
  <2>1. ByCleanup(r, keys).event = "superseded_backfill" /\ log \in [Id -> Seq(Event)]
    BY DEF ByCleanup, CleanInv, CleanTypeOK
  <2> QED
    BY <1>1, <1>5, <2>1, LoggedIsNewest
<1>8. CleanedUp = all
  BY <1>6, <1>7 DEF CleanedUp
<1> QED
  BY <1>3, <1>4, <1>8

\* A message about none is retired for its own sake, with the keys of the pass.
LEMMA NamedItself ==
  ASSUME CleanInv, NEW r, NEW ids, NEW keys, Pass(r, ids, keys),
         NEW m \in ids \cup Cascade(ids), message[m].about = 0
  PROVE  m \in ids /\ m \in Candidates /\ m \in Sent /\ NewestEvent(m)'.keys = keys
<1>1. /\ ids \subseteq Id /\ ids \subseteq Candidates /\ ids \cup Cascade(ids) \subseteq Sent
      /\ Sent \subseteq Id /\ TypeOK
  BY PassRetires, SentIsId DEF CleanInv, IInv
<1>2. m \in ids
  BY <1>1, CascadeHangs DEF Id
<1>3. Logged(ids \cup Cascade(ids), ByCleanup(r, keys)) /\ log \in [Id -> Seq(Event)]
  BY PassRetires DEF CleanInv, CleanTypeOK
<1>4. NewestEvent(m)' = ByCleanup(r, keys)
  BY <1>1, <1>3, LoggedIsNewest DEF ByCleanup
<1> QED
  BY <1>1, <1>2, <1>4 DEF ByCleanup

LEMMA ClaimsAreFinite ==
  ASSUME TypeOK, NEW m
  PROVE  IsFiniteSet(Claims(m)) /\ Cardinality(Claims(m)) \in Nat
<1> DEFINE n == Len(pins)
           K == {pins[i].key : i \in 1..n}
           f == [i \in 1..n |-> pins[i].key]
<1>1. n \in Nat /\ DOMAIN pins = 1..n
  BY DEF TypeOK
<1>2. f \in Surjection(1..n, K)
  BY DEF Surjection
<1>3. IsFiniteSet(K)
  <2>1. IsFiniteSet(1..n)
    BY <1>1, FS_Interval
  <2> HIDE DEF n, K, f
  <2> QED
    BY <1>2, <2>1, FS_Surjection
<1>4. Claims(m) \subseteq K
  BY <1>1 DEF Claims, VersionsOf
<1> QED
  BY <1>3, <1>4, FS_Subset, FS_CardinalityType

\* A proposal that several keys claim is retired only with all of them named,
\* and one that a single key claims with that key: InPass and AllClaimsNamed,
\* which compares a number, cover every number of claims together.
THEOREM AllClaimsAreNamed == CleanSpec => RetiredUnderEveryClaim
<1> DEFINE Named == \A m \in CleanedUp : message[m].about = 0 => Claims(m) \subseteq NewestEvent(m)'.keys
<1>1. ASSUME CleanInv, CleanInv', [CleanNext]_cleanVars PROVE Named
  <2> SUFFICES ASSUME NEW m \in CleanedUp, message[m].about = 0
               PROVE  Claims(m) \subseteq NewestEvent(m)'.keys
    OBVIOUS
  <2>1. PICK r, ids, keys : Pass(r, ids, keys) /\ CleanedUp = ids \cup Cascade(ids)
    BY <1>1, OnlyAPassCleansUp
  <2>2. m \in ids /\ NewestEvent(m)'.keys = keys
    BY <1>1, <2>1, NamedItself
  <2>3. IsFiniteSet(Claims(m)) /\ Cardinality(Claims(m)) \in Nat
    BY <1>1, ClaimsAreFinite DEF CleanInv, IInv
  <2>4. CASE Cardinality(Claims(m)) > 1
    BY <2>1, <2>2, <2>4 DEF Pass, ApplyBackfill, Accepted, AllClaimsNamed
  <2>5. CASE Cardinality(Claims(m)) = 0
    BY <2>3, <2>5, FS_EmptySet
  <2>6. CASE Cardinality(Claims(m)) = 1
    <3>1. PICK k : Claims(m) = {k}
      BY <2>3, <2>6, FS_Singleton
    <3>2. Claims(m) \cap keys # {}
      BY <2>1, <2>2, <3>1 DEF Pass, InPass
    <3> QED
      BY <2>2, <3>1, <3>2
  <2> QED
    BY <2>3, <2>4, <2>5, <2>6
<1>2. CleanInv /\ CleanInv' /\ [CleanNext]_cleanVars => [Named]_cleanVars
  BY <1>1
<1> QED
  BY <1>2, CleanAlways, PTL DEF CleanSpec, RetiredUnderEveryClaim

\* A key that has versions has a newest one.
LEMMA CurrentIsAVersion ==
  ASSUME TypeOK, NEW k, VersionsOf(k) # {}
  PROVE  Current(k) \in VersionsOf(k) /\ \A j \in VersionsOf(k) : j <= Current(k)
<1> DEFINE n == Len(pins)
           T == {n - i : i \in VersionsOf(k)}
<1>1. n \in Nat /\ VersionsOf(k) \subseteq 1..n
  BY DEF TypeOK, VersionsOf
<1>2. T \in SUBSET Nat /\ T # {}
  BY <1>1
<1>3. \E x \in T : \A y \in T : <<y, x>> \notin OpToRel(<, Nat)
  BY <1>2, NatLessThanWellFounded, WFMin
<1>4. \A x, y \in Nat : y < x => <<y, x>> \in OpToRel(<, Nat)
  BY DEF OpToRel
<1>5. PICK x \in T : \A y \in T : ~(y < x)
  BY <1>2, <1>3, <1>4
<1>6. PICK i \in VersionsOf(k) : x = n - i
  BY <1>5
<1>7. \A j \in VersionsOf(k) : ~(n - j < n - i)
  BY <1>5, <1>6
<1>8. \A j \in VersionsOf(k) : j <= i
  BY <1>1, <1>6, <1>7
<1> QED
  BY <1>6, <1>8 DEF Current, NewestOf

\* A round that is younger than every version of its keys, is about no message
\* and cites none is not retired by a pass, whichever chains of links join the
\* old rounds around it.
THEOREM YoungRoundsSurvive == CleanSpec => LiveRoundsSurvive
<1> DEFINE Older == \A m \in CleanedUp :
                    message[m].about = 0 /\ Cited(m) = {} =>
                      \E k \in Key : ClaimedBy(m, k) /\ \E i \in VersionsOf(k) : created[m] < pins[i].at
<1>1. ASSUME CleanInv, CleanInv', [CleanNext]_cleanVars PROVE Older
  <2> SUFFICES ASSUME NEW m \in CleanedUp, message[m].about = 0, Cited(m) = {}
               PROVE  \E k \in Key : ClaimedBy(m, k) /\ \E i \in VersionsOf(k) : created[m] < pins[i].at
    OBVIOUS
  <2>1. PICK r, ids, keys : Pass(r, ids, keys) /\ CleanedUp = ids \cup Cascade(ids)
    BY <1>1, OnlyAPassCleansUp
  <2>2. m \in Candidates
    BY <1>1, <2>1, NamedItself
  <2>3. 0 \notin Dead
    <3>1. deleted \cup superseded \subseteq Sent /\ Sent \subseteq Id
      BY <1>1, SentIsId DEF CleanInv, IInv, TypeOK
    <3> QED
      BY <3>1 DEF Dead, Id
  <2>4. Claims(m) # {}
    BY <2>2, <2>3 DEF Candidates, CitesAny, Settled, AboutTheDead, CitesTheDead
  <2>5. PICK k \in Key : /\ VersionsOf(k) # {} /\ ClaimedBy(m, k)
                         /\ created[m] < pins[Current(k)].at
    BY <2>4 DEF Claims
  <2>6. Current(k) \in VersionsOf(k)
    BY <1>1, <2>5, CurrentIsAVersion DEF CleanInv, IInv
  <2> QED
    BY <2>5, <2>6
<1>2. CleanInv /\ CleanInv' /\ [CleanNext]_cleanVars => [Older]_cleanVars
  BY <1>1
<1> QED
  BY <1>2, CleanAlways, PTL DEF CleanSpec, LiveRoundsSurvive

\* A message that approved a version is no candidate: only the cascade of a
\* message that it is about can take it along.
THEOREM ApprovalsAreNoCandidates == CleanSpec => ApprovalRecordsStay
<1> DEFINE Stays == \A m \in CleanedUp \cap Approvals : message[m].about \in CleanedUp
<1>1. ASSUME CleanInv, CleanInv', [CleanNext]_cleanVars PROVE Stays
  <2> SUFFICES ASSUME NEW m \in CleanedUp, m \in Approvals PROVE message[m].about \in CleanedUp
    OBVIOUS
  <2>1. PICK r, ids, keys : Pass(r, ids, keys) /\ CleanedUp = ids \cup Cascade(ids)
    BY <1>1, OnlyAPassCleansUp
  <2>2. ids \subseteq Id /\ ids \subseteq Candidates
    BY <1>1, <2>1, PassRetires DEF CleanInv
  <2>3. m \notin ids
    BY <2>2 DEF Candidates
  <2> QED
    BY <1>1, <2>1, <2>2, <2>3, CascadeHangs DEF CleanInv, IInv
<1>2. CleanInv /\ CleanInv' /\ [CleanNext]_cleanVars => [Stays]_cleanVars
  BY <1>1
<1> QED
  BY <1>2, CleanAlways, PTL DEF CleanSpec, ApprovalRecordsStay

-----------------------------------------------------------------------------
(* The promises of Consent that outlive the old releases.                   *)

\* Steps of the old releases apart, nothing leaves what AgreedPins allows.
AgreedAfterTheRules == [][~before => [Agreed!Next]_(Agreed!vars)]_cleanVars

\* Passes and undos included, from the day the rules arrive the pins are agreed
\* pins: a version of a contract, also of one that an old release wrote, is
\* replaced only when a quorum agrees to the text of the moment.
THEOREM AgreementGoesOn == CleanSpec => AgreedAfterTheRules
<1>1. ASSUME CleanInv, [CleanNext]_cleanVars, ~before
      PROVE  [Agreed!Next]_(Agreed!vars)
  <2>1. CASE [Next]_vars
    BY <1>1, <2>1, StepMaps DEF CleanInv
  <2>2. CASE AnyOldPin
    BY <1>1, <2>2 DEF AnyOldPin, OldPin
  <2>3. CASE OnlyRetires
    <3>1. UNCHANGED <<message, deleted, vote, pins, onText>> /\ Sent' = Sent
      BY <2>3 DEF OnlyRetires, Sent
    <3>2. \A m \in Id : QuorumsOf(m)' = QuorumsOf(m)
      BY <3>1 DEF QuorumsOf, Quorums, AnyoneWillDo, Needed
    <3>3. \A m \in Id : Agreeing(m)' = Agreeing(m)
      BY <3>1 DEF Agreeing
    <3> QED
      BY <3>1, <3>2, <3>3, AgreedStays
  <2> QED
    BY <1>1, <2>1, <2>2, <2>3, Steps DEF CleanInv
<1>2. CleanInv /\ [CleanNext]_cleanVars => [~before => [Agreed!Next]_(Agreed!vars)]_cleanVars
  BY <1>1
<1> QED
  BY <1>2, CleanAlways, PTL DEF CleanSpec, AgreedAfterTheRules

\* SettlingRetiresNudges, next to old releases, and of passes too.
PassesRetireNudges ==
  [][CleanedUp # {} \/ (~before /\ (pins' # pins \/ deleted' # deleted))
       => RetiredTakeTheirNudges]_cleanVars

\* A pass, like the rules, leaves nobody asked about what it retired, although
\* the old chains that it meets were never retired link by link.
THEOREM PassesTakeTheNudges == CleanSpec => PassesRetireNudges
<1> DEFINE Settles == CleanedUp # {} \/ (~before /\ (pins' # pins \/ deleted' # deleted))
<1>1. ASSUME CleanInv, CleanInv', [CleanNext]_cleanVars, Settles
      PROVE  RetiredTakeTheirNudges
  <2>1. CASE CleanedUp # {}
    <3>1. PICK r, ids, keys : Pass(r, ids, keys)
      BY <1>1, <2>1, OnlyAPassCleansUp
    <3>2. ids \in SUBSET Id /\ superseded' = superseded \cup ids \cup Cascade(ids) /\ deleted' = deleted
      BY <1>1, <3>1, PassRetires DEF CleanInv
    <3> SUFFICES ASSUME NEW m \in Sent, NEW n \in Sent, Standing(m), Standing(n),
                        m \in deleted' \cup superseded', message[n].about = m
                 PROVE  n \in superseded'
      BY DEF RetiredTakeTheirNudges
    <3>3. m \in ids \cup Cascade(ids)
      BY <3>2 DEF Standing, Live
    <3>4. n \in ids \cup Cascade(ids)
      BY <1>1, <3>2, <3>3, CascadeIsClosed DEF CleanInv, IInv
    <3> QED
      BY <3>2, <3>4
  <2>2. CASE CleanedUp = {}
    <3>1. ~before /\ (pins' # pins \/ deleted' # deleted)
      BY <1>1, <2>2
    <3>2. [Next]_vars
      <4>1. ~AnyOldPin /\ ~OnlyRetires
        BY <3>1 DEF AnyOldPin, OldPin, OnlyRetires
      <4> QED
        BY <1>1, <4>1, Steps DEF CleanInv
    <3> QED
      BY <1>1, <3>1, <3>2, SettlingStep DEF CleanInv, IInv
  <2> QED
    BY <2>1, <2>2
<1>2. CleanInv /\ CleanInv' /\ [CleanNext]_cleanVars => [Settles => RetiredTakeTheirNudges]_cleanVars
  BY <1>1
<1> QED
  BY <1>2, CleanAlways, PTL DEF CleanSpec, PassesRetireNudges

\* Whatever is retired and put back, in a hosted channel a role whose consent an
\* open round waits for is told so by its awaiting_ack: an undo brings a round
\* back to everybody's list that it had left.
THEOREM VotersAreAskedStill == ASSUME Hosted PROVE CleanSpec => []VoterIsAsked
<1>1. CleanInit => RoundsAreForAll
  BY DEF CleanInit, Init, RoundsAreForAll, Sent
<1>2. ASSUME CleanInv, RoundsAreForAll, [CleanNext]_cleanVars
      PROVE  RoundsAreForAll'
  <2>1. CASE [Next]_vars
    BY <1>2, <2>1, ForAllInductive DEF CleanInv, IInv
  <2>2. CASE AnyOldPin \/ OnlyRetires
    <3>1. UNCHANGED message /\ Sent' = Sent
      BY <2>2 DEF AnyOldPin, OldPin, OnlyRetires, Sent
    <3> QED
      BY <1>2, <3>1 DEF RoundsAreForAll
  <2> QED
    BY <1>2, <2>1, <2>2, Steps DEF CleanInv
<1>3. CleanInv /\ RoundsAreForAll => VoterIsAsked
  BY ForAllMeansAsked DEF CleanInv, IInv
<1>4. CleanInv /\ RoundsAreForAll /\ [CleanNext]_cleanVars => RoundsAreForAll'
  BY <1>2
<1> QED
  BY <1>1, <1>3, <1>4, CleanAlways, PTL DEF CleanSpec
=============================================================================
