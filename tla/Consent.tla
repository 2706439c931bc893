------------------------------- MODULE Consent -------------------------------
(***************************************************************************)
(* Proposals, votes and pins of one channel: what makes a version of a     *)
(* pinned contract agreed.  A tool that writes runs its checks and its     *)
(* writes in one BEGIN IMMEDIATE transaction (tools/common.py,             *)
(* open_channel_db(write=True)), so every tool call below is one step.     *)
(*                                                                         *)
(* Timestamps are the database's clock in milliseconds.  Many calls fit in *)
(* one millisecond: the clock moves by itself (Tick), calls only read it.  *)
(* It is assumed never to go back.                                         *)
(*                                                                         *)
(* A definition X_Fault is X with a plausible mistake; nothing uses it: it *)
(* shows which property would notice that mistake.                         *)
(***************************************************************************)
EXTENDS Naturals, Sequences, FiniteSets

CONSTANTS
  Role,       \* the roles of the channel
  Key,        \* pin keys
  Reserved,   \* the keys of PROTECTED_PIN_KEYS
  NoKey,      \* pin_key IS NULL
  Text,       \* texts (topic and body) a message can have
  NamedIn,    \* NamedIn[t]: the keys that text t mentions
  Drafts,     \* the shapes of message that the roles send: a bound
  Decision,   \* the decisions the roles record: a bound
  Hosted,     \* TRUE: the token registry knows the roster; FALSE: stdio mode
  MaxMsg, MaxTime, MaxPin   \* bounds

ASSUME RolesAssumption == Cardinality(Role) > 1
ASSUME KeysAssumption  == Reserved \subseteq Key /\ NoKey \notin Key
ASSUME TextAssumption  == NamedIn \in [Text -> SUBSET Key]
ASSUME ModeAssumption  == Hosted \in BOOLEAN
ASSUME BoundsAssumption == MaxMsg \in Nat /\ MaxTime \in Nat \ {0} /\ MaxPin \in Nat
ASSUME DraftsAssumption ==
  Drafts \subseteq [proc : BOOLEAN, pinKey : Key \cup {NoKey}, wantsDecision : BOOLEAN]

DECISIONS == {"agree", "reject", "needs_changes", "void"}
ASSUME DecisionAssumption == Decision \subseteq DECISIONS

VARIABLES
  clock,     \* the database clock; 0 is never read, it stands for NULL
  message,   \* table messages: the row of id m is message[m]
  deleted,   \* the rows whose deleted_at is set
  superseded,\* the rows whose superseded_at is set
  vote,      \* Id -> Role -> row of table acknowledgements
  pins,      \* table pinned_entries, in id order
  deaths,    \* the declared_dead events: <<message, role>>
  onText     \* history: onText[m] is the set of roles whose recorded vote was
             \* cast on the text that message m has now

vars == <<clock, message, deleted, superseded, vote, pins, deaths, onText>>

Id   == 1..MaxMsg
Time == 0..MaxTime
Sent == DOMAIN message

Message == [from : Role, to : SUBSET Role, proc : BOOLEAN, pinKey : Key \cup {NoKey},
            about : 0..MaxMsg, voters : SUBSET Role, wantsDecision : BOOLEAN,
            text : Text, revisedAt : Time]
Vote    == [decision : DECISIONS \cup {"none"}, at : Time]
Version == [key : Key, approvedBy : 0..MaxMsg, at : Time]

NoVote == [decision |-> "none", at |-> 0]

-----------------------------------------------------------------------------
(* Who is asked, and what the votes on record amount to. *)

Live(m) == m \in Sent /\ m \notin deleted            \* fetch_message
Standing(m) == Live(m) /\ m \notin superseded
IsParty(m, r) == r = message[m].from \/ r \in message[m].to

Fresh_TieCounts(m, r) ==
  /\ vote[m][r].decision # "none"
  /\ message[m].revisedAt = 0 \/ vote[m][r].at >= message[m].revisedAt
Fresh_DespiteRevision(m, r) == vote[m][r].decision # "none"

\* A vote counts while it is younger than the last revision of the text.
Fresh(m, r) ==
  /\ vote[m][r].decision # "none"
  /\ message[m].revisedAt = 0 \/ vote[m][r].at > message[m].revisedAt

FreshlySays(m, r, d) == Fresh(m, r) /\ vote[m][r].decision = d

Electorate(m) == IF message[m].voters # {} THEN message[m].voters ELSE message[m].to
VoidedBy(m)   == {r \in Electorate(m) : FreshlySays(m, r, "void")}
FreshAgrees(m) == {r \in Role : FreshlySays(m, r, "agree")}

OpenRounds(k) ==
  {m \in Sent : Standing(m) /\ message[m].proc /\ message[m].pinKey = k /\ VoidedBy(m) = {}}

AwaitingAck_NeverAskedTwice(r) ==
  {m \in Sent : /\ Standing(m) /\ message[m].proc /\ r \in message[m].to
                /\ message[m].wantsDecision /\ message[m].about = 0
                /\ vote[m][r].decision = "none"
                /\ message[m].voters = {} \/ r \in message[m].voters}

\* The proposals whose decision channel_status says that r owes.
AwaitingAck(r) ==
  {m \in Sent : /\ Standing(m) /\ message[m].proc /\ r \in message[m].to
                /\ message[m].wantsDecision /\ message[m].about = 0
                /\ ~Fresh(m, r)
                /\ message[m].voters = {} \/ r \in message[m].voters}

-----------------------------------------------------------------------------
(* Pins. *)

VersionsOf(k)   == {i \in DOMAIN pins : pins[i].key = k}
ApprovalUsed_ByLatest(m) == pins # <<>> /\ pins[Len(pins)].approvedBy = m
ApprovalUsed(m) == \E i \in DOMAIN pins : pins[i].approvedBy = m
EverApproved_InFirst(k) ==
  \E i \in VersionsOf(k) : pins[i].approvedBy # 0 /\ \A j \in VersionsOf(k) : i <= j
EverApproved(k) == \E i \in VersionsOf(k) : pins[i].approvedBy # 0
Protected_OnceApproved(k) == EverApproved(k)
Protected(k)    == k \in Reserved \/ EverApproved(k)

\* t is not before any version of k, hence not before the current one.
NotBeforeCurrent(t, k) == \A i \in VersionsOf(k) : t >= pins[i].at

ClaimedBy(m, k) ==
  \/ message[m].pinKey = k
  \/ message[m].pinKey = NoKey /\ k \in NamedIn[message[m].text]

ApprovalNamesKey(m, k) ==
  /\ message[m].proc
  /\ ClaimedBy(m, k)
  /\ message[m].pinKey = NoKey => OpenRounds(k) = {}

\* The roles whose agreement pin_set requires.  In stdio mode a round that
\* declared no voters needs the agreement of anyone else.
Needed(m) ==
  IF message[m].voters # {} THEN message[m].voters ELSE Role \ {message[m].from}
AnyoneWillDo(m) == ~Hosted /\ message[m].voters = {}

QuorumReached(m, k) ==
  IF AnyoneWillDo(m)
  THEN \E r \in FreshAgrees(m) : NotBeforeCurrent(vote[m][r].at, k)
  ELSE /\ Needed(m) \subseteq FreshAgrees(m)
       /\ \A r \in Needed(m) : NotBeforeCurrent(vote[m][r].at, k)

CheckPinApproval(k, r, a) ==
  IF a = 0
  THEN ~Protected(k)
  ELSE /\ Live(a)
       /\ ~Hosted => IsParty(a, r)
       /\ ApprovalNamesKey(a, k)
       /\ VoidedBy(a) = {}
       /\ FreshAgrees(a) # {}
       /\ ~ApprovalUsed(a)
       /\ QuorumReached(a, k)

-----------------------------------------------------------------------------
(* Retiring.  A nudge is a message about another one. *)

Cascade_OneLevel(S) == {n \in Sent : Standing(n) /\ message[n].about \in S}

\* The standing messages that hang on S by a chain of standing nudges, without S.
Cascade(S) ==
  {n \in Sent \ S : Standing(n) /\
     \A C \in SUBSET Id :
        (/\ S \subseteq C
         /\ \A i \in Sent : Standing(i) /\ message[i].about \in C => i \in C) => n \in C}

\* A nudge of r about m, answered by r's vote on m.
NudgesAnswered(m, r) == {n \in Sent : Standing(n) /\ message[n].about = m /\ r \in message[n].to}

ProposalsFor_ByLink(k) ==
  {m \in Sent : Standing(m) /\ message[m].proc /\ message[m].pinKey = k}
ProposalsFor(k) == {m \in Sent : Standing(m) /\ message[m].proc /\ ClaimedBy(m, k)}

-----------------------------------------------------------------------------
(* The tools. *)

\* channel_roles: the registry, or in stdio mode whoever appears in the mailbox.
KnownRoles ==
  IF Hosted THEN Role
  ELSE UNION {{message[m].from} \cup message[m].to : m \in {i \in Sent : Live(i)}}

Audiences(r, key) ==
  IF Hosted /\ key # NoKey THEN {Role \ {r}} ELSE (SUBSET (Role \ {r})) \ {{}}

\* "voters": the author never counts; before anyone is known, any name may be given.
Voters(r) == (SUBSET ((IF KnownRoles = {} THEN Role ELSE KnownRoles) \ {r})) \ {{}}

Electorates(r, key) ==
  CASE key = NoKey -> {{}}
    [] key # NoKey /\ Hosted -> Voters(r)
    [] OTHER -> Voters(r) \cup {{}}

KeyIsFree_IfAgreed(k) ==
  k # NoKey => \A m \in OpenRounds(k) : FreshAgrees(m) # {}

KeyIsFree(k) == k # NoKey => OpenRounds(k) = {}

\* _check_audience never bites here: a message that is no proposal stands for
\* one of kind status, which may go to several roles as well.
SendMessage(r, draft, to, voters, about, text) ==
  /\ Len(message) < MaxMsg
  /\ to \in Audiences(r, draft.pinKey)
  /\ voters \in Electorates(r, draft.pinKey)
  /\ about # 0 => Live(about)
  /\ KeyIsFree(draft.pinKey)
  /\ message' = Append(message,
       [from |-> r, to |-> to, proc |-> draft.proc, pinKey |-> draft.pinKey,
        about |-> about, voters |-> voters, wantsDecision |-> draft.wantsDecision,
        text |-> text, revisedAt |-> 0])
  /\ UNCHANGED <<clock, deleted, superseded, vote, pins, deaths, onText>>

ReviseMessage(r, m, text) ==
  /\ Live(m) /\ message[m].from = r
  /\ ~ApprovalUsed(m)
  /\ text # message[m].text
  /\ message' = [message EXCEPT ![m].text = text, ![m].revisedAt = clock]
  /\ onText' = [onText EXCEPT ![m] = {}]
  /\ UNCHANGED <<clock, deleted, superseded, vote, pins, deaths>>

Acknowledge(r, m, d) ==
  /\ Live(m) /\ message[m].from # r
  /\ vote' = [vote EXCEPT ![m][r] = [decision |-> d, at |-> clock]]
  /\ deaths' = IF d = "void" THEN deaths \cup {<<m, r>>} ELSE deaths
  /\ superseded' = superseded \cup NudgesAnswered(m, r)
  /\ onText' = [onText EXCEPT ![m] = @ \cup {r}]
  /\ UNCHANGED <<clock, message, deleted, pins>>

\* a = 0: no approved_by.
PinSet(r, k, a) ==
  /\ Len(pins) < MaxPin
  /\ CheckPinApproval(k, r, a)
  /\ pins' = Append(pins, [key |-> k, approvedBy |-> a, at |-> clock])
  /\ superseded' = superseded \cup ProposalsFor(k) \cup Cascade(ProposalsFor(k))
  /\ UNCHANGED <<clock, message, deleted, vote, deaths, onText>>

\* Debts are the matter of module Obligations; no message here is one.
DeleteMessage(r, m) ==
  /\ Live(m) /\ IsParty(m, r)
  /\ message[m].proc => message[m].from = r
  /\ ~ApprovalUsed(m)
  /\ deleted' = deleted \cup {m}
  /\ superseded' = superseded \cup Cascade({m})
  /\ UNCHANGED <<clock, message, vote, pins, deaths, onText>>

Tick ==
  /\ clock < MaxTime
  /\ clock' = clock + 1
  /\ UNCHANGED <<message, deleted, superseded, vote, pins, deaths, onText>>

-----------------------------------------------------------------------------
Init ==
  /\ clock = 1 /\ message = <<>> /\ deleted = {} /\ superseded = {}
  /\ pins = <<>> /\ deaths = {}
  /\ vote    = [m \in Id |-> [r \in Role |-> NoVote]]
  /\ onText  = [m \in Id |-> {}]

Send == \E r \in Role, draft \in Drafts, to, voters \in SUBSET Role,
           about \in 0..MaxMsg, text \in Text :
          SendMessage(r, draft, to, voters, about, text)
Revise == \E r \in Role, m \in Id, text \in Text : ReviseMessage(r, m, text)
Ack    == \E r \in Role, m \in Id, d \in Decision : Acknowledge(r, m, d)
Pin    == \E r \in Role, k \in Key, a \in 0..MaxMsg : PinSet(r, k, a)
Delete == \E r \in Role, m \in Id : DeleteMessage(r, m)

Next == Send \/ Revise \/ Ack \/ Pin \/ Delete \/ Tick

Spec == Init /\ [][Next]_vars
-----------------------------------------------------------------------------
(* What the channel promises. *)

TypeOK ==
  /\ clock \in 1..MaxTime
  /\ message \in Seq(Message) /\ Len(message) <= MaxMsg
  /\ deleted \subseteq Sent /\ superseded \subseteq Sent
  /\ vote \in [Id -> [Role -> Vote]]
  /\ pins \in Seq(Version) /\ Len(pins) <= MaxPin
  /\ deaths \subseteq Id \X Role
  /\ onText \in [Id -> SUBSET Role]
  /\ \A m \in Sent :
       /\ message[m].from \notin message[m].to \cup message[m].voters
       /\ message[m].about < m
       /\ \A r \in Role : vote[m][r].decision # "none" => r # message[m].from

\* A vote that counts was cast on the text as it now stands, whatever the order
\* of votes and revisions and however many of them fall in one millisecond
\* (revised_at and the freshness test of db/pins.py).
FreshMeansCurrentText ==
  \A m \in Sent, r \in Role : Fresh(m, r) => r \in onText[m]

\* The record of an approval stays: the proposal behind a version is a proposal
\* for that key, was never deleted, and asks nobody any more.
ApprovalsStand ==
  \A i \in DOMAIN pins : pins[i].approvedBy # 0 =>
    LET m == pins[i].approvedBy IN
      /\ m \in Sent
      /\ message[m].proc /\ m \notin deleted /\ m \in superseded
      /\ message[m].pinKey \in {pins[i].key, NoKey}

\* The text a version was agreed on is never rewritten.
ApprovedTextFrozen ==
  [][\A i \in DOMAIN pins : pins[i].approvedBy # 0 =>
       message'[pins[i].approvedBy].text = message[pins[i].approvedBy].text]_vars

\* One agreed proposal, one version.
OneApprovalOneVersion ==
  \A i, j \in DOMAIN pins :
    pins[i].approvedBy # 0 /\ pins[i].approvedBy = pins[j].approvedBy => i = j

\* Once a key is a contract every later version of it is agreed; a reserved key
\* is a contract from its first version.
ContractStaysContract ==
  \A j \in DOMAIN pins :
    (\/ pins[j].key \in Reserved
     \/ \E i \in 1..j : pins[i].key = pins[j].key /\ pins[i].approvedBy # 0)
    => pins[j].approvedBy # 0

\* Two rounds on one key are open together only after a voter declared the
\* older one dead: the void frees the key, and may be taken back later.
SecondRoundOnlyOverADeadOne ==
  \A k \in Key : \A m, n \in OpenRounds(k) :
    m < n => \E r \in Electorate(m) : <<m, r>> \in deaths

\* In a hosted channel, a role whose consent an open round still waits for is
\* told so by its awaiting_ack: send_message's audience and electorate rules,
\* the listing and pin_set's quorum agree on who is awaited.
VoterIsAsked ==
  \A k \in Key : \A m \in OpenRounds(k) :
    message[m].wantsDecision /\ message[m].about = 0 =>
      \A r \in Needed(m) : Fresh(m, r) \/ m \in AwaitingAck(r)

RetiredTakeTheirNudges ==
  \A m, n \in Sent :
    /\ Standing(m) /\ m \in deleted' \cup superseded'
    /\ Standing(n) /\ message[n].about = m
    => n \in deleted' \cup superseded'

\* Writing a pin or deleting a message leaves nobody asked about what it
\* retired, however long the chain of messages about messages.
SettlingRetiresNudges ==
  [][pins' # pins \/ deleted' # deleted
       => RetiredTakeTheirNudges]_vars

-----------------------------------------------------------------------------
(* The pins are agreed pins (module AgreedPins).  Who agrees is told from the *)
(* history of the votes, not from the timestamps that the code compares.      *)

Agreeing(m) == {r \in onText[m] : vote[m][r].decision = "agree"}

Quorums(m) == IF AnyoneWillDo(m) THEN {{r} : r \in Role \ {message[m].from}} ELSE {Needed(m)}

Agreed == INSTANCE AgreedPins WITH
  Proposal  <- Id,
  quorums   <- [m \in Id |-> IF m \in Sent THEN Quorums(m) ELSE {}],
  agreeing  <- [m \in Id |-> Agreeing(m)],
  withdrawn <- deleted,
  ledger    <- [i \in DOMAIN pins |->
                 <<pins[i].key, IF pins[i].approvedBy = 0 THEN {} ELSE {pins[i].approvedBy}>>]

\* Every behaviour of the tools is one that AgreedPins allows.
PinsAreAgreed == Agreed!Spec

-----------------------------------------------------------------------------
(* What the documents say and the code does not keep. *)

\* PROTOCOL section 12: "One open round per key."
OneOpenRoundPerKey == \A k \in Key : Cardinality(OpenRounds(k)) <= 1
=============================================================================
