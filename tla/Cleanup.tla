------------------------------- MODULE Cleanup -------------------------------
(***************************************************************************)
(* Replaying the retirement rules over rounds that were settled before the *)
(* rules existed: backfill_superseded(dry_run=false) and undo_backfill     *)
(* (tools/cleanup.py, db/supersede.py), next to all the tools of module    *)
(* Consent.  Each call is one transaction.  The preview, which only reads, *)
(* is what the caller looked at earlier: the caller may name any messages, *)
(* keys and words here, and the call refuses what does not fit by now.     *)
(* expect_count has to be the number of ids, or the call changes nothing;  *)
(* it is left out.                                                         *)
(*                                                                         *)
(* As in Consent, X_Fault is X with a plausible mistake.                   *)
(***************************************************************************)
EXTENDS Consent

CONSTANTS
  CitedIn,    \* CitedIn[t]: the ids that text t cites as "#N"
  MaxEvents   \* bound: a pass takes no message with so many events

ASSUME CitesAssumption  == CitedIn \in [Text -> SUBSET Nat]
ASSUME EventsAssumption == MaxEvents \in Nat

VARIABLES
  before,   \* whether the releases before the retirement rules still run
  created,  \* created[m]: when message m was sent
  setBy,    \* setBy[i]: who wrote version i (updated_by)
  log,      \* Id -> its message_events about retirement, in their order
  byRules   \* history: the messages that a live rule has retired, at any time

cleanVars == <<vars, before, created, setBy, log, byRules>>

ByTheRules         == [event |-> "superseded", by |-> {}, keys |-> {}]
ByCleanup(r, keys) == [event |-> "superseded_backfill", by |-> {r}, keys |-> keys]
Undone             == [event |-> "superseded_undone", by |-> {}, keys |-> {}]

NewestOf(S) == CHOOSE i \in S : \A j \in S : j <= i
Logged(S, event) == log' = [m \in Id |-> IF m \in S THEN Append(log[m], event) ELSE log[m]]

Retirements(m) ==
  {i \in DOMAIN log[m] : log[m][i].event \in {"superseded", "superseded_backfill"}}

LastRetirement_First(m) ==
  log[m][CHOOSE i \in Retirements(m) : \A j \in Retirements(m) : i <= j]
LastRetirement(m) == log[m][NewestOf(Retirements(m))]

-----------------------------------------------------------------------------
(* Who may be retired. *)

Current(k)   == NewestOf(VersionsOf(k))
KeyOwner(k)  == IF VersionsOf(k) = {} THEN {} ELSE {setBy[Current(k)]}
Approvals    == {pins[i].approvedBy : i \in DOMAIN pins} \ {0}
Dead         == deleted \cup superseded
Cited(m)     == CitedIn[message[m].text] \ {m}
IsProposal(m) == Standing(m) /\ message[m].proc
Proposals     == {m \in Sent : IsProposal(m)}

Claims_Ties(m) ==
  {k \in Key : /\ IsProposal(m) /\ VersionsOf(k) # {}
               /\ ClaimedBy(m, k) /\ created[m] <= pins[Current(k)].at}

\* The keys whose current version settled the proposal m.
Claims(m) ==
  {k \in Key : /\ IsProposal(m) /\ VersionsOf(k) # {}
               /\ ClaimedBy(m, k) /\ created[m] < pins[Current(k)].at}

AboutTheDead == {m \in Sent : Standing(m) /\ message[m].about \in Dead}
CitesTheDead == {m \in Proposals : message[m].about = 0 /\ Cited(m) \cap Dead # {}}
Settled      == {m \in Sent : Claims(m) # {}} \cup AboutTheDead \cup CitesTheDead
CitesAny(S)  == {m \in Proposals \ S : Cited(m) \cap S # {}}

Candidates_All == Settled \cup CitesAny(Settled)
Candidates == LET S == Settled IN (S \cup CitesAny(S)) \ Approvals

\* The candidates of a pass over these keys.  Those that are linked by a "#N"
\* alone belong to it only with include_by_reference=true; with it the pass may
\* retire all that it may without, so a caller is taken to pass it.
InPass(keys) ==
  {m \in Candidates : LET claims == Claims(m) IN claims # {} => claims \cap keys # {}}

AllClaimsNamed_Any(m, keys) == TRUE
AllClaimsNamed(m, keys) == Cardinality(Claims(m)) > 1 => Claims(m) \subseteq keys

\* There is a message of the owner of k that can be given as their word.
HasWord(k) == \E w \in Sent : Live(w) /\ KeyOwner(k) \subseteq {message[w].from}

\* All or nothing: one id that does not belong to the pass refuses all of them.
Accepted(ids, keys) ==
  /\ \A k \in keys : HasWord(k)
  /\ \A m \in ids : AllClaimsNamed(m, keys)
  /\ ids \subseteq InPass(keys)

-----------------------------------------------------------------------------
(* The tools. *)

ApplyBackfill(r, ids, keys) ==
  /\ ids # {} /\ Accepted(ids, keys)
  /\ LET all == ids \cup Cascade(ids) IN
       /\ \A m \in all : Len(log[m]) < MaxEvents
       /\ superseded' = superseded \cup all
       /\ Logged(all, ByCleanup(r, keys))
  /\ UNCHANGED <<clock, message, deleted, vote, pins, deaths, onText, before, created, setBy, byRules>>

\* The newest retirement counts, and only if a cleanup made it.
MayUndo(r, m) ==
  /\ m \in superseded
  /\ LET last == LastRetirement(m) IN
       /\ last.event = "superseded_backfill"
       /\ r \in last.by \cup UNION {KeyOwner(k) : k \in last.keys}

\* What it may not undo it skips; then it is as if that had not been named.
UndoBackfill(r, ids) ==
  /\ ~before
  /\ ids # {} /\ \A m \in ids : MayUndo(r, m)
  /\ superseded' = superseded \ ids
  /\ Logged(ids, Undone)
  /\ UNCHANGED <<clock, message, deleted, vote, pins, deaths, onText, before, created, setBy, byRules>>

Retiring ==
  /\ Logged(superseded' \ superseded, ByTheRules)
  /\ byRules' = byRules \cup (superseded' \ superseded)

OtherTools ==
  /\ ~before
  /\ \/ Send /\ created' = Append(created, clock) /\ UNCHANGED setBy
     \/ (Revise \/ Ack \/ Delete) /\ UNCHANGED <<created, setBy>>
     \/ \E r \in Role, k \in Key, a \in 0..MaxMsg :
          PinSet(r, k, a) /\ setBy' = Append(setBy, r) /\ UNCHANGED created
  /\ Retiring
  /\ UNCHANGED before

TimePasses == Tick /\ UNCHANGED <<before, created, setBy, log, byRules>>

-----------------------------------------------------------------------------
(* Before the rules existed: proposals, and versions that retired nothing.    *)

OldSend ==
  /\ before /\ Send /\ created' = Append(created, clock)
  /\ UNCHANGED <<before, setBy, log, byRules>>

OldPin(r, k, a) ==
  /\ before /\ Len(pins) < MaxPin
  /\ a # 0 => Live(a) /\ message[a].proc /\ ClaimedBy(a, k) /\ ~ApprovalUsed(a)
  /\ a = 0 => ~Protected(k)
  /\ pins' = Append(pins, [key |-> k, approvedBy |-> a, at |-> clock])
  /\ setBy' = Append(setBy, r)
  /\ UNCHANGED <<clock, message, deleted, superseded, vote, deaths, onText, before, created>>
  /\ UNCHANGED <<log, byRules>>

RulesArrive ==
  /\ before /\ before' = FALSE
  /\ UNCHANGED <<vars, created, setBy, log, byRules>>

CleanInit ==
  /\ Init /\ before = TRUE /\ created = <<>> /\ setBy = <<>>
  /\ log = [m \in Id |-> <<>>] /\ byRules = {}

Apply == /\ ~before
         /\ \E keys \in SUBSET Key : keys # {} /\
              \E ids \in SUBSET InPass(keys), r \in Role : ApplyBackfill(r, ids, keys)
Undo  == \E r \in Role : \E ids \in SUBSET {m \in superseded : MayUndo(r, m)} : UndoBackfill(r, ids)
Old   == \/ OldSend \/ RulesArrive
         \/ \E r \in Role, k \in Key, a \in 0..MaxMsg : OldPin(r, k, a)

CleanNext == Apply \/ Undo \/ OtherTools \/ TimePasses \/ Old

CleanSpec == CleanInit /\ [][CleanNext]_cleanVars
-----------------------------------------------------------------------------
(* What a cleanup guarantees. *)

\* "retirements by the live rules stay permanent": what such a rule ever retired
\* is retired, also if cleanups retired it before and put it back, and whatever
\* is asked of undo_backfill later (db/supersede.py).
LiveRetirementsStay == byRules \subseteq superseded

NewestEvent(m) == log[m][Len(log[m])]
CleanedUp == {m \in superseded' \ superseded : NewestEvent(m)'.event = "superseded_backfill"}

\* A proposal that versions of several keys settled, and that is about no other
\* message, is retired only with all of these keys named.
RetiredUnderEveryClaim ==
  [][\A m \in CleanedUp : message[m].about = 0 => Claims(m) \subseteq NewestEvent(m)'.keys]_cleanVars

\* No pass retires a round that was raised after the current version of its key
\* and neither is about another message nor cites one.
LiveRoundsSurvive ==
  [][\A m \in CleanedUp :
       message[m].about = 0 /\ Cited(m) = {} =>
         \E k \in Key : ClaimedBy(m, k) /\ \E i \in VersionsOf(k) : created[m] < pins[i].at]_cleanVars

\* A message that approved a version is retired by a pass at most along with
\* the message that it is about.
ApprovalRecordsStay ==
  [][\A m \in CleanedUp \cap Approvals : message[m].about \in CleanedUp]_cleanVars
=============================================================================
