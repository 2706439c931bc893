-------------------------------- MODULE Triage --------------------------------
(***************************************************************************)
(* Looking at what is pending while others work: wait_for_mail, by way of  *)
(* channel_summary and actionable_ids.  It reads without a transaction:    *)
(* every list is a SELECT of its own, and any tool of any role may run     *)
(* between two of them.  The mailbox is that of module Obligations         *)
(* together with the read marks of the deliveries; awaiting_ack is left    *)
(* out, as no message there is a proposal.                                 *)
(*                                                                         *)
(* Of what it reads only the items are modelled, not the numbers.          *)
(* As in Obligations, X_Fault is X with a plausible mistake.               *)
(***************************************************************************)
EXTENDS Obligations

CONSTANTS
  Me,         \* the role that looks
  MaxPolls    \* bound: polls of one wait_for_mail

ASSUME MeAssumption == Me \in Role /\ MaxPolls \in Nat

VARIABLES
  read,      \* the deliveries <<message, role>> whose read_at is set
  call,      \* the call in progress, and its part: "none", "entry", "poll"
  pos,       \* how many of its SELECTs have run
  seen,      \* list -> the items that its latest SELECT returned
  known,     \* list -> the items that do not wake wait_for_mail
  ignoring,  \* its argument ignore_backlog
  polls,     \* how many polls wait_for_mail has begun
  always,    \* history: what has been on its list since wait_for_mail was called
  staying,   \* history: what was on a list throughout this part, from its first SELECT
             \* to its last
  absent,    \* history: what was off it throughout this part
  missed     \* history: what was off it throughout the part before this one

lookVars == <<call, pos, seen, known, ignoring, polls, always, staying, absent, missed>>
allVars  == <<vars, read, lookVars>>

\* ACTIONABLE_COUNTS, in the order in which channel_summary reads them.
Summary ==
  <<"unread", "untaken", "unblocked", "needs_you", "awaiting_done", "resolved_for_you">>
List == {Summary[i] : i \in DOMAIN Summary}

\* actionable_ids reads the first two again, for the items behind the counts.
Queries == Summary \o <<"unread", "untaken">>

Unread(r) == {m \in Sent : Live(m) /\ r \in message[m].to /\ <<m, r>> \notin read}

On(list) ==
  CASE list = "unread"           -> Unread(Me)
    [] list = "untaken"          -> Untaken(Me)
    [] list = "unblocked"        -> Unblocked(Me)
    [] list = "needs_you"        -> NeedsYou(Me)
    [] list = "awaiting_done"    -> AwaitingDone(Me)
    [] list = "resolved_for_you" -> ResolvedForYou(Me)

Listed == {entry \in List \X Id : entry[2] \in On(entry[1])}
Nothing == [list \in List |-> {}]

-----------------------------------------------------------------------------
(* The mailbox moves. *)

MarkRead(r, m) ==
  /\ Live(m) /\ r \in message[m].to
  /\ read' = read \cup {<<m, r>>}
  /\ UNCHANGED vars

OthersAct ==
  /\ (Next /\ UNCHANGED read) \/ (\E r \in Role, m \in Id : MarkRead(r, m))
  /\ IF 0 < pos /\ pos < Len(Queries)
     THEN staying' = staying \cap Listed' /\ absent' = absent \ Listed'
     ELSE UNCHANGED <<staying, absent>>
  /\ always' = always \cap Listed'
  /\ UNCHANGED <<call, pos, seen, known, ignoring, polls, missed>>

-----------------------------------------------------------------------------
(* The calls look. *)

BeginPart(part) ==
  /\ call' = part /\ pos' = 0
  /\ staying' = {} /\ absent' = {}

WaitForMail(ignoreBacklog) ==
  /\ call = "none"
  /\ ignoring' = ignoreBacklog
  /\ BeginPart("entry")
  /\ always' = Listed
  /\ seen' = Nothing
  /\ UNCHANGED <<vars, read, known, polls, missed>>

Select ==
  /\ call # "none" /\ pos < Len(Queries)
  /\ pos' = pos + 1
  /\ seen' = [seen EXCEPT ![Queries[pos + 1]] = On(Queries[pos + 1])]
  /\ IF pos = 0
     THEN staying' = Listed /\ absent' = (List \X Id) \ Listed
     ELSE UNCHANGED <<staying, absent>>
  /\ UNCHANGED <<vars, read, call, known, ignoring, polls, always, missed>>

AllRead == call # "none" /\ pos = Len(Queries)

Return ==
  /\ call' = "none" /\ pos' = 0 /\ polls' = 0 /\ ignoring' = TRUE
  /\ seen' = Nothing /\ known' = Nothing
  /\ always' = {}
  /\ staying' = {} /\ absent' = {} /\ missed' = {}
  /\ UNCHANGED <<vars, read>>

AtEntry_Nothing == Nothing
AtEntry == IF ignoring THEN seen ELSE Nothing

EntryTaken ==
  /\ call = "entry" /\ AllRead
  /\ known' = AtEntry
  /\ missed' = IF ignoring THEN absent ELSE List \X Id
  /\ polls' = 1
  /\ BeginPart("poll")
  /\ UNCHANGED <<vars, read, seen, ignoring, always>>

Pending_ByCount == {list \in List : Cardinality(seen[list]) > Cardinality(known[list])}
Pending == {list \in List : seen[list] \ known[list] # {}}

\* An item that leaves and later comes back counts as new.
StillKnown == [list \in List |-> known[list] \cap seen[list]]

PollAgain ==
  /\ call = "poll" /\ AllRead /\ Pending = {}
  /\ polls < MaxPolls
  /\ known' = StillKnown
  /\ missed' = absent
  /\ polls' = polls + 1
  /\ BeginPart("poll")
  /\ UNCHANGED <<vars, read, seen, ignoring, always>>

\* Something is pending, or the time is up.
WaitReturns == call = "poll" /\ AllRead /\ Return

-----------------------------------------------------------------------------
TriageInit ==
  /\ Init
  /\ read = {} /\ call = "none" /\ pos = 0 /\ polls = 0 /\ ignoring = TRUE
  /\ seen = Nothing /\ known = Nothing
  /\ always = {}
  /\ staying = {} /\ absent = {} /\ missed = {}

TriageNext ==
  \/ OthersAct
  \/ \E ignoreBacklog \in BOOLEAN : WaitForMail(ignoreBacklog)
  \/ Select \/ EntryTaken \/ PollAgain \/ WaitReturns

TriageSpec == TriageInit /\ [][TriageNext]_allVars
-----------------------------------------------------------------------------
(* What a look guarantees. *)

\* wait_for_mail wakes for everything that was off a list throughout one look
\* (its entry, or a poll) and on it throughout the next: neither an item that
\* leaves the same list meanwhile nor an earlier visit of the item hides it.
NewsWakes == call = "poll" /\ AllRead /\ Pending = {} => missed \cap staying = {}

\* It does not wake for the backlog: a list that wakes it has an item that was
\* off that list at some moment of the call.
BacklogDoesNotWake ==
  call = "poll" /\ AllRead /\ ignoring =>
    \A list \in Pending : \E m \in seen[list] : <<list, m>> \notin always
=============================================================================
