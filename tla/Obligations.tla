----------------------------- MODULE Obligations -----------------------------
(***************************************************************************)
(* Debts and the state of work on messages: resolve, confirm, reopen,      *)
(* set_work_status, delete_message, and the lists that channel_status and  *)
(* ready_work compute from the event log.  Every tool that writes runs in  *)
(* one BEGIN IMMEDIATE transaction, so each is one step.                   *)
(*                                                                         *)
(* No message here is a proposal, has nudges, or approves a pin: what that *)
(* adds to delete_message is in module Consent.                            *)
(*                                                                         *)
(* A definition X_Fault is X with a plausible mistake; nothing uses it: it *)
(* shows which property would notice that mistake.                         *)
(***************************************************************************)
EXTENDS Naturals, Sequences, FiniteSets

CONSTANTS
  Role,          \* the roles of the channel
  Senders,       \* the roles that send messages: a bound
  Statuses,      \* the work statuses that the roles set: a bound
  SentStatuses,  \* those they pass to send_message ("null": none): a bound
  Shapes,        \* whether what they send is a debt: a bound on BOOLEAN
  MaxMsg, MaxEvents   \* bounds

WORK_STATUSES == {"proposed", "in_progress", "done_local", "needs_you", "done", "blocked"}
LoopEvents    == {"resolve", "reopen", "resolution_confirmed"}

ASSUME StatusesAssumption ==
  /\ Statuses \subseteq WORK_STATUSES
  /\ SentStatuses \subseteq WORK_STATUSES \cup {"null"}
ASSUME SendAssumption ==
  IsFiniteSet(Role) /\ Senders \subseteq Role /\ Shapes \subseteq BOOLEAN
ASSUME BoundsAssumption == MaxMsg \in Nat /\ MaxEvents \in Nat

VARIABLES
  message,   \* table messages: the row of id m is message[m]
  deleted,   \* the rows whose deleted_at is set
  log        \* Id -> the rows of message_events of that message, in id order

vars == <<message, deleted, log>>

Id   == 1..MaxMsg
Sent == DOMAIN message

\* status is "none" where the column is NULL; resolvedBy is {} or one role;
\* blockedBy 0 is NULL; the event named by a work status s is 'work_status:s'.
Message == [from : Role, to : SUBSET Role, debt : BOOLEAN,
            status : {"none", "open", "resolved"}, resolvedBy : SUBSET Role,
            workStatus : WORK_STATUSES \cup {"null"}, blockedBy : 0..MaxMsg]
Event   == [what : WORK_STATUSES \cup LoopEvents, by : Role]

-----------------------------------------------------------------------------
(* Reading the log. *)

Live(m) == m \in Sent /\ m \notin deleted            \* fetch_message
IsParty(m, r) == r = message[m].from \/ r \in message[m].to

\* The position of the newest event of m among the kinds E; 0 if there is none.
Newest(m, E) ==
  LET S == {i \in DOMAIN log[m] : log[m][i].what \in E}
  IN  IF S = {} THEN 0 ELSE CHOOSE i \in S : \A j \in S : j <= i

LastSetter(m, s) ==
  IF Newest(m, {s}) = 0 THEN message[m].from ELSE log[m][Newest(m, {s})].by

ResolutionConfirmed_Once(m) == Newest(m, {"resolution_confirmed"}) # 0
ResolutionConfirmed(m) == Newest(m, {"resolution_confirmed"}) > Newest(m, {"resolve"})

-----------------------------------------------------------------------------
(* The lists. *)

BlockerAlive(m) ==
  LET b == message[m].blockedBy IN
    b # 0 /\ b \notin deleted /\ message[b].status # "resolved"

Taken_ByAnyone(m, r) ==
  \E i \in DOMAIN log[m] : i = Newest(m, WORK_STATUSES) /\ i > Newest(m, {"reopen"})

\* r made the last transition of m, after the last reopen.
Taken(m, r) ==
  \E i \in DOMAIN log[m] :
    /\ log[m][i].by = r
    /\ i = Newest(m, WORK_STATUSES) /\ i > Newest(m, {"reopen"})

Owed(r) == {m \in Sent : Live(m) /\ message[m].to = {r} /\ message[m].status = "open"}
Untaken(r) == {m \in Owed(r) : ~Taken(m, r)}

HeldUp(m) == message[m].workStatus = "blocked" /\ (message[m].blockedBy = 0 \/ BlockerAlive(m))
ReadyWork(r) == {m \in Owed(r) : ~HeldUp(m)}

InState(r, s) == {m \in Sent : Live(m) /\ IsParty(m, r) /\ message[m].workStatus = s}
InProgress(r)   == {m \in InState(r, "in_progress") : LastSetter(m, "in_progress") = r}
Blocked(r)      == {m \in InState(r, "blocked") : LastSetter(m, "blocked") = r /\ HeldUp(m)}
Unblocked(r)    == {m \in InState(r, "blocked") : LastSetter(m, "blocked") = r /\ ~HeldUp(m)}
NeedsYou(r)     == {m \in InState(r, "needs_you") : LastSetter(m, "needs_you") # r}
AwaitingDone(r) == {m \in InState(r, "done_local") : LastSetter(m, "done_local") # r}
ResolvedForYou(r) ==
  {m \in Sent : /\ Live(m) /\ IsParty(m, r) /\ message[m].status = "resolved"
                /\ r \notin message[m].resolvedBy /\ ~ResolutionConfirmed(m)}

-----------------------------------------------------------------------------
(* The tools. *)

Room == Cardinality(UNION {{<<m, i>> : i \in DOMAIN log[m]} : m \in Id}) < MaxEvents
Logged(m, what, r) == log' = [log EXCEPT ![m] = Append(@, [what |-> what, by |-> r])]

Audiences(r, debt) ==
  {to \in SUBSET (Role \ {r}) : to # {} /\ (debt => Cardinality(to) = 1)}

FirstEvents_None(r, ws) == <<>>
FirstEvents(r, ws) == IF ws = "null" THEN <<>> ELSE <<[what |-> ws, by |-> r]>>

SendMessage(r, to, debt, ws) ==
  LET m == Len(message) + 1 IN
    /\ m <= MaxMsg
    /\ to \in Audiences(r, debt)
    /\ message' = Append(message,
         [from |-> r, to |-> to, debt |-> debt, status |-> IF debt THEN "open" ELSE "none",
          resolvedBy |-> {}, workStatus |-> ws, blockedBy |-> 0])
    /\ log' = [log EXCEPT ![m] = FirstEvents(r, ws)]
    /\ UNCHANGED deleted

ResolveMessage(r, m) ==
  /\ Live(m) /\ IsParty(m, r) /\ message[m].debt
  /\ message[m].status # "resolved"
  /\ Room
  /\ message' = [message EXCEPT ![m].status = "resolved", ![m].resolvedBy = {r}]
  /\ Logged(m, "resolve", r)
  /\ UNCHANGED deleted

ReopenMessage(r, m) ==
  /\ Live(m) /\ IsParty(m, r) /\ message[m].debt
  /\ message[m].status # "open"
  /\ Room
  /\ message' = [message EXCEPT ![m].status = "open", ![m].resolvedBy = {}]
  /\ Logged(m, "reopen", r)
  /\ UNCHANGED deleted

MayConfirm(r, m) == message[m].status = "resolved" /\ r \notin message[m].resolvedBy

ConfirmResolution(r, m) ==
  /\ Live(m) /\ IsParty(m, r) /\ message[m].debt
  /\ MayConfirm(r, m)
  /\ ~ResolutionConfirmed(m)
  /\ Room
  /\ Logged(m, "resolution_confirmed", r)
  /\ UNCHANGED <<message, deleted>>

MayDeclareDone_ByAnyone(r, m) == message[m].workStatus = "done_local"
MayDeclareDone(r, m) ==
  message[m].workStatus = "done_local" /\ LastSetter(m, "done_local") # r

MayBlockOn_Anything(b) == Live(b) /\ message[b].status # "resolved"
MayBlockOn(b) == Live(b) /\ message[b].debt /\ message[b].status # "resolved"

AlreadySet_DespiteReopen(r, m, ws, b) ==
  /\ message[m].workStatus = ws /\ message[m].blockedBy = b
  /\ LastSetter(m, ws) = r

\* An idempotent retry, unless the debt was reopened since.
AlreadySet(r, m, ws, b) ==
  /\ message[m].workStatus = ws /\ message[m].blockedBy = b
  /\ LastSetter(m, ws) = r /\ Newest(m, {ws}) >= Newest(m, {"reopen"})

SetWorkStatus(r, m, ws, b) ==
  /\ Live(m) /\ IsParty(m, r)
  /\ ws = "done" => MayDeclareDone(r, m)
  /\ b # 0 => ws = "blocked" /\ MayBlockOn(b)
  /\ ~AlreadySet(r, m, ws, b)
  /\ Room
  /\ message' = [message EXCEPT ![m].workStatus = ws, ![m].blockedBy = b]
  /\ Logged(m, ws, r)
  /\ UNCHANGED deleted

MayDelete(m) ==
  /\ message[m].status # "open"
  /\ message[m].status = "resolved" => ResolutionConfirmed(m)

DeleteMessage(r, m) ==
  /\ Live(m) /\ IsParty(m, r)
  /\ MayDelete(m)
  /\ deleted' = deleted \cup {m}
  /\ UNCHANGED <<message, log>>

-----------------------------------------------------------------------------
Init == message = <<>> /\ deleted = {} /\ log = [m \in Id |-> <<>>]

Send    == \E r \in Senders, to \in SUBSET Role, debt \in Shapes, ws \in SentStatuses :
             SendMessage(r, to, debt, ws)
Resolve == \E r \in Role, m \in Id : ResolveMessage(r, m)
Reopen  == \E r \in Role, m \in Id : ReopenMessage(r, m)
Confirm == \E r \in Role, m \in Id : ConfirmResolution(r, m)
Work    == \E r \in Role, m \in Id, ws \in Statuses, b \in 0..MaxMsg : SetWorkStatus(r, m, ws, b)
Delete  == \E r \in Role, m \in Id : DeleteMessage(r, m)

Next == Send \/ Resolve \/ Reopen \/ Confirm \/ Work \/ Delete

Spec == Init /\ [][Next]_vars
-----------------------------------------------------------------------------
(* What the channel promises. *)

\* The list queries look for the newest event of the present status only, and
\* fall back on the sender when they find none; that is always the newest
\* transition of all.
TaskOfLastMover(m) ==
  message[m].workStatus # "null" =>
    LET w == Newest(m, WORK_STATUSES) IN
      /\ w # 0
      /\ log[m][w].what = message[m].workStatus
      /\ LastSetter(m, message[m].workStatus) = log[m][w].by

\* Who declares a task done answers the done_local of another role, and that is
\* the transition right before.  A message may be sent as done: its first event.
DoneByBoth(events) ==
  \A i \in DOMAIN events \ {1} : events[i].what = "done" =>
    \E j \in 1..(i - 1) :
      /\ events[j].what = "done_local" /\ events[j].by # events[i].by
      /\ \A x \in (j + 1)..(i - 1) : events[x].what \notin WORK_STATUSES

\* "A task belongs to the author of the last transition", and it takes two to be
\* done, however often the task went to and fro and was reopened in between.
TaskIsItsLastMovers == \A m \in Sent : TaskOfLastMover(m) /\ DoneByBoth(log[m])

Verified(m) ==
  LET i == Newest(m, LoopEvents) IN i # 0 /\ log[m][i].what = "resolution_confirmed"

\* An open debt is on somebody's list, and a resolved one is on the list of the
\* party that did not resolve it until that party confirms.  The exception is a
\* debt that its addressee marked proposed or done: only open_obligations shows it.
DebtIsListed ==
  \A m \in Sent : Live(m) /\ message[m].debt =>
    IF message[m].status = "open"
    THEN \E r \in Role :
           \/ m \in Untaken(r) \cup NeedsYou(r) \cup AwaitingDone(r)
           \/ m \in Owed(r) /\ m \in InProgress(r) \cup Blocked(r) \cup Unblocked(r)
           \/ m \in Owed(r) /\ message[m].workStatus \in {"proposed", "done"}
    ELSE Verified(m) \/ \E r \in Role :
           IsParty(m, r) /\ message[m].resolvedBy # {r} /\ m \in ResolvedForYou(r)

\* When set_work_status answers already_set to the addressee of a debt, the stop
\* hook counts that debt as taken: the retry rule of the one and the query of
\* the other agree on which transitions a reopen has made stale.
RetryMeansTaken ==
  \A r \in Role : \A m \in Owed(r) :
    message[m].workStatus # "null"
    /\ AlreadySet(r, m, message[m].workStatus, message[m].blockedBy) => Taken(m, r)

\* A task waits for a debt that somebody still owes, or its blocker is gone: a
\* blocker is never a message that nothing can resolve.
LiveBlockerIsOwed ==
  \A m \in Sent :
    message[m].blockedBy # 0 =>
      IF BlockerAlive(m)
      THEN \E r \in Role : message[m].blockedBy \in Owed(r)
      ELSE /\ message[message[m].blockedBy].status = "resolved"
           /\ \A r \in Role : m \in Owed(r) => m \in ReadyWork(r)

-----------------------------------------------------------------------------
(* Debts go through the loop of module DebtLoop.  Who agrees that a debt is   *)
(* closed is told from the newest event of the loop alone, whichever it is.   *)

IsDebt(m) == m \in Sent /\ message[m].debt

ClosedBy(m) ==
  message[m].resolvedBy \cup
    (IF Verified(m) THEN {log[m][Newest(m, LoopEvents)].by} ELSE {})

Loop == INSTANCE DebtLoop WITH
  Debt     <- Id,
  stage    <- [m \in Id |-> IF ~IsDebt(m) THEN "not raised"
                           ELSE IF m \in deleted THEN "forgotten" ELSE "raised"],
  parties  <- [m \in Id |-> IF IsDebt(m) THEN {message[m].from} \cup message[m].to ELSE {}],
  closedBy <- [m \in Id |-> IF IsDebt(m) THEN ClosedBy(m) ELSE {}]

\* It takes both parties to close a debt, and only a debt that both closed can
\* be deleted, however often it was resolved, confirmed and reopened before.
DebtsNeedBothParties == Loop!Spec

=============================================================================
