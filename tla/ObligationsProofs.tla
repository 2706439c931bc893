--------------------------- MODULE ObligationsProofs ---------------------------
(***************************************************************************)
(* Proofs about modules Obligations and Triage, for any roles, messages    *)
(* and number of events: what the lists and the tools compute from the     *)
(* event log is what happened, and debts go through the loop of module     *)
(* DebtLoop.  Looking at the lists is a SELECT at a time while others work,*)
(* and yet no news that stays is slept through, and no backlog wakes; a    *)
(* look changes nothing that module Obligations speaks of, so its theorems *)
(* hold meanwhile.                                                         *)
(***************************************************************************)
EXTENDS Triage, FiniteSetTheorems, SequenceTheorems, WellFoundedInduction, TLAPS

ObligationsTypeOK ==
  /\ message \in Seq(Message) /\ Len(message) <= MaxMsg
  /\ deleted \subseteq Sent
  /\ log \in [Id -> Seq(Event)]

\* Newest, of any log.
LastOf(l, E) ==
  LET S == {i \in DOMAIN l : l[i].what \in E}
  IN  IF S = {} THEN 0 ELSE CHOOSE i \in S : \A j \in S : j <= i

\* What holds of the row x of a message whose log is l.
Party(x, r) == r = x.from \/ r \in x.to

\* The state of work is what the newest transition says.
WorkIsLogged(x, l) ==
  LET w == LastOf(l, WORK_STATUSES) IN
    IF x.workStatus = "null" THEN w = 0 ELSE w # 0 /\ l[w].what = x.workStatus

\* Only parties have their say.
PartiesAct(x, l) == x.from \notin x.to /\ \A i \in 1..Len(l) : Party(x, l[i].by)

\* A debt is between two roles, and the newest event of its loop says how it stands.
IsOpen(x, l) ==
  LET w == LastOf(l, LoopEvents) IN
    x.status = "open" /\ x.resolvedBy = {} /\ (w # 0 => l[w].what = "reopen")
IsResolved(x, l) ==
  LET w == LastOf(l, LoopEvents) IN
    /\ x.status = "resolved" /\ w # 0
    /\ l[w].what = "resolve" /\ x.resolvedBy = {l[w].by}
IsConfirmed(x, l) ==
  LET w == LastOf(l, LoopEvents) IN
    /\ x.status = "resolved" /\ w # 0
    /\ l[w].what = "resolution_confirmed"
    /\ \E p \in Role : x.resolvedBy = {p} /\ Party(x, p) /\ p # l[w].by
DebtIsLogged(x, l) ==
  x.debt => /\ \E p \in Role : x.to = {p}
            /\ IsOpen(x, l) \/ IsResolved(x, l) \/ IsConfirmed(x, l)

RowGood(x, l) ==
  WorkIsLogged(x, l) /\ DoneByBoth(l) /\ PartiesAct(x, l) /\ DebtIsLogged(x, l)

\* Those who say that a debt is closed.
RowClosedBy(x, l) ==
  LET w == LastOf(l, LoopEvents) IN
    x.resolvedBy \cup (IF w # 0 /\ l[w].what = "resolution_confirmed" THEN {l[w].by} ELSE {})

RowsAreGood   == \A m \in Sent : RowGood(message[m], log[m])
UnsentIsQuiet == \A m \in Id \ Sent : log[m] = <<>>
DeletedIsConfirmed ==
  \A m \in deleted : message[m].debt => IsConfirmed(message[m], log[m])
BlockersAreDebts ==
  \A m \in Sent : message[m].blockedBy # 0 =>
    message[m].blockedBy \in Sent /\ message[message[m].blockedBy].debt

IInv ==
  /\ ObligationsTypeOK
  /\ RowsAreGood /\ UnsentIsQuiet /\ DeletedIsConfirmed /\ BlockersAreDebts

-----------------------------------------------------------------------------
(* The newest event of a log.                                               *)

LEMMA NewestIsLast == \A m, E : Newest(m, E) = LastOf(log[m], E)
  BY DEF Newest, LastOf

LEMMA SomeAreLast ==
  ASSUME NEW n \in Nat, NEW S \in SUBSET (1..n), S # {}
  PROVE  \E x \in S : \A y \in S : y <= x
  <1> DEFINE T == {n - i : i \in S}
  <1>1. T \in SUBSET Nat /\ T # {}
    OBVIOUS
  <1>2. \E x \in T : \A y \in T : <<y, x>> \notin OpToRel(<, Nat)
    BY <1>1, NatLessThanWellFounded, WFMin
  <1>3. \A x, y \in Nat : y < x => <<y, x>> \in OpToRel(<, Nat)
    BY DEF OpToRel
  <1>4. PICK x \in T : \A y \in T : ~(y < x)
    BY <1>1, <1>2, <1>3
  <1>5. PICK i \in S : x = n - i
    BY <1>4
  <1>6. \A j \in S : ~(n - j < n - i)
    BY <1>4, <1>5
  <1> QED
    BY <1>6

LEMMA LastIs ==
  ASSUME NEW l \in Seq(Event), NEW E
  PROVE  LET w == LastOf(l, E) IN
         /\ w \in 0..Len(l)
         /\ w = 0 => \A i \in 1..Len(l) : l[i].what \notin E
         /\ w # 0 => /\ w \in 1..Len(l) /\ l[w].what \in E
                     /\ \A i \in 1..Len(l) : l[i].what \in E => i <= w
  <1> DEFINE S == {i \in DOMAIN l : l[i].what \in E}
             w == LastOf(l, E)
  <1>1. DOMAIN l = 1..Len(l) /\ Len(l) \in Nat
    OBVIOUS
  <1>2. CASE S = {}
    <2>1. w = 0
      BY <1>2 DEF LastOf
    <2> QED
      BY <1>1, <1>2, <2>1
  <1>3. CASE S # {}
    <2>1. S \in SUBSET (1..Len(l))
      BY <1>1
    <2>2. \E x \in S : \A y \in S : y <= x
      BY <1>1, <1>3, <2>1, SomeAreLast
    <2>3. w = CHOOSE x \in S : \A y \in S : y <= x
      BY <1>3 DEF LastOf
    <2> HIDE DEF w
    <2>4. w \in S /\ \A y \in S : y <= w
      BY <2>2, <2>3
    <2>5. \A i \in 1..Len(l) : l[i].what \in E => i <= w
      BY <1>1, <2>4
    <2>6. w \in 1..Len(l) /\ l[w].what \in E /\ w \in 0..Len(l) /\ w # 0
      BY <1>1, <2>1, <2>4
    <2> QED
      BY <2>5, <2>6 DEF w
  <1> QED
    BY <1>2, <1>3

\* What is newest is the only one.
LEMMA LastIsUnique ==
  ASSUME NEW l \in Seq(Event), NEW E, NEW w \in 1..Len(l), l[w].what \in E,
         \A i \in 1..Len(l) : l[i].what \in E => i <= w
  PROVE  LastOf(l, E) = w
  <1>1. LastOf(l, E) # 0 /\ w <= LastOf(l, E) /\ LastOf(l, E) <= w /\ LastOf(l, E) \in Nat
    BY LastIs
  <1> QED
    BY <1>1

LEMMA LastAfterAppend ==
  ASSUME NEW l \in Seq(Event), NEW e \in Event, NEW E
  PROVE  LET k == Append(l, e) IN
         /\ k \in Seq(Event) /\ Len(k) = Len(l) + 1
         /\ k[Len(l) + 1] = e /\ \A i \in 1..Len(l) : k[i] = l[i]
         /\ e.what \in E => LastOf(k, E) = Len(l) + 1
         /\ e.what \notin E => LastOf(k, E) = LastOf(l, E)
  <1> DEFINE k == Append(l, e)
  <1>1. /\ k \in Seq(Event) /\ Len(k) = Len(l) + 1 /\ Len(l) \in Nat
        /\ k[Len(l) + 1] = e /\ \A i \in 1..Len(l) : k[i] = l[i]
    OBVIOUS
  <1> HIDE DEF k
  <1>2. ASSUME e.what \in E PROVE LastOf(k, E) = Len(l) + 1
    BY <1>1, <1>2, LastIsUnique
  <1>3. ASSUME e.what \notin E PROVE LastOf(k, E) = LastOf(l, E)
    <2> DEFINE w == LastOf(l, E)
    <2>1. w \in 0..Len(l)
      BY LastIs
    <2>2. CASE w = 0
      <3>1. \A i \in 1..Len(l) : l[i].what \notin E
        BY <2>2, LastIs
      <3>2. \A i \in 1..Len(k) : k[i].what \notin E
        BY <1>1, <1>3, <3>1
      <3> QED
        BY <1>1, <2>2, <3>2, LastIs
    <2>3. CASE w # 0
      <3>1. /\ w \in 1..Len(l) /\ l[w].what \in E
            /\ \A i \in 1..Len(l) : l[i].what \in E => i <= w
        BY <2>3, LastIs
      <3> HIDE DEF w
      <3>2. /\ w \in 1..Len(k) /\ k[w].what \in E
            /\ \A i \in 1..Len(k) : k[i].what \in E => i <= w
        BY <1>1, <1>3, <3>1
      <3>3. LastOf(k, E) = w
        BY <1>1, <3>2, LastIsUnique
      <3> QED
        BY <3>3 DEF w
    <2> QED
      BY <2>2, <2>3
  <1> QED
    BY <1>1, <1>2, <1>3 DEF k

\* A done that is logged follows a done_local of another role.
LEMMA DoneAfterAppend ==
  ASSUME NEW l \in Seq(Event), NEW e \in Event, DoneByBoth(l),
         e.what = "done" =>
           \E j \in 1..Len(l) :
             /\ l[j].what = "done_local" /\ l[j].by # e.by
             /\ \A x \in (j + 1)..Len(l) : l[x].what \notin WORK_STATUSES
  PROVE  DoneByBoth(Append(l, e))
  <1> DEFINE k == Append(l, e)
             n == Len(l)
  <1>1. /\ n \in Nat /\ DOMAIN l = 1..n /\ DOMAIN k = 1..(n + 1) /\ k[n + 1] = e
        /\ \A i \in 1..n : k[i] = l[i]
    OBVIOUS
  <1> HIDE DEF k, n
  <1> SUFFICES ASSUME NEW i \in 1..(n + 1), i # 1, k[i].what = "done"
               PROVE  \E j \in 1..(i - 1) :
                        /\ k[j].what = "done_local" /\ k[j].by # k[i].by
                        /\ \A x \in (j + 1)..(i - 1) : k[x].what \notin WORK_STATUSES
    BY <1>1 DEF DoneByBoth, k
  <1>2. CASE i \in 1..n
    <2>1. PICK j \in 1..(i - 1) :
            /\ l[j].what = "done_local" /\ l[j].by # l[i].by
            /\ \A x \in (j + 1)..(i - 1) : l[x].what \notin WORK_STATUSES
      BY <1>1, <1>2 DEF DoneByBoth
    <2>2. j \in 1..n /\ \A x \in (j + 1)..(i - 1) : x \in 1..n
      BY <1>1, <1>2
    <2> QED
      BY <1>1, <1>2, <2>1, <2>2
  <1>3. CASE i = n + 1
    <2>1. PICK j \in 1..n :
            /\ l[j].what = "done_local" /\ l[j].by # e.by
            /\ \A x \in (j + 1)..n : l[x].what \notin WORK_STATUSES
      BY <1>1, <1>3 DEF n
    <2>2. i - 1 = n /\ \A x \in (j + 1)..n : x \in 1..n
      BY <1>1, <1>3
    <2> QED
      BY <1>1, <1>3, <2>1, <2>2
  <1> QED
    BY <1>1, <1>2, <1>3

-----------------------------------------------------------------------------
(* What the tools do to a row and its log.                                  *)

LEMMA KindsOfEvents ==
  /\ \A e \in LoopEvents : e \notin WORK_STATUSES
  /\ \A e \in WORK_STATUSES : e \notin LoopEvents
  /\ "resolve" \in LoopEvents /\ "reopen" \in LoopEvents
  /\ "resolution_confirmed" \in LoopEvents
  /\ "null" \notin WORK_STATUSES
  BY DEF LoopEvents, WORK_STATUSES

\* An event of the loop, by a party, leaves the state of work.
LEMMA LoopEventIsLogged ==
  ASSUME NEW x \in Message, NEW y \in Message, NEW l \in Seq(Event), NEW e \in Event,
         RowGood(x, l), e.what \in LoopEvents, Party(x, e.by),
         y.from = x.from, y.to = x.to, y.workStatus = x.workStatus
  PROVE  LET k == Append(l, e) IN
         /\ WorkIsLogged(y, k) /\ DoneByBoth(k) /\ PartiesAct(y, k)
         /\ k \in Seq(Event) /\ LastOf(k, LoopEvents) = Len(l) + 1 /\ Len(l) + 1 # 0
         /\ k[Len(l) + 1] = e
  <1> DEFINE k == Append(l, e)
  <1>1. /\ k \in Seq(Event) /\ Len(k) = Len(l) + 1 /\ Len(l) \in Nat
        /\ k[Len(l) + 1] = e /\ \A i \in 1..Len(l) : k[i] = l[i]
        /\ LastOf(k, LoopEvents) = Len(l) + 1
    BY LastAfterAppend
  <1>2. LastOf(k, WORK_STATUSES) = LastOf(l, WORK_STATUSES)
    BY LastAfterAppend, KindsOfEvents
  <1> HIDE DEF k
  <1>3. LastOf(l, WORK_STATUSES) \in 0..Len(l)
    BY LastIs
  <1>4. WorkIsLogged(y, k)
    BY <1>1, <1>2, <1>3 DEF RowGood, WorkIsLogged
  <1>5. PartiesAct(y, k)
    BY <1>1 DEF RowGood, PartiesAct, Party
  <1>6. DoneByBoth(k)
    <2>1. e.what # "done"
      BY KindsOfEvents DEF WORK_STATUSES
    <2> QED
      BY <2>1, DoneAfterAppend DEF RowGood, k
  <1> QED
    BY <1>1, <1>4, <1>5, <1>6 DEF k

LEMMA ResolvesRow ==
  ASSUME NEW x \in Message, NEW l \in Seq(Event), NEW r \in Role, RowGood(x, l),
         x.debt, x.status # "resolved", Party(x, r)
  PROVE  LET y == [x EXCEPT !.status = "resolved", !.resolvedBy = {r}]
             k == Append(l, [what |-> "resolve", by |-> r]) IN
         /\ y \in Message /\ RowGood(y, k)
         /\ RowClosedBy(x, l) = {} /\ RowClosedBy(y, k) = {r}
  <1> DEFINE y == [x EXCEPT !.status = "resolved", !.resolvedBy = {r}]
             e == [what |-> "resolve", by |-> r]
             k == Append(l, e)
  <1>1. /\ y \in Message /\ y.status = "resolved" /\ y.resolvedBy = {r} /\ y.debt = x.debt
        /\ y.from = x.from /\ y.to = x.to /\ y.workStatus = x.workStatus
    BY DEF Message
  <1>2. e \in Event /\ e.what = "resolve" /\ e.by = r
    BY DEF Event, LoopEvents
  <1> HIDE DEF y, e
  <1>3. /\ WorkIsLogged(y, k) /\ DoneByBoth(k) /\ PartiesAct(y, k)
        /\ LastOf(k, LoopEvents) = Len(l) + 1 /\ Len(l) + 1 # 0 /\ k[Len(l) + 1] = e
    BY <1>1, <1>2, KindsOfEvents, LoopEventIsLogged
  <1> HIDE DEF k
  <1>4. IsResolved(y, k)
    BY <1>1, <1>2, <1>3 DEF IsResolved
  <1>5. RowGood(y, k)
    BY <1>1, <1>3, <1>4 DEF RowGood, DebtIsLogged
  <1>6. IsOpen(x, l)
    BY DEF RowGood, DebtIsLogged, IsResolved, IsConfirmed
  <1>7. RowClosedBy(x, l) = {}
    BY <1>6 DEF IsOpen, RowClosedBy
  <1>8. RowClosedBy(y, k) = {r}
    BY <1>1, <1>2, <1>3 DEF RowClosedBy
  <1> QED
    BY <1>1, <1>5, <1>7, <1>8 DEF y, k, e

LEMMA ReopensRow ==
  ASSUME NEW x \in Message, NEW l \in Seq(Event), NEW r \in Role, RowGood(x, l),
         x.debt, x.status # "open", Party(x, r)
  PROVE  LET y == [x EXCEPT !.status = "open", !.resolvedBy = {}]
             k == Append(l, [what |-> "reopen", by |-> r]) IN
         /\ y \in Message /\ RowGood(y, k)
         /\ RowClosedBy(x, l) # {} /\ RowClosedBy(y, k) = {}
  <1> DEFINE y == [x EXCEPT !.status = "open", !.resolvedBy = {}]
             e == [what |-> "reopen", by |-> r]
             k == Append(l, e)
  <1>1. /\ y \in Message /\ y.status = "open" /\ y.resolvedBy = {} /\ y.debt = x.debt
        /\ y.from = x.from /\ y.to = x.to /\ y.workStatus = x.workStatus
    BY DEF Message
  <1>2. e \in Event /\ e.what = "reopen" /\ e.by = r
    BY DEF Event, LoopEvents
  <1> HIDE DEF y, e
  <1>3. /\ WorkIsLogged(y, k) /\ DoneByBoth(k) /\ PartiesAct(y, k)
        /\ LastOf(k, LoopEvents) = Len(l) + 1 /\ Len(l) + 1 # 0 /\ k[Len(l) + 1] = e
    BY <1>1, <1>2, KindsOfEvents, LoopEventIsLogged
  <1> HIDE DEF k
  <1>4. IsOpen(y, k)
    BY <1>1, <1>2, <1>3 DEF IsOpen
  <1>5. RowGood(y, k)
    BY <1>1, <1>3, <1>4 DEF RowGood, DebtIsLogged
  <1>6. IsResolved(x, l) \/ IsConfirmed(x, l)
    BY DEF RowGood, DebtIsLogged, IsOpen
  <1>7. RowClosedBy(x, l) # {}
    BY <1>6 DEF IsResolved, IsConfirmed, RowClosedBy
  <1>8. RowClosedBy(y, k) = {}
    BY <1>1, <1>2, <1>3 DEF RowClosedBy
  <1> QED
    BY <1>1, <1>5, <1>7, <1>8 DEF y, k, e

\* A resolved debt is confirmed when a confirmation is newer than the resolution.
LEMMA ConfirmedOrNot ==
  ASSUME NEW x, NEW l \in Seq(Event), IsResolved(x, l) \/ IsConfirmed(x, l)
  PROVE  IsConfirmed(x, l) <=>
           LastOf(l, {"resolution_confirmed"}) > LastOf(l, {"resolve"})
  <1> DEFINE w == LastOf(l, LoopEvents)
             c == LastOf(l, {"resolution_confirmed"})
             o == LastOf(l, {"resolve"})
  <1>1. /\ w \in 1..Len(l) /\ \A i \in 1..Len(l) : l[i].what \in LoopEvents => i <= w
        /\ Len(l) \in Nat
    BY LastIs DEF IsResolved, IsConfirmed
  <1>2. /\ c \in 0..Len(l) /\ o \in 0..Len(l)
        /\ c # 0 => c \in 1..Len(l) /\ l[c].what = "resolution_confirmed"
        /\ o # 0 => o \in 1..Len(l) /\ l[o].what = "resolve"
    BY LastIs
  <1>3. CASE IsResolved(x, l)
    <2>1. l[w].what = "resolve" /\ ~IsConfirmed(x, l)
      BY <1>3 DEF IsResolved, IsConfirmed
    <2>2. o = w
      BY <1>1, <2>1, KindsOfEvents, LastIsUnique
    <2>3. c <= w
      BY <1>1, <1>2, KindsOfEvents
    <2> HIDE DEF w, c, o
    <2>4. ~(c > o)
      BY <1>1, <1>2, <2>2, <2>3
    <2> QED
      BY <2>1, <2>4 DEF c, o
  <1>4. CASE IsConfirmed(x, l)
    <2>1. l[w].what = "resolution_confirmed"
      BY <1>4 DEF IsConfirmed
    <2>2. c = w
      BY <1>1, <2>1, KindsOfEvents, LastIsUnique
    <2>3. o <= w /\ o # w
      BY <1>1, <1>2, <2>1, KindsOfEvents
    <2> HIDE DEF w, c, o
    <2>4. c > o
      BY <1>1, <1>2, <2>2, <2>3
    <2> QED
      BY <1>4, <2>4 DEF c, o
  <1> QED
    BY <1>3, <1>4

LEMMA ConfirmsRow ==
  ASSUME NEW x \in Message, NEW l \in Seq(Event), NEW r \in Role, RowGood(x, l),
         x.debt, IsResolved(x, l), r \notin x.resolvedBy, Party(x, r)
  PROVE  LET k == Append(l, [what |-> "resolution_confirmed", by |-> r]) IN
         /\ RowGood(x, k)
         /\ r \notin RowClosedBy(x, l) /\ RowClosedBy(x, k) = RowClosedBy(x, l) \cup {r}
  <1> DEFINE e == [what |-> "resolution_confirmed", by |-> r]
             k == Append(l, e)
             w == LastOf(l, LoopEvents)
  <1>1. e \in Event /\ e.what = "resolution_confirmed" /\ e.by = r
    BY DEF Event, LoopEvents
  <1> HIDE DEF e
  <1>2. /\ WorkIsLogged(x, k) /\ DoneByBoth(k) /\ PartiesAct(x, k)
        /\ LastOf(k, LoopEvents) = Len(l) + 1 /\ Len(l) + 1 # 0 /\ k[Len(l) + 1] = e
    BY <1>1, KindsOfEvents, LoopEventIsLogged
  <1> HIDE DEF k
  <1>3. /\ w \in 1..Len(l) /\ l[w].what = "resolve" /\ x.resolvedBy = {l[w].by}
        /\ x.status = "resolved"
    BY LastIs DEF IsResolved
  <1>4. l[w].by \in Role /\ Party(x, l[w].by) /\ l[w].by # r
    <2> HIDE DEF w
    <2>1. l[w] \in Event
      BY <1>3
    <2>2. l[w].by \in Role /\ l[w].by # r
      BY <1>3, <2>1 DEF Event
    <2> QED
      BY <1>3, <2>2 DEF RowGood, PartiesAct
  <1>5. IsConfirmed(x, k)
    BY <1>1, <1>2, <1>3, <1>4 DEF IsConfirmed
  <1>6. RowGood(x, k)
    BY <1>2, <1>5 DEF RowGood, DebtIsLogged
  <1>7. RowClosedBy(x, l) = {l[w].by}
    BY <1>3 DEF RowClosedBy
  <1>8. RowClosedBy(x, k) = {l[w].by} \cup {r}
    BY <1>1, <1>2, <1>3 DEF RowClosedBy
  <1> QED
    BY <1>4, <1>6, <1>7, <1>8 DEF k, e

\* A debt that is confirmed was closed by both of its parties.
LEMMA ConfirmedByBoth ==
  ASSUME NEW x \in Message, NEW l \in Seq(Event), RowGood(x, l), x.debt, IsConfirmed(x, l)
  PROVE  RowClosedBy(x, l) = {x.from} \cup x.to
  <1> DEFINE w == LastOf(l, LoopEvents)
  <1>1. /\ w \in 1..Len(l) /\ w # 0 /\ l[w].what = "resolution_confirmed"
        /\ Party(x, l[w].by)
    BY LastIs DEF IsConfirmed, RowGood, PartiesAct
  <1>2. PICK p \in Role : x.resolvedBy = {p} /\ Party(x, p) /\ p # l[w].by
    BY DEF IsConfirmed
  <1>3. PICK a \in Role : x.to = {a}
    BY DEF RowGood, DebtIsLogged
  <1>4. RowClosedBy(x, l) = {p} \cup {l[w].by}
    BY <1>1, <1>2 DEF RowClosedBy
  <1> QED
    BY <1>1, <1>2, <1>3, <1>4 DEF Party

\* What a message says of its work is what the newest transition says.
LEMMA LastMove ==
  ASSUME NEW x, NEW l \in Seq(Event), WorkIsLogged(x, l), x.workStatus # "null"
  PROVE  LET w == LastOf(l, WORK_STATUSES) IN
         /\ w \in 1..Len(l) /\ l[w].what = x.workStatus
         /\ LastOf(l, {x.workStatus}) = w
  <1> DEFINE w == LastOf(l, WORK_STATUSES)
             ws == x.workStatus
  <1>1. w # 0 /\ l[w].what = ws
    BY DEF WorkIsLogged
  <1>2. /\ w \in 1..Len(l) /\ l[w].what \in WORK_STATUSES
        /\ \A i \in 1..Len(l) : l[i].what \in WORK_STATUSES => i <= w
    BY <1>1, LastIs
  <1> HIDE DEF w
  <1>3. LastOf(l, {ws}) = w
    BY <1>1, <1>2, LastIsUnique
  <1> QED
    BY <1>1, <1>2, <1>3 DEF w

\* A transition; one to done answers the done_local of another role.
LEMMA WorksRow ==
  ASSUME NEW x \in Message, NEW l \in Seq(Event), NEW r \in Role, RowGood(x, l),
         NEW ws \in WORK_STATUSES, NEW b \in 0..MaxMsg, Party(x, r),
         ws = "done" => x.workStatus = "done_local" /\ l[LastOf(l, WORK_STATUSES)].by # r
  PROVE  LET y == [x EXCEPT !.workStatus = ws, !.blockedBy = b]
             k == Append(l, [what |-> ws, by |-> r]) IN
         y \in Message /\ RowGood(y, k) /\ RowClosedBy(y, k) = RowClosedBy(x, l)
  <1> DEFINE y == [x EXCEPT !.workStatus = ws, !.blockedBy = b]
             e == [what |-> ws, by |-> r]
             k == Append(l, e)
             w == LastOf(l, LoopEvents)
  <1>1. /\ y \in Message /\ y.workStatus = ws /\ y.debt = x.debt /\ y.status = x.status
        /\ y.from = x.from /\ y.to = x.to /\ y.resolvedBy = x.resolvedBy
    BY DEF Message
  <1>2. e \in Event /\ e.what = ws /\ e.by = r
    BY DEF Event
  <1> HIDE DEF y, e
  <1>3. /\ Len(k) = Len(l) + 1 /\ Len(l) \in Nat
        /\ k[Len(l) + 1] = e /\ \A i \in 1..Len(l) : k[i] = l[i]
        /\ LastOf(k, WORK_STATUSES) = Len(l) + 1
        /\ LastOf(k, LoopEvents) = w
    BY <1>2, LastAfterAppend, KindsOfEvents
  <1>4. w \in 0..Len(l)
    BY LastIs
  <1> HIDE DEF k, w
  <1>5. w # 0 => k[w] = l[w]
    BY <1>3, <1>4
  <1>6. WorkIsLogged(y, k)
    BY <1>1, <1>2, <1>3, KindsOfEvents DEF WorkIsLogged
  <1>7. PartiesAct(y, k)
    BY <1>1, <1>2, <1>3 DEF RowGood, PartiesAct, Party
  <1>8. DoneByBoth(k)
    <2> DEFINE j == LastOf(l, WORK_STATUSES)
    <2>1. ASSUME ws = "done"
          PROVE  /\ j \in 1..Len(l) /\ l[j].what = "done_local" /\ l[j].by # e.by
                 /\ \A i \in (j + 1)..Len(l) : l[i].what \notin WORK_STATUSES
      <3>1. j \in 1..Len(l) /\ l[j].what = "done_local" /\ l[j].by # e.by
        BY <1>2, <2>1, LastMove DEF RowGood
      <3>2. \A i \in 1..Len(l) : l[i].what \in WORK_STATUSES => i <= j
        BY <3>1, LastIs
      <3> HIDE DEF j
      <3>3. \A i \in (j + 1)..Len(l) : i \in 1..Len(l) /\ ~(i <= j)
        BY <1>3, <3>1
      <3> QED
        BY <3>1, <3>2, <3>3
    <2> HIDE DEF j
    <2> QED
      BY <1>2, <2>1, DoneAfterAppend DEF RowGood, k
  <1>9. /\ IsOpen(y, k) <=> IsOpen(x, l)
        /\ IsResolved(y, k) <=> IsResolved(x, l)
        /\ IsConfirmed(y, k) <=> IsConfirmed(x, l)
    BY <1>1, <1>3, <1>5 DEF IsOpen, IsResolved, IsConfirmed, Party, w
  <1>10. RowGood(y, k)
    BY <1>1, <1>6, <1>7, <1>8, <1>9 DEF RowGood, DebtIsLogged
  <1>11. RowClosedBy(y, k) = RowClosedBy(x, l)
    BY <1>1, <1>3, <1>5 DEF RowClosedBy, w
  <1> QED
    BY <1>1, <1>10, <1>11 DEF y, k, e

\* A message that is sent.
LEMMA SendsRow ==
  ASSUME NEW r \in Role, NEW to, NEW debt \in BOOLEAN, NEW ws \in WORK_STATUSES \cup {"null"},
         to \in Audiences(r, debt)
  PROVE  LET y == [from |-> r, to |-> to, debt |-> debt,
                   status |-> IF debt THEN "open" ELSE "none",
                   resolvedBy |-> {}, workStatus |-> ws, blockedBy |-> 0]
             k == FirstEvents(r, ws) IN
         /\ y \in Message /\ k \in Seq(Event) /\ RowGood(y, k) /\ RowClosedBy(y, k) = {}
  <1> DEFINE y == [from |-> r, to |-> to, debt |-> debt,
                   status |-> IF debt THEN "open" ELSE "none",
                   resolvedBy |-> {}, workStatus |-> ws, blockedBy |-> 0]
             k == FirstEvents(r, ws)
             e == [what |-> ws, by |-> r]
  <1>1. /\ to \in SUBSET (Role \ {r})
        /\ debt => \E p \in Role : to = {p}
    <2>1. to \in SUBSET (Role \ {r}) /\ (debt => Cardinality(to) = 1)
      BY DEF Audiences
    <2>2. IsFiniteSet(to)
      BY <2>1, SendAssumption, FS_Subset
    <2>3. debt => \E p : to = {p}
      BY <2>1, <2>2, FS_Singleton
    <2> QED
      BY <2>1, <2>3
  <1>2. /\ y \in Message /\ y.from = r /\ y.to = to /\ y.debt = debt /\ y.resolvedBy = {}
        /\ y.workStatus = ws /\ y.status = IF debt THEN "open" ELSE "none"
    BY <1>1, BoundsAssumption DEF Message
  <1> HIDE DEF y
  <1>3. CASE ws = "null"
    <2>1. k = <<>>
      BY <1>3 DEF FirstEvents
    <2> HIDE DEF k
    <2>2. k \in Seq(Event) /\ Len(k) = 0 /\ DOMAIN k = {}
      BY <2>1
    <2>3. LastOf(k, WORK_STATUSES) = 0 /\ LastOf(k, LoopEvents) = 0
      <3>1. LastOf(k, WORK_STATUSES) \in 0..Len(k) /\ LastOf(k, LoopEvents) \in 0..Len(k)
        BY <2>2, LastIs
      <3> QED
        BY <2>2, <3>1
    <2>4. WorkIsLogged(y, k) /\ DoneByBoth(k) /\ PartiesAct(y, k)
      BY <1>1, <1>2, <1>3, <2>2, <2>3 DEF WorkIsLogged, DoneByBoth, PartiesAct
    <2>5. y.debt => IsOpen(y, k)
      BY <1>2, <2>3 DEF IsOpen
    <2> QED
      BY <1>1, <1>2, <2>2, <2>3, <2>4, <2>5 DEF RowGood, DebtIsLogged, RowClosedBy, y, k
  <1>4. CASE ws # "null"
    <2>1. k = <<e>> /\ e \in Event /\ e.what = ws /\ e.by = r /\ ws \in WORK_STATUSES
      BY <1>4 DEF FirstEvents, Event
    <2> HIDE DEF k, e
    <2>2. k \in Seq(Event) /\ Len(k) = 1 /\ k[1] = e
      BY <2>1
    <2>3. LastOf(k, WORK_STATUSES) = 1
      <3>1. 1 \in 1..Len(k) /\ k[1].what \in WORK_STATUSES /\ \A i \in 1..Len(k) : i <= 1
        BY <2>1, <2>2
      <3> QED
        BY <2>2, <3>1, LastIsUnique
    <2>4. LastOf(k, LoopEvents) = 0
      <3>1. \A i \in 1..Len(k) : k[i].what \notin LoopEvents
        BY <2>1, <2>2, KindsOfEvents
      <3> QED
        BY <2>2, <3>1, LastIs
    <2>5. WorkIsLogged(y, k)
      BY <1>2, <1>4, <2>1, <2>2, <2>3 DEF WorkIsLogged
    <2>6. PartiesAct(y, k) /\ DoneByBoth(k)
      BY <1>1, <1>2, <2>1, <2>2 DEF PartiesAct, Party, DoneByBoth
    <2>7. y.debt => IsOpen(y, k)
      BY <1>2, <2>4 DEF IsOpen
    <2> QED
      BY <1>1, <1>2, <2>2, <2>4, <2>5, <2>6, <2>7 DEF RowGood, DebtIsLogged, RowClosedBy, y, k
  <1> QED
    BY <1>3, <1>4

-----------------------------------------------------------------------------
(* The steps, and what they are in DebtLoop.                                *)

Stage(m)   == IF ~IsDebt(m) THEN "not raised" ELSE IF m \in deleted THEN "forgotten" ELSE "raised"
Between(m) == IF IsDebt(m) THEN {message[m].from} \cup message[m].to ELSE {}
Closed(m)  == IF IsDebt(m) THEN RowClosedBy(message[m], log[m]) ELSE {}

LEMMA MappedBy ==
  \A m : /\ (IF IsDebt(m) THEN ClosedBy(m) ELSE {}) = Closed(m)
         /\ (IF IsDebt(m) THEN ClosedBy(m) ELSE {})' = Closed(m)'
  <1>1. \A m, E : Newest(m, E) = LastOf(log[m], E) /\ Newest(m, E)' = LastOf(log'[m], E)
    BY DEF Newest, LastOf
  <1>2. \A m : ClosedBy(m) = RowClosedBy(message[m], log[m])
    BY <1>1 DEF ClosedBy, Verified, RowClosedBy
  <1>3. \A m : ClosedBy(m)' = RowClosedBy(message[m], log[m])'
    BY <1>1 DEF ClosedBy, Verified, RowClosedBy
  <1> QED
    BY <1>2, <1>3 DEF Closed

\* Nothing that DebtLoop knows of changes.
LEMMA LoopStays ==
  ASSUME \A o \in Id : Stage(o)' = Stage(o) /\ Between(o)' = Between(o) /\ Closed(o)' = Closed(o)
  PROVE  UNCHANGED Loop!vars
  BY MappedBy DEF Loop!vars, Stage, Between

LEMMA LoopRaises ==
  ASSUME NEW m \in Id, NEW owed \in Role, NEW owing \in Role, owed # owing,
         \A o \in Id \ {m} : Stage(o)' = Stage(o) /\ Between(o)' = Between(o),
         \A o \in Id : Closed(o)' = Closed(o),
         Stage(m) = "not raised", Stage(m)' = "raised", Between(m)' = {owed, owing}
  PROVE  Loop!Next
  <1> Loop!Raise(m, owed, owing)
    BY MappedBy DEF Loop!Raise, Stage, Between
  <1> QED
    BY DEF Loop!Next

LEMMA LoopCloses ==
  ASSUME NEW m \in Id, NEW r \in Role,
         \A o \in Id : Stage(o)' = Stage(o) /\ Between(o)' = Between(o),
         \A o \in Id \ {m} : Closed(o)' = Closed(o),
         Stage(m) = "raised", r \in Between(m) \ Closed(m), Closed(m)' = Closed(m) \cup {r}
  PROVE  Loop!Next
  <1> Loop!Close(m, r)
    BY MappedBy DEF Loop!Close, Stage, Between
  <1> QED
    BY DEF Loop!Next

LEMMA LoopDisputes ==
  ASSUME NEW m \in Id,
         \A o \in Id : Stage(o)' = Stage(o) /\ Between(o)' = Between(o),
         \A o \in Id \ {m} : Closed(o)' = Closed(o),
         Stage(m) = "raised", Closed(m) # {}, Closed(m)' = {}
  PROVE  Loop!Next
  <1> Loop!Dispute(m)
    BY MappedBy DEF Loop!Dispute, Stage, Between
  <1> QED
    BY DEF Loop!Next

LEMMA LoopForgets ==
  ASSUME NEW m \in Id,
         \A o \in Id : Between(o)' = Between(o) /\ Closed(o)' = Closed(o),
         \A o \in Id \ {m} : Stage(o)' = Stage(o),
         Stage(m) = "raised", Closed(m) = Between(m), Stage(m)' = "forgotten"
  PROVE  Loop!Next
  <1> Loop!Forget(m)
    BY MappedBy DEF Loop!Forget, Stage, Between
  <1> QED
    BY DEF Loop!Next

\* A tool writes one row and one event.
LEMMA RowChanges ==
  ASSUME IInv, NEW m \in Sent, m \notin deleted, NEW y \in Message, NEW k \in Seq(Event),
         RowGood(y, k), message' = [message EXCEPT ![m] = y], log' = [log EXCEPT ![m] = k],
         deleted' = deleted, y.debt = message[m].debt, y.from = message[m].from,
         y.to = message[m].to,
         y.blockedBy # 0 => y.blockedBy \in Sent /\ message[y.blockedBy].debt
  PROVE  /\ IInv' /\ m \in Id
         /\ \A o \in Id : Stage(o)' = Stage(o) /\ Between(o)' = Between(o)
         /\ \A o \in Id \ {m} : Closed(o)' = Closed(o)
         /\ Closed(m)' = IF y.debt THEN RowClosedBy(y, k) ELSE {}
  <1>1. /\ message \in Seq(Message) /\ Sent = 1..Len(message) /\ Sent \subseteq Id
        /\ log \in [Id -> Seq(Event)] /\ Len(message) \in Nat
    BY BoundsAssumption DEF IInv, ObligationsTypeOK, Sent, Id
  <1>2. /\ message' \in Seq(Message) /\ Len(message') = Len(message) /\ Sent' = Sent
        /\ message'[m] = y /\ \A o \in Sent : o # m => message'[o] = message[o]
    BY <1>1 DEF Sent
  <1>3. /\ log' \in [Id -> Seq(Event)] /\ log'[m] = k
        /\ \A o \in Id : o # m => log'[o] = log[o]
    BY <1>1
  <1>4. ObligationsTypeOK'
    BY <1>2, <1>3 DEF IInv, ObligationsTypeOK
  <1>5. RowsAreGood' /\ UnsentIsQuiet'
    BY <1>1, <1>2, <1>3 DEF IInv, RowsAreGood, UnsentIsQuiet
  <1>6. DeletedIsConfirmed'
    BY <1>1, <1>2, <1>3 DEF IInv, ObligationsTypeOK, DeletedIsConfirmed
  <1>7. BlockersAreDebts'
    BY <1>2 DEF IInv, BlockersAreDebts
  <1>8. \A o \in Id : IsDebt(o)' = IsDebt(o)
    BY <1>2 DEF IsDebt
  <1>9. \A o \in Id : Stage(o)' = Stage(o) /\ Between(o)' = Between(o)
    <2>1. \A o \in Sent : message'[o].from = message[o].from /\ message'[o].to = message[o].to
      BY <1>2
    <2>2. \A o \in Id : Stage(o)' = Stage(o)
      BY <1>8 DEF Stage
    <2>3. ASSUME NEW o \in Id PROVE Between(o)' = Between(o)
      <3>1. CASE IsDebt(o)
        BY <1>8, <2>1, <3>1 DEF Between, IsDebt
      <3>2. CASE ~IsDebt(o)
        BY <1>8, <3>2 DEF Between
      <3> QED
        BY <3>1, <3>2
    <2> QED
      BY <2>2, <2>3
  <1>10. \A o \in Id \ {m} : Closed(o)' = Closed(o)
    BY <1>2, <1>3, <1>8 DEF Closed, IsDebt
  <1>11. Closed(m)' = IF y.debt THEN RowClosedBy(y, k) ELSE {}
    BY <1>2, <1>3 DEF Closed, IsDebt
  <1> QED
    BY <1>1, <1>4, <1>5, <1>6, <1>7, <1>9, <1>10, <1>11 DEF IInv

\* A step of IInv that DebtLoop knows.
Mapped == IInv' /\ [Loop!Next]_(Loop!vars)

LEMMA Sends ==
  ASSUME IInv, NEW r \in Role, NEW to, NEW debt \in BOOLEAN, NEW ws \in WORK_STATUSES \cup {"null"},
         SendMessage(r, to, debt, ws)
  PROVE  Mapped
  <1>0. PICK m \in Nat : m = Len(message) + 1
    BY DEF IInv, ObligationsTypeOK
  <1> DEFINE y == [from |-> r, to |-> to, debt |-> debt,
                   status |-> IF debt THEN "open" ELSE "none",
                   resolvedBy |-> {}, workStatus |-> ws, blockedBy |-> 0]
             k == FirstEvents(r, ws)
  <1>1. /\ m <= MaxMsg /\ to \in Audiences(r, debt)
        /\ message' = Append(message, y) /\ log' = [log EXCEPT ![m] = k] /\ deleted' = deleted
    BY <1>0 DEF SendMessage
  <1>2. /\ y \in Message /\ k \in Seq(Event) /\ RowGood(y, k) /\ RowClosedBy(y, k) = {}
        /\ y.debt = debt /\ y.blockedBy = 0 /\ y.from = r /\ y.to = to
    BY <1>1, SendsRow
  <1> HIDE DEF y, k
  <1>3. /\ message \in Seq(Message) /\ Sent = 1..Len(message) /\ Sent \subseteq Id
        /\ log \in [Id -> Seq(Event)] /\ Len(message) \in Nat /\ m \in Id /\ m \notin Sent
        /\ deleted \subseteq Sent
    BY <1>0, <1>1, BoundsAssumption DEF IInv, ObligationsTypeOK, Sent, Id
  <1>4. /\ message' \in Seq(Message) /\ Len(message') = m /\ Sent' = Sent \cup {m}
        /\ message'[m] = y /\ \A o \in Sent : message'[o] = message[o]
    BY <1>0, <1>1, <1>2, <1>3 DEF Sent
  <1>5. /\ log' \in [Id -> Seq(Event)] /\ log'[m] = k
        /\ \A o \in Id : o # m => log'[o] = log[o]
    BY <1>1, <1>2, <1>3
  <1>6. ObligationsTypeOK'
    BY <1>1, <1>3, <1>4, <1>5 DEF IInv, ObligationsTypeOK
  <1>7. RowsAreGood' /\ UnsentIsQuiet'
    BY <1>2, <1>3, <1>4, <1>5 DEF IInv, RowsAreGood, UnsentIsQuiet
  <1>8. DeletedIsConfirmed' /\ BlockersAreDebts'
    BY <1>1, <1>2, <1>3, <1>4, <1>5 DEF IInv, DeletedIsConfirmed, BlockersAreDebts
  <1>9. \A o \in Id \ {m} : /\ IsDebt(o)' = IsDebt(o)
                            /\ IsDebt(o) => message'[o] = message[o]
    BY <1>4 DEF IsDebt
  <1>10. \A o \in Id \ {m} : Stage(o)' = Stage(o) /\ Between(o)' = Between(o)
                             /\ Closed(o)' = Closed(o)
    BY <1>1, <1>5, <1>9 DEF Stage, Between, Closed
  <1>11. ~IsDebt(m) /\ (IsDebt(m)' <=> debt)
    BY <1>2, <1>3, <1>4 DEF IsDebt
  <1>12. Stage(m) = "not raised" /\ Closed(m) = {} /\ Closed(m)' = {} /\ Between(m) = {}
    BY <1>2, <1>4, <1>5, <1>11 DEF Stage, Closed, Between
  <1>13. CASE debt
    <2>1. PICK p \in Role : to = {p}
      BY <1>2, <1>13 DEF RowGood, DebtIsLogged
    <2>2. r # p
      BY <1>1, <2>1 DEF Audiences
    <2>3. Stage(m)' = "raised" /\ Between(m)' = {r, p}
      BY <1>1, <1>2, <1>3, <1>4, <1>11, <1>13, <2>1 DEF Stage, Between
    <2>4. Loop!Next
      BY <1>3, <1>10, <1>12, <2>2, <2>3, LoopRaises
    <2> QED
      BY <1>6, <1>7, <1>8, <2>4 DEF IInv, Mapped
  <1>14. CASE ~debt
    <2>1. Stage(m)' = "not raised" /\ Between(m)' = {}
      BY <1>11, <1>14 DEF Stage, Between
    <2>2. UNCHANGED Loop!vars
      BY <1>10, <1>12, <2>1, LoopStays
    <2> QED
      BY <1>6, <1>7, <1>8, <2>2 DEF IInv, Mapped
  <1> QED
    BY <1>13, <1>14

LEMMA SentRow ==
  ASSUME IInv, NEW m \in Sent
  PROVE  message[m] \in Message /\ log[m] \in Seq(Event) /\ RowGood(message[m], log[m])
  <1>1. Sent = 1..Len(message) /\ m \in Id /\ message \in Seq(Message)
    BY BoundsAssumption DEF IInv, ObligationsTypeOK, Sent, Id
  <1> QED
    BY <1>1 DEF IInv, ObligationsTypeOK, RowsAreGood

LEMMA LastMover ==
  ASSUME IInv, NEW m \in Sent, message[m].workStatus # "null"
  PROVE  LET w == Newest(m, WORK_STATUSES) IN
         /\ w \in 1..Len(log[m]) /\ w # 0 /\ log[m][w].what = message[m].workStatus
         /\ Newest(m, {message[m].workStatus}) = w
         /\ LastSetter(m, message[m].workStatus) = log[m][w].by
  <1> DEFINE x == message[m]
             l == log[m]
             w == LastOf(l, WORK_STATUSES)
  <1>1. x \in Message /\ l \in Seq(Event) /\ WorkIsLogged(x, l)
    BY SentRow DEF RowGood
  <1>2. Newest(m, WORK_STATUSES) = w /\ Newest(m, {x.workStatus}) = LastOf(l, {x.workStatus})
    BY NewestIsLast
  <1>3. w \in 1..Len(l) /\ l[w].what = x.workStatus /\ LastOf(l, {x.workStatus}) = w
    BY <1>1, LastMove
  <1>4. w # 0
    BY <1>3
  <1> HIDE DEF w
  <1> QED
    BY <1>2, <1>3, <1>4 DEF LastSetter

\* What a tool is called on.
LEMMA RowIsThere ==
  ASSUME IInv, NEW m \in Id, Live(m)
  PROVE  /\ m \in Sent /\ m \notin deleted /\ message[m] \in Message /\ log[m] \in Seq(Event)
         /\ RowGood(message[m], log[m])
         /\ message[m].blockedBy # 0 => /\ message[m].blockedBy \in Sent
                                        /\ message[message[m].blockedBy].debt
         /\ \A r : IsParty(m, r) <=> Party(message[m], r)
         /\ message[m].debt => /\ Stage(m) = "raised"
                               /\ \A r : r \in Between(m) <=> Party(message[m], r)
                               /\ Closed(m) = RowClosedBy(message[m], log[m])
         /\ ~message[m].debt => Closed(m) = {}
  BY DEF IInv, ObligationsTypeOK, RowsAreGood, BlockersAreDebts, Live, Sent, IsParty, Party,
         Stage, Between, Closed, IsDebt

LEMMA Resolves ==
  ASSUME IInv, NEW r \in Role, NEW m \in Id, ResolveMessage(r, m)
  PROVE  Mapped
  <1> DEFINE x == message[m]
             l == log[m]
             y == [x EXCEPT !.status = "resolved", !.resolvedBy = {r}]
             k == Append(l, [what |-> "resolve", by |-> r])
  <1>1. /\ Live(m) /\ IsParty(m, r) /\ x.debt /\ x.status # "resolved"
        /\ message' = [message EXCEPT ![m] = y] /\ log' = [log EXCEPT ![m] = k]
        /\ deleted' = deleted
    BY DEF ResolveMessage, Logged
  <1>2. /\ m \in Sent /\ m \notin deleted /\ x \in Message /\ l \in Seq(Event) /\ RowGood(x, l)
        /\ Party(x, r) /\ Stage(m) = "raised" /\ r \in Between(m) /\ Closed(m) = RowClosedBy(x, l)
        /\ x.blockedBy # 0 => x.blockedBy \in Sent /\ message[x.blockedBy].debt
    BY <1>1, RowIsThere
  <1>3. /\ y \in Message /\ RowGood(y, k) /\ k \in Seq(Event)
        /\ RowClosedBy(x, l) = {} /\ RowClosedBy(y, k) = {r}
    <2> HIDE DEF x, l
    <2>1. /\ y \in Message /\ RowGood(y, k)
          /\ RowClosedBy(x, l) = {} /\ RowClosedBy(y, k) = {r}
      BY <1>1, <1>2, ResolvesRow
    <2>2. [what |-> "resolve", by |-> r] \in Event
      BY DEF Event, LoopEvents
    <2>3. k \in Seq(Event)
      BY <1>2, <2>2
    <2> QED
      BY <2>1, <2>3
  <1>4. y.debt = x.debt /\ y.from = x.from /\ y.to = x.to /\ y.blockedBy = x.blockedBy
    BY <1>2 DEF Message
  <1> HIDE DEF y, k
  <1>5. /\ IInv'
        /\ \A o \in Id : Stage(o)' = Stage(o) /\ Between(o)' = Between(o)
        /\ \A o \in Id \ {m} : Closed(o)' = Closed(o)
        /\ Closed(m)' = IF y.debt THEN RowClosedBy(y, k) ELSE {}
    BY <1>1, <1>2, <1>3, <1>4, RowChanges
  <1>6. r \in Between(m) \ Closed(m) /\ Closed(m)' = Closed(m) \cup {r}
    BY <1>1, <1>2, <1>3, <1>4, <1>5
  <1>7. Loop!Next
    BY <1>2, <1>5, <1>6, LoopCloses
  <1> QED
    BY <1>5, <1>7 DEF Mapped

LEMMA Reopens ==
  ASSUME IInv, NEW r \in Role, NEW m \in Id, ReopenMessage(r, m)
  PROVE  Mapped
  <1> DEFINE x == message[m]
             l == log[m]
             y == [x EXCEPT !.status = "open", !.resolvedBy = {}]
             k == Append(l, [what |-> "reopen", by |-> r])
  <1>1. /\ Live(m) /\ IsParty(m, r) /\ x.debt /\ x.status # "open"
        /\ message' = [message EXCEPT ![m] = y] /\ log' = [log EXCEPT ![m] = k]
        /\ deleted' = deleted
    BY DEF ReopenMessage, Logged
  <1>2. /\ m \in Sent /\ m \notin deleted /\ x \in Message /\ l \in Seq(Event) /\ RowGood(x, l)
        /\ Party(x, r) /\ Stage(m) = "raised" /\ Closed(m) = RowClosedBy(x, l)
        /\ x.blockedBy # 0 => x.blockedBy \in Sent /\ message[x.blockedBy].debt
    BY <1>1, RowIsThere
  <1>3. /\ y \in Message /\ RowGood(y, k) /\ k \in Seq(Event)
        /\ RowClosedBy(x, l) # {} /\ RowClosedBy(y, k) = {}
    <2> HIDE DEF x, l
    <2>1. /\ y \in Message /\ RowGood(y, k)
          /\ RowClosedBy(x, l) # {} /\ RowClosedBy(y, k) = {}
      BY <1>1, <1>2, ReopensRow
    <2>2. [what |-> "reopen", by |-> r] \in Event
      BY DEF Event, LoopEvents
    <2>3. k \in Seq(Event)
      BY <1>2, <2>2
    <2> QED
      BY <2>1, <2>3
  <1>4. y.debt = x.debt /\ y.from = x.from /\ y.to = x.to /\ y.blockedBy = x.blockedBy
    BY <1>2 DEF Message
  <1> HIDE DEF y, k
  <1>5. /\ IInv'
        /\ \A o \in Id : Stage(o)' = Stage(o) /\ Between(o)' = Between(o)
        /\ \A o \in Id \ {m} : Closed(o)' = Closed(o)
        /\ Closed(m)' = IF y.debt THEN RowClosedBy(y, k) ELSE {}
    <2>1. y.blockedBy # 0 => y.blockedBy \in Sent /\ message[y.blockedBy].debt
      BY <1>2, <1>4
    <2>2. /\ m \in Sent /\ m \notin deleted /\ y \in Message /\ k \in Seq(Event) /\ RowGood(y, k)
          /\ y.debt = message[m].debt /\ y.from = message[m].from /\ y.to = message[m].to
      BY <1>2, <1>3, <1>4
    <2> HIDE DEF x, l
    <2> QED
      BY <1>1, <2>1, <2>2, RowChanges
  <1>6. Closed(m) # {} /\ Closed(m)' = {}
    BY <1>1, <1>2, <1>3, <1>4, <1>5
  <1>7. Loop!Next
    BY <1>2, <1>5, <1>6, LoopDisputes
  <1> QED
    BY <1>5, <1>7 DEF Mapped

LEMMA Confirms ==
  ASSUME IInv, NEW r \in Role, NEW m \in Id, ConfirmResolution(r, m)
  PROVE  Mapped
  <1> DEFINE x == message[m]
             l == log[m]
             k == Append(l, [what |-> "resolution_confirmed", by |-> r])
  <1>1. /\ Live(m) /\ IsParty(m, r) /\ x.debt /\ x.status = "resolved" /\ r \notin x.resolvedBy
        /\ ~(LastOf(l, {"resolution_confirmed"}) > LastOf(l, {"resolve"}))
        /\ message' = message /\ log' = [log EXCEPT ![m] = k] /\ deleted' = deleted
    BY NewestIsLast DEF ConfirmResolution, MayConfirm, ResolutionConfirmed, Logged
  <1>2. /\ m \in Sent /\ m \notin deleted /\ x \in Message /\ l \in Seq(Event) /\ RowGood(x, l)
        /\ Party(x, r) /\ Stage(m) = "raised" /\ r \in Between(m) /\ Closed(m) = RowClosedBy(x, l)
        /\ x.blockedBy # 0 => x.blockedBy \in Sent /\ message[x.blockedBy].debt
    BY <1>1, RowIsThere
  <1>3. message' = [message EXCEPT ![m] = x]
    <2>1. message = [i \in DOMAIN message |-> message[i]]
      BY DEF IInv, ObligationsTypeOK
    <2> QED
      BY <1>1, <2>1
  <1> HIDE DEF x, l
  <1>4. IsResolved(x, l)
    <2>1. IsResolved(x, l) \/ IsConfirmed(x, l)
      BY <1>1, <1>2 DEF RowGood, DebtIsLogged, IsOpen
    <2> QED
      BY <1>1, <1>2, <2>1, ConfirmedOrNot
  <1>5. /\ RowGood(x, k) /\ k \in Seq(Event)
        /\ r \notin RowClosedBy(x, l) /\ RowClosedBy(x, k) = RowClosedBy(x, l) \cup {r}
    <2>1. [what |-> "resolution_confirmed", by |-> r] \in Event
      BY DEF Event, LoopEvents
    <2>2. k \in Seq(Event)
      BY <1>2, <2>1
    <2> QED
      BY <1>1, <1>2, <1>4, <2>2, ConfirmsRow
  <1> HIDE DEF k
  <1>6. /\ IInv'
        /\ \A o \in Id : Stage(o)' = Stage(o) /\ Between(o)' = Between(o)
        /\ \A o \in Id \ {m} : Closed(o)' = Closed(o)
        /\ Closed(m)' = IF x.debt THEN RowClosedBy(x, k) ELSE {}
    BY <1>1, <1>2, <1>3, <1>5, RowChanges DEF x
  <1>7. r \in Between(m) \ Closed(m) /\ Closed(m)' = Closed(m) \cup {r}
    BY <1>1, <1>2, <1>5, <1>6
  <1>8. Loop!Next
    BY <1>2, <1>6, <1>7, LoopCloses
  <1> QED
    BY <1>6, <1>8 DEF Mapped

LEMMA Works ==
  ASSUME IInv, NEW r \in Role, NEW m \in Id, NEW ws \in WORK_STATUSES, NEW b \in 0..MaxMsg,
         SetWorkStatus(r, m, ws, b)
  PROVE  Mapped
  <1> DEFINE x == message[m]
             l == log[m]
             y == [x EXCEPT !.workStatus = ws, !.blockedBy = b]
             k == Append(l, [what |-> ws, by |-> r])
  <1>1. /\ Live(m) /\ IsParty(m, r) /\ (b # 0 => b \in Sent /\ message[b].debt)
        /\ message' = [message EXCEPT ![m] = y] /\ log' = [log EXCEPT ![m] = k]
        /\ deleted' = deleted /\ (ws = "done" => MayDeclareDone(r, m))
    BY DEF SetWorkStatus, MayBlockOn, Live, Logged
  <1>2. /\ m \in Sent /\ m \notin deleted /\ x \in Message /\ l \in Seq(Event) /\ RowGood(x, l)
        /\ Party(x, r) /\ (x.debt => Closed(m) = RowClosedBy(x, l))
        /\ ~x.debt => Closed(m) = {}
    BY <1>1, RowIsThere
  <1>3. ws = "done" => x.workStatus = "done_local" /\ l[LastOf(l, WORK_STATUSES)].by # r
    <2> SUFFICES ASSUME ws = "done"
                 PROVE  x.workStatus = "done_local" /\ l[LastOf(l, WORK_STATUSES)].by # r
      OBVIOUS
    <2>1. x.workStatus = "done_local" /\ LastSetter(m, "done_local") # r
      BY <1>1 DEF MayDeclareDone
    <2>2. Newest(m, WORK_STATUSES) = LastOf(l, WORK_STATUSES)
      BY NewestIsLast
    <2>3. LastSetter(m, x.workStatus) = l[LastOf(l, WORK_STATUSES)].by
      BY <1>2, <2>1, <2>2, LastMover
    <2> QED
      BY <2>1, <2>3
  <1>4. /\ y \in Message /\ RowGood(y, k) /\ k \in Seq(Event)
        /\ RowClosedBy(y, k) = RowClosedBy(x, l)
    <2> HIDE DEF x, l
    <2>0. x \in Message /\ l \in Seq(Event) /\ RowGood(x, l) /\ Party(x, r)
      BY <1>2
    <2>1. y \in Message /\ RowGood(y, k) /\ RowClosedBy(y, k) = RowClosedBy(x, l)
      BY <1>3, <2>0, WorksRow
    <2>2. [what |-> ws, by |-> r] \in Event
      BY DEF Event
    <2>3. k \in Seq(Event)
      BY <1>2, <2>2
    <2> QED
      BY <2>1, <2>3
  <1>5. y.debt = x.debt /\ y.from = x.from /\ y.to = x.to /\ y.blockedBy = b
    BY <1>2 DEF Message
  <1> HIDE DEF y, k
  <1>6. /\ IInv'
        /\ \A o \in Id : Stage(o)' = Stage(o) /\ Between(o)' = Between(o)
        /\ \A o \in Id \ {m} : Closed(o)' = Closed(o)
        /\ Closed(m)' = IF y.debt THEN RowClosedBy(y, k) ELSE {}
    BY <1>1, <1>2, <1>4, <1>5, RowChanges
  <1>7. Closed(m)' = Closed(m)
    BY <1>2, <1>4, <1>5, <1>6
  <1>8. UNCHANGED Loop!vars
    BY <1>6, <1>7, LoopStays
  <1> QED
    BY <1>6, <1>8 DEF Mapped

LEMMA Deletes ==
  ASSUME IInv, NEW r \in Role, NEW m \in Id, DeleteMessage(r, m)
  PROVE  Mapped
  <1> DEFINE x == message[m]
             l == log[m]
  <1>1. /\ Live(m) /\ x.status # "open"
        /\ x.status = "resolved" =>
             LastOf(l, {"resolution_confirmed"}) > LastOf(l, {"resolve"})
        /\ message' = message /\ log' = log /\ deleted' = deleted \cup {m}
    BY NewestIsLast DEF DeleteMessage, MayDelete, ResolutionConfirmed
  <1>2. /\ m \in Sent /\ m \notin deleted /\ x \in Message /\ l \in Seq(Event) /\ RowGood(x, l)
        /\ x.debt => Stage(m) = "raised" /\ Closed(m) = RowClosedBy(x, l)
    BY <1>1, RowIsThere
  <1>3. x.debt => IsConfirmed(x, l)
    <2> HIDE DEF x, l
    <2> SUFFICES ASSUME x.debt PROVE IsConfirmed(x, l)
      OBVIOUS
    <2>1. IsResolved(x, l) \/ IsConfirmed(x, l)
      BY <1>1, <1>2 DEF RowGood, DebtIsLogged, IsOpen
    <2> QED
      BY <1>1, <1>2, <2>1, ConfirmedOrNot DEF IsResolved
  <1>4. IInv'
    BY <1>1, <1>2, <1>3 DEF IInv, ObligationsTypeOK, RowsAreGood, UnsentIsQuiet,
                            DeletedIsConfirmed, BlockersAreDebts, Sent
  <1>5. /\ \A o \in Id : Between(o)' = Between(o) /\ Closed(o)' = Closed(o)
        /\ \A o \in Id \ {m} : Stage(o)' = Stage(o)
    BY <1>1 DEF Between, Closed, Stage, IsDebt, Sent
  <1>6. CASE x.debt
    <2>1. Closed(m) = Between(m)
      BY <1>2, <1>3, <1>6, ConfirmedByBoth DEF Between, IsDebt
    <2>2. Stage(m)' = "forgotten"
      BY <1>1, <1>2, <1>6 DEF Stage, IsDebt, Sent
    <2>3. Loop!Next
      BY <1>2, <1>5, <1>6, <2>1, <2>2, LoopForgets
    <2> QED
      BY <1>4, <2>3 DEF Mapped
  <1>7. CASE ~x.debt
    <2>1. Stage(m)' = Stage(m)
      BY <1>1, <1>7 DEF Stage, IsDebt
    <2>2. UNCHANGED Loop!vars
      BY <1>5, <2>1, LoopStays
    <2> QED
      BY <1>4, <2>2 DEF Mapped
  <1> QED
    BY <1>6, <1>7

LEMMA Initially == Init => IInv /\ Loop!Init
  <1> SUFFICES ASSUME Init PROVE IInv /\ Loop!Init
    OBVIOUS
  <1>1. message = <<>> /\ deleted = {} /\ log = [m \in Id |-> <<>>] /\ Sent = {}
    BY DEF Init, Sent
  <1>2. IInv
    <2>1. <<>> \in Seq(Event) /\ <<>> \in Seq(Message) /\ Len(message) <= MaxMsg
      BY <1>1, BoundsAssumption
    <2> QED
      BY <1>1, <2>1 DEF IInv, ObligationsTypeOK, RowsAreGood, UnsentIsQuiet, DeletedIsConfirmed,
                        BlockersAreDebts
  <1>3. \A m : ~IsDebt(m)
    BY <1>1 DEF IsDebt
  <1> QED
    BY <1>2, <1>3 DEF Loop!Init

LEMMA Step == IInv /\ [Next]_vars => IInv' /\ [Loop!Next]_(Loop!vars)
  <1> SUFFICES ASSUME IInv, [Next]_vars PROVE Mapped
    BY DEF Mapped
  <1>1. CASE Send
    <2>1. PICK r \in Senders, to \in SUBSET Role, debt \in Shapes, ws \in SentStatuses :
              SendMessage(r, to, debt, ws)
      BY <1>1 DEF Send
    <2>2. r \in Role /\ debt \in BOOLEAN /\ ws \in WORK_STATUSES \cup {"null"}
      BY SendAssumption, StatusesAssumption
    <2> QED
      BY <2>1, <2>2, Sends
  <1>2. CASE Resolve
    BY <1>2, Resolves DEF Resolve
  <1>3. CASE Reopen
    BY <1>3, Reopens DEF Reopen
  <1>4. CASE Confirm
    BY <1>4, Confirms DEF Confirm
  <1>5. CASE Work
    <2>1. PICK r \in Role, m \in Id, ws \in Statuses, b \in 0..MaxMsg : SetWorkStatus(r, m, ws, b)
      BY <1>5 DEF Work
    <2>2. ws \in WORK_STATUSES
      BY StatusesAssumption
    <2> QED
      BY <2>1, <2>2, Works
  <1>6. CASE Delete
    BY <1>6, Deletes DEF Delete
  <1>7. CASE UNCHANGED vars
    <2>1. IInv'
      BY <1>7 DEF vars, IInv, ObligationsTypeOK, RowsAreGood, UnsentIsQuiet, DeletedIsConfirmed,
                  BlockersAreDebts, Sent
    <2>2. \A o \in Id : Stage(o)' = Stage(o) /\ Between(o)' = Between(o) /\ Closed(o)' = Closed(o)
      BY <1>7 DEF vars, Stage, Between, Closed, IsDebt, Sent
    <2> QED
      BY <2>1, <2>2, LoopStays DEF Mapped
  <1> QED
    BY <1>1, <1>2, <1>3, <1>4, <1>5, <1>6, <1>7 DEF Next

LEMMA Invariance == Spec => []IInv
  BY Initially, Step, PTL DEF Spec

-----------------------------------------------------------------------------
(* The theorems.                                                            *)

\* db/obligations.py and db/messages.py keep the columns of a message, its
\* log of events and deleted_at to the values that the schema allows.
THEOREM TypeCorrect == Spec => []ObligationsTypeOK
  <1>1. IInv => ObligationsTypeOK
    BY DEF IInv
  <1> QED
    BY <1>1, Invariance, PTL

\* The lists of db/summary.py that look for the newest event of the present status
\* only, and fall back on the sender, name the role of the newest transition; and
\* what two roles did not both declare done is not (set_work_status).
THEOREM TasksAreTheirLastMovers == Spec => []TaskIsItsLastMovers
  <1>1. IInv => TaskIsItsLastMovers
    BY LastMover, SentRow DEF TaskIsItsLastMovers, TaskOfLastMover, RowGood
  <1> QED
    BY <1>1, Invariance, PTL

\* When set_work_status takes a call for a retry, the query of untaken debts in
\* db/summary.py counts that debt as taken by the caller.
THEOREM RetriesAreTaken == Spec => []RetryMeansTaken
  <1>1. IInv => RetryMeansTaken
    <2> SUFFICES ASSUME IInv, NEW r \in Role, NEW m \in Owed(r), message[m].workStatus # "null",
                        AlreadySet(r, m, message[m].workStatus, message[m].blockedBy)
                 PROVE  Taken(m, r)
      BY DEF RetryMeansTaken
    <2> DEFINE l == log[m]
               w == Newest(m, WORK_STATUSES)
               o == Newest(m, {"reopen"})
    <2>1. m \in Sent /\ l \in Seq(Event)
      BY SentRow DEF Owed
    <2>2. /\ w \in 1..Len(l) /\ l[w].what = message[m].workStatus
          /\ Newest(m, {message[m].workStatus}) = w
          /\ LastSetter(m, message[m].workStatus) = l[w].by
      BY <2>1, LastMover
    <2>3. l[w].by = r /\ w >= o
      BY <2>2 DEF AlreadySet
    <2>4. o \in 0..Len(l) /\ (o # 0 => l[o].what = "reopen")
      BY <2>1, LastIs, NewestIsLast
    <2>5. message[m].workStatus # "reopen"
      <3>1. message[m].workStatus \in WORK_STATUSES
        BY <2>1, SentRow DEF Message
      <3> QED
        BY <3>1, KindsOfEvents
    <2> HIDE DEF w, o
    <2>6. w > o
      BY <2>1, <2>2, <2>3, <2>4, <2>5
    <2>7. w \in DOMAIN l
      BY <2>1, <2>2
    <2> QED
      BY <2>3, <2>6, <2>7 DEF Taken, w, o
  <1> QED
    BY <1>1, Invariance, PTL

\* The blocker of a task, which set_work_status checks once and nothing checks
\* again, is owed by somebody or gone, and then the task is ready.
THEOREM LiveBlockersAreOwed == Spec => []LiveBlockerIsOwed
  <1>1. IInv => LiveBlockerIsOwed
    <2> SUFFICES ASSUME IInv, NEW m \in Sent, message[m].blockedBy # 0
                 PROVE  IF BlockerAlive(m)
                        THEN \E r \in Role : message[m].blockedBy \in Owed(r)
                        ELSE /\ message[message[m].blockedBy].status = "resolved"
                             /\ \A r \in Role : m \in Owed(r) => m \in ReadyWork(r)
      BY DEF LiveBlockerIsOwed
    <2>1. PICK b : b = message[m].blockedBy
      OBVIOUS
    <2>2. b \in Sent /\ b # 0 /\ message[b].debt /\ RowGood(message[b], log[b])
      BY <2>1 DEF IInv, BlockersAreDebts, RowsAreGood
    <2>3. PICK p \in Role : message[b].to = {p}
      BY <2>2 DEF RowGood, DebtIsLogged
    <2>4. message[b].status \in {"open", "resolved"}
      BY <2>2 DEF RowGood, DebtIsLogged, IsOpen, IsResolved, IsConfirmed
    <2>5. CASE BlockerAlive(m)
      <3>1. b \notin deleted /\ message[b].status # "resolved"
        BY <2>1, <2>5 DEF BlockerAlive
      <3>2. b \in Owed(p)
        BY <2>2, <2>3, <2>4, <3>1 DEF Owed, Live
      <3> QED
        BY <2>1, <2>5, <3>2
    <2>6. CASE ~BlockerAlive(m)
      <3>1. b \in deleted \/ message[b].status = "resolved"
        BY <2>1, <2>2, <2>6 DEF BlockerAlive
      <3>2. b \in deleted => message[b].status = "resolved"
        BY <2>2 DEF IInv, DeletedIsConfirmed, IsConfirmed
      <3>3. ~HeldUp(m)
        BY <2>6 DEF HeldUp
      <3>4. \A r \in Role : m \in Owed(r) => m \in ReadyWork(r)
        BY <3>3 DEF ReadyWork
      <3> QED
        BY <2>1, <2>6, <3>1, <3>2, <3>4
    <2> QED
      BY <2>5, <2>6
  <1> QED
    BY <1>1, Invariance, PTL

\* An open debt is on a list of one of its parties, whoever moved it last.
LEMMA OpenIsListed ==
  ASSUME IInv, NEW m \in Sent, Live(m), message[m].debt, message[m].status = "open"
  PROVE  \E r \in Role :
           \/ m \in Untaken(r) \cup NeedsYou(r) \cup AwaitingDone(r)
           \/ m \in Owed(r) /\ m \in InProgress(r) \cup Blocked(r) \cup Unblocked(r)
           \/ m \in Owed(r) /\ message[m].workStatus \in {"proposed", "done"}
  <1> DEFINE x == message[m]
             l == log[m]
             w == Newest(m, WORK_STATUSES)
  <1>1. x \in Message /\ l \in Seq(Event) /\ RowGood(x, l)
    BY SentRow
  <1>2. PICK p \in Role : x.to = {p}
    BY <1>1 DEF RowGood, DebtIsLogged
  <1>3. m \in Owed(p) /\ IsParty(m, p)
    BY <1>2 DEF Owed, IsParty
  <1>4. x.from \in Role /\ x.from # p /\ IsParty(m, x.from)
    BY <1>1, <1>2 DEF Message, RowGood, PartiesAct, IsParty
  <1>5. CASE x.workStatus = "null"
    <2>1. w = 0
      BY <1>1, <1>5, NewestIsLast DEF RowGood, WorkIsLogged
    <2>2. ~Taken(m, p)
      BY <1>1, <2>1 DEF Taken
    <2> QED
      BY <1>3, <2>2 DEF Untaken
  <1>6. CASE x.workStatus # "null"
    <2>1. PICK q : q = l[w].by
      OBVIOUS
    <2>2. LastSetter(m, x.workStatus) = q
      BY <1>6, <2>1, LastMover
    <2>3. CASE q # p
      <3>1. ~Taken(m, p)
        BY <2>1, <2>3 DEF Taken
      <3> QED
        BY <1>3, <3>1 DEF Untaken
    <2>4. CASE q = p
      <3>1. x.workStatus \in WORK_STATUSES
        BY <1>1, <1>6 DEF Message
      <3>2. CASE x.workStatus \in {"proposed", "done"}
        BY <1>3, <3>2
      <3>3. CASE x.workStatus = "in_progress"
        BY <1>3, <2>2, <2>4, <3>3 DEF InProgress, InState
      <3>4. CASE x.workStatus = "blocked"
        BY <1>3, <2>2, <2>4, <3>4 DEF Blocked, Unblocked, InState
      <3>5. CASE x.workStatus = "needs_you"
        BY <1>4, <2>2, <2>4, <3>5 DEF NeedsYou, InState
      <3>6. CASE x.workStatus = "done_local"
        BY <1>4, <2>2, <2>4, <3>6 DEF AwaitingDone, InState
      <3> QED
        BY <3>1, <3>2, <3>3, <3>4, <3>5, <3>6 DEF WORK_STATUSES
    <2> QED
      BY <2>3, <2>4
  <1> QED
    BY <1>5, <1>6

\* A resolved debt is confirmed, or on the list of the party that did not resolve it.
LEMMA ResolvedIsListed ==
  ASSUME IInv, NEW m \in Sent, Live(m), message[m].debt, message[m].status # "open"
  PROVE  \/ Verified(m)
         \/ \E r \in Role : /\ IsParty(m, r) /\ message[m].resolvedBy # {r}
                            /\ m \in ResolvedForYou(r)
  <1> DEFINE x == message[m]
             l == log[m]
  <1>1. x \in Message /\ l \in Seq(Event) /\ RowGood(x, l)
    BY SentRow
  <1>2. PICK p \in Role : x.to = {p}
    BY <1>1 DEF RowGood, DebtIsLogged
  <1>3. x.from \in Role /\ x.from # p
    BY <1>1, <1>2 DEF Message, RowGood, PartiesAct
  <1>4. CASE IsConfirmed(x, l)
    BY <1>4, NewestIsLast DEF IsConfirmed, Verified
  <1>5. CASE IsResolved(x, l)
    <2>1. ~IsConfirmed(x, l)
      BY <1>5 DEF IsResolved, IsConfirmed
    <2>2. ~ResolutionConfirmed(m)
      BY <1>1, <1>5, <2>1, ConfirmedOrNot, NewestIsLast DEF ResolutionConfirmed
    <2>3. PICK q : x.resolvedBy = {q} /\ x.status = "resolved"
      BY <1>5 DEF IsResolved
    <2>4. PICK o \in Role : IsParty(m, o) /\ o # q
      BY <1>2, <1>3 DEF IsParty
    <2>5. m \in ResolvedForYou(o)
      BY <2>2, <2>3, <2>4 DEF ResolvedForYou, InState
    <2> QED
      BY <2>3, <2>4, <2>5
  <1> QED
    BY <1>1, <1>4, <1>5 DEF RowGood, DebtIsLogged, IsOpen

\* No debt drops off every list that channel_status makes (db/summary.py),
\* but the one that its addressee marked proposed or done.
THEOREM DebtsAreListed == Spec => []DebtIsListed
  <1>1. IInv => DebtIsListed
    BY OpenIsListed, ResolvedIsListed DEF DebtIsListed
  <1> QED
    BY <1>1, Invariance, PTL

\* The tools of db/obligations.py and delete_message take a debt through the
\* loop of DebtLoop: it takes both parties to close it, and to delete it.
THEOREM DebtsGoThroughTheLoop == Spec => DebtsNeedBothParties
  <1>1. Init => Loop!Init
    BY Initially
  <1>2. IInv /\ [Next]_vars => [Loop!Next]_(Loop!vars)
    BY Step
  <1> QED
    BY <1>1, <1>2, Invariance, PTL DEF Spec, DebtsNeedBothParties, Loop!Spec

-----------------------------------------------------------------------------
(* Looking while others work.                                               *)

\* Pairs of a list and an item of it.
Entries == List \X Id
Marked(S) == {entry \in Entries : entry[2] \in S[entry[1]]}

Parts == {"none", "entry", "poll"}

TriageTypeOK ==
  /\ call \in Parts /\ pos \in 0..Len(Queries)
  /\ seen \in [List -> SUBSET Id] /\ known \in [List -> SUBSET Id]
  /\ ignoring \in BOOLEAN
  /\ always \subseteq Entries /\ staying \subseteq Entries
  /\ absent \subseteq Entries /\ missed \subseteq Entries

\* The lists that this part has read by now.
ReadLists == {Queries[i] : i \in 1..pos}

\* While the part reads, the histories are about now.
HistoriesAreCurrent ==
  /\ call # "none" => always \subseteq Listed
  /\ 0 < pos /\ pos < Len(Queries) => staying \subseteq Listed /\ absent \cap Listed = {}

\* What a SELECT of this part returned has all that stays, and nothing that is absent.
SelectsAreSound ==
  call # "none" =>
    \A list \in ReadLists, m \in Id :
      /\ <<list, m>> \in always  => m \in seen[list]
      /\ <<list, m>> \in staying => m \in seen[list]
      /\ <<list, m>> \in absent  => m \notin seen[list]

NothingBefore == pos = 0 => staying = {} /\ absent = {}

\* What does not wake was there in the part before; the whole backlog is known.
KnownIsOld ==
  /\ Marked(known) \cap missed = {}
  /\ call = "poll" /\ ignoring => always \subseteq Marked(known)

WInv == TriageTypeOK /\ HistoriesAreCurrent /\ SelectsAreSound /\ NothingBefore /\ KnownIsOld

-----------------------------------------------------------------------------
(* The lists.                                                               *)

LEMMA QueriesAreLists ==
  /\ Len(Queries) = 8
  /\ \A i \in 1..8 : Queries[i] \in List
  /\ List = {Queries[i] : i \in 1..8}
  <1>1. Summary = <<"unread", "untaken", "unblocked", "needs_you", "awaiting_done",
                    "resolved_for_you">>
    BY DEF Summary
  <1>2. List = {"unread", "untaken", "unblocked", "needs_you", "awaiting_done",
                "resolved_for_you"}
    BY <1>1 DEF List
  <1>3. Summary \in Seq(List) /\ Len(Summary) = 6
    <2>1. Len(Summary) = 6 /\ DOMAIN Summary = 1..6
      BY <1>1
    <2>2. \A i \in 1..6 : Summary[i] \in List
      BY <2>1 DEF List
    <2>3. Summary = [i \in 1..6 |-> Summary[i]]
      BY <1>1
    <2> QED
      BY <2>1, <2>2, <2>3
  <1>4. /\ Len(Queries) = 8
        /\ \A i \in 1..8 : Queries[i] = IF i <= 6 THEN Summary[i] ELSE <<"unread", "untaken">>[i - 6]
    <2> DEFINE again == <<"unread", "untaken">>
    <2>1. "unread" \in List /\ "untaken" \in List
      BY <1>2
    <2>2. again \in Seq(List) /\ Len(again) = 2
      BY <2>1
    <2>3. Queries = Summary \o again
      BY DEF Queries
    <2> HIDE DEF again
    <2>4. /\ Len(Queries) = 8
          /\ \A i \in 1..8 : Queries[i] = IF i <= 6 THEN Summary[i] ELSE again[i - 6]
      <3>1. /\ Len(Queries) = Len(Summary) + Len(again)
            /\ \A i \in 1..Len(Summary) + Len(again) :
                  Queries[i] = IF i <= Len(Summary) THEN Summary[i] ELSE again[i - Len(Summary)]
        BY <1>3, <2>2, <2>3, ConcatProperties
      <3> QED
        BY <1>3, <2>2, <3>1
    <2> QED
      BY <2>4 DEF again
  <1>5. /\ Queries[1] = "unread" /\ Queries[2] = "untaken" /\ Queries[3] = "unblocked"
        /\ Queries[4] = "needs_you" /\ Queries[5] = "awaiting_done"
        /\ Queries[6] = "resolved_for_you"
    BY <1>1, <1>4
  <1>6. Queries[7] = "unread" /\ Queries[8] = "untaken"
    BY <1>4
  <1>7. 1..8 = {1, 2, 3, 4, 5, 6, 7, 8}
    OBVIOUS
  <1> QED
    BY <1>2, <1>4, <1>5, <1>6, <1>7

LEMMA ListsAreOfMessages ==
  ASSUME IInv, NEW list \in List
  PROVE  On(list) \subseteq Id
  <1>1. Sent \subseteq Id
    <2>1. message \in Seq(Message) /\ Len(message) <= MaxMsg /\ MaxMsg \in Nat
      BY BoundsAssumption DEF IInv, ObligationsTypeOK
    <2>2. DOMAIN message = 1..Len(message) /\ Len(message) \in Nat
      BY <2>1
    <2> QED
      BY <2>1, <2>2 DEF Sent, Id
  <1>2. On(list) \subseteq Sent
    BY DEF On, List, Summary, Unread, Untaken, Owed, Unblocked, NeedsYou, AwaitingDone,
           ResolvedForYou, InState
  <1> QED
    BY <1>1, <1>2

LEMMA ListedStays ==
  ASSUME UNCHANGED <<vars, read>>
  PROVE  Listed' = Listed /\ \A list \in List : On(list)' = On(list)
  BY DEF vars, Listed, On, List, Summary, Unread, Untaken, Owed, Unblocked, NeedsYou,
         AwaitingDone, ResolvedForYou, InState, Live, IsParty, Taken, Newest, LastSetter,
         HeldUp, BlockerAlive, ResolutionConfirmed, Sent

LEMMA NothingIsMarked == Nothing \in [List -> SUBSET Id] /\ Marked(Nothing) = {}
  <1>1. Nothing \in [List -> SUBSET Id] /\ \A list \in List : Nothing[list] = {}
    BY DEF Nothing
  <1>2. \A entry \in Entries : entry[1] \in List
    BY DEF Entries
  <1> QED
    BY <1>1, <1>2 DEF Marked

\* The mailbox moves only by the steps of Obligations.
LEMMA MailboxSteps == [TriageNext]_allVars => [Next]_vars
  BY DEF TriageNext, allVars, OthersAct, MarkRead, WaitForMail, Select, EntryTaken, PollAgain,
         WaitReturns, Return

-----------------------------------------------------------------------------
(* The steps.                                                               *)

LEMMA LooksInitially == TriageInit => WInv
  <1> SUFFICES ASSUME TriageInit PROVE WInv
    OBVIOUS
  <1>1. /\ call = "none" /\ pos = 0 /\ ignoring = TRUE /\ seen = Nothing /\ known = Nothing
        /\ always = {} /\ staying = {} /\ absent = {} /\ missed = {}
    BY DEF TriageInit
  <1>2. TriageTypeOK
    BY <1>1, QueriesAreLists, NothingIsMarked DEF TriageTypeOK, Parts
  <1> QED
    BY <1>1, <1>2, QueriesAreLists, NothingIsMarked
       DEF WInv, HistoriesAreCurrent, SelectsAreSound, NothingBefore, KnownIsOld

\* What others do only takes from the histories what is no longer so.
LEMMA OthersActLooks == ASSUME WInv, OthersAct PROVE WInv'
  <1>1. /\ UNCHANGED <<call, pos, seen, known, ignoring, polls, missed>>
        /\ always' = always \cap Listed'
        /\ staying' \subseteq staying /\ absent' \subseteq absent
        /\ 0 < pos /\ pos < Len(Queries) =>
              staying' = staying \cap Listed' /\ absent' = absent \ Listed'
    BY DEF OthersAct
  <1>2. TriageTypeOK'
    BY <1>1 DEF WInv, TriageTypeOK
  <1>3. HistoriesAreCurrent'
    <2>1. always' \subseteq Listed'
      BY <1>1
    <2>2. 0 < pos /\ pos < Len(Queries) => staying' \subseteq Listed' /\ absent' \cap Listed' = {}
      BY <1>1
    <2> QED
      BY <1>1, <2>1, <2>2 DEF HistoriesAreCurrent
  <1>4. SelectsAreSound'
    BY <1>1 DEF WInv, SelectsAreSound, ReadLists
  <1>5. NothingBefore' /\ KnownIsOld'
    BY <1>1 DEF WInv, NothingBefore, KnownIsOld, Marked
  <1> QED
    BY <1>2, <1>3, <1>4, <1>5 DEF WInv

LEMMA WaitBegins == ASSUME WInv, NEW b \in BOOLEAN, WaitForMail(b) PROVE WInv'
  <1>1. /\ call = "none" /\ call' = "entry" /\ pos' = 0 /\ ignoring' = b
        /\ seen' = Nothing /\ staying' = {} /\ absent' = {} /\ always' = Listed
        /\ UNCHANGED <<known, missed>> /\ UNCHANGED <<vars, read>>
    BY DEF WaitForMail, BeginPart
  <1>2. Listed' = Listed /\ Listed \subseteq Entries
    <2>1. Listed' = Listed
      BY <1>1, ListedStays
    <2> QED
      BY <2>1 DEF Listed, Entries
  <1>3. TriageTypeOK'
    BY <1>1, <1>2, NothingIsMarked DEF WInv, TriageTypeOK, Parts
  <1> QED
    BY <1>1, <1>2, <1>3
       DEF WInv, HistoriesAreCurrent, SelectsAreSound, ReadLists, NothingBefore, KnownIsOld, Marked

\* A SELECT returns what is on its list now.
LEMMA Selects == ASSUME WInv, IInv, Select PROVE WInv'
  <1> DEFINE list == Queries[pos + 1]
  <1>1. /\ call # "none" /\ pos < Len(Queries) /\ pos' = pos + 1
        /\ seen' = [seen EXCEPT ![list] = On(list)]
        /\ IF pos = 0 THEN staying' = Listed /\ absent' = Entries \ Listed
                      ELSE UNCHANGED <<staying, absent>>
        /\ UNCHANGED <<call, known, ignoring, always, missed>> /\ UNCHANGED <<vars, read>>
    BY DEF Select, Entries
  <1>2. /\ pos \in 0..7 /\ pos' \in 1..8 /\ Len(Queries) = 8
        /\ seen \in [List -> SUBSET Id] /\ call \in Parts
    BY <1>1, QueriesAreLists DEF WInv, TriageTypeOK
  <1>3. list \in List /\ On(list) \subseteq Id
    BY <1>2, QueriesAreLists, ListsAreOfMessages
  <1>4. Listed' = Listed /\ Listed \subseteq Entries
    <2>1. Listed' = Listed
      BY <1>1, ListedStays
    <2> QED
      BY <2>1 DEF Listed, Entries
  <1>5. \A l \in List, m \in Id : <<l, m>> \in Listed <=> m \in On(l)
    BY DEF Listed
  <1>6. ReadLists' = ReadLists \cup {list}
    BY <1>1, <1>2 DEF ReadLists
  <1>7. ReadLists \subseteq List
    BY <1>2, QueriesAreLists DEF ReadLists
  <1> HIDE DEF list
  <1>8. /\ seen' \in [List -> SUBSET Id] /\ seen'[list] = On(list)
        /\ \A l \in List : l # list => seen'[l] = seen[l]
    BY <1>1, <1>2, <1>3
  <1>9. TriageTypeOK'
    BY <1>1, <1>2, <1>4, <1>8 DEF WInv, TriageTypeOK
  <1>10. always \subseteq Listed /\ staying' \subseteq Listed /\ absent' \cap Listed = {}
    <2>1. CASE pos = 0
      BY <1>1, <2>1 DEF WInv, HistoriesAreCurrent
    <2>2. CASE pos # 0
      <3>1. 0 < pos /\ pos < Len(Queries)
        BY <1>2, <2>2
      <3> QED
        BY <1>1, <2>2, <3>1 DEF WInv, HistoriesAreCurrent
    <2> QED
      BY <2>1, <2>2
  <1>11. HistoriesAreCurrent'
    BY <1>1, <1>4, <1>10 DEF HistoriesAreCurrent
  <1>12. SelectsAreSound'
    <2> SUFFICES ASSUME NEW l \in ReadLists \cup {list}, NEW m \in Id
                 PROVE  /\ <<l, m>> \in always  => m \in seen'[l]
                        /\ <<l, m>> \in staying' => m \in seen'[l]
                        /\ <<l, m>> \in absent'  => m \notin seen'[l]
      BY <1>1, <1>6 DEF SelectsAreSound
    <2>1. CASE l = list
      BY <1>3, <1>5, <1>8, <1>10, <2>1
    <2>2. CASE l # list
      <3>1. l \in ReadLists /\ seen'[l] = seen[l]
        BY <1>7, <1>8, <2>2
      <3>2. pos # 0
        BY <1>2, <3>1 DEF ReadLists
      <3>3. staying' = staying /\ absent' = absent
        BY <1>1, <3>2
      <3> QED
        BY <1>1, <3>1, <3>3 DEF WInv, SelectsAreSound
    <2> QED
      BY <2>1, <2>2
  <1>13. NothingBefore' /\ KnownIsOld'
    BY <1>1, <1>2 DEF WInv, NothingBefore, KnownIsOld, Marked
  <1> QED
    BY <1>9, <1>11, <1>12, <1>13 DEF WInv

\* After a part every list has been read.
LEMMA AllListsAreRead ==
  ASSUME WInv, AllRead
  PROVE  \A list \in List, m \in Id :
           /\ <<list, m>> \in always  => m \in seen[list]
           /\ <<list, m>> \in staying => m \in seen[list]
           /\ <<list, m>> \in absent  => m \notin seen[list]
  <1>1. ReadLists = List
    BY QueriesAreLists DEF AllRead, ReadLists
  <1> QED
    BY <1>1 DEF WInv, SelectsAreSound, AllRead

\* At the entry the backlog becomes known.
LEMMA EntryIsTaken == ASSUME WInv, EntryTaken PROVE WInv'
  <1>1. /\ call = "entry" /\ AllRead /\ call' = "poll" /\ pos' = 0
        /\ staying' = {} /\ absent' = {}
        /\ known' = AtEntry
        /\ missed' = IF ignoring THEN absent ELSE List \X Id
        /\ UNCHANGED <<seen, ignoring, always>> /\ UNCHANGED <<vars, read>>
    BY DEF EntryTaken, BeginPart
  <1>2. TriageTypeOK /\ Len(Queries) = 8 /\ always \subseteq Listed
    BY <1>1, QueriesAreLists DEF WInv, HistoriesAreCurrent
  <1>3. Listed' = Listed
    BY <1>1, ListedStays
  <1>4. CASE ignoring
    <2>1. known' = seen /\ missed' = absent
      BY <1>1, <1>4 DEF AtEntry
    <2>2. Marked(seen) \cap absent = {} /\ always \subseteq Marked(seen)
      BY <1>1, <1>2, AllListsAreRead DEF TriageTypeOK, Marked, Entries
    <2>3. TriageTypeOK'
      BY <1>1, <1>2, <2>1 DEF TriageTypeOK, Parts
    <2>4. KnownIsOld'
      BY <1>1, <2>1, <2>2 DEF KnownIsOld, Marked
    <2> QED
      BY <1>1, <1>2, <1>3, <2>3, <2>4
         DEF WInv, HistoriesAreCurrent, SelectsAreSound, ReadLists, NothingBefore
  <1>5. CASE ~ignoring
    <2>1. known' = Nothing /\ missed' = Entries
      BY <1>1, <1>5 DEF AtEntry, Entries
    <2>2. TriageTypeOK'
      BY <1>1, <1>2, <2>1, NothingIsMarked DEF TriageTypeOK, Parts
    <2>3. KnownIsOld'
      BY <1>1, <1>5, <2>1, NothingIsMarked DEF KnownIsOld, Marked
    <2> QED
      BY <1>1, <1>2, <1>3, <2>2, <2>3
         DEF WInv, HistoriesAreCurrent, SelectsAreSound, ReadLists, NothingBefore
  <1> QED
    BY <1>4, <1>5

\* What this poll did not return is known no longer.
LEMMA PollsAgain == ASSUME WInv, PollAgain PROVE WInv'
  <1>1. /\ call = "poll" /\ AllRead /\ call' = "poll" /\ pos' = 0
        /\ staying' = {} /\ absent' = {}
        /\ known' = StillKnown /\ missed' = absent
        /\ UNCHANGED <<seen, ignoring, always>> /\ UNCHANGED <<vars, read>>
    BY DEF PollAgain, BeginPart
  <1>2. TriageTypeOK /\ Len(Queries) = 8 /\ always \subseteq Listed
    BY <1>1, QueriesAreLists DEF WInv, HistoriesAreCurrent
  <1>3. Listed' = Listed
    BY <1>1, ListedStays
  <1>4. StillKnown \in [List -> SUBSET Id]
        /\ \A list \in List : StillKnown[list] = known[list] \cap seen[list]
    BY <1>2 DEF StillKnown, TriageTypeOK
  <1>5. Marked(StillKnown) \cap absent = {}
        /\ (ignoring => always \subseteq Marked(StillKnown))
    <2>1. ignoring => always \subseteq Marked(known)
      BY <1>1 DEF WInv, KnownIsOld
    <2> QED
      BY <1>1, <1>2, <1>4, <2>1, AllListsAreRead DEF TriageTypeOK, Marked, Entries
  <1>6. TriageTypeOK'
    BY <1>1, <1>2, <1>4 DEF TriageTypeOK, Parts
  <1>7. KnownIsOld'
    BY <1>1, <1>5 DEF KnownIsOld, Marked
  <1> QED
    BY <1>1, <1>2, <1>3, <1>6, <1>7
       DEF WInv, HistoriesAreCurrent, SelectsAreSound, ReadLists, NothingBefore

LEMMA WaitEnds == ASSUME WInv, Return PROVE WInv'
  <1>1. /\ call' = "none" /\ pos' = 0 /\ ignoring' = TRUE /\ seen' = Nothing /\ known' = Nothing
        /\ always' = {} /\ staying' = {} /\ absent' = {} /\ missed' = {}
    BY DEF Return
  <1>2. TriageTypeOK'
    BY <1>1, QueriesAreLists, NothingIsMarked DEF TriageTypeOK, Parts
  <1> QED
    BY <1>1, <1>2, QueriesAreLists, NothingIsMarked
       DEF WInv, HistoriesAreCurrent, SelectsAreSound, NothingBefore, KnownIsOld, Marked

LEMMA LooksStutter == ASSUME WInv, UNCHANGED allVars PROVE WInv'
  <1>1. UNCHANGED <<vars, read>> /\ UNCHANGED lookVars
    BY DEF allVars
  <1>2. Listed' = Listed
    BY <1>1, ListedStays
  <1> QED
    BY <1>1, <1>2 DEF lookVars, WInv, TriageTypeOK, HistoriesAreCurrent, SelectsAreSound, ReadLists,
                      NothingBefore, KnownIsOld, Marked

-----------------------------------------------------------------------------
(* Theorems.                                                                *)

\* To look changes no message, status or event: while roles look, read and wait, the mailbox
\* is that of Obligations, and whatever holds of every behaviour of it goes on holding
\* (wait_for_mail, channel_status).
THEOREM LookingIsHarmless == TriageSpec => Spec
  <1>1. TriageInit => Init
    BY DEF TriageInit
  <1> QED
    BY <1>1, MailboxSteps, PTL DEF TriageSpec, Spec

LEMMA LooksInvariance == TriageSpec => []WInv
  <1>1. WInv /\ IInv /\ [TriageNext]_allVars => WInv'
    <2> SUFFICES ASSUME WInv, IInv, [TriageNext]_allVars PROVE WInv'
      OBVIOUS
    <2>1. CASE OthersAct
      BY <2>1, OthersActLooks
    <2>2. ASSUME NEW b \in BOOLEAN, WaitForMail(b) PROVE WInv'
      BY <2>2, WaitBegins
    <2>3. CASE Select
      BY <2>3, Selects
    <2>4. CASE EntryTaken
      BY <2>4, EntryIsTaken
    <2>5. CASE PollAgain
      BY <2>5, PollsAgain
    <2>6. CASE WaitReturns
      BY <2>6, WaitEnds DEF WaitReturns
    <2>7. CASE UNCHANGED allVars
      BY <2>7, LooksStutter
    <2> QED
      BY <2>1, <2>2, <2>3, <2>4, <2>5, <2>6, <2>7 DEF TriageNext
  <1>2. TriageSpec => []IInv
    BY LookingIsHarmless, Invariance, PTL
  <1> QED
    BY <1>1, <1>2, LooksInitially, PTL DEF TriageSpec

\* The call in progress and what it has read have their types in every reachable state.
THEOREM LooksAreTyped == TriageSpec => []TriageTypeOK
  <1>1. WInv => TriageTypeOK
    BY DEF WInv
  <1> QED
    BY <1>1, LooksInvariance, PTL

\* wait_for_mail wakes for whatever was off a list throughout one look and is on it
\* throughout the next, whatever the roles do between its SELECTs and however often it polls.
THEOREM NewsIsHeard == TriageSpec => []NewsWakes
  <1>1. WInv => NewsWakes
    <2> SUFFICES ASSUME WInv, AllRead, Pending = {},
                        NEW entry \in missed, entry \in staying
                 PROVE  FALSE
      BY DEF NewsWakes
    <2>1. PICK list \in List, m \in Id : entry = <<list, m>>
      BY DEF WInv, TriageTypeOK, Entries
    <2>2. m \in seen[list]
      BY <2>1, AllListsAreRead
    <2>3. m \in known[list]
      BY <2>2 DEF Pending
    <2>4. entry \in Marked(known)
      BY <2>1, <2>3 DEF Marked, Entries
    <2> QED
      BY <2>4 DEF WInv, KnownIsOld
  <1> QED
    BY <1>1, LooksInvariance, PTL

\* With ignore_backlog a list that wakes has an item that was off it at some moment of the
\* call, whatever the roles do between its SELECTs.
THEOREM BacklogIsIgnored == TriageSpec => []BacklogDoesNotWake
  <1>1. WInv => BacklogDoesNotWake
    <2> SUFFICES ASSUME WInv, call = "poll", ignoring, NEW list \in Pending
                 PROVE  \E m \in seen[list] : <<list, m>> \notin always
      BY DEF BacklogDoesNotWake
    <2>1. list \in List
      BY DEF Pending
    <2>2. PICK m \in seen[list] : m \notin known[list]
      BY DEF Pending
    <2>3. <<list, m>> \notin Marked(known)
      BY <2>2 DEF Marked
    <2>4. always \subseteq Marked(known)
      BY DEF WInv, KnownIsOld
    <2> QED
      BY <2>2, <2>3, <2>4
  <1> QED
    BY <1>1, LooksInvariance, PTL

=============================================================================
