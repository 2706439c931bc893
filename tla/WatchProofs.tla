------------------------------ MODULE WatchProofs ------------------------------
(***************************************************************************)
(* Proofs about modules LongPoll and Watch, for any requests, tokens,       *)
(* watchers and limits: the counters of the server count what is held among *)
(* any clients; the watchers are such clients; and what a watcher takes for *)
(* known is what its session was told.                                      *)
(***************************************************************************)
EXTENDS Watch, FiniteSetTheorems, TLAPS

Phases == {"free"} \cup Holding \cup Answered
Place  == [phase : Phases, token : Token, gone : BOOLEAN, saw : Counts, left : 0..Window]

\* A request is asked again only before its deadline.
WaitingHasTime == \A q \in Request : req[q].phase = "waiting" => req[q].left > 0

PollInv == PollTypeOK /\ WaitingHasTime /\ SlotsAreHeldRequests

-----------------------------------------------------------------------------
(* Counting.                                                                *)

\* The held requests are finitely many.
LEMMA HeldIsFinite ==
    ASSUME NEW H, H \subseteq Request
    PROVE  IsFiniteSet(H) /\ Cardinality(H) \in Nat
  BY LongPollAssumption, FS_Subset, FS_CardinalityType

\* A step of one request that keeps its slot, or its having none, leaves the counters right.
LEMMA KeepsTheCount ==
    ASSUME SlotsAreHeldRequests, NEW q \in Request, Keep,
           \A p \in Request : req'[p] = req[p]
              \/ /\ req'[p].phase \in Holding <=> req[p].phase \in Holding
                 /\ req'[p].token = req[p].token \/ req[p].phase \notin Holding
    PROVE  SlotsAreHeldRequests'
  <1>1. Held' = Held
    BY DEF Held
  <1>2. \A t : HeldBy(t)' = HeldBy(t)
    BY DEF Held, HeldBy
  <1> QED
    BY <1>1, <1>2 DEF SlotsAreHeldRequests, Keep

\* A request that comes to be held, under the token that it brings, is counted once.
LEMMA TakesASlot ==
    ASSUME PollTypeOK, SlotsAreHeldRequests, NEW q \in Request, NEW t \in Token,
           q \notin Held, req'[q].phase \in Holding, req'[q].token = t,
           \A p \in Request \ {q} : req'[p] = req[p],
           waiters < MaxWaiters, byToken[t] < MaxPerToken,
           waiters' = waiters + 1, byToken' = [byToken EXCEPT ![t] = @ + 1]
    PROVE  SlotsAreHeldRequests'
  <1>1. Held' = Held \cup {q}
    BY DEF Held
  <1>2. HeldBy(t)' = HeldBy(t) \cup {q} /\ q \notin HeldBy(t)
    BY DEF Held, HeldBy
  <1>3. \A o \in Token \ {t} : HeldBy(o)' = HeldBy(o)
    BY DEF Held, HeldBy
  <1>4. Held \subseteq Request /\ HeldBy(t) \subseteq Request
    BY DEF Held, HeldBy
  <1>5. IsFiniteSet(Held) /\ Cardinality(Held) \in Nat
        /\ IsFiniteSet(HeldBy(t)) /\ Cardinality(HeldBy(t)) \in Nat
    BY <1>4, HeldIsFinite
  <1>6. Cardinality(Held') = Cardinality(Held) + 1
    BY <1>1, <1>5, FS_AddElement
  <1>7. Cardinality(HeldBy(t)') = Cardinality(HeldBy(t)) + 1
    BY <1>2, <1>5, FS_AddElement
  <1>8. waiters' = Cardinality(Held') /\ waiters' <= MaxWaiters
    BY <1>5, <1>6, LongPollAssumption DEF SlotsAreHeldRequests
  <1>9. ASSUME NEW o \in Token
        PROVE  byToken'[o] = Cardinality(HeldBy(o)') /\ byToken'[o] <= MaxPerToken
    <2>1. CASE o = t
      BY <2>1, <1>5, <1>7, LongPollAssumption DEF SlotsAreHeldRequests, PollTypeOK
    <2>2. CASE o # t
      BY <2>2, <1>3 DEF SlotsAreHeldRequests, PollTypeOK
    <2> QED
      BY <2>1, <2>2
  <1> QED
    BY <1>8, <1>9 DEF SlotsAreHeldRequests, HeldBy, Held

\* A request that stops being held gives back the slot that it had, under its own token.
LEMMA GivesTheSlotBack ==
    ASSUME PollTypeOK, SlotsAreHeldRequests, NEW q \in Request, NEW t \in Token,
           q \in Held, req[q].token = t, req'[q].phase \notin Holding,
           \A p \in Request \ {q} : req'[p] = req[p],
           Release(q)
    PROVE  SlotsAreHeldRequests'
  <1>1. Held' = Held \ {q}
    BY DEF Held
  <1>2. HeldBy(t)' = HeldBy(t) \ {q} /\ q \in HeldBy(t)
    BY DEF Held, HeldBy
  <1>3. \A o \in Token \ {t} : HeldBy(o)' = HeldBy(o)
    BY DEF Held, HeldBy
  <1>4. Held \subseteq Request /\ HeldBy(t) \subseteq Request
    BY DEF Held, HeldBy
  <1>5. IsFiniteSet(Held) /\ Cardinality(Held) \in Nat
        /\ IsFiniteSet(HeldBy(t)) /\ Cardinality(HeldBy(t)) \in Nat
    BY <1>4, HeldIsFinite
  <1>6. Cardinality(Held') = Cardinality(Held) - 1
    BY <1>1, <1>5, FS_RemoveElement
  <1>7. Cardinality(HeldBy(t)') = Cardinality(HeldBy(t)) - 1 /\ Cardinality(HeldBy(t)) # 0
    <2>1. HeldBy(t) # {}
      BY <1>2
    <2>2. Cardinality(HeldBy(t)) # 0
      BY <1>5, <2>1, FS_EmptySet
    <2>3. Cardinality(HeldBy(t) \ {q}) = Cardinality(HeldBy(t)) - 1
      BY <1>2, <1>5, FS_RemoveElement
    <2> QED
      BY <1>2, <2>2, <2>3
  <1>8. waiters' = Cardinality(Held') /\ waiters' <= MaxWaiters
    BY <1>5, <1>6, LongPollAssumption DEF SlotsAreHeldRequests, Release
  <1>9. byToken' = [byToken EXCEPT ![t] = IF @ > 1 THEN @ - 1 ELSE 0]
    BY DEF Release
  <1>10. byToken'[t] = Cardinality(HeldBy(t)') /\ byToken'[t] <= MaxPerToken
    <2>1. byToken[t] = Cardinality(HeldBy(t)) /\ byToken[t] <= MaxPerToken
      BY DEF SlotsAreHeldRequests
    <2>2. byToken'[t] = IF byToken[t] > 1 THEN byToken[t] - 1 ELSE 0
      BY <1>9 DEF PollTypeOK
    <2> QED
      BY <1>5, <1>7, <2>1, <2>2, LongPollAssumption
  <1>11. ASSUME NEW o \in Token
         PROVE  byToken'[o] = Cardinality(HeldBy(o)') /\ byToken'[o] <= MaxPerToken
    <2>1. CASE o = t
      BY <2>1, <1>10
    <2>2. CASE o # t
      BY <2>2, <1>3, <1>9 DEF SlotsAreHeldRequests, PollTypeOK
    <2> QED
      BY <2>1, <2>2
  <1> QED
    BY <1>8, <1>11 DEF SlotsAreHeldRequests, HeldBy, Held
-----------------------------------------------------------------------------
(* The steps of the server, among any clients.                              *)

LEMMA FreePlace ==
    Free \in Place /\ Nothing \in Counts /\ AnyToken \in Token
  <1>1. Nothing \in Counts
    BY LongPollAssumption DEF Nothing, Counts
  <1>2. AnyToken \in Token
    BY LongPollAssumption DEF AnyToken
  <1>3. 0 \in 0..Window
    BY LongPollAssumption
  <1> QED
    BY <1>1, <1>2, <1>3 DEF Free, Place, Phases

\* What a request may become in each step: free, or somewhere else with its own token.
LEMMA Changes ==
    ASSUME PollTypeOK, NEW q \in Request, NEW phase \in Phases
    PROVE  /\ Goes(q, phase) => req' \in [Request -> Place] /\ req'[q].phase = phase
                                 /\ req'[q].token = req[q].token /\ req'[q].left = req[q].left
           /\ Finishes(q, phase) => req' \in [Request -> Place]
                                     /\ req'[q].phase \in {"free", phase}
           /\ Goes(q, phase) \/ Finishes(q, phase) => \A p \in Request \ {q} : req'[p] = req[p]
  <1>1. req \in [Request -> Place]
    BY DEF PollTypeOK, Place, Phases
  <1>2. 0 \in 0..Window
    BY LongPollAssumption
  <1>3. ASSUME Goes(q, phase)
        PROVE  req' \in [Request -> Place] /\ req'[q].phase = phase
               /\ req'[q].token = req[q].token /\ req'[q].left = req[q].left
    BY <1>1, <1>3 DEF Goes, Place
  <1>4. ASSUME Finishes(q, phase)
        PROVE  req' \in [Request -> Place] /\ req'[q].phase \in {"free", phase}
    <2>1. CASE req[q].gone
      BY <1>1, <1>4, <2>1, FreePlace DEF Finishes, Free
    <2>2. CASE ~req[q].gone
      BY <1>1, <1>2, <1>4, <2>2 DEF Finishes, Place
    <2> QED
      BY <2>1, <2>2
  <1>5. ASSUME Goes(q, phase) \/ Finishes(q, phase)
        PROVE  \A p \in Request \ {q} : req'[p] = req[p]
    BY <1>1, <1>5 DEF Goes, Finishes
  <1> QED
    BY <1>3, <1>4, <1>5

LEMMA PhasesOf ==
    /\ Holding \subseteq Phases /\ Answered \subseteq Phases /\ "free" \in Phases
    /\ Holding \cap (Answered \cup {"free"}) = {}
    /\ "reading" \in Holding /\ "deciding" \in Holding /\ "waiting" \in Holding
    /\ "answer" \in Answered /\ "refused" \in Answered /\ "broken" \in Answered
  BY DEF Phases, Holding, Answered

LEMMA ArriveStep ==
    ASSUME PollInv, NEW q \in Request, NEW t \in Token, Arrive(q, t)
    PROVE  PollInv'
  <1> DEFINE full == waiters >= MaxWaiters \/ byToken[t] >= MaxPerToken
             rec  == [phase |-> IF full THEN "refused" ELSE "reading", token |-> t,
                      gone |-> FALSE, saw |-> Nothing, left |-> Window]
  <1>1. req \in [Request -> Place] /\ waiters \in Int /\ byToken \in [Token -> Nat]
        /\ count \in Counts
    BY DEF PollInv, PollTypeOK, Place, Phases
  <1>2. rec \in Place
    <2>1. (IF full THEN "refused" ELSE "reading") \in Phases
      BY PhasesOf
    <2>2. Window \in 0..Window
      BY LongPollAssumption
    <2> QED
      BY <2>1, <2>2, FreePlace DEF Place
  <1>3. req' = [req EXCEPT ![q] = rec] /\ count' = count
    BY DEF Arrive
  <1>4. req' \in [Request -> Place] /\ req'[q] = rec
        /\ \A p \in Request \ {q} : req'[p] = req[p]
    BY <1>1, <1>2, <1>3
  <1>5. waiters' = (IF full THEN waiters ELSE waiters + 1)
        /\ byToken' = (IF full THEN byToken ELSE [byToken EXCEPT ![t] = @ + 1])
    BY DEF Arrive
  <1>6. req[q].phase = "free" /\ q \notin Held
    BY PhasesOf DEF Arrive, Held
  <1> HIDE DEF rec
  <1>7. PollTypeOK'
    <2>1. waiters' \in Int /\ byToken' \in [Token -> Nat]
      BY <1>1, <1>5
    <2> QED
      BY <1>1, <1>3, <1>4, <2>1 DEF PollTypeOK, Place, Phases
  <1>8. rec.phase \in {"refused", "reading"} /\ rec.token = t
    BY DEF rec
  <1>9. WaitingHasTime'
    BY <1>4, <1>8 DEF PollInv, WaitingHasTime
  <1>10. CASE full
    <2>1. req'[q].phase \notin Holding
      BY <1>4, <1>10, PhasesOf DEF rec
    <2>2. Keep
      BY <1>5, <1>10 DEF Keep
    <2>3. SlotsAreHeldRequests'
      BY <1>4, <1>6, <2>1, <2>2, PhasesOf, KeepsTheCount DEF PollInv, Held
    <2> QED
      BY <1>7, <1>9, <2>3 DEF PollInv
  <1>11. CASE ~full
    <2>1. req'[q].phase \in Holding /\ req'[q].token = t
      BY <1>4, <1>8, <1>11, PhasesOf DEF rec
    <2>2. waiters < MaxWaiters /\ byToken[t] < MaxPerToken
      BY <1>1, <1>11, LongPollAssumption
    <2>3. waiters' = waiters + 1 /\ byToken' = [byToken EXCEPT ![t] = @ + 1]
      BY <1>5, <1>11
    <2>4. SlotsAreHeldRequests'
      BY <1>4, <1>6, <2>1, <2>2, <2>3, TakesASlot DEF PollInv
    <2> QED
      BY <1>7, <1>9, <2>4 DEF PollInv
  <1> QED
    BY <1>10, <1>11

\* A request that stays where it is held, or out of it, and touches no counter.
LEMMA KeepStep ==
    ASSUME PollInv, NEW q \in Request, Keep, count' = count,
           req' \in [Request -> Place],
           \A p \in Request \ {q} : req'[p] = req[p],
           \/ req[q].phase \in Holding /\ req'[q].phase \in Holding
              /\ req'[q].token = req[q].token
           \/ req[q].phase \notin Holding /\ req'[q].phase \notin Holding,
           req'[q].phase = "waiting" => req'[q].left > 0
    PROVE  PollInv'
  <1>1. PollTypeOK'
    BY DEF PollInv, PollTypeOK, Keep, Place, Phases
  <1>2. WaitingHasTime'
    BY DEF PollInv, WaitingHasTime
  <1>3. SlotsAreHeldRequests'
    BY KeepsTheCount DEF PollInv
  <1> QED
    BY <1>1, <1>2, <1>3 DEF PollInv

\* A request that is over gives its slot back.
LEMMA ReleaseStep ==
    ASSUME PollInv, NEW q \in Request, Release(q), count' = count,
           req' \in [Request -> Place],
           \A p \in Request \ {q} : req'[p] = req[p],
           req[q].phase \in Holding, req'[q].phase \notin Holding
    PROVE  PollInv'
  <1>1. req[q].token \in Token /\ q \in Held
    BY DEF PollInv, PollTypeOK, Held
  <1>2. waiters' \in Int
    BY DEF PollInv, PollTypeOK, Release
  <1>3. byToken' \in [Token -> Nat]
    BY <1>1 DEF PollInv, PollTypeOK, Release
  <1>4. PollTypeOK'
    BY <1>2, <1>3 DEF PollInv, PollTypeOK, Place, Phases
  <1>5. WaitingHasTime'
    BY PhasesOf DEF PollInv, WaitingHasTime
  <1>6. SlotsAreHeldRequests'
    BY <1>1, GivesTheSlotBack DEF PollInv
  <1> QED
    BY <1>4, <1>5, <1>6 DEF PollInv

LEMMA ServeStep ==
    ASSUME PollInv, NEW q \in Request, Serve(q)
    PROVE  PollInv'
  <1> USE DEF PollInv
  <1>0. req \in [Request -> Place] /\ count \in Counts
    BY DEF PollTypeOK, Place, Phases
  <1>1. CASE Read(q)
    <2>1. req' \in [Request -> Place] /\ req'[q].phase = "deciding"
          /\ req'[q].token = req[q].token /\ \A p \in Request \ {q} : req'[p] = req[p]
      BY <1>0, <1>1, PhasesOf DEF Read, Place
    <2>2. req[q].phase \in Holding /\ Keep /\ count' = count
      BY <1>1, PhasesOf DEF Read
    <2> QED
      BY <2>1, <2>2, PhasesOf, KeepStep
  <1>2. CASE Break(q)
    <2>1. req' \in [Request -> Place] /\ req'[q].phase \in {"free", "broken"}
          /\ \A p \in Request \ {q} : req'[p] = req[p]
      BY <1>2, PhasesOf, Changes DEF Break
    <2>2. req[q].phase \in Holding /\ Release(q) /\ count' = count
      BY <1>2, PhasesOf DEF Break
    <2> QED
      BY <2>1, <2>2, PhasesOf, ReleaseStep
  <1>3. CASE Decide(q)
    <2>1. req[q].phase \in Holding /\ count' = count
      BY <1>3, PhasesOf DEF Decide
    <2>2. CASE Finishes(q, "answer") /\ Release(q)
      <3>1. req' \in [Request -> Place] /\ req'[q].phase \in {"free", "answer"}
            /\ \A p \in Request \ {q} : req'[p] = req[p]
        BY <2>2, PhasesOf, Changes
      <3> QED
        BY <2>1, <2>2, <3>1, PhasesOf, ReleaseStep
    <2>3. CASE req[q].left > 0 /\ Goes(q, "waiting") /\ Keep
      <3>1. req' \in [Request -> Place] /\ req'[q].phase = "waiting"
            /\ req'[q].token = req[q].token /\ req'[q].left = req[q].left
            /\ \A p \in Request \ {q} : req'[p] = req[p]
        BY <2>3, PhasesOf, Changes
      <3> QED
        BY <2>1, <2>3, <3>1, PhasesOf, KeepStep
    <2> QED
      BY <1>3, <2>2, <2>3 DEF Decide
  <1>4. CASE Wake(q)
    <2>1. req[q].phase = "waiting" /\ req[q].phase \in Holding /\ count' = count
      BY <1>4, PhasesOf DEF Wake
    <2>2. CASE req' = [req EXCEPT ![q] = Free] /\ Release(q)
      <3>1. req' \in [Request -> Place] /\ req'[q].phase = "free"
            /\ \A p \in Request \ {q} : req'[p] = req[p]
        BY <1>0, <2>2, FreePlace DEF Free
      <3> QED
        BY <2>1, <2>2, <3>1, PhasesOf, ReleaseStep
    <2>3. CASE req' = [req EXCEPT ![q].phase = "reading", ![q].left = @ - 1] /\ Keep
      <3>1. req[q].left > 0 /\ req[q].left \in 0..Window
        BY <1>0, <2>1 DEF WaitingHasTime, Place
      <3>2. req[q].left - 1 \in 0..Window
        BY <3>1, LongPollAssumption
      <3>3. req' \in [Request -> Place] /\ req'[q].phase = "reading"
            /\ req'[q].token = req[q].token /\ \A p \in Request \ {q} : req'[p] = req[p]
        BY <1>0, <2>3, <3>2, PhasesOf DEF Place
      <3> QED
        BY <2>1, <2>3, <3>3, PhasesOf, KeepStep
    <2> QED
      BY <1>4, <2>2, <2>3 DEF Wake
  <1> QED
    BY <1>1, <1>2, <1>3, <1>4 DEF Serve

LEMMA ClientStep ==
    ASSUME PollInv, NEW q \in Request, HangUp(q) \/ Send(q)
    PROVE  PollInv'
  <1> USE DEF PollInv
  <1>0. req \in [Request -> Place]
    BY DEF PollTypeOK, Place, Phases
  <1>1. ASSUME req' = [req EXCEPT ![q] = Free], req[q].phase \notin Holding,
               Keep, count' = count
        PROVE  PollInv'
    <2>1. req' \in [Request -> Place] /\ req'[q].phase = "free"
          /\ \A p \in Request \ {q} : req'[p] = req[p]
      BY <1>0, <1>1, FreePlace DEF Free
    <2> QED
      BY <1>1, <2>1, PhasesOf, KeepStep
  <1>2. CASE Send(q)
    <2>1. req[q].phase \notin Holding
      BY <1>2, PhasesOf DEF Send
    <2> QED
      BY <1>1, <1>2, <2>1 DEF Send
  <1>3. CASE HangUp(q)
    <2>1. Keep /\ count' = count
      BY <1>3 DEF HangUp
    <2>2. CASE q \in Held
      <3>1. req' = [req EXCEPT ![q].gone = TRUE] /\ req[q].phase \in Holding
        BY <1>3, <2>2 DEF HangUp, Held
      <3>2. req' \in [Request -> Place] /\ req'[q].phase = req[q].phase
            /\ req'[q].token = req[q].token /\ req'[q].left = req[q].left
            /\ \A p \in Request \ {q} : req'[p] = req[p]
        BY <1>0, <3>1 DEF Place
      <3> QED
        BY <2>1, <3>1, <3>2, KeepStep DEF WaitingHasTime
    <2>3. CASE q \notin Held
      BY <1>1, <1>3, <2>1, <2>3 DEF HangUp, Held
    <2> QED
      BY <2>2, <2>3
  <1> QED
    BY <1>2, <1>3

LEMMA MovesStep ==
    ASSUME PollInv, ChannelMoves
    PROVE  PollInv'
  <1>1. PICK k \in Kind, n \in 0..MaxCount : count' = [count EXCEPT ![k] = n]
    BY DEF ChannelMoves
  <1>2. count' \in Counts
    BY <1>1 DEF PollInv, PollTypeOK, Counts
  <1>3. req' = req /\ Keep
    BY DEF ChannelMoves
  <1>4. SlotsAreHeldRequests'
    BY <1>3 DEF PollInv, SlotsAreHeldRequests, Held, HeldBy, Keep
  <1> QED
    BY <1>2, <1>3, <1>4 DEF PollInv, PollTypeOK, WaitingHasTime, Keep

LEMMA PollInvInit ==
    PollInit => PollInv
  <1> SUFFICES ASSUME PollInit PROVE PollInv
    OBVIOUS
  <1>1. req \in [Request -> Place] /\ \A q \in Request : req[q].phase = "free"
    BY FreePlace DEF PollInit, Free
  <1>2. Held = {} /\ \A t : HeldBy(t) = {}
    BY <1>1, PhasesOf DEF Held, HeldBy
  <1>3. SlotsAreHeldRequests
    BY <1>2, FS_EmptySet, LongPollAssumption DEF SlotsAreHeldRequests, PollInit
  <1>4. PollTypeOK
    BY <1>1 DEF PollTypeOK, PollInit, Place, Phases
  <1> QED
    BY <1>1, <1>3, <1>4 DEF PollInv, WaitingHasTime

LEMMA PollInvStep ==
    PollInv /\ [PollNext]_pollVars => PollInv'
  <1> SUFFICES ASSUME PollInv, [PollNext]_pollVars PROVE PollInv'
    OBVIOUS
  <1>1. CASE ChannelMoves
    BY <1>1, MovesStep
  <1>2. ASSUME NEW q \in Request, Serve(q) PROVE PollInv'
    BY <1>2, ServeStep
  <1>3. ASSUME NEW q \in Request, HangUp(q) \/ Send(q) PROVE PollInv'
    BY <1>3, ClientStep
  <1>4. ASSUME NEW q \in Request, NEW t \in Token, Arrive(q, t) PROVE PollInv'
    BY <1>4, ArriveStep
  <1>5. CASE UNCHANGED pollVars
    BY <1>5 DEF PollInv, PollTypeOK, WaitingHasTime, SlotsAreHeldRequests, Held, HeldBy, pollVars
  <1> QED
    BY <1>1, <1>2, <1>3, <1>4, <1>5 DEF PollNext

\* The counters of the server count the held requests, each under its token, whatever its
\* clients do: every way out of the long poll gives the slot back, once, to the token that
\* took it.
THEOREM ServerCountsItsRequests ==
    PollSpec => []SlotsAreHeldRequests
  <1>1. PollInv => SlotsAreHeldRequests
    BY DEF PollInv
  <1> QED
    BY <1>1, PollInvInit, PollInvStep, PTL DEF PollSpec

-----------------------------------------------------------------------------
(* The watchers.                                                            *)

Watching == [at : {"ask", "poll", "pause"}, q : SUBSET Request, seen : Counts, failing : BOOLEAN]
Telling  == [counts : Counts, outage : BOOLEAN]

WatchTypeOK ==
    watch \in [Watcher -> Watching] /\ told \in [Watcher -> Telling]

WatchInv == PollInv /\ WatchTypeOK /\ SessionKnowsWhatWasSeen

\* Every step of the watchers and the server is one of a server among any clients, or
\* leaves it alone.
LEMMA WatchersAreClients ==
    WatchTypeOK /\ [Next]_watchVars => [PollNext]_pollVars
  <1> SUFFICES ASSUME WatchTypeOK, [Next]_watchVars PROVE [PollNext]_pollVars
    OBVIOUS
  <1>1. CASE ChannelMoves
    BY <1>1 DEF PollNext
  <1>2. ASSUME NEW q \in Request, Serves(q) PROVE PollNext
    BY <1>2 DEF Serves, PollNext
  <1>3. ASSUME NEW w \in Watcher, Asks(w) PROVE PollNext
    <2>1. PICK free \in Request : req[free].phase = "free"
      BY <1>3 DEF Asks
    <2> DEFINE q == CHOOSE q \in Request : req[q].phase = "free"
    <2>2. q \in Request
      BY <2>1
    <2>3. Arrive(q, TokenOf[w]) /\ TokenOf[w] \in Token
      BY <1>3, WatchAssumption DEF Asks
    <2> QED
      BY <2>2, <2>3 DEF PollNext
  <1>4. ASSUME NEW w \in Watcher, HearsCounts(w) PROVE PollNext
    BY <1>4 DEF HearsCounts, PollNext
  <1>5. ASSUME NEW w \in Watcher, IsRefused(w) PROVE PollNext
    BY <1>5 DEF IsRefused, PollNext
  <1>6. ASSUME NEW w \in Watcher, LosesServer(w) PROVE PollNext
    BY <1>6 DEF LosesServer, PollNext
  <1>7. ASSUME NEW w \in Watcher, Resumes(w) \/ FindsNoServer(w) PROVE UNCHANGED pollVars
    BY <1>7 DEF Resumes, FindsNoServer, pollVars
  <1>8. ASSUME NEW w \in Watcher, Restarts(w) PROVE PollNext \/ UNCHANGED pollVars
    <2>1. watch[w].q \subseteq Request
      BY DEF WatchTypeOK, Watching
    <2>2. CASE At(w, "poll")
      BY <1>8, <2>1, <2>2 DEF Restarts, PollNext
    <2>3. CASE ~At(w, "poll")
      BY <1>8, <2>3 DEF Restarts, pollVars
    <2> QED
      BY <2>2, <2>3
  <1>9. CASE UNCHANGED watchVars
    BY <1>9 DEF watchVars, pollVars
  <1> QED
    BY <1>1, <1>2, <1>3, <1>4, <1>5, <1>6, <1>7, <1>8, <1>9 DEF Next, Hears

\* What is printed makes up for the difference between two answers, both ways.
LEMMA GrownIsTold ==
    ASSUME NEW old \in Counts, NEW current \in Counts
    PROVE  [k \in Kind |-> IF k \in Grown(old, current) \/ current[k] < old[k]
                           THEN current[k] ELSE old[k]] = current
  <1>1. ASSUME NEW k \in Kind
        PROVE  (IF k \in Grown(old, current) \/ current[k] < old[k]
                THEN current[k] ELSE old[k]) = current[k]
    <2>1. old[k] \in Int /\ current[k] \in Int
      BY LongPollAssumption DEF Counts
    <2> QED
      BY <2>1 DEF Grown
  <1>2. current = [k \in Kind |-> current[k]]
    BY DEF Counts
  <1> QED
    BY <1>1, <1>2

LEMMA HearsStep ==
    ASSUME WatchInv, NEW w \in Watcher, HearsCounts(w)
    PROVE  WatchTypeOK' /\ SessionKnowsWhatWasSeen'
  <1>1. PICK q \in Request :
          /\ watch' = [watch EXCEPT ![w] =
                [at |-> IF Actionable(req[q].saw) THEN "pause" ELSE "ask", q |-> {},
                 seen |-> req[q].saw, failing |-> FALSE]]
          /\ told' = [told EXCEPT ![w] =
                [counts |-> [k \in Kind |->
                    IF k \in Grown(watch[w].seen, req[q].saw) \/ req[q].saw[k] < @.counts[k]
                    THEN req[q].saw[k] ELSE @.counts[k]],
                 outage |-> @.outage /\ ~watch[w].failing]]
    BY DEF HearsCounts
  <1> DEFINE current == req[q].saw
             old     == watch[w].seen
             both    == [k \in Kind |-> IF k \in Grown(old, current) \/ current[k] < old[k]
                                        THEN current[k] ELSE old[k]]
             heard   == [at |-> IF Actionable(current) THEN "pause" ELSE "ask", q |-> {},
                         seen |-> current, failing |-> FALSE]
             learnt  == [counts |-> both,
                         outage |-> told[w].outage /\ ~watch[w].failing]
  <1>2. current \in Counts
    BY DEF WatchInv, PollInv, PollTypeOK
  <1>3. old \in Counts
    BY DEF WatchInv, WatchTypeOK, Watching
  <1>4. told[w].counts = old /\ told[w].outage = watch[w].failing
    BY DEF WatchInv, SessionKnowsWhatWasSeen
  <1>5. both = current
    BY <1>2, <1>3, GrownIsTold
  <1>6. watch' = [watch EXCEPT ![w] = heard]
    BY <1>1
  <1>7. told' = [told EXCEPT ![w] = learnt]
    BY <1>1, <1>4 DEF WatchInv, WatchTypeOK
  <1>8. watch[w].failing \in BOOLEAN
    BY DEF WatchInv, WatchTypeOK, Watching
  <1>9. learnt.outage = FALSE
    BY <1>4, <1>8
  <1>10. learnt = [counts |-> current, outage |-> FALSE]
    BY <1>5, <1>9
  <1>11. heard \in Watching /\ heard.seen = current /\ heard.failing = FALSE
    <2>1. (IF Actionable(current) THEN "pause" ELSE "ask") \in {"ask", "poll", "pause"}
      OBVIOUS
    <2> HIDE DEF current
    <2> QED
      BY <1>2, <2>1 DEF Watching
  <1>12. learnt \in Telling
    BY <1>2, <1>10 DEF Telling
  <1> HIDE DEF heard, learnt, current
  <1>13. WatchTypeOK'
    BY <1>6, <1>7, <1>11, <1>12 DEF WatchInv, WatchTypeOK
  <1>14. ASSUME NEW o \in Watcher
         PROVE  told'[o].counts = watch'[o].seen /\ told'[o].outage = watch'[o].failing
    <2>1. CASE o = w
      BY <2>1, <1>6, <1>7, <1>10, <1>11 DEF WatchInv, WatchTypeOK
    <2>2. CASE o # w
      BY <2>2, <1>6, <1>7 DEF WatchInv, WatchTypeOK, SessionKnowsWhatWasSeen
    <2> QED
      BY <2>1, <2>2
  <1> QED
    BY <1>13, <1>14 DEF SessionKnowsWhatWasSeen

LEMMA FailsStep ==
    ASSUME WatchInv, NEW w \in Watcher, Fails(w)
    PROVE  WatchTypeOK' /\ SessionKnowsWhatWasSeen'
  <1>1. watch \in [Watcher -> Watching] /\ told \in [Watcher -> Telling]
    BY DEF WatchInv, WatchTypeOK
  <1>2. told[w].outage = watch[w].failing /\ watch[w].failing \in BOOLEAN
    BY <1>1 DEF WatchInv, SessionKnowsWhatWasSeen, Watching
  <1>3. (told[w].outage \/ ~watch[w].failing) = TRUE
    BY <1>2
  <1>4. told' = [told EXCEPT ![w].outage = TRUE]
    BY <1>1, <1>3 DEF Fails
  <1>5. watch' \in [Watcher -> Watching] /\ watch'[w].failing = TRUE
        /\ watch'[w].seen = watch[w].seen
    BY <1>1 DEF Fails, Watching
  <1>6. told' \in [Watcher -> Telling] /\ told'[w].outage = TRUE
        /\ told'[w].counts = told[w].counts
    BY <1>1, <1>4 DEF Telling
  <1>7. \A o \in Watcher \ {w} : told'[o] = told[o] /\ watch'[o] = watch[o]
    BY <1>1, <1>4 DEF Fails
  <1> QED
    BY <1>5, <1>6, <1>7 DEF WatchInv, WatchTypeOK, SessionKnowsWhatWasSeen

\* Steps that touch neither what was seen nor what was told.
LEMMA OtherSteps ==
    ASSUME WatchInv, told' = told, watch' \in [Watcher -> Watching],
           \A w \in Watcher : /\ watch'[w].seen = watch[w].seen
                               /\ watch'[w].failing = watch[w].failing
    PROVE  WatchTypeOK' /\ SessionKnowsWhatWasSeen'
  BY DEF WatchInv, WatchTypeOK, SessionKnowsWhatWasSeen

LEMMA WatchInvInit ==
    Init => WatchInv
  <1> SUFFICES ASSUME Init PROVE WatchInv
    OBVIOUS
  <1>1. PollInv
    BY PollInvInit DEF Init
  <1>2. Start \in Watching /\ Ignorant \in Telling
    BY FreePlace DEF Start, Ignorant, Watching, Telling
  <1>3. WatchTypeOK
    BY <1>2 DEF Init, WatchTypeOK
  <1>4. SessionKnowsWhatWasSeen
    BY DEF Init, SessionKnowsWhatWasSeen, Start, Ignorant
  <1> QED
    BY <1>1, <1>3, <1>4 DEF WatchInv

LEMMA WatchInvStep ==
    WatchInv /\ [Next]_watchVars => WatchInv'
  <1> SUFFICES ASSUME WatchInv, [Next]_watchVars PROVE WatchInv'
    OBVIOUS
  <1>0. watch \in [Watcher -> Watching] /\ told \in [Watcher -> Telling]
    BY DEF WatchInv, WatchTypeOK
  <1>1. PollInv'
    BY WatchersAreClients, PollInvStep DEF WatchInv
  <1>2. ASSUME UNCHANGED <<watch, told>>
        PROVE  WatchTypeOK' /\ SessionKnowsWhatWasSeen'
    BY <1>0, <1>2, OtherSteps
  <1>3. ASSUME NEW w \in Watcher, Asks(w)
        PROVE  WatchTypeOK' /\ SessionKnowsWhatWasSeen'
    <2> DEFINE q == CHOOSE q \in Request : req[q].phase = "free"
    <2>1. q \in Request
      BY <1>3 DEF Asks
    <2>2. watch' = [watch EXCEPT ![w].at = "poll", ![w].q = {q}] /\ told' = told
      BY <1>3 DEF Asks
    <2> HIDE DEF q
    <2>3. watch' \in [Watcher -> Watching]
          /\ \A o \in Watcher : /\ watch'[o].seen = watch[o].seen
                                 /\ watch'[o].failing = watch[o].failing
      BY <1>0, <2>1, <2>2 DEF Watching
    <2> QED
      BY <2>2, <2>3, OtherSteps
  <1>4. ASSUME NEW w \in Watcher, HearsCounts(w)
        PROVE  WatchTypeOK' /\ SessionKnowsWhatWasSeen'
    BY <1>4, HearsStep
  <1>5. ASSUME NEW w \in Watcher, IsRefused(w) \/ LosesServer(w) \/ FindsNoServer(w)
        PROVE  WatchTypeOK' /\ SessionKnowsWhatWasSeen'
    BY <1>5, FailsStep DEF IsRefused, LosesServer, FindsNoServer
  <1>6. ASSUME NEW w \in Watcher, Resumes(w)
        PROVE  WatchTypeOK' /\ SessionKnowsWhatWasSeen'
    <2>1. watch' \in [Watcher -> Watching]
          /\ \A o \in Watcher : /\ watch'[o].seen = watch[o].seen
                                 /\ watch'[o].failing = watch[o].failing
      BY <1>0, <1>6 DEF Resumes, Watching
    <2> QED
      BY <1>6, <2>1, OtherSteps DEF Resumes
  <1>7. ASSUME NEW w \in Watcher, Restarts(w)
        PROVE  WatchTypeOK' /\ SessionKnowsWhatWasSeen'
    <2>1. watch' = [watch EXCEPT ![w] = Start] /\ told' = [told EXCEPT ![w] = Ignorant]
      BY <1>7 DEF Restarts
    <2>2. Start \in Watching /\ Ignorant \in Telling
      BY FreePlace DEF Start, Ignorant, Watching, Telling
    <2>3. Ignorant.counts = Start.seen /\ Ignorant.outage = Start.failing
      BY DEF Start, Ignorant
    <2> QED
      BY <1>0, <2>1, <2>2, <2>3 DEF WatchInv, WatchTypeOK, SessionKnowsWhatWasSeen
  <1>8. WatchTypeOK' /\ SessionKnowsWhatWasSeen'
    BY <1>2, <1>3, <1>4, <1>5, <1>6, <1>7 DEF Next, Hears, Serves, watchVars
  <1> QED
    BY <1>1, <1>8 DEF WatchInv

\* The watchers and their server behave as a server among any clients.
THEOREM WatchImplementsPoll ==
    Spec => PollSpec
  <1>1. Init => PollInit
    BY DEF Init
  <1>2. WatchInv /\ [Next]_watchVars => [PollNext]_pollVars
    BY WatchersAreClients DEF WatchInv
  <1> QED
    BY <1>1, <1>2, WatchInvInit, WatchInvStep, PTL DEF Spec, PollSpec

\* So the counters are right under the watchers, however these are refused, cut off and
\* restarted.
THEOREM SlotsAreCounted ==
    Spec => []SlotsAreHeldRequests
  BY WatchImplementsPoll, ServerCountsItsRequests, PTL

\* What a watcher takes for known is what its session was told, and an outage is told from
\* the first failure to the first answer: the two agree however requests fail in between.
THEOREM TheSessionKnows ==
    Spec => []SessionKnowsWhatWasSeen
  <1>1. WatchInv => SessionKnowsWhatWasSeen
    BY DEF WatchInv
  <1> QED
    BY <1>1, WatchInvInit, WatchInvStep, PTL DEF Spec
==============================================================================
