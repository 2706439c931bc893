---------------------------- MODULE StopHookProofs ----------------------------
(***************************************************************************)
(* Proofs about module StopHook, for a role with one session and any       *)
(* counters, limits and failures: the snapshot file, which an earlier turn *)
(* may have left behind, never lets a turn be blocked too often, and never *)
(* hides news.  With two sessions neither holds: they share the file.      *)
(***************************************************************************)
EXTENDS StopHook, TLAPS

Snapshot == [here : BOOLEAN, counts : Counts, blocks : Nat]
Answer   == [known : BOOLEAN, counts : Counts]

StopHookTypeOK ==
  /\ remote \in BOOLEAN /\ pending \in Counts /\ file \in Snapshot
  /\ session \in [Session -> {"working", "stopping", "deciding"}]
  /\ retrying \in [Session -> BOOLEAN]
  /\ answer \in [Session -> Answer] /\ shown \in [Session -> Answer]
  /\ turns \in [Session -> Nat] /\ blocks \in [Session -> Nat]

\* A snapshot that is there counts a block, and no more than there may be.
SnapshotCounts == file.here => file.blocks \in 1..MAX_BLOCKS_PER_STOP

\* The snapshot counts the blocks of the turn, or more: those of an earlier turn, when the
\* first attempt of this one could not ask.
BlocksAreCounted ==
  \A s \in Session :
    /\ ~retrying[s] => blocks[s] = 0
    /\ retrying[s] /\ s \notin lost =>
         /\ blocks[s] \in 1..MAX_BLOCKS_PER_STOP
         /\ file.here => blocks[s] <= file.blocks

\* A hook that asks a server knows what it decides about, and what its session was shown
\* last is in the snapshot.
SnapshotIsShown ==
  remote => \A s \in Session :
    /\ session[s] = "deciding" => answer[s].known
    /\ retrying[s] /\ s \notin lost =>
         file.here /\ file.blocks = blocks[s] /\ file.counts = shown[s].counts

IInv == StopHookTypeOK /\ SnapshotCounts /\ BlocksAreCounted /\ SnapshotIsShown

\* The role has one session.
OneSession == \A s, o \in Session : s = o

-----------------------------------------------------------------------------
LEMMA ZeroCounts == Zero \in Counts /\ NoFile \in Snapshot /\ Unknown \in Answer
  BY ConstantsAssumption DEF Zero, Counts, NoFile, Snapshot, Unknown, Answer

LEMMA Initially == Init => IInv
  BY ZeroCounts DEF Init, IInv, StopHookTypeOK, SnapshotCounts, BlocksAreCounted,
                    SnapshotIsShown, NoFile

\* Nothing of what is remembered changes.
LEMMA Aside ==
  ASSUME IInv, UNCHANGED <<remote, file, retrying, blocks, shown>>, lost' = lost,
         pending' \in Counts, turns' \in [Session -> Nat],
         session' \in [Session -> {"working", "stopping", "deciding"}],
         answer' \in [Session -> Answer],
         \A s \in Session : session'[s] = "deciding" /\ remote => answer'[s].known
  PROVE  IInv'
  <1>1. StopHookTypeOK' /\ SnapshotCounts'
    BY DEF IInv, StopHookTypeOK, SnapshotCounts
  <1>2. BlocksAreCounted' /\ SnapshotIsShown'
    BY DEF IInv, BlocksAreCounted, SnapshotIsShown
  <1> QED
    BY <1>1, <1>2 DEF IInv

\* The session is let go.
LEMMA Passing ==
  ASSUME OneSession, IInv, NEW s \in Session, Passes(s),
         file' \in {file, NoFile}
  PROVE  IInv'
  <1>1. \A o \in Session : o = s
    BY DEF OneSession
  <1>2. /\ session'[s] = "working" /\ ~retrying'[s] /\ blocks'[s] = 0
        /\ session' = [session EXCEPT ![s] = "working"]
        /\ retrying' = [retrying EXCEPT ![s] = FALSE]
        /\ blocks' = [blocks EXCEPT ![s] = 0]
        /\ shown' = [shown EXCEPT ![s] = Unknown]
        /\ UNCHANGED <<remote, pending, answer, turns>>
    BY DEF IInv, StopHookTypeOK, Passes
  <1>3. StopHookTypeOK'
    BY <1>2, ZeroCounts DEF IInv, StopHookTypeOK
  <1>4. SnapshotCounts'
    BY DEF IInv, SnapshotCounts, NoFile
  <1>5. BlocksAreCounted' /\ SnapshotIsShown'
    BY <1>1, <1>2 DEF BlocksAreCounted, SnapshotIsShown
  <1> QED
    BY <1>3, <1>4, <1>5 DEF IInv

\* The session is blocked, and the snapshot says so for the n-th time.
LEMMA BlockingAgain ==
  ASSUME OneSession, IInv, NEW s \in Session, NEW n \in 1..MAX_BLOCKS_PER_STOP,
         answer[s].known, Save(s, n), Blocks(s),
         IF retrying[s] THEN file.here /\ n = file.blocks + 1 ELSE n = 1
  PROVE  IInv'
  <1>1. (\A o \in Session : o = s) /\ MAX_BLOCKS_PER_STOP \in Nat
    BY ConstantsAssumption DEF OneSession
  <1>2. /\ session'[s] = "working" /\ retrying'[s] /\ shown'[s] = answer[s]
        /\ session' = [session EXCEPT ![s] = "working"]
        /\ retrying' = [retrying EXCEPT ![s] = TRUE]
        /\ shown' = [shown EXCEPT ![s] = answer[s]]
        /\ blocks' = [blocks EXCEPT ![s] = IF blocks[s] > MAX_BLOCKS_PER_STOP
                                           THEN blocks[s] ELSE blocks[s] + 1]
        /\ UNCHANGED <<remote, pending, answer, turns>>
    BY DEF IInv, StopHookTypeOK, Blocks
  <1>3. /\ blocks[s] \in Nat /\ file \in Snapshot /\ answer[s] \in Answer
        /\ blocks'[s] = IF blocks[s] > MAX_BLOCKS_PER_STOP THEN blocks[s] ELSE blocks[s] + 1
    BY <1>2 DEF IInv, StopHookTypeOK
  <1>4. blocks'[s] \in Nat
    BY <1>1, <1>3
  <1>5. CASE file' = [here |-> TRUE, counts |-> answer[s].counts, blocks |-> n] /\ lost' = lost
    <2>1. file' \in Snapshot /\ file'.here /\ file'.blocks = n /\ file'.counts = answer[s].counts
      BY <1>1, <1>3, <1>5 DEF Snapshot, Answer
    <2>2. StopHookTypeOK'
      BY <1>2, <1>3, <1>4, <2>1 DEF IInv, StopHookTypeOK
    <2>3. SnapshotCounts'
      BY <2>1 DEF SnapshotCounts
    <2>4. s \notin lost' => blocks'[s] \in 1..MAX_BLOCKS_PER_STOP /\ blocks'[s] <= n
      <3>1. CASE retrying[s]
        BY <1>1, <1>3, <1>5, <3>1 DEF IInv, BlocksAreCounted, Snapshot
      <3>2. CASE ~retrying[s]
        BY <1>1, <1>3, <1>5, <3>2 DEF IInv, BlocksAreCounted
      <3> QED
        BY <3>1, <3>2
    <2>5. BlocksAreCounted'
      BY <1>1, <1>2, <2>1, <2>4 DEF BlocksAreCounted
    <2>6. remote /\ s \notin lost' => blocks'[s] = n
      <3>1. CASE retrying[s]
        BY <1>1, <1>3, <1>5, <3>1 DEF IInv, BlocksAreCounted, SnapshotIsShown, Snapshot
      <3>2. CASE ~retrying[s]
        BY <1>1, <1>3, <1>5, <3>2 DEF IInv, BlocksAreCounted
      <3> QED
        BY <3>1, <3>2
    <2>7. SnapshotIsShown'
      BY <1>1, <1>2, <2>1, <2>6 DEF SnapshotIsShown
    <2> QED
      BY <2>2, <2>3, <2>5, <2>7 DEF IInv
  <1>6. CASE FileFails(s)
    <2>1. s \in lost' /\ file' \in {file, NoFile}
      BY <1>6 DEF FileFails
    <2>2. StopHookTypeOK'
      BY <1>2, <1>3, <1>4, <2>1, ZeroCounts DEF IInv, StopHookTypeOK
    <2>3. SnapshotCounts'
      BY <2>1 DEF IInv, SnapshotCounts, NoFile
    <2>4. BlocksAreCounted' /\ SnapshotIsShown'
      BY <1>1, <1>2, <2>1 DEF BlocksAreCounted, SnapshotIsShown
    <2> QED
      BY <2>2, <2>3, <2>4 DEF IInv
  <1> QED
    BY <1>5, <1>6 DEF Save

\* The database cannot be asked, and the session is reminded once; the file stays.
LEMMA BlockingBlindly ==
  ASSUME OneSession, IInv, NEW s \in Session, session[s] = "deciding", ~retrying[s],
         ~answer[s].known, Blocks(s), UNCHANGED <<file, lost>>
  PROVE  IInv'
  <1>1. (\A o \in Session : o = s) /\ MAX_BLOCKS_PER_STOP \in Nat \ {0}
    BY ConstantsAssumption DEF OneSession
  <1>2. /\ blocks[s] = 0 /\ ~remote /\ answer[s] \in Answer
    BY DEF IInv, BlocksAreCounted, SnapshotIsShown, StopHookTypeOK
  <1>3. /\ session' = [session EXCEPT ![s] = "working"]
        /\ retrying' = [retrying EXCEPT ![s] = TRUE]
        /\ shown' = [shown EXCEPT ![s] = answer[s]]
        /\ blocks' = [blocks EXCEPT ![s] = 1]
        /\ UNCHANGED <<remote, pending, answer, turns>>
    <2>1. (IF blocks[s] > MAX_BLOCKS_PER_STOP THEN blocks[s] ELSE blocks[s] + 1) = 1
      BY <1>1, <1>2
    <2> QED
      BY <2>1 DEF Blocks
  <1>4. retrying'[s] /\ blocks'[s] = 1
    BY <1>3 DEF IInv, StopHookTypeOK
  <1>5. StopHookTypeOK'
    BY <1>2, <1>3 DEF IInv, StopHookTypeOK
  <1>6. SnapshotCounts' /\ SnapshotIsShown'
    BY <1>2, <1>3 DEF IInv, SnapshotCounts, SnapshotIsShown
  <1>7. BlocksAreCounted'
    <2>1. file'.here => 1 <= file'.blocks
      BY DEF IInv, SnapshotCounts
    <2> QED
      BY <1>1, <1>4, <2>1 DEF BlocksAreCounted
  <1> QED
    BY <1>5, <1>6, <1>7 DEF IInv

LEMMA InvStep == ASSUME OneSession, IInv, [Next]_vars PROVE IInv'
  <1> USE DEF hist
  <1>1. CASE ChannelMoves
    <2>1. pending' \in Counts
      BY <1>1 DEF ChannelMoves, IInv, StopHookTypeOK, Counts
    <2> QED
      BY <1>1, <2>1, Aside DEF ChannelMoves, IInv, StopHookTypeOK, SnapshotIsShown
  <1>2. ASSUME NEW s \in Session, TriesToStop(s) PROVE IInv'
    <2>1. CASE retrying[s]
      BY <1>2, <2>1, Aside DEF TriesToStop, IInv, StopHookTypeOK, SnapshotIsShown
    <2>2. CASE ~retrying[s]
      <3>1. \A o \in Session : o = s
        BY DEF OneSession
      <3>2. /\ session' = [session EXCEPT ![s] = "stopping"]
            /\ turns' = [turns EXCEPT ![s] = turns[s] + 1] /\ turns[s] \in Nat
            /\ UNCHANGED <<remote, pending, file, retrying, answer, blocks, shown>>
        BY <1>2, <2>2 DEF TriesToStop, IInv, StopHookTypeOK
      <3>3. StopHookTypeOK' /\ SnapshotCounts'
        BY <3>2 DEF IInv, StopHookTypeOK, SnapshotCounts
      <3>4. BlocksAreCounted' /\ SnapshotIsShown'
        BY <2>2, <3>1, <3>2 DEF IInv, StopHookTypeOK, BlocksAreCounted, SnapshotIsShown
      <3> QED
        BY <3>3, <3>4 DEF IInv
    <2> QED
      BY <2>1, <2>2
  <1>3. ASSUME NEW s \in Session, Asks(s) PROVE IInv'
    <2>1. [known |-> TRUE, counts |-> pending] \in Answer
      BY DEF IInv, StopHookTypeOK, Answer
    <2> QED
      BY <1>3, <2>1, Aside DEF Asks, IInv, StopHookTypeOK, SnapshotIsShown
  <1>4. ASSUME NEW s \in Session, CannotAskDatabase(s) PROVE IInv'
    BY <1>4, ZeroCounts, Aside DEF CannotAskDatabase, IInv, StopHookTypeOK
  <1>5. ASSUME NEW s \in Session, CannotAskServer(s) PROVE IInv'
    BY <1>5, Passing DEF CannotAskServer
  <1>6. ASSUME NEW s \in Session, FirstAttempt(s) PROVE IInv'
    <2>1. CASE Clear(s) /\ Passes(s)
      BY <2>1, Passing DEF Clear, FileFails
    <2>2. CASE answer[s].known /\ Save(s, 1) /\ Blocks(s)
      <3>1. 1 \in 1..MAX_BLOCKS_PER_STOP /\ ~retrying[s]
        BY <1>6, ConstantsAssumption DEF FirstAttempt
      <3> QED
        BY <2>2, <3>1, BlockingAgain
    <2>3. CASE ~answer[s].known /\ Blocks(s) /\ UNCHANGED <<file, lost>>
      BY <1>6, <2>3, BlockingBlindly DEF FirstAttempt
    <2> QED
      BY <1>6, <2>1, <2>2, <2>3 DEF FirstAttempt
  <1>7. ASSUME NEW s \in Session, Retry(s) PROVE IInv'
    <2>1. CASE Passes(s) /\ (Clear(s) \/ UNCHANGED <<file, lost>>)
      BY <2>1, Passing DEF Clear, FileFails
    <2>2. CASE answer[s].known /\ MayBlockAgain(s) /\ Save(s, file.blocks + 1) /\ Blocks(s)
      <3>1. /\ file.here /\ file.blocks \in 1..MAX_BLOCKS_PER_STOP
            /\ file.blocks < MAX_BLOCKS_PER_STOP
        BY <2>2 DEF MayBlockAgain, Grown, IInv, SnapshotCounts
      <3>2. file.blocks + 1 \in 1..MAX_BLOCKS_PER_STOP /\ retrying[s]
        BY <1>7, <3>1, ConstantsAssumption DEF Retry
      <3> QED
        BY <2>2, <3>1, <3>2, BlockingAgain
    <2> QED
      BY <1>7, <2>1, <2>2 DEF Retry
  <1>8. CASE UNCHANGED vars
    BY <1>8 DEF vars, IInv, StopHookTypeOK, SnapshotCounts, BlocksAreCounted, SnapshotIsShown
  <1> QED
    BY <1>1, <1>2, <1>3, <1>4, <1>5, <1>6, <1>7, <1>8 DEF Next, Steps

LEMMA Invariance == ASSUME OneSession PROVE Spec => []IInv
  BY Initially, InvStep, PTL DEF Spec

-----------------------------------------------------------------------------
(* Theorems.                                                               *)

\* A turn is blocked at most MAX_BLOCKS_PER_STOP times, whatever an earlier turn left in the
\* snapshot file, however the channel moves and whatever fails, but for turns in which the
\* file could not be written (hooks.py, stop_hook).
THEOREM TurnsAreLetGo == ASSUME OneSession PROVE Spec => []AtMostThreeBlocks
  <1>1. IInv => AtMostThreeBlocks
    <2> SUFFICES ASSUME IInv, NEW s \in Session, s \notin lost
                 PROVE  blocks[s] <= MAX_BLOCKS_PER_STOP
      BY DEF AtMostThreeBlocks
    <2> QED
      BY ConstantsAssumption DEF IInv, StopHookTypeOK, BlocksAreCounted
  <1> QED
    BY <1>1, Invariance, PTL

\* A retry that lets the turn end, in a hook that asks a server, passes over nothing that
\* arrived since its session was blocked, unless it has been blocked as often as it may be
\* (hooks.py, stop_hook).
THEOREM NewsStopsTheRetry == ASSUME OneSession PROVE Spec => NewsIsNotPassedOver
  <1> DEFINE Passed(s) == Ends(s) /\ retrying[s] /\ ~retrying'[s] /\ answer[s].known /\ remote
             Excused(s) == \/ s \in lost
                           \/ blocks[s] = MAX_BLOCKS_PER_STOP
                           \/ \A c \in Counter : answer[s].counts[c] <= shown[s].counts[c]
  <1>1. ASSUME IInv, IInv', [Next]_vars, NEW s \in Session, Passed(s)
        PROVE  Excused(s)
    <2> SUFFICES ASSUME s \notin lost PROVE Excused(s)
      OBVIOUS
    <2>1. /\ file.here /\ file.blocks = blocks[s] /\ file.counts = shown[s].counts
          /\ file.blocks \in 1..MAX_BLOCKS_PER_STOP
          /\ answer[s].counts \in Counts /\ file.counts \in Counts
      BY <1>1 DEF IInv, SnapshotIsShown, SnapshotCounts, StopHookTypeOK, Snapshot, Answer
    <2>2. Clean(s) \/ ~MayBlockAgain(s)
      <3>1. Retry(s)
        <4>1. \A o \in Session : o = s
          BY DEF OneSession
        <4> QED
          BY <1>1, <4>1 DEF Next, Steps, Ends, ChannelMoves, TriesToStop, Asks,
                            CannotAskDatabase, CannotAskServer, FirstAttempt, vars
      <3>2. ~Blocks(s)
        BY <1>1 DEF Blocks, IInv, StopHookTypeOK
      <3> QED
        BY <1>1, <3>1, <3>2 DEF Retry
    <2>3. CASE Clean(s)
      <3>1. \A c \in Counter : answer[s].counts[c] = 0 /\ shown[s].counts[c] \in 0..MaxCount
        BY <2>1, <2>3 DEF Clean, Zero, Counts
      <3> QED
        BY <3>1, ConstantsAssumption
    <2>4. CASE ~MayBlockAgain(s)
      <3>1. ~Grown(s) \/ ~(file.blocks < MAX_BLOCKS_PER_STOP)
        BY <2>4 DEF MayBlockAgain
      <3>2. CASE ~Grown(s)
        <4>1. \A c \in Counter : /\ ~(answer[s].counts[c] > file.counts[c])
                                 /\ answer[s].counts[c] \in Nat /\ file.counts[c] \in Nat
          BY <2>1, <3>2, ConstantsAssumption DEF Grown, Counts
        <4> QED
          BY <2>1, <4>1
      <3>3. CASE ~(file.blocks < MAX_BLOCKS_PER_STOP)
        BY <2>1, <3>3, ConstantsAssumption
      <3> QED
        BY <3>1, <3>2, <3>3
    <2> QED
      BY <2>2, <2>3, <2>4
  <1>2. IInv /\ IInv' /\ [Next]_vars => [\A s \in Session : Passed(s) => Excused(s)]_vars
    BY <1>1
  <1>3. Spec => [][\A s \in Session : Passed(s) => Excused(s)]_vars
    BY <1>2, Invariance, PTL DEF Spec
  <1> QED
    BY <1>3 DEF NewsIsNotPassedOver
=============================================================================
