------------------------------- MODULE StopHook -------------------------------
(***************************************************************************)
(* The stop hook of the sessions of one role (hooks.py).  The harness runs *)
(* it, as a process of its own, each time a session tries to end a turn.   *)
(* It asks the channel what is pending for the role, and remembers between *)
(* its runs only what is in one snapshot file per role.  The asking and    *)
(* the use of the file are separate steps: the channel changes in between, *)
(* and so does the file when the role has two sessions.                    *)
(*                                                                         *)
(* A definition X_Fault is X with a plausible mistake; nothing uses it: it *)
(* shows which property would notice that mistake.                         *)
(***************************************************************************)
EXTENDS Naturals

CONSTANTS
  Session,
  Counter,            \* the names of ACTIONABLE_COUNTS
  MaxCount,           \* bound on a counter
  MaxTurns,           \* bound on the turns of a session
  MAX_BLOCKS_PER_STOP,
  AskingMayFail,      \* whether asking the channel may fail
  FileMayFail         \* whether writing or removing the snapshot file may fail

ASSUME ConstantsAssumption ==
  /\ MaxCount \in Nat /\ MaxTurns \in Nat
  /\ MAX_BLOCKS_PER_STOP \in Nat \ {0}
  /\ AskingMayFail \in BOOLEAN /\ FileMayFail \in BOOLEAN

Counts == [Counter -> 0..MaxCount]
Zero   == [c \in Counter |-> 0]

VARIABLES
  remote,    \* whether the hook asks a server over HTTP, or a local database
  pending,   \* the counts of the role in the channel
  file,      \* the snapshot file: absent, or the counts and the number of blocks
  session,   \* "working", or what its hook is doing
  retrying,  \* stop_hook_active: the session has been blocked in this turn
  answer,    \* what the hook of a session heard from the channel
  turns,     \* history: turns begun
  blocks,    \* history: how often the session was blocked in this turn,
             \* counted to one more than it may be
  shown,     \* history: the answer it was shown at the last block of this turn
  lost       \* history: the sessions for which the snapshot could not be written
             \* or removed in this turn

hist == <<turns, blocks, shown>>
vars == <<remote, pending, file, session, retrying, answer, hist, lost>>

NoFile == [here |-> FALSE, counts |-> Zero, blocks |-> 0]
Unknown == [known |-> FALSE, counts |-> Zero]

-----------------------------------------------------------------------------
ChannelMoves ==
  /\ \E c \in Counter, n \in 0..MaxCount : pending' = [pending EXCEPT ![c] = n]
  /\ UNCHANGED <<remote, file, session, retrying, answer, hist, lost>>

TriesToStop(s) ==
  /\ session[s] = "working"
  /\ retrying[s] \/ turns[s] < MaxTurns
  /\ session' = [session EXCEPT ![s] = "stopping"]
  /\ IF retrying[s] THEN UNCHANGED <<turns, lost>>
     ELSE turns' = [turns EXCEPT ![s] = @ + 1] /\ lost' = lost \ {s}
  /\ UNCHANGED <<remote, pending, file, retrying, answer, blocks, shown>>

Asks(s) ==
  /\ session[s] = "stopping"
  /\ session' = [session EXCEPT ![s] = "deciding"]
  /\ answer' = [answer EXCEPT ![s] = [known |-> TRUE, counts |-> pending]]
  /\ UNCHANGED <<remote, pending, file, retrying, hist, lost>>

\* The pending counts are then None, as for a session without a role.
CannotAskDatabase(s) ==
  /\ AskingMayFail /\ ~remote /\ session[s] = "stopping"
  /\ session' = [session EXCEPT ![s] = "deciding"]
  /\ answer' = [answer EXCEPT ![s] = Unknown]
  /\ UNCHANGED <<remote, pending, file, retrying, hist, lost>>

\* Both are best effort.  When they fail the file stays as it was, or is cut
\* short, which reads as no snapshot.
FileFails(s) ==
  /\ FileMayFail
  /\ file' \in {file, NoFile}
  /\ lost' = lost \cup {s}

Save_AsTheFirst(s, n) ==
  file' = [here |-> TRUE, counts |-> answer[s].counts, blocks |-> 1] /\ UNCHANGED lost
Save(s, n) ==
  \/ file' = [here |-> TRUE, counts |-> answer[s].counts, blocks |-> n] /\ UNCHANGED lost
  \/ FileFails(s)
Clear(s) ==
  \/ file' = NoFile /\ UNCHANGED lost
  \/ FileFails(s)

Blocks(s) ==
  /\ session' = [session EXCEPT ![s] = "working"]
  /\ retrying' = [retrying EXCEPT ![s] = TRUE]
  /\ blocks' = [blocks EXCEPT ![s] = IF @ > MAX_BLOCKS_PER_STOP THEN @ ELSE @ + 1]
  /\ shown' = [shown EXCEPT ![s] = answer[s]]
  /\ UNCHANGED <<remote, pending, answer, turns>>

Passes(s) ==
  /\ session' = [session EXCEPT ![s] = "working"]
  /\ retrying' = [retrying EXCEPT ![s] = FALSE]
  /\ blocks' = [blocks EXCEPT ![s] = 0]
  /\ shown' = [shown EXCEPT ![s] = Unknown]
  /\ UNCHANGED <<remote, pending, answer, turns>>

\* A server that cannot be reached never blocks a stop.
CannotAskServer(s) ==
  /\ AskingMayFail /\ remote /\ session[s] = "stopping"
  /\ Passes(s)
  /\ UNCHANGED <<file, lost>>

Clean(s) == answer[s].known /\ answer[s].counts = Zero

FirstAttempt(s) ==
  /\ session[s] = "deciding" /\ ~retrying[s]
  /\ \/ Clean(s) /\ Clear(s) /\ Passes(s)
     \/ ~Clean(s) /\ answer[s].known /\ Save(s, 1) /\ Blocks(s)
     \/ ~answer[s].known /\ Blocks(s) /\ UNCHANGED <<file, lost>>

Grown(s) == file.here /\ \E c \in Counter : answer[s].counts[c] > file.counts[c]
MayBlockAgain_Always(s) == Grown(s)
MayBlockAgain_Twice(s) == Grown(s) /\ file.blocks + 1 < MAX_BLOCKS_PER_STOP
MayBlockAgain(s) == Grown(s) /\ file.blocks < MAX_BLOCKS_PER_STOP

Retry(s) ==
  /\ session[s] = "deciding" /\ retrying[s]
  /\ \/ ~answer[s].known /\ Passes(s) /\ UNCHANGED <<file, lost>>
     \/ Clean(s) /\ Clear(s) /\ Passes(s)
     \/ /\ answer[s].known /\ ~Clean(s) /\ MayBlockAgain(s)
        /\ Save(s, file.blocks + 1) /\ Blocks(s)
     \/ answer[s].known /\ ~Clean(s) /\ ~MayBlockAgain(s) /\ Clear(s) /\ Passes(s)

-----------------------------------------------------------------------------
Init ==
  /\ remote \in BOOLEAN /\ lost = {}
  /\ pending = Zero /\ file = NoFile
  /\ session = [s \in Session |-> "working"] /\ retrying = [s \in Session |-> FALSE]
  /\ answer = [s \in Session |-> Unknown] /\ turns = [s \in Session |-> 0]
  /\ blocks = [s \in Session |-> 0] /\ shown = [s \in Session |-> Unknown]

Steps(s) ==
  \/ TriesToStop(s)
  \/ Asks(s) \/ CannotAskDatabase(s) \/ CannotAskServer(s)
  \/ FirstAttempt(s) \/ Retry(s)

Next == ChannelMoves \/ \E s \in Session : Steps(s)

Spec == Init /\ [][Next]_vars

\* The harness runs the hook to its end, and a session that was blocked tries
\* to stop again sooner or later.
FairSpec == Spec /\ \A s \in Session : WF_vars(Steps(s))
-----------------------------------------------------------------------------
\* A turn is blocked at most MAX_BLOCKS_PER_STOP times, whatever an earlier turn
\* left in the snapshot file, unless the file could not be written in this one.
AtMostThreeBlocks == \A s \in Session : s \in lost \/ blocks[s] <= MAX_BLOCKS_PER_STOP

Ends(s) == session[s] = "deciding" /\ session'[s] = "working"

\* What arrived between the reminder and the retry is not passed over, unless
\* the turn has been blocked as often as it may be.  Only for hooks that ask a
\* server: a local one that could not read the database at first goes on with
\* the number of blocks of an earlier turn.
NewsIsNotPassedOver ==
  [][\A s \in Session :
       Ends(s) /\ retrying[s] /\ ~retrying'[s] /\ answer[s].known /\ remote
       => \/ s \in lost
          \/ blocks[s] = MAX_BLOCKS_PER_STOP
          \/ \A c \in Counter : answer[s].counts[c] <= shown[s].counts[c]]_vars

\* Whatever the channel does, a session that keeps trying gets to end its turn
\* ("a partner spamming the channel cannot livelock the agent"), unless the
\* snapshot that counts its blocks could not be written.
TurnEnds == \A s \in Session : retrying[s] ~> ~retrying[s] \/ s \in lost
=============================================================================
