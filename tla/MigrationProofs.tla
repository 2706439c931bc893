--------------------------- MODULE MigrationProofs ---------------------------
(***************************************************************************)
(* Proofs about module Migration, for any number of openers, builds and    *)
(* statements.                                                             *)
(*                                                                         *)
(* The writer sees the committed file and what it has added (DraftFollows),*)
(* and what it has added is everything up to the statement that is next    *)
(* (UpgradeProgress): so its COMMIT leaves an honest stamp, and an honest  *)
(* stamp is what the other openers go by.                                  *)
(***************************************************************************)
EXTENDS Migration, TLAPS

\* The transaction of the writer is about the file as it is: nothing commits
\* beside it.
DraftFollows ==
  writer # Nobody => draft.stamp = file.stamp /\ file.objects \subseteq draft.objects

Done(at) == {o \in Nat \X (1..Statements) :
               1 <= o[1] /\ (o[1] < at[1] \/ (o[1] = at[1] /\ o[2] < at[2]))}

\* An upgrade is for a file that is behind, skips no statement, and starts after
\* the step that the stamp vouches for.
UpgradeProgress ==
  \A p \in Opener : phase[p] = "upgrading" =>
    /\ ~UpToDate(file.stamp, Build[p])
    /\ next[p][1] > effective_version(file.stamp)
    /\ Done(next[p]) \subseteq draft.objects

IInv == TypeOK /\ DraftFollows /\ UpgradeProgress /\ StampIsHonest /\ OpenedIsMigrated

-----------------------------------------------------------------------------
LEMMA BuildFacts ==
  ASSUME NEW p \in Opener
  PROVE  Build[p] \in Nat /\ 0 < Build[p] /\ Build[p] < LEGACY_HASH_FLOOR
BY BuildAssumption, FloorAssumption DEF Versions

LEMMA MoreIsMore ==
  ASSUME NEW v \in Nat, NEW w \in Nat, v <= w
  PROVE  ObjectsUpTo(v) \subseteq ObjectsUpTo(w)
BY DEF ObjectsUpTo

\* Where an upgrade starts, all that comes before is done already.
LEMMA NothingDoneYet ==
  ASSUME NEW v \in Nat
  PROVE  Done(<<v + 1, 1>>) \subseteq ObjectsUpTo(v)
BY DEF Done, ObjectsUpTo

LEMMA OneMoreDone ==
  ASSUME NEW at \in Nat \X (1..Statements)
  PROVE  Done(After(at)) \subseteq Done(at) \cup {at}
<1> SUFFICES ASSUME NEW o \in Done(After(at)), o \notin Done(at) PROVE o = at
  OBVIOUS
<1>1. o \in Nat \X (1..Statements) /\ o = <<o[1], o[2]>> /\ at = <<at[1], at[2]>>
  BY DEF Done
<1>2. o[1] = at[1] /\ o[2] = at[2]
  BY <1>1, StepAssumption DEF Done, After
<1> QED
  BY <1>1, <1>2

\* An upgrade that has no statement left did everything.
LEMMA AllDone ==
  ASSUME NEW v \in Nat, NEW at \in Nat \X Nat, at[1] > v
  PROVE  ObjectsUpTo(v) \subseteq Done(at)
BY DEF Done, ObjectsUpTo

\* Who finds the file up to date finds everything in it.
LEMMA UpToDateIsMigrated ==
  ASSUME TypeOK, StampIsHonest, NEW p \in Opener, UpToDate(file.stamp, Build[p])
  PROVE  ObjectsUpTo(Build[p]) \subseteq file.objects
<1>1. file.stamp \in Int
  BY DEF TypeOK, File, Stamp
<1>2. Build[p] <= file.stamp /\ file.stamp < LEGACY_HASH_FLOOR
  BY <1>1, BuildFacts DEF UpToDate, is_newer
<1> QED
  BY <1>1, <1>2, BuildFacts, MoreIsMore DEF StampIsHonest

-----------------------------------------------------------------------------
(* The type invariant. *)

LEMMA Initially == Init => IInv
<1> SUFFICES ASSUME Init PROVE IInv
  OBVIOUS
<1>1. file \in File /\ draft = file /\ file.stamp = 0
  BY StepAssumption DEF Init, File, Stamp, StepObjects
<1>2. \A p \in Opener : <<1, 1>> \in (1..(Build[p] + 1)) \X (1..Statements)
  <2> TAKE p \in Opener
  <2>1. 1 \in 1..(Build[p] + 1) /\ 1 \in 1..Statements
    BY BuildFacts, StepAssumption
  <2> QED
    BY <2>1
<1>3. wal \in BOOLEAN
  BY Zenon DEF Init
<1>4. opens \in 0..MaxOpens /\ switcher = Nobody /\ writer = Nobody
  BY StepAssumption DEF Init
<1>5. /\ phase = [p \in Opener |-> "closed"]
      /\ stored = [p \in Opener |-> 0]
      /\ next = [p \in Opener |-> <<1, 1>>]
  BY DEF Init
<1>6. TypeOK
  BY <1>1, <1>2, <1>3, <1>4, <1>5, StepAssumption DEF TypeOK, Phase, Stamp
<1>7. DraftFollows /\ UpgradeProgress /\ StampIsHonest /\ OpenedIsMigrated
  BY <1>1, StepAssumption
     DEF Init, DraftFollows, UpgradeProgress, StampIsHonest, OpenedIsMigrated
<1> QED
  BY <1>6, <1>7 DEF IInv

\* The statement that an upgrade begins with is one of its build's.
LEMMA FirstStatement ==
  ASSUME NEW p \in Opener, NEW stamp \in Int, ~UpToDate(stamp, Build[p])
  PROVE  /\ effective_version(stamp) \in Nat
         /\ effective_version(stamp) + 1 \in 1..(Build[p] + 1)
BY BuildFacts DEF UpToDate, is_newer, effective_version, LEGACY_HASH_FLOOR

LEMMA NextStatement ==
  ASSUME NEW p \in Opener, NEW at \in (1..(Build[p] + 1)) \X (1..Statements), at[1] <= Build[p]
  PROVE  After(at) \in (1..(Build[p] + 1)) \X (1..Statements)
BY BuildFacts, StepAssumption DEF After

LEMMA TypeStep == TypeOK /\ [Next]_vars => TypeOK'
<1> SUFFICES ASSUME TypeOK, [Next]_vars PROVE TypeOK'
  OBVIOUS
<1> USE StepAssumption DEF TypeOK, Phase
<1>1. ASSUME NEW p \in Opener, Connect(p) PROVE TypeOK'
  BY <1>1 DEF Connect, Goes
<1>2. ASSUME NEW p \in Opener, SwitchIsDone(p) PROVE TypeOK'
  BY <1>2 DEF SwitchIsDone, Goes
<1>3. ASSUME NEW p \in Opener, SwitchBegins(p) PROVE TypeOK'
  BY <1>3 DEF SwitchBegins, Goes
<1>4. ASSUME NEW p \in Opener, SwitchEnds(p) PROVE TypeOK'
  BY <1>4 DEF SwitchEnds, Goes
<1>5. ASSUME NEW p \in Opener, SwitchGivesUp(p) PROVE TypeOK'
  BY <1>5 DEF SwitchGivesUp, Goes
<1>6. ASSUME NEW p \in Opener, ReadVersion(p) PROVE TypeOK'
  BY <1>6 DEF ReadVersion, Goes, File
<1>7. ASSUME NEW p \in Opener, BeginImmediate(p) PROVE TypeOK'
  BY <1>7 DEF BeginImmediate, Goes
<1>8. ASSUME NEW p \in Opener, BusyTimeout(p) PROVE TypeOK'
  BY <1>8 DEF BusyTimeout, Goes
<1>9. ASSUME NEW p \in Opener, CheckUnderLock(p) PROVE TypeOK'
  <2>1. draft.stamp \in Int
    BY DEF File, Stamp
  <2>2. CASE UpToDate(Recheck(p), Build[p])
    BY <1>9, <2>1, <2>2 DEF CheckUnderLock, Goes, Recheck, Stamp
  <2>3. CASE ~UpToDate(Recheck(p), Build[p])
    <3>1. LET first == <<effective_version(draft.stamp) + 1, 1>> IN
            first \in (1..(Build[p] + 1)) \X (1..Statements) /\ first \in Nat \X Nat
      BY <2>1, <2>3, FirstStatement DEF Recheck
    <3> QED
      BY <1>9, <2>1, <2>3, <3>1 DEF CheckUnderLock, Goes, Recheck, Stamp
  <2> QED
    BY <2>2, <2>3
<1>10. ASSUME NEW p \in Opener, RunStatement(p) PROVE TypeOK'
  <2>1. After(next[p]) \in (1..(Build[p] + 1)) \X (1..Statements) /\ After(next[p]) \in Nat \X Nat
    BY <1>10, NextStatement, BuildFacts DEF RunStatement
  <2>2. draft' \in File
    BY <1>10 DEF RunStatement, File
  <2> QED
    BY <1>10, <2>1, <2>2 DEF RunStatement
<1>11. ASSUME NEW p \in Opener, Commit(p) PROVE TypeOK'
  <2>1. draft' \in File
    BY <1>11, BuildFacts DEF Commit, File, Stamp
  <2> QED
    BY <1>11, <2>1 DEF Commit, Goes
<1>12. ASSUME NEW p \in Opener, Ends(p) PROVE TypeOK'
  BY <1>12 DEF Ends, Goes, Undone
<1>13. ASSUME HashRelease PROVE TypeOK'
  BY <1>13 DEF HashRelease, File, Stamp, StepObjects, own, LEGACY_HASH_FLOOR
<1>14. CASE UNCHANGED vars
  BY <1>14 DEF vars, own
<1> QED
  BY <1>1, <1>2, <1>3, <1>4, <1>5, <1>6, <1>7, <1>8, <1>9, <1>10, <1>11, <1>12, <1>13, <1>14
  DEF Next, Open

-----------------------------------------------------------------------------
(* The invariant.  Most steps touch neither the file nor a transaction.     *)

Quiet == UNCHANGED <<file, writer, draft, next>>

LEMMA QuietStep ==
  ASSUME IInv, TypeOK', Quiet, NEW p \in Opener, NEW to,
         Goes(p, to), to # "upgrading",
         to = "open" => UpToDate(file.stamp, Build[p])
  PROVE  IInv'
<1> USE DEF Quiet, IInv, Goes, TypeOK
<1>1. DraftFollows' /\ StampIsHonest'
  BY DEF DraftFollows, StampIsHonest
<1>2. UpgradeProgress'
  BY DEF UpgradeProgress
<1>3. OpenedIsMigrated'
  BY UpToDateIsMigrated DEF OpenedIsMigrated
<1> QED
  BY <1>1, <1>2, <1>3

\* Only the writer upgrades, and what it goes by is the file.
LEMMA WriterSees ==
  ASSUME IInv, NEW p \in Opener, phase[p] \in {"locked", "upgrading"}
  PROVE  /\ writer = p /\ writer # Nobody
         /\ draft.stamp = file.stamp /\ file.objects \subseteq draft.objects
         /\ \A q \in Opener \ {p} : phase[q] # "upgrading"
BY StepAssumption DEF IInv, TypeOK, DraftFollows

LEMMA CheckStep ==
  ASSUME IInv, TypeOK', NEW p \in Opener, CheckUnderLock(p)
  PROVE  IInv'
<1>1. phase[p] = "locked" /\ Recheck(p) = file.stamp /\ file.stamp \in Int
  BY WriterSees DEF CheckUnderLock, Recheck, IInv, TypeOK, File, Stamp
<1>2. UNCHANGED <<file, draft>> /\ StampIsHonest'
  BY DEF CheckUnderLock, IInv, StampIsHonest
<1>3. CASE UpToDate(file.stamp, Build[p])
  <2>1. Goes(p, "open") /\ writer' = Nobody /\ UNCHANGED next
    BY <1>1, <1>3 DEF CheckUnderLock
  <2>2. DraftFollows'
    BY <2>1 DEF DraftFollows
  <2>3. UpgradeProgress'
    BY <1>2, <2>1 DEF IInv, UpgradeProgress, Goes, TypeOK
  <2>4. OpenedIsMigrated'
    BY <1>2, <1>3, <2>1, UpToDateIsMigrated DEF IInv, OpenedIsMigrated, Goes, TypeOK
  <2> QED
    BY <1>2, <2>2, <2>3, <2>4 DEF IInv
<1>4. CASE ~UpToDate(file.stamp, Build[p])
  <2> DEFINE v == effective_version(file.stamp)
  <2>1. /\ Goes(p, "upgrading") /\ writer' = writer
        /\ next' = [next EXCEPT ![p] = <<v + 1, 1>>]
    BY <1>1, <1>4 DEF CheckUnderLock
  <2>2. v \in Nat /\ v + 1 > v
    BY <1>1, <1>4, FirstStatement
  <2>3. ObjectsUpTo(v) \subseteq file.objects
    BY <1>1 DEF effective_version, ObjectsUpTo, IInv, StampIsHonest, LEGACY_HASH_FLOOR
  <2>4. Done(<<v + 1, 1>>) \subseteq draft.objects
    BY <1>1, <2>2, <2>3, NothingDoneYet, WriterSees
  <2>5. DraftFollows'
    BY <1>2, <2>1 DEF IInv, DraftFollows
  <2>6. \A q \in Opener \ {p} : phase'[q] # "upgrading"
    BY <1>1, <2>1, WriterSees DEF Goes, IInv, TypeOK
  <2>7. next'[p] = <<v + 1, 1>> /\ next'[p][1] = v + 1
    BY <2>1 DEF IInv, TypeOK
  <2>8. UpgradeProgress'
    BY <1>2, <1>4, <2>2, <2>4, <2>6, <2>7 DEF UpgradeProgress
  <2>9. OpenedIsMigrated'
    BY <1>2, <2>1 DEF IInv, OpenedIsMigrated, Goes, TypeOK
  <2> QED
    BY <1>2, <2>5, <2>8, <2>9 DEF IInv
<1> QED
  BY <1>3, <1>4

LEMMA RunStep ==
  ASSUME IInv, TypeOK', NEW p \in Opener, RunStatement(p)
  PROVE  IInv'
<1>1. /\ UNCHANGED <<file, writer, phase>> /\ phase[p] = "upgrading"
      /\ draft'.stamp = draft.stamp /\ draft'.objects = draft.objects \cup {next[p]}
      /\ next'[p] = After(next[p])
  BY DEF RunStatement, IInv, TypeOK, File
<1>2. DraftFollows' /\ StampIsHonest' /\ OpenedIsMigrated'
  BY <1>1, WriterSees DEF IInv, DraftFollows, StampIsHonest, OpenedIsMigrated
<1>3. \A q \in Opener \ {p} : phase'[q] # "upgrading"
  BY <1>1, WriterSees
<1>4. Done(next'[p]) \subseteq draft'.objects
  BY <1>1, OneMoreDone DEF IInv, TypeOK, UpgradeProgress
<1>5. next'[p][1] > effective_version(file.stamp)
  <2>1. next[p][1] > effective_version(file.stamp) /\ effective_version(file.stamp) \in Nat
    BY <1>1, FirstStatement DEF IInv, TypeOK, UpgradeProgress, File, Stamp
  <2>2. next'[p][1] = next[p][1] \/ next'[p][1] = next[p][1] + 1
    BY <1>1 DEF After
  <2>3. next[p][1] \in Nat
    BY DEF IInv, TypeOK
  <2> QED
    BY <2>1, <2>2, <2>3
<1>6. UpgradeProgress'
  BY <1>1, <1>3, <1>4, <1>5 DEF IInv, UpgradeProgress
<1> QED
  BY <1>2, <1>6 DEF IInv

\* What a COMMIT puts into the file.
LEMMA Committed ==
  ASSUME IInv, NEW p \in Opener, Commit(p)
  PROVE  /\ file'.stamp = Build[p] /\ file'.objects = draft.objects
         /\ ObjectsUpTo(Build[p]) \subseteq draft.objects
         /\ file.objects \subseteq draft.objects
         /\ ~UpToDate(file.stamp, Build[p])
<1>1. phase[p] = "upgrading" /\ next[p][1] > Build[p] /\ next[p] \in Nat \X Nat
  BY DEF Commit, IInv, TypeOK
<1>2. file'.stamp = Build[p] /\ file'.objects = draft.objects
  BY DEF Commit, IInv, TypeOK, File
<1> QED
  BY <1>1, <1>2, AllDone, BuildFacts, WriterSees DEF IInv, UpgradeProgress

LEMMA CommitStep ==
  ASSUME IInv, TypeOK', NEW p \in Opener, Commit(p)
  PROVE  IInv'
<1>1. Goes(p, "open") /\ writer' = Nobody /\ phase[p] = "upgrading"
  BY DEF Commit
<1>2. DraftFollows'
  BY <1>1 DEF DraftFollows
<1>3. StampIsHonest'
  BY Committed DEF StampIsHonest
<1>4. OpenedIsMigrated'
  BY <1>1, Committed DEF IInv, OpenedIsMigrated, Goes, TypeOK
<1>5. \A q \in Opener : phase'[q] # "upgrading"
  BY <1>1, WriterSees DEF IInv, TypeOK, Goes
<1>6. UpgradeProgress'
  BY <1>5 DEF UpgradeProgress
<1> QED
  BY <1>2, <1>3, <1>4, <1>6 DEF IInv

LEMMA EndStep ==
  ASSUME IInv, TypeOK', NEW p \in Opener, Ends(p)
  PROVE  IInv'
<1>1. UNCHANGED <<file, draft, next>> /\ Goes(p, "closed") /\ writer' \in {writer, Nobody}
  BY DEF Ends, Undone
<1>2. DraftFollows' /\ StampIsHonest'
  BY <1>1 DEF IInv, DraftFollows, StampIsHonest
<1>3. UpgradeProgress' /\ OpenedIsMigrated'
  BY <1>1 DEF IInv, UpgradeProgress, OpenedIsMigrated, Goes, TypeOK
<1> QED
  BY <1>2, <1>3 DEF IInv

LEMMA HashStep ==
  ASSUME IInv, TypeOK', HashRelease
  PROVE  IInv'
<1>1. /\ writer = Nobody /\ UNCHANGED <<writer, draft, phase, next>>
      /\ file'.stamp \in Int /\ IsChecksum(file'.stamp) /\ file.objects \subseteq file'.objects
  BY DEF HashRelease, own, IsChecksum, LEGACY_HASH_FLOOR
<1>2. \A q \in Opener : phase'[q] # "upgrading"
  BY <1>1, StepAssumption DEF IInv, TypeOK
<1>3. DraftFollows' /\ StampIsHonest' /\ OpenedIsMigrated'
  BY <1>1 DEF IInv, DraftFollows, StampIsHonest, OpenedIsMigrated, IsChecksum, LEGACY_HASH_FLOOR
<1>4. UpgradeProgress'
  BY <1>2 DEF UpgradeProgress
<1> QED
  BY <1>3, <1>4 DEF IInv

LEMMA InvStep == IInv /\ [Next]_vars => IInv'
<1> SUFFICES ASSUME IInv, [Next]_vars PROVE IInv'
  OBVIOUS
<1>1. TypeOK'
  BY TypeStep DEF IInv
<1>2. ASSUME NEW p \in Opener,
             Connect(p) \/ SwitchIsDone(p) \/ SwitchBegins(p) \/ SwitchEnds(p) \/ SwitchGivesUp(p)
      PROVE  IInv'
  <2>1. PICK to \in Phase \ {"upgrading", "open"} : Goes(p, to)
    BY <1>2 DEF Connect, SwitchIsDone, SwitchBegins, SwitchEnds, SwitchGivesUp, Goes, Phase
  <2>2. Quiet
    BY <1>2 DEF Connect, SwitchIsDone, SwitchBegins, SwitchEnds, SwitchGivesUp, Quiet
  <2> QED
    BY <1>1, <2>1, <2>2, QuietStep
<1>3. ASSUME NEW p \in Opener, ReadVersion(p) PROVE IInv'
  <2> DEFINE to == IF UpToDate(file.stamp, Build[p]) THEN "open" ELSE "behind"
  <2>1. Goes(p, to) /\ Quiet
    BY <1>3 DEF ReadVersion, Quiet
  <2> QED
    BY <1>1, <2>1, QuietStep
<1>4. ASSUME NEW p \in Opener, BeginImmediate(p) PROVE IInv'
  <2>1. /\ phase' = [phase EXCEPT ![p] = "locked"]
        /\ draft' = file /\ UNCHANGED <<file, next>> /\ writer = Nobody
    BY <1>4 DEF BeginImmediate, Goes
  <2>2. \A q \in Opener : phase'[q] # "upgrading"
    BY <2>1, StepAssumption DEF IInv, TypeOK
  <2>3. DraftFollows' /\ StampIsHonest' /\ OpenedIsMigrated'
    BY <2>1 DEF IInv, TypeOK, DraftFollows, StampIsHonest, OpenedIsMigrated
  <2> QED
    BY <1>1, <2>2, <2>3 DEF IInv, UpgradeProgress
<1>5. ASSUME NEW p \in Opener, BusyTimeout(p) PROVE IInv'
  <2>1. Goes(p, "closed") /\ Quiet
    BY <1>5 DEF BusyTimeout, Quiet
  <2> QED
    BY <1>1, <2>1, QuietStep
<1>6. CASE UNCHANGED vars
  BY <1>6 DEF vars, own, IInv, TypeOK, DraftFollows, UpgradeProgress, StampIsHonest, OpenedIsMigrated
<1> QED
  BY <1>1, <1>2, <1>3, <1>4, <1>5, <1>6, CheckStep, RunStep, CommitStep, EndStep, HashStep
  DEF Next, Open

THEOREM Invariance == Spec => []IInv
BY Initially, InvStep, PTL DEF Spec

-----------------------------------------------------------------------------
(* What follows for every number of openers, builds and statements. *)

\* The variables keep to their types, and each lock has the holder that the
\* phases of the openers say it has.
THEOREM TypeCorrect == Spec => []TypeOK
BY Invariance, PTL DEF IInv

\* A stamp is honest: whatever was killed in the middle of an upgrade and
\* whatever stamped the file before, all that the stamp stands for is there.
THEOREM StampsAreHonest == Spec => []StampIsHonest
BY Invariance, PTL DEF IInv

\* Nobody uses a database that is not migrated to its own build.
THEOREM OpenMeansMigrated == Spec => []OpenedIsMigrated
BY Invariance, PTL DEF IInv

\* Concurrent openers run each step once.
THEOREM NothingRunsTwice == Spec => []StepsRunOnce
<1>1. IInv => StepsRunOnce
  BY DEF IInv, UpgradeProgress, StepsRunOnce
<1> QED
  BY <1>1, Invariance, PTL

\* Only COMMIT and the releases that stamp checksums change the file.
LEMMA FileChanges ==
  ASSUME IInv, [Next]_vars, file' # file
  PROVE  HashRelease \/ \E p \in Opener : Commit(p)
BY DEF Next, Open, Connect, SwitchIsDone, SwitchBegins, SwitchEnds, SwitchGivesUp, ReadVersion,
       BeginImmediate, BusyTimeout, CheckUnderLock, RunStatement, Ends, Undone, vars

\* No build puts a lower version in the place of a higher one.
THEOREM VersionsNeverGoDown == Spec => NeverDowngraded
<1>1. IInv /\ [Next]_vars =>
        [~IsChecksum(file'.stamp) /\ ~IsChecksum(file.stamp)
           => file'.stamp >= file.stamp]_vars
  <2> SUFFICES ASSUME IInv, [Next]_vars,
                      ~IsChecksum(file'.stamp), ~IsChecksum(file.stamp)
               PROVE  file'.stamp >= file.stamp
    OBVIOUS
  <2>1. file.stamp \in Int
    BY DEF IInv, TypeOK, File, Stamp
  <2>2. CASE file' = file
    BY <2>1, <2>2
  <2>3. CASE HashRelease
    BY <2>3 DEF HashRelease, IsChecksum, LEGACY_HASH_FLOOR
  <2>4. ASSUME NEW p \in Opener, Commit(p) PROVE file'.stamp >= file.stamp
    BY <2>1, <2>4, Committed, BuildFacts DEF UpToDate, is_newer, IsChecksum, LEGACY_HASH_FLOOR
  <2> QED
    BY <2>2, <2>3, <2>4, FileChanges
<1> QED
  BY <1>1, Invariance, PTL DEF Spec, NeverDowngraded

\* What a build makes appears in the file together with the version that says so.
THEOREM UpgradesAreAtomic == Spec => UpgradesAreWhole
<1>1. IInv /\ [Next]_vars =>
        [file'.objects # file.objects =>
           \/ IsChecksum(file'.stamp)
           \/ file'.stamp # file.stamp /\ ObjectsUpTo(file'.stamp) \subseteq file'.objects]_vars
  <2> SUFFICES ASSUME IInv, [Next]_vars, file'.objects # file.objects
               PROVE  \/ IsChecksum(file'.stamp)
                      \/ /\ file'.stamp # file.stamp
                         /\ ObjectsUpTo(file'.stamp) \subseteq file'.objects
    OBVIOUS
  <2>1. CASE HashRelease
    BY <2>1 DEF HashRelease, IsChecksum, LEGACY_HASH_FLOOR
  <2>2. ASSUME NEW p \in Opener, Commit(p)
        PROVE  file'.stamp # file.stamp /\ ObjectsUpTo(file'.stamp) \subseteq file'.objects
    BY <2>2, Committed DEF UpToDate
  <2> QED
    BY <2>1, <2>2, FileChanges
<1> QED
  BY <1>1, Invariance, PTL DEF Spec, UpgradesAreWhole
=============================================================================
