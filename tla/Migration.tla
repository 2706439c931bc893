------------------------------ MODULE Migration ------------------------------
(***************************************************************************)
(* Opening a channel database (db/connection.py, db/migrations.py).  Tool  *)
(* calls run in worker threads and in several servers and sessions, so     *)
(* many openers, of builds with more or fewer upgrade steps, open one file *)
(* at once.  An opener switches the file to WAL, reads the stamp of its    *)
(* schema without a lock, and upgrades it under the write lock if needed.  *)
(* Any opener may fail or be killed between two statements.                *)
(*                                                                         *)
(* Releases that stamped a checksum instead of a version are not part of   *)
(* the source; HashRelease is what the migrations expect of them.          *)
(*                                                                         *)
(* A definition X_Fault is X with a plausible mistake; nothing uses it: it *)
(* shows which property would notice that mistake.                         *)
(***************************************************************************)
EXTENDS Integers

CONSTANTS
  Opener,       \* the connections that are opened
  Build,        \* Build[p]: SCHEMA_VERSION of the build that p runs
  Statements,   \* how many statements a step consists of
  Nobody,
  MaxOpens      \* bound on the times the file is opened

Versions == {Build[p] : p \in Opener}

ASSUME BuildAssumption == \A p \in Opener : Build[p] \in Nat \ {0}
ASSUME StepAssumption == Statements \in Nat \ {0} /\ MaxOpens \in Nat /\ Nobody \notin Opener

\* Any stamp at or above it is a checksum, and so is a negative one (the header
\* keeps a signed number); every version is below it.
LEGACY_HASH_FLOOR == 10000
IsChecksum(stamp) == stamp < 0 \/ stamp >= LEGACY_HASH_FLOOR
ASSUME FloorAssumption == \A v \in Versions : v < LEGACY_HASH_FLOOR

VARIABLES
  wal,      \* whether the file is in WAL mode
  switcher, \* who holds the exclusive lock that the switch to WAL needs
  file,     \* the committed file: its stamp, and the objects in it
  writer,   \* who is in a BEGIN IMMEDIATE transaction
  draft,    \* the file as the writer sees it
  phase,    \* what each opener is doing
  stored,   \* the stamp that it read last
  next,     \* the statement that it runs next: <<step, number>>
  opens     \* how often the file was opened

own  == <<phase, stored, next>>
vars == <<wal, switcher, file, writer, draft, own, opens>>

\* What a step makes: its statements, each of which is skipped when what it
\* makes is there already.
StepObjects(v) == {v} \X (1..Statements)
ObjectsUpTo(v) == (1..v) \X (1..Statements)

Stamp == Int
File  == [stamp : Stamp, objects : SUBSET (Nat \X Nat)]

Phase == {"closed", "connecting", "switching", "connected", "behind",
          "locked", "upgrading", "open"}

-----------------------------------------------------------------------------
effective_version_AsStored(stamp) == stamp
effective_version(stamp) == IF stamp <= 0 \/ stamp >= LEGACY_HASH_FLOOR THEN 0 ELSE stamp

is_newer_NoFloor(stamp, current) == current < stamp
is_newer(stamp, current) == current < stamp /\ stamp < LEGACY_HASH_FLOOR

UpToDate(stamp, current) == stamp = current \/ is_newer(stamp, current)

Goes(p, to) == phase' = [phase EXCEPT ![p] = to]

\* connect: a connection of its own, which reads the journal mode.
Connect(p) ==
  /\ phase[p] = "closed" /\ opens < MaxOpens
  /\ opens' = opens + 1
  /\ Goes(p, IF wal THEN "connected" ELSE "connecting")
  /\ UNCHANGED <<wal, switcher, file, writer, draft, stored, next>>

\* Another opener may have switched the file meanwhile.
SwitchIsDone(p) ==
  /\ phase[p] = "connecting" /\ wal
  /\ Goes(p, "connected")
  /\ UNCHANGED <<wal, switcher, file, writer, draft, stored, next, opens>>

\* The switch takes an exclusive lock for a moment.
SwitchBegins(p) ==
  /\ phase[p] = "connecting" /\ ~wal
  /\ switcher = Nobody
  /\ switcher' = p
  /\ Goes(p, "switching")
  /\ UNCHANGED <<wal, file, writer, draft, stored, next, opens>>

SwitchEnds(p) ==
  /\ phase[p] = "switching"
  /\ wal' = TRUE /\ switcher' = Nobody
  /\ Goes(p, "connected")
  /\ UNCHANGED <<file, writer, draft, stored, next, opens>>

\* "database is locked": at once, so enable_wal tries again, until it gives up.
SwitchGivesUp(p) ==
  /\ phase[p] = "connecting" /\ switcher # Nobody
  /\ Goes(p, "closed")
  /\ UNCHANGED <<wal, switcher, file, writer, draft, stored, next, opens>>

\* ensure_schema: a look at the header, without a lock.
ReadVersion(p) ==
  /\ phase[p] = "connected"
  /\ stored' = [stored EXCEPT ![p] = file.stamp]
  /\ Goes(p, IF UpToDate(file.stamp, Build[p]) THEN "open" ELSE "behind")
  /\ UNCHANGED <<wal, switcher, file, writer, draft, next, opens>>

BeginImmediate(p) ==
  /\ phase[p] = "behind" /\ writer = Nobody
  /\ writer' = p /\ draft' = file
  /\ Goes(p, "locked")
  /\ UNCHANGED <<wal, switcher, file, stored, next, opens>>

BusyTimeout(p) ==
  /\ phase[p] = "behind" /\ writer # Nobody
  /\ Goes(p, "closed")
  /\ UNCHANGED <<wal, switcher, file, writer, draft, stored, next, opens>>

Recheck_Never(p) == stored[p]
\* The version on which the upgrade depends is read again under the lock.
Recheck(p) == draft.stamp

CheckUnderLock(p) ==
  /\ phase[p] = "locked"
  /\ stored' = [stored EXCEPT ![p] = Recheck(p)]
  /\ IF UpToDate(Recheck(p), Build[p])
     THEN writer' = Nobody /\ Goes(p, "open") /\ UNCHANGED next
     ELSE /\ next' = [next EXCEPT ![p] = <<effective_version(Recheck(p)) + 1, 1>>]
          /\ Goes(p, "upgrading")
          /\ UNCHANGED writer
  /\ UNCHANGED <<wal, switcher, file, draft, opens>>

After(at) == IF at[2] < Statements THEN <<at[1], at[2] + 1>> ELSE <<at[1] + 1, 1>>

RunStatement(p) ==
  /\ phase[p] = "upgrading" /\ next[p][1] <= Build[p]
  /\ draft' = [draft EXCEPT !.objects = @ \cup {next[p]}]
  /\ next' = [next EXCEPT ![p] = After(@)]
  /\ UNCHANGED <<wal, switcher, file, writer, phase, stored, opens>>

Commit(p) ==
  /\ phase[p] = "upgrading" /\ next[p][1] > Build[p]
  /\ draft' = [draft EXCEPT !.stamp = Build[p]]
  /\ file' = draft'
  /\ writer' = Nobody
  /\ Goes(p, "open")
  /\ UNCHANGED <<wal, switcher, stored, next, opens>>

\* What is left of a transaction that did not commit.
Undone == file

\* A statement or COMMIT fails, or the process is killed: SQLite undoes the
\* transaction, and the connection is gone.  Closing the connection is the same.
Ends(p) ==
  /\ phase[p] # "closed"
  /\ Goes(p, "closed")
  /\ IF writer = p THEN writer' = Nobody /\ file' = Undone ELSE UNCHANGED <<writer, file>>
  /\ switcher' = IF switcher = p THEN Nobody ELSE switcher
  /\ UNCHANGED <<wal, draft, stored, next, opens>>

\* A release that stamps checksums opens a file whose stamp is not its own: it
\* brings the file to its shape, which is some part of step 1.
HashRelease ==
  /\ writer = Nobody /\ wal
  /\ ~IsChecksum(file.stamp)
  /\ opens < MaxOpens /\ opens' = opens + 1
  /\ \E stamp \in {-1, LEGACY_HASH_FLOOR}, shape \in SUBSET StepObjects(1) :
       file' = [stamp |-> stamp, objects |-> file.objects \cup shape]
  /\ UNCHANGED <<wal, switcher, writer, draft, own>>

-----------------------------------------------------------------------------
\* A file that is not there yet, or one of the time before the stamps.
Init ==
  /\ wal = FALSE /\ switcher = Nobody /\ writer = Nobody /\ opens = 0
  /\ \E shape \in SUBSET StepObjects(1) : file = [stamp |-> 0, objects |-> shape]
  /\ draft = file
  /\ phase = [p \in Opener |-> "closed"]
  /\ stored = [p \in Opener |-> 0]
  /\ next = [p \in Opener |-> <<1, 1>>]

Open(p) ==
  \/ Connect(p) \/ SwitchIsDone(p) \/ SwitchBegins(p) \/ SwitchEnds(p) \/ SwitchGivesUp(p)
  \/ ReadVersion(p) \/ BeginImmediate(p) \/ BusyTimeout(p) \/ CheckUnderLock(p)
  \/ RunStatement(p) \/ Commit(p)

Next == HashRelease \/ \E p \in Opener : Open(p) \/ Ends(p)

Spec == Init /\ [][Next]_vars
-----------------------------------------------------------------------------
(* What opening a database guarantees. *)

TypeOK ==
  /\ wal \in BOOLEAN /\ opens \in 0..MaxOpens
  /\ file \in File /\ draft \in File
  /\ phase \in [Opener -> Phase] /\ stored \in [Opener -> Stamp]
  /\ next \in [Opener -> Nat \X Nat]
  /\ \A p \in Opener :
       /\ next[p] \in (1..(Build[p] + 1)) \X (1..Statements)
       /\ switcher = p <=> phase[p] = "switching"
       /\ writer = p <=> phase[p] \in {"locked", "upgrading"}
  /\ switcher \in Opener \cup {Nobody} /\ writer \in Opener \cup {Nobody}

\* A file that is stamped with a version has all that the steps up to it make,
\* whoever stamped it and whatever stamp it had before.
StampIsHonest ==
  0 < file.stamp /\ file.stamp < LEGACY_HASH_FLOOR => ObjectsUpTo(file.stamp) \subseteq file.objects

\* "opening a half-migrated database would fail later": whoever uses the
\* database finds all that the steps of its own build make.
OpenedIsMigrated ==
  \A p \in Opener : phase[p] = "open" => ObjectsUpTo(Build[p]) \subseteq file.objects

\* Builds of different versions do not migrate each other's databases: no build
\* puts a lower version in the place of a higher one.
NeverDowngraded ==
  [][~IsChecksum(file'.stamp) /\ ~IsChecksum(file.stamp)
       => file'.stamp >= file.stamp]_vars

\* An upgrade that is not finished leaves no trace: what a build makes appears
\* together with the version that says so.
UpgradesAreWhole ==
  [][file'.objects # file.objects =>
       \/ IsChecksum(file'.stamp)
       \/ file'.stamp # file.stamp /\ ObjectsUpTo(file'.stamp) \subseteq file'.objects]_vars

\* Concurrent openers upgrade once: nobody runs a step that the stamp of the
\* file already vouches for.
StepsRunOnce ==
  \A p \in Opener : phase[p] = "upgrading" => next[p][1] > effective_version(file.stamp)
=============================================================================
