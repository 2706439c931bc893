# Verification of ai-agent-channel

ai-agent-channel is a mailbox between AI agents: each agent plays a *role*, the roles
exchange messages through the tools of an MCP server, agree on *pins* (versioned
contracts), and owe each other *debts* (messages that require an action). The state is
one SQLite file per channel. This directory holds TLA+ models of the parts of the
program where order matters, the TLC configurations that check them, and TLAPS proofs.

Paths below are relative to the repository; `db/`, `tools/`, `hooks.py` and so on are in
`src/ai_agent_channel/`.

## 1. The system

### Components, their state and their operations

| component | state | operations | hard behaviour |
|---|---|---|---|
| proposals, votes, pins (`tools/pins.py`, `tools/messaging.py`, `db/pins.py`) | `messages`, `acknowledgements`, `pinned_entries` | send, revise, acknowledge, pin_set, delete | a vote, a revision and a pin in any order and in one millisecond; approvals used twice; a void taken back |
| retirement (`db/supersede.py`, `tools/cleanup.py`) | `superseded_at`, retirement events | live: by a pin, a vote, a deletion; `backfill_superseded`, `undo_backfill` | chains of messages about messages; a pass over old history next to live rounds; undo after a live retirement |
| debts and work status (`db/obligations.py`, `tools/obligations.py`) | `status`, `resolved_by`, `work_status`, `blocked_by`, the event log | resolve, confirm, reopen, set_work_status, delete | the lists are computed from the log: which event is the newest, of which kind, by whom |
| triage (`db/summary.py`, `tools/waiting.py`) | none of its own; `wait_for_mail` remembers what it has seen | channel_status, wait_for_mail | every list is a SELECT of its own; other tools run in between |
| stop hook (`hooks.py`) | one snapshot file per role | run by the harness when a turn ends | the channel moves while it asks; the file is shared by the sessions of a role; writing may fail |
| opening a database (`db/connection.py`, `db/migrations.py`, `db/schema.py`) | journal mode, `user_version`, the tables | connect, enable_wal, ensure_schema | many processes of several builds open one file; any may be killed between two statements |
| delivery (`db/messages.py`, `tools/messaging.py`, `tools/waiting.py`) | `deliveries`: read and opened, per recipient | mark_read, read_inbox, wait_for_reply | marks move while a role waits; a listing shows less than it fetched |
| uploads (`db/blobs.py`, `tools/content.py`) | `content_blobs` | append, seal, reference | several calls per document; a send reads the upload before its transaction |
| registry and board access (`auth.py`, `tools/admin.py`) | `admin.db`: channels, tokens, view keys, links, sessions | create, rotate, add_role, delete, board links | authenticated before the transaction; half a rotation; a link redeemed twice; expiry and purges in passing |
| HTTP server (`http.py`) | counters of held long polls | `/status?wait=N` | a slot has to come back on every way out; disconnects are noticed late |
| console client (`cli.py`, `client.py`) | counts seen last | watch | outages, refusals, restarts; counts that go up and down |
| search, board pages, projections, release notes, registration of tools | none | | none that a model would show |

They interact through the database. Every tool that writes runs its checks and its
writes in one `BEGIN IMMEDIATE` transaction (`tools/common.py`, `open_channel_db(write=True)`),
so a tool call is one atomic step, and what is left to go wrong among the writers is the
*order of calls* and the *clock*. Reads run without a transaction: each SELECT sees a
different moment. The stop hook, the watchers and the openers are processes of their own
and interleave at every step; so do the requests on the server's event loop, at every
`await`, and the calls on the registry, which are authenticated by one statement and
executed by a later transaction.

### What makes each component correct

* A version of a contract is written only when everybody it needs agrees to the text *as
  it is now*; an approval is spent once; what was approved is neither rewritten nor lost;
  a key that became a contract stays one; nobody whose consent is missing is left unasked.
* Retiring a message retires all that asks about it; a cleanup of old history touches
  neither live rounds nor approval records, and its undo never revives what a live rule
  retired.
* It takes both parties to close a debt; an open debt is on somebody's list; whose task it
  is depends on who moved last; a retry of taking it counts; a live blocker is owed.
* What is new wakes `wait_for_mail`, the backlog does not.
* The stop hook reminds, and lets go: at most three times per turn, never passing over news.
* Nobody uses a half-migrated database; versions do not go down.
* Every answer reaches each role it was sent to that goes on waiting, none is skipped; what
  a published hash stands for is what was sent; a listing marks only what it showed.
* A role of a channel has exactly one token that works; what was asked for with a token that
  was rotated since opens nothing; a link opens one session, and cleaning up shuts nobody out.
* Held polls are counted right and their slots come back; a watcher prints what it takes for
  known, and what stays in the channel is reported in the end.

`PROJECT.json` lists the hazards one by one, each at its line with the properties that
cover it or the reason why none does yet.

## 2. Modules

    AgreedPins            what pins promise, without clocks and retirement
      ^ implemented by
    Consent               proposals, votes, pins, live retirement
      ^ extended by       ^ proved in
    Cleanup               ConsentProofs
      ^ proved in         ^ extended by
    CleanupProofs         CleanupProofs

    DebtLoop              what a debt promises, without logs and lists
      ^ implemented by
    Obligations           debts, work status, the lists
      ^ extended by       ^ proved in
    Triage                ObligationsProofs
      ^ proved in
    ObligationsProofs

    (Triage is wait_for_mail reading the lists of Obligations.)

    Uploads               documents sent in pieces
      ^ extended by
    Delivery              answers, read marks, wait_for_reply, read_inbox
      ^ proved in
    DeliveryProofs

    LongPoll              the server's held polls, among any clients
      ^ implemented and extended by
    Watch                 the watch command as client
      ^ proved in
    WatchProofs

    Access                what the registry promises, call by call, without rows,
      ^ implemented by    transactions and clocks
    Registry              channels, tokens, keys, links and sessions
      ^ proved in
    RegistryProofs

    StopHook              the stop hook and its snapshot file
      ^ proved in
    StopHookProofs

    Migration             opening a database
      ^ proved in
    MigrationProofs

`MCConsent`, `MCCleanup`, `MCObligations`, `MCTriage`, `MCDelivery`, `MCWatch`,
`MCRegistry`, `MCStopHook` and `MCMigration` give the constants small values for TLC. A
definition called `X_Fault` (for example `Fresh_TieCounts`) is `X` with a plausible
programming mistake. Nothing uses it; put in the place of `X` it makes TLC violate a
property, which shows that the property notices that mistake. `PROJECT.json` pairs them under "mutants".

### Consent

| in the module | in the code |
|---|---|
| `clock`, `Tick` | the database clock, in milliseconds (`NOW_SQL`). Any number of calls falls in one millisecond. It is assumed not to go back |
| `message[m]`, `deleted`, `superseded` | the row of `messages`; `deleted_at`, `superseded_at` set |
| `vote[m][r]` | the row of `acknowledgements`: decision and time; a new one overwrites |
| `pins` | `pinned_entries`, in id order: key, `approved_by_message_id`, time |
| `onText`, `deaths` | history: whose vote was cast on the present text; the `declared_dead` events |
| `Fresh`, `OpenRounds`, `AwaitingAck` | the SQL of `db/pins.py` |
| `CheckPinApproval`, `QuorumReached`, `Needed` | the checks of `pin_set` |
| `SendMessage`, `ReviseMessage`, `Acknowledge`, `PinSet`, `DeleteMessage` | the tools, with every write they make: a pin retires all proposals for its key and all that hangs on them; a vote retires the nudges it answers; a deletion cascades |

`Hosted` chooses between a channel whose roster the registry knows and stdio mode, where
`pin_set` asks for the agreement of anyone else and the caller must be a party. A text
is a model value with the set of keys it mentions (`NamedIn`): that is all that the rules
for unlinked proposals look at. Debts are left to Obligations.

`PinsAreAgreed` says that Consent implements AgreedPins under a mapping that tells who
agrees from the *history* of the votes, whereas the code tells it from timestamps.

### Cleanup

Extends Consent by the history of the releases that had no retirement rules (`before`),
the time a message was sent, who wrote a version, and of each message its `message_events`
about retirement (`log`), to which the live rules, the passes and the undos append.
`LastRetirement` is the query of `undo_backfill` for the newest of them, in which an undo is
no retirement. `byRules` is a history variable: the messages that a live rule ever retired;
`LiveRetirementsStay` compares it with what is retired now, so that an event looked up
wrongly, at any time later, shows. `MaxEvents` bounds the passes: none takes a message that
has so many events. `Apply` and `Undo` are `backfill_superseded` and `undo_backfill`; all tools of
Consent run next to them. The preview only reads: that the caller looked at it some time
ago is modelled by letting them name *any* messages, which `Accepted` judges by what is
true now. `include_by_reference` is taken as true (it only enlarges what a pass may
retire); `expect_count` and `snapshot_at` can only refuse a call and are left out.

### Obligations and DebtLoop

`log[m]` is what `message_events` holds about message m. The lists (`Untaken`,
`NeedsYou`, `AwaitingDone`, `ResolvedForYou`, `Blocked`, ...) are the queries of
`db/summary.py` and `db/obligations.py`, which find the newest event of certain kinds.
DebtLoop knows only who says that a debt is closed; `DebtsNeedBothParties` maps that to
`resolved_by` and the newest event of the loop.

### Triage

Each SELECT of `channel_summary` and of `actionable_ids` is a step (`Select`), in their
order, and between two of them any tool of Obligations or a read mark may happen
(`OthersAct`). `wait_for_mail` is its entry look, its polls, and what it remembers from
one to the next (`known`). `channel_status` is the same SELECTs once, so it has no action
of its own. Of the answers the items are modelled, not the numbers. `awaiting_ack` is left
out: no message of Obligations is a proposal.

### Uploads and Delivery

| in the module | in the code |
|---|---|
| `blob`, `StartUpload`, `AppendTo`, `Seal` | `content_blobs`, `blob_append`, `blob_seal`. A text only grows, so the number of its pieces stands for it and for its hash |
| `draft`, `BodyOrRef`, `Send` | `body_or_ref` reads the text of an upload, the transaction of `send_message` comes later; the uploader's other sessions may call in between |
| `reply`, `parent` | the answers to one message in id order, and whether that message is deleted |
| `read`, `opened` | `read_at` and `opened_at` of a role's row in `deliveries` |
| `ReadInbox`, `Delivered` | `read_inbox` fetches one row beyond its limit, and marks the rows it shows |
| `wait`, `WaitStarts`, `Poll`, `FindReply` | `wait_for_reply` and the polls of `_poll_until` |
| `last`, `handed` | what the last wait of a role returned, and all that its waits ever returned |

A role that waits repeatedly has three ways of getting past what it was handed, and each
role of an instance has one: it marks the answer read, it passes it as `after_id`, or it
passes it and asks with `include_read`.

### LongPoll and Watch

A request is where its coroutine stands (`phase`): read in a thread, deciding on the loop,
waiting for its client to hang up or for the next poll, or answered. The counters change
without an `await` between check and increment (`Arrive`), and in the `finally` block
(`Release`), also when the read fails or the task is cancelled (`Break`). `gone` is what
the server notices only in `Wake`. A window is a number of polls.

A watcher is the loop of `watch`: it asks, hears, is refused, loses the server, pauses and
asks again, and may be killed and started again in a new session at any moment, which
leaves its poll behind. `told` is what its session has been told: the lines that were
printed. LongPoll by itself allows clients to do anything; Watch implements it.

### Registry and Access

A call is authenticated (`Ask`), later takes the write lock (`Begin`), then runs its
statements one by one on its view of the database (`Execute` of `Effect` along `Program`),
refuses, commits, or fails at any point (`Fail`). Between the first two other calls commit:
the identity may be stale by then. A token stands for its hash and is the row's id. View
keys record the token that they were asked for with, links and sessions the key they stand
for. Keys from before issuers were recorded (`unknown`) may be anybody's; an instance begins
with an empty registry or with one such key. `asked` is history: whose token asked for a
key, which the code knows only as far as it recorded it. The registry is that of one
channel; the admin token has no row.

Access knows no rows, transactions and instants: each call happens at once and completely,
and a token or key goes from `unissued` to `held` (a role's token) or to `link`, `session` and
`shut`, and ends `revoked`. `CallsActAtOnce` says that Registry implements it under a mapping
that reads the committed tables (`Stage`): a role is held by its live tokens, and a key whose
issuer was revoked counts as revoked, whether or not a statement has reached its row. The
commit of a transaction is then the call, and everything else that Registry does is unseen.

### StopHook

The harness runs the hook when a session tries to end a turn: it asks the channel
(`Asks`, or fails to), then decides with the snapshot file (`FirstAttempt`, `Retry`). The
counts of the channel change by themselves, up and down (`ChannelMoves`). `FileFails`
lets the file stay as it was or be cut short. `remote` separates the two ways of asking,
which treat failure differently: an unreachable server lets the turn end, an unreadable
database reminds once. `lost` marks the turns in which the file could not be written: the
hook then decides by nothing, or by an older snapshot, and the properties about the number of
blocks do not speak of these turns (section 3 says what happens in them). What they do cover
is a file that an *earlier* turn could not write or remove.

### Migration

An opener is a process (or a connection in a thread): it reads the journal mode, switches
the file to WAL if need be, reads the stamp without a lock, and, when the file is behind,
takes the write lock, reads the stamp again, runs statement after statement and commits.
`Ends` is a failure, a kill, or the end of the connection, at any of these points. What a
statement makes is an element of a set, skipped when it is there. `Build` gives openers
different versions. `HashRelease` is external: the releases that stamped a checksum are
not in the repository, and are modelled by what the migrations expect of them: a stamp at or
above `LEGACY_HASH_FLOOR`, or a negative one, which `effective_version` takes for none.

## 3. What the runs check

All runs leave deadlock unchecked: messages, events, turns and opens are bounded, and an
instance that has used them up stops, which the program does not.

| run | instance | properties |
|---|---|---|
| `consent_rounds` | 2 roles, one reserved key, 2 proposals, 2 texts, 3 ms, 2 versions | a vote that counts is one on the present text; a second round opens only over a dead one; approved text is frozen; pins are agreed pins |
| `consent_quorum` | 3 roles, one free key, 1 proposal, linked or only mentioning the key, 3 versions | a contract stays one; who is needed is asked |
| `consent_stdio` | 2 roles without a roster, 3 messages about one another, proposals or not | approvals stand; settling retires chains of nudges; pins are agreed pins |
| `cleanup_backfill` | 2 roles, 2 keys, 2 proposals linked or mentioning both and citing the first, 2 versions, a pass per message | what a live rule ever retired is retired; a round settled by several keys needs all of them; live rounds and approval records survive |
| `obligations_debts` | 2 roles, 2 messages, debts or not, four events | whose task a debt is, is told by its last movers, and it takes two to be done; an open debt is listed; a retry means taken; live blockers are owed; DebtLoop is implemented |
| `triage_wait` | 2 debts, two events, two polls, all SELECTs apart | news wakes, backlog does not |
| `delivery_replies` | 2 readers, one marking, one passing `after_id` and rereading, 2 answers to one or both, 1 upload of up to 2 pieces, listings of 1, waits of 2 looks | what was sent is the sealed text; no answer is skipped, each arrives; a listing opens only the newest |
| `watch_long_poll` | 2 watchers with a token each, 2 requests, 1 slot, windows of 2 looks, one count up to 2 | counters count the held requests; slots come back; the session knows what its watcher takes for known; what stays is reported |
| `registry_board` | 2 callers, 2 founders and a third role, 2 keys per issuer, 4 calls, 5 tokens, 3 instants | one token per role; a rotated token opens nothing; one session per link; the cap takes the oldest; purges spare the live; each call is as if done at once (Access) |
| `stophook_one_session` | 1 session, 2 counters up to 2, 2 turns, all failures | three blocks; news is not passed over; turns end |
| `migration_openers` | 3 openers, builds 1, 2, 2, two statements a step, 4 opens | honest stamps; nobody uses a half-migrated file; no downgrade |

Why these bounds. The timestamps of Consent are compared in pairs (vote and revision, vote
and version, message and version), so two distinct milliseconds give every order and every
tie of a pair, and three those of a vote, a revision and a second vote. Reusing an
approval, a void taken back or one round shadowing another takes two proposals; a chain of
nudges takes three messages; a key that falls back to free writes takes three versions.
Four events are what resolve, confirm, reopen, resolve takes, the shortest way to a stale
confirmation. A pass, its undo, a live retirement and a second undo are what it takes to go
by the wrong event; a message that is cleaned up twice is left to the proofs. A debt that
leaves one list for another while a second arrives takes two
debts. A fourth block needs three retries that each find more than before: two counters
that grow in turn, up to two each, leave room for them; two turns let the file of one be
found by the next. In
Migration, two builds of the same version race, and the third is older; four opens let a
hash release come in between. An answer that is skipped takes two answers and a wait that
returned one of them. A slot leaked or given back twice shows with one slot, since the next
request is then refused without need or held beyond the limit; the second watcher takes it
while the first believes to hold it. In the registry, a link asked for, a rotation and a
redemption are three calls in any order, of which two overlap; a fourth leaves room for a
second link or a purge; with three instants a link dies before its session, and a session
with its key.

One more run looks for something that a document says and the code does not do; TLC finds
it: `consent_two_open_rounds`. PROTOCOL.md:823 has one open round per key. A voter voids a
round, the key is free and a second round opens; the voter then votes agree on the first,
which is open again.

Of smaller disagreements, which no run is about:

* `channel_status` is to surface every state in which a role is awaited (PROTOCOL.md:46), but
  a debt reopened between the SELECT that counts untaken debts and the one that lists
  resolved ones (`db/summary.py`:163) is in neither.
* At most three blocks in total (PROTOCOL.md:658) holds for one session. Two sessions of a
  role share the snapshot file (`hooks.py`:163), and a first attempt of one starts the count
  of the other over. Nor does it hold for a turn that cannot write the file (`hooks.py`:190)
  while an older snapshot stays there: each retry compares with that one and adds its block
  to the number in it, so the turn may be blocked as long as more is pending than it says.
* A cleanup pass never touches a round raised after the version, says the head of
  `db/supersede.py`; an open round that is *about* a retired message is a candidate of every
  pass (`_claim_by_dead_target`).
* `watch` compares counts (`cli.py`:254), so an item that leaves while another arrives is not
  reported; `wait_for_mail`, which compares items, does.
* The same vote given again rewrites its time, although PROTOCOL.md:370 calls that
  idempotent. An agree in the same millisecond as the version it would replace counts, though
  PROTOCOL.md:598 says strictly newer. A proposal that is retired may still be voted on.
* A status given to `send_message` may be `done` without anybody's `done_local`. Blockers may
  form a circle. A message that is no debt may be deleted while someone is awaited on it (as
  designed: only debts are protected).
* A voter of a stdio round who is not among its addressees is not asked by `awaiting_ack`. An
  undo may bring back a nudge about a message deleted since, or a second open round on a key.

### Fairness and liveness

Three modules state a `FairSpec`; the tools of the others act when called and promise
nothing that must happen.

* StopHook (`TurnEnds`): weak fairness of the steps of each session. The harness runs a hook
  it started to its end, and a session that was blocked tries to stop again after looking at
  its mail; nothing is assumed of the channel, which may move for ever.
* Watch (`SlotsComeBack`, `WhatStaysIsReported`): weak fairness of each request's own steps
  on the server (the loop goes on, a thread that reads returns or raises) and of each
  watcher's process. Strong fairness of `Asks` is due to the bound on `Request` alone: a
  watcher that finds all request objects taken now and then finds one free. Clients need not
  hang up, the server need not answer before the window ends, and `WhatStaysIsReported`
  promises nothing to a watcher that is killed again and again.
* Delivery (`EveryReplyArrives`): a role that waits goes on waiting (`WaitStarts`), a wait
  polls until it returns (`Poll`), and a role that marks what it was handed does so before it
  waits again. Nothing is assumed of senders, deleters, or other sessions of the role.

## 4. What is proved

The proofs hold for every number of roles, keys, texts, messages, openers, builds,
statements, requests, watchers, uploads, answers, callers, counters and events, under the
named assumptions of the modules: that the constants have their types; that a channel has more
than one role, and finitely many;
that `NoKey` and `Nobody` are what they are named for; that versions are positive and below
`LEGACY_HASH_FLOOR`; that there is a bearer token and finitely many requests; that a channel
has finitely many founders and the bound on rows leaves room for their tokens. TLC evaluates
these assumptions in every run of the modules.

**ConsentProofs.** The inductive invariant is

    IInv == TypeOK /\ RecordsArePast /\ FreshMeansCurrentText

`FreshMeansCurrentText` alone is not inductive: a vote that is fresh after a revision must
not have been cast before it. `RecordsArePast` supplies what that takes: no time on record
is later than the clock, so a vote recorded before a revision is at most as late as the
revision, and `Fresh` asks for strictly later. It is here that a tie in a millisecond is
settled. The records of approvals are a second invariant on top of it (`ApprovalsStand`,
one approval for one version, contracts stay contracts): what approved a version is
retired and cannot be deleted or used again, because `ApprovalUsed` looks at all versions.

That Consent implements AgreedPins follows from the first invariant: each tool is a step of
AgreedPins (`SendMaps`, `ReviseMaps`, ...), and the one that is not immediate, `pin_set`,
rests on `QuorumAgrees`: a quorum found by comparing times is one that agrees to the present
text, since votes that are fresh were cast on it. Quorums do not change once a message is
sent, because no tool touches the fields that they are made of (`RowsStay`). The rules for
rounds have an invariant of their own, `Rounds`: a void on record was declared, and a round
that still stands when a later one is opened had been declared dead. `Cascade` is proved to be
closed from its definition as an intersection, without induction on the length of chains.

| theorem | property |
|---|---|
| `TypeCorrect` | `TypeOK`, which no run checks by itself |
| `OnlyCurrentVotesCount` | `FreshMeansCurrentText` |
| `ApprovalsAreKept` | `ApprovalsStand` |
| `ApprovalsAreSpentOnce` | `OneApprovalOneVersion`, proved only |
| `ContractsAreKept` | `ContractStaysContract` |
| `ConsentImplementsAgreedPins` | `PinsAreAgreed` |
| `ApprovedTextsAreFrozen` | `ApprovedTextFrozen` |
| `NudgesAreRetired` | `SettlingRetiresNudges` |
| `SecondRoundsFollowDeaths` | `SecondRoundOnlyOverADeadOne` |
| `VotersAreAsked` | `VoterIsAsked`, for a hosted channel |

The lemmas that say what a tool does to the tables (`VersionAppends`, `SettlingStep`,
`UsedTextStays`) are stated for the operators, not for the tools, so that the proofs of
Cleanup cite them too.

**CleanupProofs.** Every step of Cleanup is a tool of Consent, a version of an old release,
which retires nothing, or a pass, an undo or the arrival of the rules, which touch nothing but
`superseded` and its events (`Steps`). The inductive invariant is

    CleanInv == IInv /\ CleanTypeOK /\ RetirementsAreRecorded /\ CleanRecords

with the `IInv` of ConsentProofs, whose lemmas cover the first kind of step. `ApprovalsStand`
is not among its parts: an old release left its approving proposals unretired, and an undo may
put one back; what remains of it without the retirement (`ApprovalsRemain`) is in
`CleanRecords`. What a pass takes is described by `CascadeHangs`, the converse of the closure:
what a cascade adds is about something retired with it. So a round that is about no message
can only be taken as a candidate, and no live round is one.

That no undo revives what a live rule retired is `RetirementsAreRecorded`: what such a rule
ever retired is retired, and its event is the newest retirement in the log
(`RetiredForGood`). It is inductive because an appended retirement is the newest
(`LoggedIsNewest`), a pass appends none to what is retired, and an undo skips what the newest
retirement does not allow (`ForGoodStays`). `RetiredByTheRulesForGood` says the same of whole
behaviours without the history variable. Once the rules have
arrived, Cleanup implements AgreedPins step by step, although the versions it starts from may
be those of old releases: `AgreementGoesOn`.

| theorem | property |
|---|---|
| `CleanupIsTyped` | `CleanTypeOK`, proved only |
| `CurrentVotesCountStill` | `FreshMeansCurrentText`, here with passes and undos |
| `CleanupKeepsApprovals` | `CleanRecords`, proved only |
| `CleanupKeepsTexts` | `ApprovedTextFrozen`, here with passes and undos |
| `RetiredByTheRulesStays` | `LiveRetirementsStay` |
| `RetiredByTheRulesForGood` | the same for ever, proved only |
| `AllClaimsAreNamed` | `RetiredUnderEveryClaim` |
| `YoungRoundsSurvive` | `LiveRoundsSurvive` |
| `ApprovalsAreNoCandidates` | `ApprovalRecordsStay` |
| `AgreementGoesOn` | Cleanup takes steps of AgreedPins, proved only |
| `PassesTakeTheNudges` | `PassesRetireNudges`, proved only |
| `VotersAreAskedStill` | `VoterIsAsked`, for a hosted channel |

**MigrationProofs.** The inductive invariant is

    IInv == TypeOK /\ DraftFollows /\ UpgradeProgress /\ StampIsHonest /\ OpenedIsMigrated

An honest stamp after a COMMIT needs to know what the writer did before it. `DraftFollows`:
the writer sees the file as it is, since nothing commits beside it. `UpgradeProgress`: the
file is behind the writer's build, the next statement lies after what the stamp stands
for, and everything before it is done; it holds at the first statement because the stamp
was honest, which closes the circle. Openers that never upgrade go by the stamp, and by
the fact that a higher version includes a lower one.

| theorem | property |
|---|---|
| `TypeCorrect` | `TypeOK`, which no run checks by itself |
| `StampsAreHonest` | `StampIsHonest` |
| `OpenMeansMigrated` | `OpenedIsMigrated` |
| `NothingRunsTwice` | `StepsRunOnce`, proved only |
| `VersionsNeverGoDown` | `NeverDowngraded` |
| `UpgradesAreAtomic` | `UpgradesAreWhole`, proved only |

**WatchProofs.** The server first, among clients that do anything:

    PollInv == PollTypeOK /\ WaitingHasTime /\ SlotsAreHeldRequests

A counter is compared with the cardinality of a set of requests, so each action has to say
how its request moves between the phases that hold a slot and those that do not; what is
released is what was counted, because a request keeps its token. `WaitingHasTime` is what
keeps the remaining window a number. Then the watchers are shown to be such clients
(`WatchImplementsPoll`: every step of Watch is a step of LongPoll or leaves it alone), so
what the server promises, it promises them. On top of it

    WatchInv == PollInv /\ WatchTypeOK /\ SessionKnowsWhatWasSeen

| theorem | property |
|---|---|
| `ServerCountsItsRequests` | `SlotsAreHeldRequests`, of LongPoll by itself |
| `WatchImplementsPoll` | Watch implements LongPoll |
| `SlotsAreCounted` | `SlotsAreHeldRequests`, of Watch |
| `TheSessionKnows` | `SessionKnowsWhatWasSeen` |

**DeliveryProofs.** The inductive invariant is

    IInv == /\ DeliveryTypeOK /\ HashesAreTrue /\ DraftsAreSealed /\ AnswersAreSealed
            /\ WaitsFollow /\ NoReplyIsSkipped

A sent text is a sealed one because it was when it was read (`DraftsAreSealed`), and it still
is when the send commits, because a sealed upload keeps its hash and its text; that is the
argument for reading it outside of the transaction. No answer is skipped because the ids a
wait starts after are those of an answer that was handed over, with everything below it
(`WaitsFollow`), and `FindReply` takes the oldest that is left. What a listing opens is bounded
by a well-founded choice: the first rows of the newest-first order.

| theorem | property |
|---|---|
| `TypeCorrect` | `DeliveryTypeOK`, which no run checks by itself |
| `WhatWasSentIsSealed` | `SealedTextIsWhatWasSent` |
| `WaitsSkipNothing` | `NoReplyIsSkipped` |
| `ListingsOpenTheNewest` | `OpenedAreTheNewest` |

**RegistryProofs.** The inductive invariant is

    IInv == RegistryTypeOK /\ DbGood /\ TxsGood /\ \A c \in Caller : CallGood(call[c])

`DbGood` is what holds of the committed tables: one token per role, no link beside a session
of its key, recorded issuers are who asked, and a key of an unknown issuer works only while
the token does that asked for it. A transaction breaks that on the way, so `TxsGood` follows it
statement by statement (`TxGood`): which roles have no token just now (`Bereft`), that keys of
unknown issuers may outlive their issuer only between the first two statements of a rotation,
which rows were added, what has become of the link that is redeemed, and that no row of what
is committed is lost or rewritten (`Keeps`). Each statement has a lemma about its effect, each
call one that goes through its program. After the last statement nothing is left over, which
is what a commit needs; and there is one transaction at a time, so its view is still based on
what is committed. A caller that was authenticated long ago is covered because `CallGood` says
only that its row exists, not that it works.

| theorem | property |
|---|---|
| `TypeCorrect` | `RegistryTypeOK`, which no run checks by itself |
| `RolesAreHeld` | `RolesHoldOneToken` |
| `LeakedTokensOpenNothing` | `LeakedTokenOpensNothing` |
| `LinksOpenOnce` | `OneSessionPerLink` |
| `PurgesSpareTheLive` | `PurgeSparesTheLive` |
| `CapsTakeTheOldest` | `CapTakesTheOldest` |
| `RegistryKeepsItsPromise` | `CallsActAtOnce`: Registry implements Access |

`PurgesSpareTheLive` and `CapsTakeTheOldest` are about what a commit changes, so they compare a transaction's view with what
is committed (`TakesLittle`): `Spared` says that it still has every session and every link in
time whose key it has not revoked, but the link that it redeems; `Capping` says which keys of
an issuer it has left. `KeepsNewest` follows from a lemma about numbers, `NewestAreFew`: no
two members of a set have equally many greater ones, so those with fewer than C of them are at
most C.

That a commit is one call of Access takes a third invariant, `DoneSoFar`: what the
transaction has done since it began (`Done`), again statement by statement and compared with
what is committed. Meanwhile everything fades (`Fades`): no token comes back, roles keep their tokens but for
the one that is rotated, and no link is new but the one that the call is for. After the last
statement `Done` is the action of Access (`RotatesAtOnce`, `OffersAtOnce`, ...), except that the
asker of a link may have been revoked since it was authenticated, in which case the link is
stillborn: Access says so too. The other steps change nothing that Access sees
(`RestIsUnseen`). `TakesLittle` is needed for the redeemed link to be one that was
there. That a rotation takes every key along that its token asked for is `KnownIssuers` where an
issuer is on record, and `TrustedUnknown` where none is: such a key works only while its asker
does, and after the rotation its asker does not.

**ObligationsProofs.** The inductive invariant is

    IInv == /\ ObligationsTypeOK
            /\ RowsAreGood /\ UnsentIsQuiet /\ DeletedIsConfirmed /\ BlockersAreDebts

`RowsAreGood` relates each row to its own log (`RowGood`): the newest transition names the
present work status; each `done` but one that was sent answers the `done_local` of another
role (`DoneByBoth`), because the newest `done_local` is the newest transition of all when the
row says so (`LastMove`); only parties have events; a debt has one addressee, and the newest
event of the loop says how it stands. It is proved row by row, without the tables: what one
appended event does to the newest event of a kind is `LastAfterAppend`, and each tool has a
lemma about the row that it rewrites (`ResolvesRow`, `ConfirmsRow`, ...). A confirmation that
is newer than the newest resolution, which is what the code looks for, is the newest event of
the loop (`ConfirmedOrNot`), because a tool confirms only what is resolved; a stale one, from
before a reopen, is older. That is the argument for DebtLoop: who says that a debt is closed
is `resolved_by` and the author of that confirmation, a second party. A blocker is a debt
because it was when it was recorded, and a message stays one. That a debt cannot drop off all
lists is a case analysis on who made the newest transition and to which status.

| theorem | property |
|---|---|
| `TypeCorrect` | `ObligationsTypeOK`, which no run checks by itself |
| `TasksAreTheirLastMovers` | `TaskIsItsLastMovers` |
| `RetriesAreTaken` | `RetryMeansTaken` |
| `LiveBlockersAreOwed` | `LiveBlockerIsOwed` |
| `DebtsAreListed` | `DebtIsListed` |
| `DebtsGoThroughTheLoop` | `DebtsNeedBothParties`: Obligations implements DebtLoop |

Triage leaves the mailbox alone (`LookingIsHarmless`: it implements Obligations), so all of
this holds while roles look and wait. About the looks themselves there is

    WInv == /\ TriageTypeOK /\ HistoriesAreCurrent /\ SelectsAreSound
            /\ NothingBefore /\ KnownIsOld

What was on a list throughout a look and what was ever on it during the look bracket what its
SELECT can have returned (`SelectsAreSound`), whenever it ran in between; and what a wait takes
for known is nothing that was off its list throughout the previous look, and all of the backlog
that never left (`KnownIsOld`). Both promises of `wait_for_mail` follow from these brackets.

| theorem | property |
|---|---|
| `LookingIsHarmless` | Triage implements Obligations |
| `LooksAreTyped` | `TriageTypeOK`, which no run checks by itself |
| `NewsIsHeard` | `NewsWakes` |
| `BacklogIsIgnored` | `BacklogDoesNotWake` |

**StopHookProofs.** The theorems are about a role with one session (`OneSession`): sessions
share the snapshot file, and with two of them neither property holds (section 3). The
inductive invariant is

    IInv == StopHookTypeOK /\ SnapshotCounts /\ BlocksAreCounted /\ SnapshotIsShown

The file outlives the turn that wrote it: a first attempt that could not ask leaves the
snapshot of an earlier turn in place. `BlocksAreCounted` says why that does no harm: what the
file counts is the blocks of the present turn *or more*, so a turn may be let go early, never
late. `SnapshotIsShown` is the stronger fact for a hook that asks a server, which decides only
when it has an answer, so that every first attempt rewrites the file: what the retry compares
with is what the session was shown last.

| theorem | property |
|---|---|
| `TurnsAreLetGo` | `AtMostThreeBlocks` |
| `NewsStopsTheRetry` | `NewsIsNotPassedOver` |

Only model-checked: the liveness properties `TurnEnds`, `SlotsComeBack`,
`WhatStaysIsReported` and `EveryReplyArrives`, because the prover does not reason about
fairness and ENABLED. Every other property of a passing run is a theorem. That the SQL
counts and orders as `Cardinality` and `Max` do is the modelling, not a theorem.

## 5. What is not modelled

* Search (`db/search.py`), the board's pages (`board.py`, `db/views.py`), field selection
  (`db/fields.py`), release notes: functions of the state that change nothing.
* Tool registration, threads per call, the network client, deployment: plumbing and I/O.
* Routing, headers and pages of the HTTP server, `hook-status`: they keep no state.
* Wording, topics, kinds other than proposals, lengths and limits of arguments.
* `pin_set(dry_run=true)`, previews, listings and histories: they read.
* `list_messages`, addenda, and `mark_read` of several messages in one call, which is that of
  one message repeated inside a transaction.
* `watch` without a server, which polls the file by itself; the journal it may write.
* The upgrade of `admin.db`, but for the keys it leaves without an issuer; several channels
  in one registry, which share no rows.
* The `whats_new` notice of `channel_status`.
* A clock that goes back, and a disk that loses committed transactions.

## 6. Plan

Done: Consent with AgreedPins, Cleanup, Obligations with DebtLoop, Triage, StopHook,
Migration, Registry with Access, LongPoll with Watch, Uploads with Delivery; the proofs of all of them.
What is left, in the order of importance:

1. The `whats_new` notice in Triage; `mark_read` of several messages in Delivery.

A further module gets one run over a small instance that fires all its actions, and is
composed with what it depends on by EXTENDS, as Triage is with Obligations.
