------------------------------ MODULE Registry ------------------------------
(***************************************************************************)
(* The registry of one channel in admin.db (auth.py, tools/admin.py): its   *)
(* roles, their bearer tokens, the keys, links and browser sessions of its  *)
(* board.  A call is authenticated first and takes the write lock later, in *)
(* a transaction that runs statement by statement and may fail anywhere.    *)
(* A token stands for its hash, and is the id of its row.                   *)
(* A definition X_Fault is X with a plausible mistake; nothing uses it.      *)
(***************************************************************************)
EXTENDS Integers, FiniteSets, SequencesExt

CONSTANTS
    Role,        \* names of roles, and
    Founders,    \* those that a channel is created with
    NoRole,      \* issued_by_role IS NULL
    Caller,      \* requests that are served at the same time
    MaxRoles,    \* MAX_ROLES
    KeyCap,      \* MAX_VIEW_KEYS_PER_ISSUER
    KeyTTL, NonceTTL, SessionTTL,
    MaxTime, MaxToken, MaxCall   \* bounds: of the clock, the rows, the calls

ASSUME RegistryAssumption ==
    /\ NoRole \notin Role
    /\ Founders \in SUBSET Role /\ IsFiniteSet(Founders)
    /\ KeyCap \in Nat \ {0}
    /\ {KeyTTL, NonceTTL, SessionTTL, MaxRoles, MaxTime, MaxToken, MaxCall} \subseteq Nat
    /\ Cardinality(Founders) < MaxToken

VARIABLES
    now,     \* the clock that the SQL reads
    db,      \* what is committed
    tx,      \* per caller: the open transaction, its view and its next statement
    call,    \* per caller: the tool call being served
    asked,   \* history: whose identity asked for a key
    calls    \* number of calls so far

vars == <<now, db, tx, call, asked, calls>>

Admin == 0   \* the admin token has no row, and is never revoked
Idle  == [op |-> "none", who |-> Admin, arg |-> NoRole, link |-> 0]
Absent == [chan |-> "absent", roles |-> {}, token |-> <<>>, nonce |-> {}, session |-> {}]
NoTx  == [at |-> 0, db |-> Absent, row |-> 0]

RoleToken(r) ==
    [kind |-> "role", role |-> r, by |-> Admin, unknown |-> FALSE,
     exp |-> 0, live |-> TRUE]
ViewKey(issuer, r, unknown, until) ==
    [kind |-> "view", role |-> r, by |-> issuer, unknown |-> unknown,
     exp |-> until, live |-> TRUE]

Rows(d) == DOMAIN d.token
HeldBy(d, r) == {i \in Rows(d) : d.token[i].kind = "role" /\ d.token[i].role = r
                                 /\ d.token[i].live}
KeysOf(d, r) == {i \in Rows(d) : d.token[i].kind = "view" /\ d.token[i].role = r
                                 /\ d.token[i].live}

-----------------------------------------------------------------------------
(* Who may come in.                                                         *)

Authentic(d, t) == d.chan = "live" /\ t \in Rows(d) /\ d.token[t].live

\* _VIEW_KEY_LIVE, and the key itself not revoked
KeyLive(d, k) ==
    /\ d.token[k].exp > now
    /\ d.token[k].by = Admin \/ d.token[d.token[k].by].live
KeyOpens(d, k) == d.chan = "live" /\ d.token[k].live /\ KeyLive(d, k)

\* what viewer_from_session and redeem_board_nonce let through
SessionOpens(d, s) == s.exp > now /\ KeyOpens(d, s.key)
LinkOpens(d, n) == ~n.used /\ n.exp > now /\ KeyOpens(d, n.key)

-----------------------------------------------------------------------------
(* The statements of the transactions.                                      *)

Revoked(d, I) ==
    [d EXCEPT !.token = [i \in Rows(d) |-> [d.token[i] EXCEPT !.live = @ /\ i \notin I]]]
Issued(d, r) == [d EXCEPT !.token = Append(@, RoleToken(r))]   \* _issue_token
Founded(d) ==   \* a channel is new, so its tokens are the first rows
    [d EXCEPT !.chan = "live", !.roles = Founders,
              !.token = [i \in 1..Cardinality(Founders) |->
                            RoleToken(SetToSeq(Founders)[i])]]

\* only the recorded issuer counts
RevokeViews_KnownOnly(d, r) ==
    Revoked(d, {i \in Rows(d) : d.token[i].kind = "view"
                    /\ (r = NoRole \/ d.token[i].role = r)})
RevokeViews(d, r) ==   \* revoke_view_tokens; NoRole: those of every issuer
    Revoked(d, {i \in Rows(d) : d.token[i].kind = "view"
                    /\ (r = NoRole \/ d.token[i].role = r \/ d.token[i].unknown)})

\* sessions go with the links that opened them
Purged_ByLink(d) ==
    [d EXCEPT !.nonce = {n \in @ : ~n.used /\ n.exp > now},
              !.session = {s \in @ : \E n \in d.nonce : n.key = s.key}]
Purged(d) ==
    [d EXCEPT !.nonce = {n \in @ : ~n.used /\ n.exp > now},
              !.session = {s \in @ : s.exp > now /\ d.token[s.key].live}]

InsertKey(d, c) ==
    [d EXCEPT !.token = Append(@, ViewKey(c.who, c.arg, FALSE, now + KeyTTL))]
\* ORDER BY id without DESC
OverCap_Newest(d, r) ==
    {i \in KeysOf(d, r) : Cardinality({j \in KeysOf(d, r) : j < i}) >= KeyCap}
\* the oldest beyond the cap: those with KeyCap or more newer ones
OverCap(d, r) ==
    {i \in KeysOf(d, r) : Cardinality({j \in KeysOf(d, r) : j > i}) >= KeyCap}
Capped(d, c) == Revoked(d, OverCap(d, c.arg))
InsertNonce(d) ==
    [d EXCEPT !.nonce = @ \cup {[key |-> Len(d.token), exp |-> now + NonceTTL,
                                 used |-> FALSE]}]

\* the link is looked up and not burnt
Burnt_Kept(d, k) == d
Burnt(d, k) ==
    [d EXCEPT !.nonce = {IF n.key = k /\ ~n.used /\ n.exp > now
                         THEN [n EXCEPT !.used = TRUE] ELSE n : n \in @}]
\* the row count of the UPDATE is not looked at
Burns_Unchecked(d, k) == k \in Rows(d)
Burns(d, k) == \E n \in d.nonce : n.key = k /\ ~n.used /\ n.exp > now
Least(a, b) == IF a < b THEN a ELSE b
OpenSession(d, k) ==
    IF k # 0 /\ KeyOpens(d, k)
    THEN [d EXCEPT !.session = @ \cup
            {[key |-> k, exp |-> Least(now + SessionTTL, d.token[k].exp)]}]
    ELSE d


\* What each call runs, between BEGIN IMMEDIATE and COMMIT.
Program ==
    [create |-> <<"found">>,
     rotate |-> <<"revoke_role", "revoke_views", "purge", "issue">>,
     add    |-> <<"write_roles", "issue">>,
     link   |-> <<"insert_key", "cap", "insert_nonce">>,
     revoke |-> <<"revoke_views", "purge">>,
     delete |-> <<"revoke_all", "mark_deleted">>,
     redeem |-> <<"burn", "purge", "open">>]

Refuses(d, c) ==
    CASE c.op = "create" -> d.chan # "absent"
      [] c.op = "rotate" -> d.chan # "live" \/ c.arg \notin d.roles
      [] c.op = "add"    -> d.chan # "live" \/ c.arg \in d.roles
                            \/ Cardinality(d.roles) + 1 > MaxRoles
      [] c.op \in {"link", "delete"} -> d.chan # "live"
      [] OTHER -> FALSE

\* The effect of a statement on the database, for a call c; row is what "burn" returned.
Effect(stmt, d, c, row) ==
    CASE stmt = "found"        -> Founded(d)
      [] stmt = "revoke_role"  -> Revoked(d, HeldBy(d, c.arg))
      [] stmt = "revoke_views" -> RevokeViews(d, c.arg)
      [] stmt = "purge"        -> Purged(d)
      [] stmt = "issue"        -> Issued(d, c.arg)
      [] stmt = "write_roles"  -> [d EXCEPT !.roles = @ \cup {c.arg}]
      [] stmt = "insert_key"   -> InsertKey(d, c)
      [] stmt = "cap"          -> Capped(d, c)
      [] stmt = "insert_nonce" -> InsertNonce(d)
      [] stmt = "revoke_all"   -> Revoked(d, Rows(d))
      [] stmt = "mark_deleted" -> [d EXCEPT !.chan = "deleted"]
      [] stmt = "burn"         -> Burnt(d, c.link)
      [] stmt = "open"         -> OpenSession(d, row)

-----------------------------------------------------------------------------
(* Calls.                                                                   *)

Request(op, who, r, k) == [op |-> op, who |-> who, arg |-> r, link |-> k]

\* What may be asked for now: every tool but board_link is the admin's; a role's
\* board_link is for its own channel; anybody may hold a link.
Requests ==
    {Request(op, Admin, NoRole, 0) : op \in {"create", "delete", "revoke", "link"}}
    \cup {Request(op, Admin, r, 0) : op \in {"rotate", "add"}, r \in Role}
    \cup {Request("link", t, db.token[t].role, 0) :
              t \in {i \in Rows(db) : db.token[i].kind = "role" /\ Authentic(db, i)}}
    \cup {Request("redeem", Admin, NoRole, k) :
              k \in {i \in Rows(db) : db.token[i].kind = "view"}}

\* A request arrives and is authenticated.
Ask(c) ==
    /\ call[c] = Idle /\ calls < MaxCall
    /\ \E q \in Requests : call' = [call EXCEPT ![c] = q]
    /\ calls' = calls + 1
    /\ UNCHANGED <<now, db, tx, asked>>

InTx(c) == tx[c].at > 0

\* BEGIN IMMEDIATE: one writer at a time, and it sees what is committed.
Begin(c) ==
    /\ call[c] # Idle /\ ~InTx(c)
    /\ \A o \in Caller : ~InTx(o)
    /\ Len(db.token) < MaxToken
    /\ tx' = [tx EXCEPT ![c] = [at |-> 1, db |-> db, row |-> 0]]
    /\ UNCHANGED <<now, db, call, asked, calls>>

Ends(c) == call' = [call EXCEPT ![c] = Idle] /\ tx' = [tx EXCEPT ![c] = NoTx]

Refuse(c) ==
    /\ tx[c].at = 1 /\ Refuses(tx[c].db, call[c])
    /\ Ends(c)
    /\ UNCHANGED <<now, db, asked, calls>>

\* every statement commits by itself: no write_tx
Execute_Autocommit(c) ==
    LET t == tx[c]  q == call[c] IN
    /\ InTx(c) /\ t.at <= Len(Program[q.op])
    /\ t.at = 1 => ~Refuses(t.db, q)
    /\ db' = Effect(Program[q.op][t.at], db, q, t.row)
    /\ tx' = [tx EXCEPT ![c] =
               [at |-> t.at + 1, db |-> db',
                row |-> IF Program[q.op][t.at] = "burn" /\ Burns(db, q.link) THEN q.link ELSE t.row]]
    /\ UNCHANGED <<now, call, asked, calls>>
Execute(c) ==
    LET t == tx[c]  q == call[c] IN
    /\ InTx(c) /\ t.at <= Len(Program[q.op])
    /\ t.at = 1 => ~Refuses(t.db, q)
    /\ LET stmt == Program[q.op][t.at] IN
       tx' = [tx EXCEPT ![c] =
               [at |-> t.at + 1,
                db |-> Effect(stmt, t.db, q, t.row),
                row |-> IF stmt = "burn" /\ Burns(t.db, q.link) THEN q.link ELSE t.row]]
    /\ UNCHANGED <<now, db, call, asked, calls>>

Commit(c) ==
    /\ InTx(c) /\ tx[c].at > Len(Program[call[c].op])
    /\ db' = tx[c].db
    /\ asked' = IF call[c].op = "link"
                THEN [asked EXCEPT ![Len(tx[c].db.token)] = call[c].who] ELSE asked
    /\ Ends(c)
    /\ UNCHANGED <<now, calls>>

\* The lock is not free in time, a statement fails, the process is killed: ROLLBACK.
Fail(c) ==
    /\ call[c] # Idle
    /\ Ends(c)
    /\ UNCHANGED <<now, db, asked, calls>>

Tick == now < MaxTime /\ now' = now + 1 /\ UNCHANGED <<db, tx, call, asked, calls>>

\* A new registry, or one with a key from before issuers were recorded: any founder's.
Legacy == [Founded(Absent) EXCEPT
              !.token = Append(@, ViewKey(Admin, NoRole, TRUE, KeyTTL))]
Init ==
    /\ now = 0 /\ calls = 0
    /\ tx = [c \in Caller |-> NoTx] /\ call = [c \in Caller |-> Idle]
    /\ \/ db = Absent /\ asked = [i \in 1..MaxToken |-> Admin]
       \/ db = InsertNonce(Legacy)
          /\ \E t \in 1..Cardinality(Founders) :
                asked = [i \in 1..MaxToken |->
                            IF i = Cardinality(Founders) + 1 THEN t ELSE Admin]

Next ==
    \/ Tick
    \/ \E c \in Caller : Ask(c) \/ Begin(c) \/ Refuse(c) \/ Execute(c)
                           \/ Commit(c) \/ Fail(c)

Spec == Init /\ [][Next]_vars

-----------------------------------------------------------------------------
(* Properties.                                                              *)

\* In what is committed, a role of the channel has exactly one token that works, and
\* whoever has one that works is on the list of roles: no rotation is seen half done,
\* no role is lost to another add_role, and a deleted channel admits nobody (write_tx).
RolesHoldOneToken ==
    \A r \in Role : Cardinality(HeldBy(db, r)) = IF db.chan = "live" /\ r \in db.roles
                                                 THEN 1 ELSE 0

\* A rotated token is taken to be leaked.  No key that was asked for with it opens the
\* board, by a session or a link, whether it was issued before, is being issued by a
\* request authenticated before the rotation, or dates from before issuers were recorded
\* (rotate_token, _VIEW_KEY_LIVE).
LeakedTokenOpensNothing ==
    \A k \in Rows(db) :
        /\ db.token[k].kind = "view"
        /\ (\E s \in db.session : s.key = k /\ SessionOpens(db, s))
           \/ (\E n \in db.nonce : n.key = k /\ LinkOpens(db, n))
        => asked[k] = Admin \/ db.token[asked[k]].live

\* A link that opened a session opens nothing any more (redeem_board_nonce: single use).
OneSessionPerLink ==
    \A s \in db.session, n \in db.nonce : s.key # n.key

\* However links are asked for, at most KeyCap keys of one issuer work, and one that goes
\* to make room is older than each that stays: the link just handed out works
\* (create_view_token).
CapTakesTheOldest ==
    [][\A c \in Caller : Commit(c) /\ call[c].op = "link" =>
         LET r == call[c].arg IN
         /\ Cardinality(KeysOf(db', r)) <= KeyCap
         /\ Len(db'.token) \in KeysOf(db', r)
         /\ \A gone \in KeysOf(db, r) \ KeysOf(db', r), kept \in KeysOf(db', r) : gone < kept
      ]_vars

\* Cleaning up never shuts anybody out: a session that opens the board goes on doing so
\* for as long as its key is not revoked, and a link that would open it works until it is
\* used (_purge_board_state).
PurgeSparesTheLive ==
    [][\A k \in Rows(db) :
         db'.chan = db.chan /\ db'.token[k].live =>
         /\ \A s \in db.session : s.key = k /\ SessionOpens(db, s) => s \in db'.session
         /\ \A n \in db.nonce : n.key = k /\ LinkOpens(db, n) =>
               n \in db'.nonce \/ \E c \in Caller : Commit(c) /\ call[c].link = k
      ]_vars

-----------------------------------------------------------------------------
(* What the callers see, call by call, is module Access.                    *)

\* Dead for good: revoked, or the key of an issuer that is.
Dead(d, t) == ~d.token[t].live \/ (d.token[t].by # Admin /\ ~d.token[d.token[t].by].live)
Stage(d, t) ==
    IF t \notin Rows(d) THEN "unissued"
    ELSE IF Dead(d, t) THEN "revoked"
    ELSE IF d.token[t].kind = "role" THEN "held"
    ELSE IF \E s \in d.session : s.key = t THEN "session"
    ELSE IF \E n \in d.nonce : n.key = t /\ ~n.used THEN "link"
    ELSE "shut"

Promised == INSTANCE Access WITH
    Token   <- 1..MaxToken,
    channel <- db.chan,
    holder  <- [r \in Role |-> HeldBy(db, r)],
    asker   <- asked,
    stage   <- [t \in 1..MaxToken |-> Stage(db, t)]

\* Whatever is interleaved, refused or rolled back, each call is as if it was done at once,
\* on the registry of that moment: a rotation takes the old token with all that it asked
\* for and gives a new one, a link asked for with a token that is rotated meanwhile is
\* stillborn, a session comes only out of its link, and what is revoked stays so (write_tx).
CallsActAtOnce == Promised!Spec

=============================================================================
