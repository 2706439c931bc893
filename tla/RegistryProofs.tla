---------------------------- MODULE RegistryProofs ----------------------------
(***************************************************************************)
(* Proofs about module Registry, for any roles, callers, caps and lifetimes.*)
(* In what is committed each role has one token, what a rotated token asked *)
(* for opens nothing, and a link opens one session: this follows a          *)
(* transaction statement by statement.  What it takes, by the cap or by     *)
(* cleaning up, and that a call is as if it was done at once, follows from  *)
(* a comparison of its view with what is committed.                         *)
(***************************************************************************)
EXTENDS Registry, FiniteSetTheorems, TLAPS

TokenRow == [kind : {"role", "view"}, role : Role \cup {NoRole}, by : Nat,
             unknown : BOOLEAN, exp : Nat, live : BOOLEAN]
Link     == [key : Nat, exp : Nat, used : BOOLEAN]
Session  == [key : Nat, exp : Nat]
Database == [chan : {"absent", "live", "deleted"}, roles : SUBSET Role,
             token : Seq(TokenRow), nonce : SUBSET Link, session : SUBSET Session]
Ops  == {"create", "rotate", "add", "link", "revoke", "delete", "redeem"}
Call == [op : Ops \cup {"none"}, who : Nat, arg : Role \cup {NoRole}, link : Nat]
Tx   == [at : Nat, db : Database, row : Nat]

RegistryTypeOK ==
    /\ now \in Nat
    /\ db \in Database
    /\ tx \in [Caller -> Tx]
    /\ call \in [Caller -> Call]
    /\ asked \in [1..MaxToken -> Nat]

-----------------------------------------------------------------------------
(* What the statements do.                                                  *)

\* The rows of d are in e, and nothing but their being live has changed.
SameRow(x, y) ==
    /\ y.kind = x.kind /\ y.role = x.role /\ y.by = x.by
    /\ y.unknown = x.unknown /\ y.exp = x.exp
Keeps(d, e) ==
    /\ Rows(d) \subseteq Rows(e)
    /\ \A i \in Rows(d) : SameRow(d.token[i], e.token[i])

\* The rest of the database.
SameBut(d, e) ==
    e.chan = d.chan /\ e.roles = d.roles /\ e.nonce = d.nonce /\ e.session = d.session

LEMMA RowsAreNumbered ==
    ASSUME NEW d \in Database
    PROVE  Rows(d) = 1..Len(d.token) /\ Len(d.token) \in Nat
           /\ \A i \in Rows(d) : d.token[i] \in TokenRow
  BY DEF Rows, Database

\* Revoking takes the tokens in I, and leaves everything else.
LEMMA RevokedEffect ==
    ASSUME NEW d \in Database, NEW I
    PROVE  LET e == Revoked(d, I) IN
           /\ e \in Database /\ Rows(e) = Rows(d) /\ SameBut(d, e) /\ Keeps(d, e)
           /\ \A i \in Rows(d) : e.token[i].live <=> d.token[i].live /\ i \notin I
           /\ \A r : HeldBy(e, r) = HeldBy(d, r) \ I
  <1> DEFINE e == Revoked(d, I)
             t == [i \in Rows(d) |-> [d.token[i] EXCEPT !.live = @ /\ i \notin I]]
  <1>1. Rows(d) = 1..Len(d.token) /\ Len(d.token) \in Nat
        /\ \A i \in Rows(d) : d.token[i] \in TokenRow
    BY RowsAreNumbered
  <1>2. \A i \in Rows(d) :
            /\ t[i] = [d.token[i] EXCEPT !.live = d.token[i].live /\ i \notin I]
            /\ (d.token[i].live /\ i \notin I) \in BOOLEAN
    BY <1>1 DEF TokenRow
  <1>3. \A i \in Rows(d) :
            /\ t[i] \in TokenRow /\ SameRow(d.token[i], t[i])
            /\ t[i].live = (d.token[i].live /\ i \notin I)
    BY <1>1, <1>2 DEF TokenRow, SameRow
  <1>4. t \in Seq(TokenRow)
    <2>1. DOMAIN t = 1..Len(d.token)
      BY <1>1
    <2> HIDE DEF t
    <2>2. t \in [1..Len(d.token) -> TokenRow]
      <3>1. t = [i \in 1..Len(d.token) |-> t[i]]
        BY <1>1 DEF t
      <3> QED
        BY <1>1, <1>3, <3>1
    <2> QED
      BY <1>1, <2>2
  <1>5. e.token = t /\ SameBut(d, e) /\ e \in Database
    <2>1. d \in Database
      OBVIOUS
    <2>2. e = [d EXCEPT !.token = t]
      BY DEF Revoked
    <2> HIDE DEF t, e
    <2> QED
      BY <1>4, <2>1, <2>2 DEF Database, SameBut
  <1>6. Rows(e) = Rows(d)
    BY <1>5 DEF Rows
  <1>7. \A i \in Rows(d) :
            e.token[i].live <=> d.token[i].live /\ i \notin I
    BY <1>3, <1>5
  <1>8. Keeps(d, e)
    BY <1>3, <1>5, <1>6 DEF Keeps
  <1> HIDE DEF e, t
  <1>9. \A r : HeldBy(e, r) = HeldBy(d, r) \ I
    BY <1>6, <1>7, <1>8 DEF HeldBy, Keeps, SameRow
  <1> QED
    BY <1>5, <1>6, <1>7, <1>8, <1>9 DEF e

\* A new row comes last.
LEMMA AppendEffect ==
    ASSUME NEW d \in Database, NEW x \in TokenRow
    PROVE  LET e == [d EXCEPT !.token = Append(@, x)] IN
           /\ e \in Database /\ SameBut(d, e) /\ Keeps(d, e)
           /\ Len(e.token) = Len(d.token) + 1 /\ Rows(e) = Rows(d) \cup {Len(d.token) + 1}
           /\ Len(d.token) + 1 \notin Rows(d)
           /\ \A i \in Rows(d) : e.token[i] = d.token[i]
           /\ e.token[Len(d.token) + 1] = x
           /\ \A r : HeldBy(e, r) = HeldBy(d, r) \cup
                        (IF x.kind = "role" /\ x.role = r /\ x.live THEN {Len(d.token) + 1} ELSE {})
  <1> DEFINE e == [d EXCEPT !.token = Append(@, x)]
             n == Len(d.token) + 1
  <1>1. Rows(d) = 1..Len(d.token) /\ Len(d.token) \in Nat /\ d.token \in Seq(TokenRow)
    BY RowsAreNumbered DEF Database
  <1>2. e \in Database /\ SameBut(d, e) /\ e.token = Append(d.token, x)
    <2> DEFINE s == Append(d.token, x)
    <2>1. s \in Seq(TokenRow) /\ e = [d EXCEPT !.token = s]
      BY <1>1
    <2> HIDE DEF s, e
    <2>2. e \in Database /\ SameBut(d, e) /\ e.token = s
      BY <2>1 DEF Database, SameBut
    <2> QED
      BY <2>2 DEF s
  <1> HIDE DEF e
  <1>3. /\ Len(e.token) = n /\ Rows(e) = Rows(d) \cup {n} /\ n \notin Rows(d)
        /\ \A i \in Rows(d) : e.token[i] = d.token[i]
        /\ e.token[n] = x
    BY <1>1, <1>2 DEF Rows
  <1> HIDE DEF n
  <1>4. Keeps(d, e)
    BY <1>3 DEF Keeps, SameRow
  <1>5. \A r : HeldBy(e, r) = HeldBy(d, r) \cup
                  (IF x.kind = "role" /\ x.role = r /\ x.live THEN {n} ELSE {})
    <2> SUFFICES ASSUME NEW r
                 PROVE  HeldBy(e, r) = HeldBy(d, r) \cup
                            (IF x.kind = "role" /\ x.role = r /\ x.live THEN {n} ELSE {})
      OBVIOUS
    <2>1. \A i \in Rows(d) : i \in HeldBy(e, r) <=> i \in HeldBy(d, r)
      BY <1>3 DEF HeldBy
    <2>2. n \in HeldBy(e, r) <=> x.kind = "role" /\ x.role = r /\ x.live
      BY <1>3 DEF HeldBy
    <2>3. HeldBy(e, r) \subseteq Rows(d) \cup {n} /\ HeldBy(d, r) \subseteq Rows(d)
      BY <1>3 DEF HeldBy
    <2>4. CASE x.kind = "role" /\ x.role = r /\ x.live
      BY <2>1, <2>2, <2>3, <2>4
    <2>5. CASE ~(x.kind = "role" /\ x.role = r /\ x.live)
      BY <2>1, <2>2, <2>3, <2>5
    <2> QED
      BY <2>4, <2>5
  <1> QED
    BY <1>2, <1>3, <1>4, <1>5 DEF e, n

\* Purging leaves the tokens, and takes links that are used or late, and sessions.
LEMMA PurgedEffect ==
    ASSUME NEW d \in Database
    PROVE  LET e == Purged(d) IN
           /\ e \in Database /\ e.chan = d.chan /\ e.roles = d.roles /\ e.token = d.token
           /\ e.nonce = {n \in d.nonce : ~n.used /\ n.exp > now}
           /\ e.session \subseteq d.session
  BY DEF Purged, Database

\* A channel is founded with a token for each role.
LEMMA FoundedEffect ==
    ASSUME NEW d \in Database, d.nonce = {}, d.session = {}
    PROVE  LET e == Founded(d) IN
           /\ e \in Database /\ e.chan = "live" /\ e.roles = Founders
           /\ e.nonce = {} /\ e.session = {}
           /\ Len(e.token) = Cardinality(Founders)
           /\ \A i \in Rows(e) : e.token[i].kind = "role"
           /\ \A i \in Rows(e) : \E r \in Founders : e.token[i] = RoleToken(r)
           /\ \A r \in Founders : \E i \in Rows(e) : HeldBy(e, r) = {i}
           /\ \A r \in Role \ Founders : HeldBy(e, r) = {}
  <1> DEFINE n == Cardinality(Founders)
             f == SetToSeq(Founders)
             t == [i \in 1..n |-> RoleToken(f[i])]
             e == Founded(d)
  <1>1. n \in Nat /\ IsFiniteSet(Founders) /\ Founders \subseteq Role
    BY RegistryAssumption, FS_CardinalityType
  <1>2. f \in Injection(1..n, Founders)
    <2>1. \E g \in [1..n -> Founders] : IsInjective(g)
      <3>1. ExistsBijection(1..n, Founders)
        BY <1>1, FS_CardinalityType
      <3>2. PICK g : g \in Injection(1..n, Founders)
        BY <3>1 DEF ExistsBijection, Bijection
      <3> QED
        BY <3>2 DEF Injection, IsInjective
    <2>2. f \in [1..n -> Founders] /\ IsInjective(f)
      BY <2>1 DEF SetToSeq
    <2> QED
      BY <2>2 DEF Injection, IsInjective
  <1>3. f \in Surjection(1..n, Founders)
    <2>1. IsFiniteSet(1..n) /\ Cardinality(1..n) = n
      BY <1>1, FS_Interval
    <2> QED
      BY <1>1, <1>2, <2>1, FS_Injection
  <1>4. /\ \A i \in 1..n : f[i] \in Founders
        /\ \A i, j \in 1..n : f[i] = f[j] => i = j
        /\ \A r \in Founders : \E i \in 1..n : f[i] = r
    BY <1>2, <1>3 DEF Injection, Surjection, IsInjective
  <1> HIDE DEF f, n
  <1>5. \A i \in 1..n : t[i] \in TokenRow /\ t[i].kind = "role" /\ t[i].role = f[i] /\ t[i].live
    BY <1>1, <1>4 DEF RoleToken, TokenRow, Admin
  <1>6. e.chan = "live" /\ e.roles = Founders /\ e.nonce = {} /\ e.session = {} /\ e.token = t
        /\ e = [chan |-> "live", roles |-> Founders, token |-> t, nonce |-> {}, session |-> {}]
    <2>1. e = [d EXCEPT !.chan = "live", !.roles = Founders, !.token = t]
      BY DEF Founded, f, n
    <2> HIDE DEF t, e
    <2> QED
      BY <2>1 DEF Database
  <1>7. t \in [1..n -> TokenRow] /\ DOMAIN t = 1..n
    BY <1>5
  <1> HIDE DEF t, e
  <1>8. t \in Seq(TokenRow) /\ Len(t) = n
    BY <1>1, <1>7
  <1>9. e \in Database /\ Rows(e) = 1..n
    BY <1>1, <1>6, <1>7, <1>8 DEF Database, Rows
  <1>10. \A r : HeldBy(e, r) = {i \in 1..n : f[i] = r}
    BY <1>5, <1>6, <1>9 DEF HeldBy
  <1>11. \A r \in Founders : \E i \in Rows(e) : HeldBy(e, r) = {i}
    <2> SUFFICES ASSUME NEW r \in Founders PROVE \E i \in Rows(e) : HeldBy(e, r) = {i}
      OBVIOUS
    <2>1. PICK i \in 1..n : f[i] = r
      BY <1>4
    <2>2. HeldBy(e, r) = {i}
      BY <1>4, <1>10, <2>1
    <2> QED
      BY <1>9, <2>2
  <1>12. \A r \in Role \ Founders : HeldBy(e, r) = {}
    BY <1>4, <1>10
  <1>13. \A i \in Rows(e) : \E r \in Founders : e.token[i] = RoleToken(r)
    <2>1. \A i \in 1..n : t[i] = RoleToken(f[i])
      BY DEF t
    <2> QED
      BY <1>4, <1>6, <1>9, <2>1
  <1> QED
    BY <1>5, <1>6, <1>8, <1>9, <1>11, <1>12, <1>13 DEF e, n

-----------------------------------------------------------------------------
(* What holds of a database, committed or in the middle of a transaction.   *)

\* Nothing is there before the channel; links and sessions stand for keys that exist.
WellFormed(d) ==
    /\ d.chan = "absent" => Rows(d) = {} /\ d.roles = {} /\ d.nonce = {} /\ d.session = {}
    /\ \A n \in d.nonce : n.key \in Rows(d)
    /\ \A s \in d.session : s.key \in Rows(d)

\* Each role of the channel but those in S has one token that works; nobody else has any.
Holders(d, S) ==
    \A r \in Role :
        /\ d.chan = "live" /\ r \in d.roles \ S => \E i \in Rows(d) : HeldBy(d, r) = {i}
        /\ ~(d.chan = "live" /\ r \in d.roles \ S) => HeldBy(d, r) = {}

OneUse(d) == \A s \in d.session, n \in d.nonce : s.key # n.key

Core(d, S) == d \in Database /\ WellFormed(d) /\ Holders(d, S) /\ OneUse(d)

\* A key of an unknown issuer works only while the token works that asked for it.
TrustedUnknown(d) ==
    \A k \in Rows(d) :
        d.token[k].kind = "view" /\ d.token[k].unknown /\ d.token[k].live =>
            \/ asked[k] = Admin
            \/ /\ asked[k] \in Rows(d)
               /\ d.token[asked[k]].kind = "role" /\ d.token[asked[k]].live

LEMMA KeepsIsTransitive ==
    ASSUME NEW a, NEW b, NEW c, Keeps(a, b), Keeps(b, c)
    PROVE  Keeps(a, c)
  BY DEF Keeps, SameRow

\* A change that leaves roles, links and sessions, and the tokens of the roles.
LEMMA LeavesTheRoles ==
    ASSUME NEW d, NEW e \in Database, NEW S, Core(d, S), SameBut(d, e), Keeps(d, e),
           Rows(e) = Rows(d) \/ d.chan = "live",
           \A r \in Role : HeldBy(e, r) = HeldBy(d, r)
    PROVE  Core(e, S)
  <1>1. WellFormed(e)
    BY DEF Core, WellFormed, SameBut, Keeps
  <1>2. Holders(e, S)
    BY DEF Core, Holders, SameBut, Keeps
  <1> QED
    BY <1>1, <1>2 DEF Core, OneUse, SameBut

\* Revoking view keys.
LEMMA RevokesViews ==
    ASSUME NEW d, NEW S, Core(d, S), NEW I \in SUBSET Rows(d),
           \A i \in I : d.token[i].kind = "view"
    PROVE  LET e == Revoked(d, I) IN
           /\ Core(e, S) /\ Keeps(d, e) /\ Rows(e) = Rows(d) /\ SameBut(d, e)
           /\ TrustedUnknown(d) => TrustedUnknown(e)
           /\ \A i \in Rows(d) : e.token[i].live <=> d.token[i].live /\ i \notin I
  <1> DEFINE e == Revoked(d, I)
  <1>1. d \in Database
    BY DEF Core
  <1>2. /\ e \in Database /\ Rows(e) = Rows(d) /\ SameBut(d, e) /\ Keeps(d, e)
        /\ \A i \in Rows(d) : e.token[i].live <=> d.token[i].live /\ i \notin I
        /\ \A r : HeldBy(e, r) = HeldBy(d, r) \ I
    BY <1>1, RevokedEffect
  <1> HIDE DEF e
  <1>3. \A r \in Role : HeldBy(e, r) = HeldBy(d, r)
    BY <1>2 DEF HeldBy
  <1>4. Core(e, S)
    BY <1>2, <1>3, LeavesTheRoles
  <1>5. TrustedUnknown(d) => TrustedUnknown(e)
    BY <1>2 DEF TrustedUnknown, Keeps, SameRow
  <1> QED
    BY <1>2, <1>4, <1>5 DEF e

\* revoke_view_tokens leaves no key of an unknown issuer.
LEMMA RevokesUnknown ==
    ASSUME NEW d, NEW S, Core(d, S), NEW r
    PROVE  LET e == RevokeViews(d, r) IN
           /\ Core(e, S) /\ Keeps(d, e) /\ Rows(e) = Rows(d) /\ SameBut(d, e)
           /\ TrustedUnknown(e)
  <1> DEFINE I == {i \in Rows(d) : d.token[i].kind = "view"
                       /\ (r = NoRole \/ d.token[i].role = r \/ d.token[i].unknown)}
             e == Revoked(d, I)
  <1>1. I \in SUBSET Rows(d) /\ \A i \in I : d.token[i].kind = "view"
    OBVIOUS
  <1>2. /\ \A i \in Rows(d) : d.token[i].kind = "view" /\ d.token[i].unknown => i \in I
        /\ e = RevokeViews(d, r)
    BY DEF RevokeViews
  <1> HIDE DEF I
  <1>3. /\ Core(e, S) /\ Keeps(d, e) /\ Rows(e) = Rows(d) /\ SameBut(d, e)
        /\ \A i \in Rows(d) : e.token[i].live <=> d.token[i].live /\ i \notin I
    BY <1>1, RevokesViews
  <1> HIDE DEF e
  <1>4. TrustedUnknown(e)
    BY <1>2, <1>3 DEF TrustedUnknown, Keeps, SameRow
  <1> QED
    BY <1>2, <1>3, <1>4

\* Tokens and roles are as before, and no link or session is new.
LEMMA OnlyTakesLinks ==
    ASSUME NEW d, NEW e \in Database, NEW S, Core(d, S),
           e.chan = d.chan, e.roles = d.roles, e.token = d.token,
           \A n \in e.nonce : \E o \in d.nonce : n.key = o.key,
           e.session \subseteq d.session
    PROVE  /\ Core(e, S) /\ Keeps(d, e) /\ Rows(e) = Rows(d)
           /\ TrustedUnknown(d) => TrustedUnknown(e)
  <1>1. Rows(e) = Rows(d) /\ Keeps(d, e)
    BY DEF Rows, Keeps, SameRow
  <1>2. \A r : HeldBy(e, r) = HeldBy(d, r)
    BY <1>1 DEF HeldBy
  <1>3. WellFormed(e)
    BY <1>1 DEF Core, WellFormed
  <1>4. Holders(e, S)
    BY <1>1, <1>2 DEF Core, Holders
  <1>5. OneUse(e)
    BY DEF Core, OneUse
  <1>6. TrustedUnknown(d) => TrustedUnknown(e)
    BY <1>1 DEF TrustedUnknown
  <1> QED
    BY <1>1, <1>3, <1>4, <1>5, <1>6 DEF Core

LEMMA Purges ==
    ASSUME NEW d, NEW S, Core(d, S)
    PROVE  LET e == Purged(d) IN
           /\ Core(e, S) /\ Keeps(d, e) /\ Rows(e) = Rows(d)
           /\ e.chan = d.chan /\ e.roles = d.roles
           /\ e.nonce = {n \in d.nonce : ~n.used /\ n.exp > now}
           /\ TrustedUnknown(d) => TrustedUnknown(e)
  <1> DEFINE e == Purged(d)
  <1>1. d \in Database
    BY DEF Core
  <1>2. /\ e \in Database /\ e.chan = d.chan /\ e.roles = d.roles /\ e.token = d.token
        /\ e.nonce = {n \in d.nonce : ~n.used /\ n.exp > now}
        /\ e.session \subseteq d.session
    BY <1>1, PurgedEffect
  <1> HIDE DEF e
  <1>3. \A n \in e.nonce : \E o \in d.nonce : n.key = o.key
    BY <1>2
  <1>4. Core(e, S) /\ Keeps(d, e) /\ Rows(e) = Rows(d)
        /\ (TrustedUnknown(d) => TrustedUnknown(e))
    BY <1>2, <1>3, OnlyTakesLinks
  <1> QED
    BY <1>2, <1>4 DEF e

\* A role that has no token gets one.
LEMMA Issues ==
    ASSUME NEW d, NEW r \in Role, Core(d, {r}), d.chan = "live", r \in d.roles
    PROVE  LET e == Issued(d, r) IN
           /\ Core(e, {}) /\ Keeps(d, e)
           /\ Rows(e) = Rows(d) \cup {Len(d.token) + 1}
           /\ e.token[Len(d.token) + 1].kind = "role"
           /\ e.chan = "live" /\ r \in e.roles
           /\ TrustedUnknown(d) => TrustedUnknown(e)
  <1> DEFINE e == Issued(d, r)
             n == Len(d.token) + 1
  <1>1. d \in Database /\ RoleToken(r) \in TokenRow
    BY DEF Core, RoleToken, TokenRow, Admin
  <1>2. /\ e \in Database /\ SameBut(d, e) /\ Keeps(d, e)
        /\ Rows(e) = Rows(d) \cup {n} /\ n \notin Rows(d)
        /\ \A i \in Rows(d) : e.token[i] = d.token[i]
        /\ e.token[n] = RoleToken(r)
    BY <1>1, AppendEffect DEF Issued
  <1>3. \A o : HeldBy(e, o) = HeldBy(d, o) \cup (IF o = r THEN {n} ELSE {})
    <2>1. \A o : HeldBy(e, o) = HeldBy(d, o) \cup
              (IF RoleToken(r).kind = "role" /\ RoleToken(r).role = o /\ RoleToken(r).live
               THEN {n} ELSE {})
      BY <1>1, AppendEffect DEF Issued
    <2>2. RoleToken(r).kind = "role" /\ RoleToken(r).role = r /\ RoleToken(r).live
      BY DEF RoleToken
    <2> QED
      BY <2>1, <2>2
  <1> HIDE DEF e, n
  <1>4. Holders(e, {})
    <2> SUFFICES ASSUME NEW o \in Role
                 PROVE  /\ e.chan = "live" /\ o \in e.roles => \E i \in Rows(e) : HeldBy(e, o) = {i}
                        /\ ~(e.chan = "live" /\ o \in e.roles) => HeldBy(e, o) = {}
      BY DEF Holders
    <2>1. CASE o = r
      <3>1. HeldBy(d, r) = {}
        BY DEF Core, Holders
      <3>2. HeldBy(e, r) = {n} /\ n \in Rows(e)
        BY <1>2, <1>3, <3>1
      <3> QED
        BY <1>2, <2>1, <3>2 DEF SameBut
    <2>2. CASE o # r
      <3>1. HeldBy(e, o) = HeldBy(d, o)
        BY <1>3, <2>2
      <3> QED
        BY <1>2, <2>2, <3>1 DEF Core, Holders, SameBut
    <2> QED
      BY <2>1, <2>2
  <1>5. WellFormed(e) /\ OneUse(e)
    BY <1>2 DEF Core, WellFormed, OneUse, SameBut
  <1>6. e.token[n].kind = "role"
    BY <1>2 DEF RoleToken
  <1>7. TrustedUnknown(d) => TrustedUnknown(e)
    BY <1>2, <1>6 DEF TrustedUnknown
  <1> QED
    BY <1>2, <1>4, <1>5, <1>6, <1>7 DEF Core, SameBut, e, n

-----------------------------------------------------------------------------
(* Transactions, statement by statement.                                    *)

\* The roles that have no token just now.
Bereft(q, at) ==
    CASE q.op = "rotate" /\ at \in 2..4 -> {q.arg}
      [] q.op = "add" /\ at = 2         -> {q.arg}
      [] q.op = "delete" /\ at = 2      -> Role
      [] OTHER                          -> {}

\* The rows that the transaction has added: one key, or tokens of roles.
NewKey(q, d) ==
    /\ Rows(d) = Rows(db) \cup {Len(db.token) + 1} /\ Len(d.token) = Len(db.token) + 1
    /\ LET k == d.token[Len(db.token) + 1] IN k.kind = "view" /\ k.by = q.who /\ ~k.unknown
NewRoles(d) == \A i \in Rows(d) \ Rows(db) : d.token[i].kind = "role"
NewRows(q, at, d) == IF q.op = "link" /\ at > 1 THEN NewKey(q, d) ELSE NewRoles(d)

\* The link that is redeemed: used or late after the first statement, gone after the next.
Redeemed(q, at, d, row) ==
    q.op = "redeem" =>
        /\ at = 1 => row = 0
        /\ at = 2 /\ row # 0 =>
              /\ row \in Rows(d)
              /\ \A n \in d.nonce : n.key = row => n.used \/ n.exp <= now
        /\ at = 3 /\ row # 0 =>
              /\ row \in Rows(d)
              /\ \A n \in d.nonce : n.key # row

Steps == [create |-> 1, rotate |-> 4, add |-> 2, link |-> 3, revoke |-> 2, delete |-> 2,
          redeem |-> 3]

TxGood(q, at, d, row) ==
    /\ q.op \in Ops /\ at \in 1..Steps[q.op] + 1
    /\ Core(d, Bereft(q, at)) /\ Keeps(db, d)
    /\ at = 1 => d = db
    /\ q.op \in {"rotate", "add"} /\ at > 1 => d.chan = "live" /\ q.arg \in d.roles
    /\ q.op = "link" /\ at > 1 => d.chan = "live" /\ d.session = db.session
    /\ (q.op = "rotate" /\ at = 2) \/ TrustedUnknown(d)
    /\ NewRows(q, at, d)
    /\ Redeemed(q, at, d, row)

\* Who asks is somebody, and what for is something.
CallGood(q) ==
    /\ q.op = "none" => q = Idle
    /\ q.op \in {"rotate", "add"} => q.arg \in Role
    /\ q.op = "revoke" => q.arg = NoRole
    /\ q.op = "link" => \/ q.who = Admin
                        \/ q.who \in Rows(db) /\ db.token[q.who].kind = "role"
    /\ q.op = "redeem" => q.link \in Rows(db)

\* The issuer that is recorded, if one is, is who asked.
KnownIssuers ==
    \A k \in Rows(db) : db.token[k].kind = "view" =>
        /\ k <= MaxToken
        /\ ~db.token[k].unknown => db.token[k].by = asked[k]

DbGood == Core(db, {}) /\ TrustedUnknown(db) /\ KnownIssuers

\* One caller at a time is in a transaction, and there was room for the row it adds.
TxsGood ==
    /\ \A c, o \in Caller : InTx(c) /\ InTx(o) => c = o
    /\ \A c \in Caller : InTx(c) =>
          /\ Len(db.token) < MaxToken
          /\ TxGood(call[c], tx[c].at, tx[c].db, tx[c].row)

IInv == RegistryTypeOK /\ DbGood /\ TxsGood /\ \A c \in Caller : CallGood(call[c])

\* After a statement that adds no rows, the rows added are what they were.
LEMMA AddsNoRows ==
    ASSUME NEW q, NEW at, NEW d, NEW e, NewRoles(d), Keeps(d, e), Rows(e) = Rows(d)
    PROVE  NewRoles(e)
  BY DEF NewRoles, Keeps, SameRow

LEMMA Creates ==
    ASSUME NEW q \in Call, NEW d, NEW row, q.op = "create", TxGood(q, 1, d, row),
           d.chan = "absent"
    PROVE  TxGood(q, 2, Founded(d), row)
  <1> DEFINE e == Founded(d)
  <1>1. d = db /\ d \in Database /\ WellFormed(d)
    BY DEF TxGood, Core
  <1>2. Rows(d) = {} /\ d.nonce = {} /\ d.session = {}
    BY <1>1 DEF WellFormed
  <1>3. /\ e \in Database /\ e.chan = "live" /\ e.roles = Founders
        /\ e.nonce = {} /\ e.session = {}
        /\ \A i \in Rows(e) : e.token[i].kind = "role"
        /\ \A r \in Founders : \E i \in Rows(e) : HeldBy(e, r) = {i}
        /\ \A r \in Role \ Founders : HeldBy(e, r) = {}
    BY <1>1, <1>2, FoundedEffect
  <1> HIDE DEF e
  <1>4. Holders(e, {})
    BY <1>3 DEF Holders
  <1>5. Core(e, {})
    BY <1>3, <1>4 DEF Core, WellFormed, OneUse
  <1>6. Keeps(db, e) /\ TrustedUnknown(e) /\ NewRoles(e)
    BY <1>1, <1>2, <1>3 DEF Keeps, TrustedUnknown, NewRoles
  <1>7. Bereft(q, 2) = {} /\ Steps[q.op] = 1 /\ q.op \in Ops
    BY DEF Bereft, Steps, Ops
  <1> QED
    BY <1>5, <1>6, <1>7 DEF TxGood, NewRows, Redeemed, e

LEMMA Rotates ==
    ASSUME NEW q \in Call, NEW at \in 1..4, NEW d, NEW row, q.op = "rotate", q.arg \in Role,
           TxGood(q, at, d, row), at = 1 => d.chan = "live" /\ q.arg \in d.roles
    PROVE  /\ at = 1 => TxGood(q, 2, Revoked(d, HeldBy(d, q.arg)), row)
           /\ at = 2 => TxGood(q, 3, RevokeViews(d, q.arg), row)
           /\ at = 3 => TxGood(q, 4, Purged(d), row)
           /\ at = 4 => TxGood(q, 5, Issued(d, q.arg), row)
  <1>1. Bereft(q, 1) = {} /\ Bereft(q, 5) = {} /\ Steps[q.op] = 4 /\ q.op \in Ops
        /\ Bereft(q, 2) = {q.arg} /\ Bereft(q, 3) = {q.arg} /\ Bereft(q, 4) = {q.arg}
    BY DEF Bereft, Steps, Ops
  <1>2. Core(d, Bereft(q, at)) /\ Keeps(db, d) /\ NewRoles(d)
        /\ d.chan = "live" /\ q.arg \in d.roles /\ d \in Database
    BY DEF TxGood, NewRows, Core
  <1>3. ASSUME at = 1 PROVE TxGood(q, 2, Revoked(d, HeldBy(d, q.arg)), row)
    <2> DEFINE e == Revoked(d, HeldBy(d, q.arg))
    <2>1. /\ e \in Database /\ Rows(e) = Rows(d) /\ SameBut(d, e) /\ Keeps(d, e)
          /\ \A r : HeldBy(e, r) = HeldBy(d, r) \ HeldBy(d, q.arg)
      BY <1>2, RevokedEffect
    <2> HIDE DEF e
    <2>2. \A r \in Role : r # q.arg => HeldBy(e, r) = HeldBy(d, r)
      BY <2>1 DEF HeldBy
    <2>3. HeldBy(e, q.arg) = {}
      BY <2>1
    <2>4. Holders(d, {})
      BY <1>1, <1>2, <1>3 DEF Core
    <2>5. Holders(e, {q.arg})
      BY <2>1, <2>2, <2>3, <2>4 DEF Holders, SameBut
    <2>6. Core(e, {q.arg})
      BY <1>2, <2>1, <2>5 DEF Core, WellFormed, OneUse, SameBut
    <2>7. Keeps(db, e) /\ NewRoles(e)
      BY <1>2, <2>1, KeepsIsTransitive, AddsNoRows
    <2> QED
      BY <1>1, <1>2, <2>1, <2>6, <2>7 DEF TxGood, NewRows, Redeemed, SameBut, e
  <1>4. ASSUME at = 2 PROVE TxGood(q, 3, RevokeViews(d, q.arg), row)
    <2> DEFINE e == RevokeViews(d, q.arg)
    <2>1. /\ Core(e, {q.arg}) /\ Keeps(d, e) /\ Rows(e) = Rows(d) /\ SameBut(d, e)
          /\ TrustedUnknown(e)
      BY <1>1, <1>2, <1>4, RevokesUnknown
    <2> HIDE DEF e
    <2>2. Keeps(db, e) /\ NewRoles(e)
      BY <1>2, <2>1, KeepsIsTransitive, AddsNoRows
    <2> QED
      BY <1>1, <1>2, <2>1, <2>2 DEF TxGood, NewRows, Redeemed, SameBut, e
  <1>5. ASSUME at = 3 PROVE TxGood(q, 4, Purged(d), row)
    <2> DEFINE e == Purged(d)
    <2>0. TrustedUnknown(d)
      BY <1>5 DEF TxGood
    <2>1. /\ Core(e, {q.arg}) /\ Keeps(d, e) /\ Rows(e) = Rows(d)
          /\ e.chan = d.chan /\ e.roles = d.roles /\ TrustedUnknown(e)
      BY <1>1, <1>2, <1>5, <2>0, Purges
    <2> HIDE DEF e
    <2>2. Keeps(db, e) /\ NewRoles(e)
      BY <1>2, <2>1, KeepsIsTransitive, AddsNoRows
    <2> QED
      BY <1>1, <1>2, <2>1, <2>2 DEF TxGood, NewRows, Redeemed, e
  <1>6. ASSUME at = 4 PROVE TxGood(q, 5, Issued(d, q.arg), row)
    <2> DEFINE e == Issued(d, q.arg)
               n == Len(d.token) + 1
    <2>0. TrustedUnknown(d)
      BY <1>6 DEF TxGood
    <2>1. /\ Core(e, {}) /\ Keeps(d, e) /\ Rows(e) = Rows(d) \cup {n}
          /\ e.token[n].kind = "role" /\ e.chan = "live" /\ q.arg \in e.roles
          /\ TrustedUnknown(e)
      BY <1>1, <1>2, <1>6, <2>0, Issues
    <2> HIDE DEF e, n
    <2>2. Keeps(db, e) /\ NewRoles(e)
      BY <1>2, <2>1, KeepsIsTransitive DEF NewRoles, Keeps, SameRow
    <2> QED
      BY <1>1, <2>1, <2>2 DEF TxGood, NewRows, Redeemed, e
  <1> QED
    BY <1>3, <1>4, <1>5, <1>6

LEMMA Adds ==
    ASSUME NEW q \in Call, NEW at \in 1..2, NEW d, NEW row, q.op = "add", q.arg \in Role,
           TxGood(q, at, d, row), at = 1 => d.chan = "live" /\ q.arg \notin d.roles
    PROVE  /\ at = 1 => TxGood(q, 2, [d EXCEPT !.roles = @ \cup {q.arg}], row)
           /\ at = 2 => TxGood(q, 3, Issued(d, q.arg), row)
  <1>1. Bereft(q, 1) = {} /\ Bereft(q, 2) = {q.arg} /\ Bereft(q, 3) = {}
        /\ Steps[q.op] = 2 /\ q.op \in Ops
    BY DEF Bereft, Steps, Ops
  <1>2. Core(d, Bereft(q, at)) /\ Keeps(db, d) /\ NewRoles(d) /\ d.chan = "live"
        /\ d \in Database /\ TrustedUnknown(d)
    BY DEF TxGood, NewRows, Core
  <1>3. ASSUME at = 1 PROVE TxGood(q, 2, [d EXCEPT !.roles = @ \cup {q.arg}], row)
    <2> DEFINE e == [d EXCEPT !.roles = @ \cup {q.arg}]
    <2>1. /\ e \in Database /\ e.token = d.token /\ e.roles = d.roles \cup {q.arg}
          /\ e.chan = d.chan /\ e.nonce = d.nonce /\ e.session = d.session
      BY <1>2 DEF Database
    <2> HIDE DEF e
    <2>2. Rows(e) = Rows(d) /\ Keeps(d, e) /\ \A r : HeldBy(e, r) = HeldBy(d, r)
      BY <2>1 DEF Rows, HeldBy, Keeps, SameRow
    <2>3. Holders(d, {})
      BY <1>1, <1>2, <1>3 DEF Core
    <2>4. Holders(e, {q.arg})
      BY <1>3, <2>1, <2>2, <2>3 DEF Holders
    <2>5. Core(e, {q.arg}) /\ TrustedUnknown(e)
      BY <1>2, <2>1, <2>2, <2>4 DEF Core, WellFormed, OneUse, TrustedUnknown
    <2>6. Keeps(db, e) /\ NewRoles(e)
      BY <1>2, <2>2, KeepsIsTransitive, AddsNoRows
    <2> QED
      BY <1>1, <1>2, <2>1, <2>5, <2>6 DEF TxGood, NewRows, Redeemed, e
  <1>4. ASSUME at = 2 PROVE TxGood(q, 3, Issued(d, q.arg), row)
    <2> DEFINE e == Issued(d, q.arg)
               n == Len(d.token) + 1
    <2>0. q.arg \in d.roles
      BY <1>4 DEF TxGood
    <2>1. /\ Core(e, {}) /\ Keeps(d, e) /\ Rows(e) = Rows(d) \cup {n}
          /\ e.token[n].kind = "role" /\ e.chan = "live" /\ q.arg \in e.roles
          /\ TrustedUnknown(e)
      BY <1>1, <1>2, <1>4, <2>0, Issues
    <2> HIDE DEF e, n
    <2>2. Keeps(db, e) /\ NewRoles(e)
      BY <1>2, <2>1, KeepsIsTransitive DEF NewRoles, Keeps, SameRow
    <2> QED
      BY <1>1, <2>1, <2>2 DEF TxGood, NewRows, Redeemed, e
  <1> QED
    BY <1>3, <1>4

LEMMA Links ==
    ASSUME NEW q \in Call, NEW at \in 1..3, NEW d, NEW row, q.op = "link", now \in Nat,
           TxGood(q, at, d, row), at = 1 => d.chan = "live", Core(db, {})
    PROVE  /\ at = 1 => TxGood(q, 2, InsertKey(d, q), row)
           /\ at = 2 => TxGood(q, 3, Capped(d, q), row)
           /\ at = 3 => TxGood(q, 4, InsertNonce(d), row)
  <1>1. (\A k : Bereft(q, k) = {}) /\ Steps[q.op] = 3 /\ q.op \in Ops
    BY DEF Bereft, Steps, Ops
  <1>2. Core(d, {}) /\ Keeps(db, d) /\ d.chan = "live" /\ d \in Database /\ TrustedUnknown(d)
    BY <1>1 DEF TxGood, Core
  <1>3. at > 1 => NewKey(q, d) /\ d.session = db.session
    BY DEF TxGood, NewRows
  <1>4. ASSUME at = 1 PROVE TxGood(q, 2, InsertKey(d, q), row)
    <2> DEFINE x == ViewKey(q.who, q.arg, FALSE, now + KeyTTL)
               e == InsertKey(d, q)
               n == Len(d.token) + 1
    <2>1. x \in TokenRow /\ x.kind = "view" /\ x.by = q.who /\ ~x.unknown
      BY RegistryAssumption DEF ViewKey, TokenRow, Call
    <2>3. /\ e \in Database /\ SameBut(d, e) /\ Keeps(d, e)
          /\ Len(e.token) = n /\ Rows(e) = Rows(d) \cup {n} /\ n \notin Rows(d)
          /\ \A i \in Rows(d) : e.token[i] = d.token[i]
          /\ e.token[n] = x
      BY <1>2, <2>1, AppendEffect DEF InsertKey
    <2>4. \A r : HeldBy(e, r) = HeldBy(d, r) \cup
              (IF x.kind = "role" /\ x.role = r /\ x.live THEN {n} ELSE {})
      BY <1>2, <2>1, AppendEffect DEF InsertKey
    <2> HIDE DEF n, x, e
    <2>5. \A r : HeldBy(e, r) = HeldBy(d, r)
      BY <2>1, <2>4
    <2>6. Core(e, {})
      BY <1>2, <2>3, <2>5, LeavesTheRoles
    <2>7. TrustedUnknown(e)
      BY <1>2, <2>1, <2>3 DEF TrustedUnknown
    <2>8. d = db
      BY <1>4 DEF TxGood
    <2>9. NewKey(q, e)
      BY <2>1, <2>3, <2>8 DEF NewKey, n
    <2>10. Keeps(db, e) /\ e.chan = "live" /\ e.session = db.session
      BY <1>2, <2>3, <2>8 DEF SameBut
    <2> QED
      BY <1>1, <2>6, <2>7, <2>9, <2>10 DEF TxGood, NewRows, Redeemed, e
  <1>5. ASSUME at = 2 PROVE TxGood(q, 3, Capped(d, q), row)
    <2> DEFINE e == Capped(d, q)
               I == OverCap(d, q.arg)
    <2>1. I \in SUBSET Rows(d) /\ \A i \in I : d.token[i].kind = "view"
      BY DEF OverCap, KeysOf
    <2>2. e = Revoked(d, I)
      BY DEF Capped
    <2> HIDE DEF I, e
    <2>3. /\ Core(e, {}) /\ Keeps(d, e) /\ Rows(e) = Rows(d) /\ SameBut(d, e)
          /\ TrustedUnknown(e)
      BY <1>2, <2>1, <2>2, RevokesViews
    <2>4. Len(e.token) = Len(d.token)
      <3>1. e \in Database
        BY <2>3 DEF Core
      <3>2. 1..Len(e.token) = 1..Len(d.token) /\ Len(e.token) \in Nat /\ Len(d.token) \in Nat
        BY <1>2, <2>3, <3>1, RowsAreNumbered
      <3> QED
        BY <3>2
    <2>5. NewKey(q, e)
      BY <1>3, <1>5, <2>3, <2>4 DEF NewKey, Keeps, SameRow
    <2>6. Keeps(db, e)
      BY <1>2, <2>3, KeepsIsTransitive
    <2> QED
      BY <1>1, <1>2, <1>3, <1>5, <2>3, <2>5, <2>6 DEF TxGood, NewRows, Redeemed, SameBut, e
  <1>6. ASSUME at = 3 PROVE TxGood(q, 4, InsertNonce(d), row)
    <2> DEFINE e == InsertNonce(d)
               l == [key |-> Len(d.token), exp |-> now + NonceTTL, used |-> FALSE]
    <2>1. Len(d.token) \in Nat /\ Rows(d) = 1..Len(d.token) /\ Len(d.token) = Len(db.token) + 1
          /\ Rows(db) = 1..Len(db.token) /\ Len(db.token) \in Nat
      BY <1>2, <1>3, <1>6, RowsAreNumbered DEF NewKey, Core
    <2>2. l \in Link /\ l.key = Len(d.token)
      BY <2>1, RegistryAssumption DEF Link
    <2>3. e = [d EXCEPT !.nonce = @ \cup {l}]
      BY DEF InsertNonce
    <2> HIDE DEF l, e
    <2>4. /\ e \in Database /\ e.token = d.token /\ e.chan = d.chan /\ e.roles = d.roles
          /\ e.session = d.session /\ e.nonce = d.nonce \cup {l}
      BY <1>2, <2>2, <2>3 DEF Database
    <2>5. Rows(e) = Rows(d) /\ Keeps(d, e) /\ \A r : HeldBy(e, r) = HeldBy(d, r)
      BY <2>4 DEF Rows, HeldBy, Keeps, SameRow
    <2>6. OneUse(e)
      <3>1. \A s \in e.session : s.key # l.key
        BY <1>3, <1>6, <2>1, <2>2, <2>4 DEF Core, WellFormed
      <3> QED
        BY <1>2, <2>4, <3>1 DEF Core, OneUse
    <2>7. WellFormed(e)
      BY <1>2, <2>1, <2>2, <2>4, <2>5 DEF Core, WellFormed
    <2>8. Holders(e, {}) /\ TrustedUnknown(e)
      BY <1>2, <2>4, <2>5 DEF Core, Holders, TrustedUnknown
    <2>9. NewKey(q, e) /\ Keeps(db, e)
      BY <1>2, <1>3, <1>6, <2>4, <2>5, KeepsIsTransitive DEF NewKey
    <2> QED
      BY <1>1, <1>2, <1>3, <1>6, <2>4, <2>6, <2>7, <2>8, <2>9
         DEF TxGood, NewRows, Redeemed, Core, e
  <1> QED
    BY <1>4, <1>5, <1>6

LEMMA Revokes ==
    ASSUME NEW q \in Call, NEW at \in 1..2, NEW d, NEW row, q.op = "revoke",
           TxGood(q, at, d, row)
    PROVE  /\ at = 1 => TxGood(q, 2, RevokeViews(d, q.arg), row)
           /\ at = 2 => TxGood(q, 3, Purged(d), row)
  <1>1. (\A k : Bereft(q, k) = {}) /\ Steps[q.op] = 2 /\ q.op \in Ops
    BY DEF Bereft, Steps, Ops
  <1>2. Core(d, {}) /\ Keeps(db, d) /\ NewRoles(d) /\ TrustedUnknown(d)
    BY <1>1 DEF TxGood, NewRows
  <1>3. TxGood(q, 2, RevokeViews(d, q.arg), row)
    <2> DEFINE e == RevokeViews(d, q.arg)
    <2>1. Core(e, {}) /\ Keeps(d, e) /\ Rows(e) = Rows(d) /\ TrustedUnknown(e)
      BY <1>2, RevokesUnknown
    <2> HIDE DEF e
    <2>2. Keeps(db, e) /\ NewRoles(e)
      BY <1>2, <2>1, KeepsIsTransitive, AddsNoRows
    <2> QED
      BY <1>1, <2>1, <2>2 DEF TxGood, NewRows, Redeemed, e
  <1>4. TxGood(q, 3, Purged(d), row)
    <2> DEFINE e == Purged(d)
    <2>1. Core(e, {}) /\ Keeps(d, e) /\ Rows(e) = Rows(d) /\ TrustedUnknown(e)
      BY <1>2, Purges
    <2> HIDE DEF e
    <2>2. Keeps(db, e) /\ NewRoles(e)
      BY <1>2, <2>1, KeepsIsTransitive, AddsNoRows
    <2> QED
      BY <1>1, <2>1, <2>2 DEF TxGood, NewRows, Redeemed, e
  <1> QED
    BY <1>3, <1>4

LEMMA Deletes ==
    ASSUME NEW q \in Call, NEW at \in 1..2, NEW d, NEW row, q.op = "delete",
           TxGood(q, at, d, row), at = 1 => d.chan = "live"
    PROVE  /\ at = 1 => TxGood(q, 2, Revoked(d, Rows(d)), row)
           /\ at = 2 => TxGood(q, 3, [d EXCEPT !.chan = "deleted"], row)
  <1>1. Bereft(q, 1) = {} /\ Bereft(q, 2) = Role /\ Bereft(q, 3) = {}
        /\ Steps[q.op] = 2 /\ q.op \in Ops
    BY DEF Bereft, Steps, Ops
  <1>2. Core(d, Bereft(q, at)) /\ Keeps(db, d) /\ NewRoles(d) /\ TrustedUnknown(d)
        /\ d \in Database
    BY DEF TxGood, NewRows, Core
  <1>3. ASSUME at = 1 PROVE TxGood(q, 2, Revoked(d, Rows(d)), row)
    <2> DEFINE e == Revoked(d, Rows(d))
    <2>1. /\ e \in Database /\ Rows(e) = Rows(d) /\ SameBut(d, e) /\ Keeps(d, e)
          /\ \A i \in Rows(d) : e.token[i].live <=> d.token[i].live /\ i \notin Rows(d)
          /\ \A r : HeldBy(e, r) = HeldBy(d, r) \ Rows(d)
      BY <1>2, RevokedEffect
    <2> HIDE DEF e
    <2>2. \A r \in Role : HeldBy(e, r) = {}
      BY <2>1 DEF HeldBy
    <2>3. Holders(e, Role)
      BY <2>2 DEF Holders
    <2>4. Core(e, Role) /\ TrustedUnknown(e)
      BY <1>2, <2>1, <2>3 DEF Core, WellFormed, OneUse, SameBut, TrustedUnknown
    <2>5. Keeps(db, e) /\ NewRoles(e)
      BY <1>2, <2>1, KeepsIsTransitive, AddsNoRows
    <2> QED
      BY <1>1, <2>4, <2>5 DEF TxGood, NewRows, Redeemed, e
  <1>4. ASSUME at = 2 PROVE TxGood(q, 3, [d EXCEPT !.chan = "deleted"], row)
    <2> DEFINE e == [d EXCEPT !.chan = "deleted"]
    <2>1. /\ e \in Database /\ e.token = d.token /\ e.chan = "deleted"
          /\ e.nonce = d.nonce /\ e.session = d.session
      BY <1>2 DEF Database
    <2> HIDE DEF e
    <2>2. Rows(e) = Rows(d) /\ Keeps(d, e) /\ \A r : HeldBy(e, r) = HeldBy(d, r)
      BY <2>1 DEF Rows, HeldBy, Keeps, SameRow
    <2>3. Holders(e, {})
      BY <1>1, <1>2, <1>4, <2>1, <2>2 DEF Core, Holders
    <2>4. Core(e, {}) /\ TrustedUnknown(e)
      BY <1>2, <2>1, <2>2, <2>3 DEF Core, WellFormed, OneUse, TrustedUnknown
    <2>5. Keeps(db, e) /\ NewRoles(e)
      BY <1>2, <2>2, KeepsIsTransitive, AddsNoRows
    <2> QED
      BY <1>1, <2>4, <2>5 DEF TxGood, NewRows, Redeemed, e
  <1> QED
    BY <1>3, <1>4

LEMMA Redeems ==
    ASSUME NEW q \in Call, NEW at \in 1..3, NEW d, NEW row, q.op = "redeem", now \in Nat,
           TxGood(q, at, d, row), q.link \in Rows(db)
    PROVE  /\ at = 1 => TxGood(q, 2, Burnt(d, q.link), IF Burns(d, q.link) THEN q.link ELSE row)
           /\ at = 2 => TxGood(q, 3, Purged(d), row)
           /\ at = 3 => TxGood(q, 4, OpenSession(d, row), row)
  <1>1. (\A k : Bereft(q, k) = {}) /\ Steps[q.op] = 3 /\ q.op \in Ops
    BY DEF Bereft, Steps, Ops
  <1>2. Core(d, {}) /\ Keeps(db, d) /\ NewRoles(d) /\ TrustedUnknown(d) /\ d \in Database
    BY <1>1 DEF TxGood, NewRows, Core
  <1>3. ASSUME at = 1
        PROVE  TxGood(q, 2, Burnt(d, q.link), IF Burns(d, q.link) THEN q.link ELSE row)
    <2> DEFINE e == Burnt(d, q.link)
               u(n) == [n EXCEPT !.used = TRUE]
               hit(n) == n.key = q.link /\ ~n.used /\ n.exp > now
               N == {IF hit(n) THEN u(n) ELSE n : n \in d.nonce}
    <2>1. d.nonce \subseteq Link /\ q.link \in Rows(d) /\ row = 0
      BY <1>2, <1>3 DEF TxGood, Database, Redeemed
    <2>2. \A n \in d.nonce : u(n) \in Link /\ u(n).key = n.key /\ u(n).used
      BY <2>1 DEF Link
    <2>3. e = [d EXCEPT !.nonce = N]
      BY DEF Burnt
    <2> HIDE DEF u, e
    <2>4. N \in SUBSET Link
      BY <2>1, <2>2
    <2>5. \A n \in N : /\ \E o \in d.nonce : n.key = o.key
                       /\ n.key = q.link => n.used \/ ~(n.exp > now)
      BY <2>2
    <2> HIDE DEF N
    <2>6. /\ e \in Database /\ e.token = d.token /\ e.chan = d.chan /\ e.roles = d.roles
          /\ e.session = d.session /\ e.nonce = N
      BY <1>2, <2>3, <2>4 DEF Database
    <2>7. Core(e, {}) /\ Keeps(d, e) /\ Rows(e) = Rows(d) /\ TrustedUnknown(e)
      BY <1>2, <2>5, <2>6, OnlyTakesLinks
    <2>8. Keeps(db, e) /\ NewRoles(e)
      BY <1>2, <2>7, KeepsIsTransitive, AddsNoRows
    <2>9. \A n \in e.nonce : n.key = q.link => n.used \/ n.exp <= now
      BY <2>4, <2>5, <2>6 DEF Link
    <2>10. ASSUME NEW k, k = q.link \/ k = 0 PROVE Redeemed(q, 2, e, k)
      BY <2>1, <2>7, <2>9, <2>10 DEF Redeemed
    <2>11. ASSUME NEW k, k = q.link \/ k = 0 PROVE TxGood(q, 2, e, k)
      BY <1>1, <2>7, <2>8, <2>10, <2>11 DEF TxGood, NewRows
    <2>12. (IF Burns(d, q.link) THEN q.link ELSE row) \in {q.link, 0}
      BY <2>1
    <2> QED
      BY <2>11, <2>12 DEF e
  <1>4. ASSUME at = 2 PROVE TxGood(q, 3, Purged(d), row)
    <2> DEFINE e == Purged(d)
    <2>1. /\ Core(e, {}) /\ Keeps(d, e) /\ Rows(e) = Rows(d) /\ TrustedUnknown(e)
          /\ e.nonce = {n \in d.nonce : ~n.used /\ n.exp > now}
      BY <1>2, Purges
    <2> HIDE DEF e
    <2>2. Keeps(db, e) /\ NewRoles(e)
      BY <1>2, <2>1, KeepsIsTransitive, AddsNoRows
    <2>3. \A n \in d.nonce : n.exp \in Nat
      BY <1>2 DEF Database, Link
    <2>4. Redeemed(q, 2, d, row)
      BY <1>4 DEF TxGood
    <2>5. Redeemed(q, 3, e, row)
      BY <2>1, <2>3, <2>4 DEF Redeemed
    <2>6. TxGood(q, 3, e, row)
      BY <1>1, <2>1, <2>2, <2>5 DEF TxGood, NewRows
    <2> QED
      BY <2>6 DEF e
  <1>5. ASSUME at = 3 PROVE TxGood(q, 4, OpenSession(d, row), row)
    <2> DEFINE e == OpenSession(d, row)
    <2>1. CASE ~(row # 0 /\ KeyOpens(d, row))
      <3>1. e = d
        BY <2>1 DEF OpenSession
      <3> HIDE DEF e
      <3> QED
        BY <1>1, <1>2, <3>1 DEF TxGood, NewRows, Redeemed, e
    <2>2. CASE row # 0 /\ KeyOpens(d, row)
      <3> DEFINE x == [key |-> row, exp |-> Least(now + SessionTTL, d.token[row].exp)]
      <3>1. row \in Rows(d) /\ \A n \in d.nonce : n.key # row
        BY <1>5, <2>2 DEF TxGood, Redeemed
      <3>2. x \in Session /\ x.key = row
        <4>1. d.token[row].exp \in Nat /\ now + SessionTTL \in Nat /\ row \in Nat
          BY <1>2, <3>1, RowsAreNumbered, RegistryAssumption DEF TokenRow
        <4>2. Least(now + SessionTTL, d.token[row].exp) \in Nat
          BY <4>1 DEF Least
        <4> QED
          BY <4>1, <4>2 DEF Session
      <3>3. e = [d EXCEPT !.session = @ \cup {x}]
        BY <2>2 DEF OpenSession
      <3> HIDE DEF x, e
      <3>4. /\ e \in Database /\ e.token = d.token /\ e.chan = d.chan /\ e.roles = d.roles
            /\ e.nonce = d.nonce /\ e.session = d.session \cup {x}
        BY <1>2, <3>2, <3>3 DEF Database
      <3>5. Rows(e) = Rows(d) /\ Keeps(d, e) /\ \A r : HeldBy(e, r) = HeldBy(d, r)
        BY <3>4 DEF Rows, HeldBy, Keeps, SameRow
      <3>6. WellFormed(e)
        BY <1>2, <2>2, <3>1, <3>2, <3>4, <3>5 DEF Core, WellFormed, KeyOpens
      <3>7. Holders(e, {}) /\ OneUse(e) /\ TrustedUnknown(e)
        BY <1>2, <3>1, <3>2, <3>4, <3>5 DEF Core, Holders, OneUse, TrustedUnknown
      <3>8. Keeps(db, e) /\ NewRoles(e)
        BY <1>2, <3>5, KeepsIsTransitive, AddsNoRows
      <3> QED
        BY <1>1, <3>4, <3>6, <3>7, <3>8 DEF TxGood, NewRows, Redeemed, Core, e
    <2> QED
      BY <2>1, <2>2
  <1> QED
    BY <1>3, <1>4, <1>5

-----------------------------------------------------------------------------
(* The steps of a caller.                                                   *)

\* The statements by name.
LEMMA EffectOf ==
    ASSUME NEW d, NEW q, NEW row
    PROVE  /\ Effect("found", d, q, row) = Founded(d)
           /\ Effect("revoke_role", d, q, row) = Revoked(d, HeldBy(d, q.arg))
           /\ Effect("revoke_views", d, q, row) = RevokeViews(d, q.arg)
           /\ Effect("purge", d, q, row) = Purged(d)
           /\ Effect("issue", d, q, row) = Issued(d, q.arg)
           /\ Effect("write_roles", d, q, row) = [d EXCEPT !.roles = @ \cup {q.arg}]
           /\ Effect("insert_key", d, q, row) = InsertKey(d, q)
           /\ Effect("cap", d, q, row) = Capped(d, q)
           /\ Effect("insert_nonce", d, q, row) = InsertNonce(d)
           /\ Effect("revoke_all", d, q, row) = Revoked(d, Rows(d))
           /\ Effect("mark_deleted", d, q, row) = [d EXCEPT !.chan = "deleted"]
           /\ Effect("burn", d, q, row) = Burnt(d, q.link)
           /\ Effect("open", d, q, row) = OpenSession(d, row)
  BY DEF Effect

\* A statement of any call leaves its transaction good.
LEMMA StatementIsGood ==
    ASSUME IInv, NEW c \in Caller, Execute(c)
    PROVE  /\ tx'[c].at = tx[c].at + 1
           /\ TxGood(call[c], tx[c].at + 1, tx'[c].db, tx'[c].row)
  <1> DEFINE q    == call[c]
             at   == tx[c].at
             d    == tx[c].db
             row  == tx[c].row
             stmt == Program[q.op][at]
             e    == Effect(stmt, d, q, row)
             r    == IF stmt = "burn" /\ Burns(d, q.link) THEN q.link ELSE row
  <1>1. q \in Call /\ now \in Nat /\ Core(db, {}) /\ CallGood(q)
    BY DEF IInv, RegistryTypeOK, DbGood
  <1>2. TxGood(q, at, d, row) /\ at \in Nat
    BY DEF IInv, TxsGood, Execute, RegistryTypeOK, Tx
  <1>3. tx'[c].at = at + 1 /\ tx'[c].db = e /\ tx'[c].row = r
        /\ at <= Len(Program[q.op]) /\ (at = 1 => ~Refuses(d, q))
    BY DEF Execute, IInv, RegistryTypeOK
  <1>4. q.op \in Ops /\ at \in 1..Steps[q.op] + 1 /\ (at = 1 => d = db)
        /\ (q.op = "rotate" /\ at > 1 => d.chan = "live" /\ q.arg \in d.roles)
    BY <1>2 DEF TxGood
  <1> SUFFICES TxGood(q, at + 1, e, r)
    BY <1>3
  <1> HIDE DEF q, at, d, row
  <1>5. CASE q.op = "create"
    <2>1. at = 1 /\ stmt = "found"
      BY <1>2, <1>3, <1>4, <1>5 DEF Program
    <2>2. e = Founded(d) /\ r = row /\ d.chan = "absent"
      BY <1>3, <1>5, <2>1, EffectOf DEF Refuses
    <2> QED
      BY <1>1, <1>2, <1>5, <2>1, <2>2, Creates
  <1>6. CASE q.op = "rotate"
    <2>1. at \in 1..4 /\ q.arg \in Role
      BY <1>1, <1>2, <1>3, <1>4, <1>6 DEF Program, CallGood
    <2>2. at = 1 => d.chan = "live" /\ q.arg \in d.roles
      BY <1>3, <1>6 DEF Refuses
    <2>3. /\ at = 1 => stmt = "revoke_role"
          /\ at = 2 => stmt = "revoke_views"
          /\ at = 3 => stmt = "purge"
          /\ at = 4 => stmt = "issue"
      BY <1>6 DEF Program
    <2>4. /\ at = 1 => TxGood(q, 2, Revoked(d, HeldBy(d, q.arg)), row)
          /\ at = 2 => TxGood(q, 3, RevokeViews(d, q.arg), row)
          /\ at = 3 => TxGood(q, 4, Purged(d), row)
          /\ at = 4 => TxGood(q, 5, Issued(d, q.arg), row)
      BY <1>1, <1>2, <1>6, <2>1, <2>2, Rotates
    <2>5. /\ at = 1 => e = Revoked(d, HeldBy(d, q.arg))
          /\ at = 2 => e = RevokeViews(d, q.arg)
          /\ at = 3 => e = Purged(d)
          /\ at = 4 => e = Issued(d, q.arg)
      BY <2>3, EffectOf
    <2> HIDE DEF e, r, stmt
    <2>6. r = row
      <3>1. stmt # "burn"
        BY <2>1, <2>3
      <3> QED
        BY <3>1 DEF r
    <2>7. CASE at = 1
      BY <2>4, <2>5, <2>6, <2>7
    <2>8. CASE at = 2
      BY <2>4, <2>5, <2>6, <2>8
    <2>9. CASE at = 3
      BY <2>4, <2>5, <2>6, <2>9
    <2>10. CASE at = 4
      BY <2>4, <2>5, <2>6, <2>10
    <2> QED
      BY <2>1, <2>7, <2>8, <2>9, <2>10
  <1>7. CASE q.op = "add"
    <2>1. at \in 1..2 /\ q.arg \in Role
      BY <1>1, <1>2, <1>3, <1>4, <1>7 DEF Program, CallGood
    <2>2. at = 1 => d.chan = "live" /\ q.arg \notin d.roles
      BY <1>3, <1>7 DEF Refuses
    <2>3. (at = 1 => stmt = "write_roles") /\ (at = 2 => stmt = "issue")
      BY <1>7 DEF Program
    <2>4. /\ at = 1 => TxGood(q, 2, [d EXCEPT !.roles = @ \cup {q.arg}], row)
          /\ at = 2 => TxGood(q, 3, Issued(d, q.arg), row)
      BY <1>1, <1>2, <1>7, <2>1, <2>2, Adds
    <2>5. /\ at = 1 => e = [d EXCEPT !.roles = @ \cup {q.arg}]
          /\ at = 2 => e = Issued(d, q.arg)
      <3>1. /\ at = 1 => e = Effect("write_roles", d, q, row)
            /\ at = 2 => e = Effect("issue", d, q, row)
        BY <2>3
      <3>2. /\ Effect("write_roles", d, q, row) = [d EXCEPT !.roles = @ \cup {q.arg}]
            /\ Effect("issue", d, q, row) = Issued(d, q.arg)
        BY EffectOf
      <3> HIDE DEF e
      <3> QED
        BY <3>1, <3>2
    <2> HIDE DEF e, r, stmt
    <2>6. r = row
      <3>1. stmt # "burn"
        BY <2>1, <2>3
      <3> QED
        BY <3>1 DEF r
    <2>7. CASE at = 1
      BY <2>4, <2>5, <2>6, <2>7
    <2>8. CASE at = 2
      BY <2>4, <2>5, <2>6, <2>8
    <2> QED
      BY <2>1, <2>7, <2>8
  <1>8. CASE q.op = "link"
    <2>1. at \in 1..3
      BY <1>2, <1>3, <1>4, <1>8 DEF Program
    <2>2. at = 1 => d.chan = "live"
      BY <1>3, <1>8 DEF Refuses
    <2>3. /\ at = 1 => stmt = "insert_key"
          /\ at = 2 => stmt = "cap"
          /\ at = 3 => stmt = "insert_nonce"
      BY <1>8 DEF Program
    <2>4. /\ at = 1 => TxGood(q, 2, InsertKey(d, q), row)
          /\ at = 2 => TxGood(q, 3, Capped(d, q), row)
          /\ at = 3 => TxGood(q, 4, InsertNonce(d), row)
      BY <1>1, <1>2, <1>8, <2>1, <2>2, Links
    <2> QED
      BY <2>1, <2>3, <2>4, EffectOf
  <1>9. CASE q.op = "revoke"
    <2>1. at \in 1..2
      BY <1>2, <1>3, <1>4, <1>9 DEF Program
    <2>2. (at = 1 => stmt = "revoke_views") /\ (at = 2 => stmt = "purge")
      BY <1>9 DEF Program
    <2>3. /\ at = 1 => TxGood(q, 2, RevokeViews(d, q.arg), row)
          /\ at = 2 => TxGood(q, 3, Purged(d), row)
      BY <1>1, <1>2, <1>9, <2>1, Revokes
    <2> QED
      BY <2>1, <2>2, <2>3, EffectOf
  <1>10. CASE q.op = "delete"
    <2>1. at \in 1..2
      BY <1>2, <1>3, <1>4, <1>10 DEF Program
    <2>2. at = 1 => d.chan = "live"
      BY <1>3, <1>10 DEF Refuses
    <2>3. (at = 1 => stmt = "revoke_all") /\ (at = 2 => stmt = "mark_deleted")
      BY <1>10 DEF Program
    <2>4. /\ at = 1 => TxGood(q, 2, Revoked(d, Rows(d)), row)
          /\ at = 2 => TxGood(q, 3, [d EXCEPT !.chan = "deleted"], row)
      BY <1>1, <1>2, <1>10, <2>1, <2>2, Deletes
    <2> QED
      BY <2>1, <2>3, <2>4, EffectOf
  <1>11. CASE q.op = "redeem"
    <2>1. at \in 1..3 /\ q.link \in Rows(db)
      BY <1>1, <1>2, <1>3, <1>4, <1>11 DEF Program, CallGood
    <2>2. /\ at = 1 => stmt = "burn"
          /\ at = 2 => stmt = "purge"
          /\ at = 3 => stmt = "open"
      BY <1>11 DEF Program
    <2>3. /\ at = 1 => TxGood(q, 2, Burnt(d, q.link), IF Burns(d, q.link) THEN q.link ELSE row)
          /\ at = 2 => TxGood(q, 3, Purged(d), row)
          /\ at = 3 => TxGood(q, 4, OpenSession(d, row), row)
      BY <1>1, <1>2, <1>11, <2>1, Redeems
    <2>4. CASE at = 1
      <3>1. stmt = "burn" /\ e = Burnt(d, q.link)
        BY <2>2, <2>4, EffectOf
      <3>2. r = IF Burns(d, q.link) THEN q.link ELSE row
        BY <3>1
      <3> QED
        BY <2>3, <2>4, <3>1, <3>2
    <2>5. CASE at \in {2, 3}
      BY <2>2, <2>3, <2>5, EffectOf
    <2> QED
      BY <2>1, <2>4, <2>5
  <1> QED
    BY <1>4, <1>5, <1>6, <1>7, <1>8, <1>9, <1>10, <1>11 DEF Ops

\* Idle callers, outside transactions.
LEMMA RestIsTyped == Absent \in Database /\ Idle \in Call /\ NoTx \in Tx
  <1>1. <<>> \in Seq(TokenRow)
    OBVIOUS
  <1>2. Absent \in Database
    BY <1>1 DEF Absent, Database
  <1> QED
    BY <1>2 DEF NoTx, Tx, Idle, Call, Admin

LEMMA OnlyIdleDoesNothing ==
    ASSUME IInv, NEW c \in Caller, call[c] # Idle
    PROVE  call[c].op \in Ops
  BY DEF IInv, RegistryTypeOK, Call, CallGood

LEMMA ProgramLengths ==
    \A op \in Ops : Len(Program[op]) = Steps[op] /\ Steps[op] \in 1..4
  <1> SUFFICES ASSUME NEW op \in Ops PROVE Len(Program[op]) = Steps[op] /\ Steps[op] \in 1..4
    OBVIOUS
  <1>1. CASE op = "create"
    BY <1>1 DEF Program, Steps
  <1>2. CASE op = "rotate"
    BY <1>2 DEF Program, Steps
  <1>3. CASE op = "add"
    BY <1>3 DEF Program, Steps
  <1>4. CASE op = "link"
    BY <1>4 DEF Program, Steps
  <1>5. CASE op = "revoke"
    BY <1>5 DEF Program, Steps
  <1>6. CASE op = "delete"
    BY <1>6 DEF Program, Steps
  <1>7. CASE op = "redeem"
    BY <1>7 DEF Program, Steps
  <1> QED
    BY <1>1, <1>2, <1>3, <1>4, <1>5, <1>6, <1>7 DEF Ops

LEMMA IdleIsGood == CallGood(Idle)
  BY DEF CallGood, Idle

\* A registry with a key from before issuers were recorded.
LEMMA LegacyIsGood ==
    ASSUME now = 0, db = InsertNonce(Legacy), NEW t \in 1..Cardinality(Founders),
           asked = [i \in 1..MaxToken |-> IF i = Cardinality(Founders) + 1 THEN t ELSE Admin]
    PROVE  DbGood
  <1> DEFINE f == Founded(Absent)
             x == ViewKey(Admin, NoRole, TRUE, KeyTTL)
             n == Cardinality(Founders)
             g == [f EXCEPT !.token = Append(@, x)]
             l == [key |-> Len(g.token), exp |-> now + NonceTTL, used |-> FALSE]
  <1>1. n \in Nat /\ n + 1 <= MaxToken /\ MaxToken \in Nat /\ KeyTTL \in Nat /\ NonceTTL \in Nat
    BY RegistryAssumption, FS_CardinalityType
  <1>2. /\ f \in Database /\ f.chan = "live" /\ f.roles = Founders
        /\ f.nonce = {} /\ f.session = {} /\ Len(f.token) = n
        /\ \A i \in Rows(f) : f.token[i].kind = "role"
        /\ \A r \in Founders : \E i \in Rows(f) : HeldBy(f, r) = {i}
        /\ \A r \in Role \ Founders : HeldBy(f, r) = {}
    <2>1. Absent.nonce = {} /\ Absent.session = {} /\ Absent \in Database
      BY RestIsTyped DEF Absent
    <2> QED
      BY <2>1, FoundedEffect
  <1>3. x \in TokenRow /\ x.kind = "view" /\ x.unknown
    BY <1>1 DEF ViewKey, TokenRow, Admin
  <1> HIDE DEF f, x
  <1> HIDE DEF n
  <1>4. /\ g \in Database /\ SameBut(f, g)
        /\ Len(g.token) = n + 1 /\ Rows(g) = Rows(f) \cup {n + 1}
        /\ \A i \in Rows(f) : g.token[i] = f.token[i]
        /\ g.token[n + 1] = x
    <2>1. /\ g \in Database /\ SameBut(f, g)
          /\ Len(g.token) = Len(f.token) + 1
          /\ Rows(g) = Rows(f) \cup {Len(f.token) + 1}
          /\ \A i \in Rows(f) : g.token[i] = f.token[i]
          /\ g.token[Len(f.token) + 1] = x
      BY <1>2, <1>3, AppendEffect
    <2>2. Len(f.token) = n
      BY <1>2
    <2> HIDE DEF g
    <2> QED
      BY <2>1, <2>2
  <1>5. Rows(f) = 1..n
    BY <1>2, RowsAreNumbered
  <1>6. db = [g EXCEPT !.nonce = {l}]
    <2>1. db = [g EXCEPT !.nonce = g.nonce \cup {l}]
      BY DEF InsertNonce, Legacy, f, x
    <2>2. g.nonce = {}
      BY <1>2, <1>4 DEF SameBut
    <2> HIDE DEF g, l
    <2>3. g.nonce \cup {l} = {l}
      BY <2>2
    <2> QED
      BY <2>1, <2>3
  <1> HIDE DEF g
  <1>7. l \in Link /\ l.key = n + 1
    BY <1>1, <1>4 DEF Link
  <1> HIDE DEF l
  <1>8. /\ db \in Database /\ db.chan = "live" /\ db.roles = Founders
        /\ db.nonce = {l} /\ db.session = {} /\ db.token = g.token
    <2>1. {l} \in SUBSET Link
      BY <1>7
    <2>2. db \in Database /\ db.nonce = {l} /\ db.token = g.token
          /\ db.chan = g.chan /\ db.roles = g.roles /\ db.session = g.session
      BY <1>4, <1>6, <2>1 DEF Database
    <2> QED
      BY <1>2, <1>4, <2>2 DEF SameBut
  <1>9. /\ Rows(db) = Rows(f) \cup {n + 1}
        /\ \A i \in Rows(f) : db.token[i] = f.token[i]
        /\ db.token[n + 1] = x
    BY <1>4, <1>8 DEF Rows
  <1>10. \A r \in Role : HeldBy(db, r) = HeldBy(f, r)
    <2> SUFFICES ASSUME NEW r \in Role PROVE HeldBy(db, r) = HeldBy(f, r)
      OBVIOUS
    <2>1. \A i \in Rows(f) : i \in HeldBy(db, r) <=> i \in HeldBy(f, r)
      BY <1>9 DEF HeldBy
    <2>2. n + 1 \notin HeldBy(db, r)
      <3>1. db.token[n + 1].kind = "view"
        BY <1>1, <1>3, <1>9
      <3> QED
        BY <3>1 DEF HeldBy
    <2>3. HeldBy(db, r) \subseteq Rows(f) \cup {n + 1} /\ HeldBy(f, r) \subseteq Rows(f)
      BY <1>9 DEF HeldBy
    <2> QED
      BY <2>1, <2>2, <2>3
  <1>11. Holders(db, {})
    BY <1>2, <1>8, <1>9, <1>10 DEF Holders
  <1>12. Core(db, {})
    BY <1>7, <1>8, <1>9, <1>11 DEF Core, WellFormed, OneUse
  <1>13. TrustedUnknown(db)
    <2>1. asked[n + 1] = t /\ t \in Rows(f)
      BY <1>1, <1>5 DEF n
    <2>2. f.token[t].kind = "role" /\ f.token[t].live
      <3>1. t \in Nat /\ f.token[t] \in TokenRow /\ f.token[t].kind = "role"
        BY <1>2, <1>5, <2>1, RowsAreNumbered
      <3>2. f.token[t] = RoleToken(SetToSeq(Founders)[t])
        BY DEF f, Founded, Absent
      <3> QED
        BY <3>1, <3>2 DEF RoleToken
    <2>3. \A k \in Rows(db) : db.token[k].kind = "view" => k = n + 1
      BY <1>2, <1>9
    <2> QED
      BY <1>9, <2>1, <2>2, <2>3 DEF TrustedUnknown
  <1>14. KnownIssuers
    <2>1. \A k \in Rows(db) : db.token[k].kind = "view" => k = n + 1
      BY <1>2, <1>9
    <2>2. db.token[n + 1].unknown
      <3>1. db.token[n + 1] = x
        BY <1>9
      <3> QED
        BY <1>3, <3>1
    <2> QED
      BY <1>1, <2>1, <2>2 DEF KnownIssuers
  <1> QED
    BY <1>12, <1>13, <1>14 DEF DbGood

LEMMA Initially == Init => IInv
  <1> SUFFICES ASSUME Init PROVE IInv
    OBVIOUS
  <1>1. Absent \in Database /\ Idle \in Call /\ NoTx \in Tx /\ CallGood(Idle)
    BY RestIsTyped, IdleIsGood
  <1>2. \A c \in Caller : call[c] = Idle /\ tx[c] = NoTx
    BY DEF Init
  <1>3. now \in Nat /\ tx \in [Caller -> Tx] /\ call \in [Caller -> Call]
    BY <1>1 DEF Init
  <1>4. TxsGood
    BY <1>2 DEF TxsGood, InTx, NoTx
  <1>5. DbGood /\ db \in Database /\ asked \in [1..MaxToken -> Nat]
    <2>1. CASE db = Absent /\ asked = [i \in 1..MaxToken |-> Admin]
      <3>1. db.chan = "absent" /\ db.roles = {} /\ db.nonce = {} /\ db.session = {} /\ Rows(db) = {}
        BY <2>1 DEF Absent, Rows
      <3>2. Core(db, {})
        BY <1>1, <2>1, <3>1 DEF Core, WellFormed, Holders, OneUse, HeldBy
      <3> QED
        BY <1>1, <2>1, <3>1, <3>2 DEF DbGood, TrustedUnknown, KnownIssuers, Admin
    <2>2. CASE /\ db = InsertNonce(Legacy)
               /\ \E t \in 1..Cardinality(Founders) :
                     asked = [i \in 1..MaxToken |->
                                 IF i = Cardinality(Founders) + 1 THEN t ELSE Admin]
      <3>1. PICK t \in 1..Cardinality(Founders) :
                asked = [i \in 1..MaxToken |->
                            IF i = Cardinality(Founders) + 1 THEN t ELSE Admin]
        BY <2>2
      <3>2. DbGood
        BY <2>2, <3>1, LegacyIsGood DEF Init
      <3>3. Admin \in Nat /\ t \in Nat
        BY DEF Admin
      <3> QED
        BY <3>1, <3>2, <3>3 DEF DbGood, Core
    <2> QED
      BY <2>1, <2>2 DEF Init
  <1> QED
    BY <1>1, <1>2, <1>3, <1>4, <1>5 DEF IInv, RegistryTypeOK

\* What the callers' calls mean is not lost when rows are added.
LEMMA CallsStayGood ==
    ASSUME \A c \in Caller : CallGood(call[c]), Keeps(db, db'), call \in [Caller -> Call],
           NEW c \in Caller, call' = [call EXCEPT ![c] = Idle]
    PROVE  \A o \in Caller : CallGood(call[o])'
  <1> SUFFICES ASSUME NEW o \in Caller PROVE CallGood(call[o])'
    OBVIOUS
  <1>1. CASE o = c
    <2>1. call'[o] = Idle
      BY <1>1
    <2> QED
      BY <2>1 DEF CallGood, Idle
  <1>2. CASE o # c
    <2>1. call'[o] = call[o] /\ CallGood(call[o])
      BY <1>2
    <2> QED
      BY <2>1 DEF CallGood, Keeps, SameRow
  <1> QED
    BY <1>1, <1>2

LEMMA KeepsItself == ASSUME NEW d PROVE Keeps(d, d)
  BY DEF Keeps, SameRow

\* The clock only makes links late.
LEMMA Ticks == ASSUME IInv, Tick PROVE IInv'
  <1>1. UNCHANGED <<db, tx, call, asked>> /\ now' = now + 1 /\ now \in Nat
    BY DEF Tick, IInv, RegistryTypeOK
  <1>2. RegistryTypeOK' /\ DbGood' /\ \A c \in Caller : CallGood(call[c])'
    BY <1>1 DEF IInv, RegistryTypeOK, DbGood, Core, WellFormed, Holders, OneUse, HeldBy, Rows,
                TrustedUnknown, KnownIssuers, CallGood
  <1>3. ASSUME NEW q, NEW at, NEW d \in Database, NEW row, Redeemed(q, at, d, row)
        PROVE  Redeemed(q, at, d, row)'
    <2>1. \A n \in d.nonce : n.exp \in Nat
      BY DEF Database, Link
    <2>2. \A n \in d.nonce : n.exp <= now => n.exp <= now'
      BY <1>1, <2>1
    <2> QED
      BY <1>3, <2>2 DEF Redeemed, Rows
  <1>4. ASSUME NEW q, NEW at, NEW d, NEW row, TxGood(q, at, d, row)
        PROVE  TxGood(q, at, d, row)'
    <2>1. Redeemed(q, at, d, row)'
      BY <1>3, <1>4 DEF TxGood, Core
    <2>2. Core(d, Bereft(q, at))' /\ Keeps(db, d)' /\ (TrustedUnknown(d) => TrustedUnknown(d)')
      BY <1>1, <1>4 DEF TxGood, Core, WellFormed, Holders, OneUse, HeldBy, Rows, Bereft, Keeps,
                        TrustedUnknown
    <2>3. NewRows(q, at, d)'
      BY <1>1, <1>4 DEF TxGood, NewRows, NewKey, NewRoles, Rows
    <2> QED
      BY <1>1, <1>4, <2>1, <2>2, <2>3 DEF TxGood, Bereft
  <1>5. TxsGood'
    <2>1. \A c \in Caller : InTx(c)' <=> InTx(c)
      BY <1>1 DEF InTx
    <2> QED
      BY <1>1, <1>4, <2>1 DEF IInv, TxsGood
  <1> QED
    BY <1>2, <1>5 DEF IInv

\* A request, and who makes it.
LEMMA RequestsAreGood ==
    ASSUME IInv, NEW q \in Requests
    PROVE  q \in Call /\ CallGood(q)
  <1>1. db \in Database /\ Rows(db) = 1..Len(db.token) /\ \A i \in Rows(db) : db.token[i] \in TokenRow
    BY RowsAreNumbered DEF IInv, RegistryTypeOK
  <1>2. CASE q \in {Request(op, Admin, NoRole, 0) : op \in {"create", "delete", "revoke", "link"}}
    BY <1>2 DEF Request, Call, Ops, CallGood, Admin
  <1>3. CASE q \in {Request(op, Admin, r, 0) : op \in {"rotate", "add"}, r \in Role}
    BY <1>3 DEF Request, Call, Ops, CallGood, Admin
  <1>4. CASE q \in {Request("link", t, db.token[t].role, 0) :
                 t \in {i \in Rows(db) : db.token[i].kind = "role" /\ Authentic(db, i)}}
    BY <1>1, <1>4 DEF Request, Call, Ops, CallGood, TokenRow
  <1>5. CASE q \in {Request("redeem", Admin, NoRole, k) :
                 k \in {i \in Rows(db) : db.token[i].kind = "view"}}
    BY <1>1, <1>5 DEF Request, Call, Ops, CallGood, Admin
  <1> QED
    BY <1>2, <1>3, <1>4, <1>5 DEF Requests

LEMMA Asks == ASSUME IInv, NEW c \in Caller, Ask(c) PROVE IInv'
  <1>1. PICK q \in Requests : call' = [call EXCEPT ![c] = q]
    BY DEF Ask
  <1>2. q \in Call /\ CallGood(q)
    BY RequestsAreGood
  <1>3. UNCHANGED <<now, db, tx, asked>> /\ call[c] = Idle /\ call \in [Caller -> Call]
    BY DEF Ask, IInv, RegistryTypeOK
  <1>4. /\ \A o \in Caller : o # c => call'[o] = call[o]
        /\ call'[c] = q
    BY <1>1, <1>3
  <1>5. RegistryTypeOK' /\ DbGood'
    BY <1>1, <1>2, <1>3 DEF IInv, RegistryTypeOK, DbGood, Core, WellFormed, Holders, OneUse,
                            HeldBy, Rows, TrustedUnknown, KnownIssuers
  <1>6. \A o \in Caller : CallGood(call[o])'
    BY <1>2, <1>3, <1>4 DEF IInv, CallGood, Rows
  <1>7. ~InTx(c)
    BY <1>3 DEF IInv, TxsGood, TxGood, Idle, Ops
  <1>8. TxsGood'
    BY <1>3, <1>4, <1>7 DEF IInv, TxsGood, InTx, TxGood, Core, WellFormed, Holders, OneUse,
                            HeldBy, Rows, TrustedUnknown, Keeps, NewRows, NewKey, NewRoles,
                            Redeemed
  <1> QED
    BY <1>5, <1>6, <1>8 DEF IInv

\* A transaction begins with what is committed.
LEMMA Begins == ASSUME IInv, NEW c \in Caller, Begin(c) PROVE IInv'
  <1>1. /\ UNCHANGED <<now, db, call, asked>> /\ call[c] # Idle
        /\ tx' = [tx EXCEPT ![c] = [at |-> 1, db |-> db, row |-> 0]]
        /\ \A o \in Caller : ~InTx(o)
        /\ Len(db.token) < MaxToken
    BY DEF Begin
  <1> DEFINE t == [at |-> 1, db |-> db, row |-> 0]
  <1>2. tx \in [Caller -> Tx] /\ t \in Tx /\ call[c] \in Call /\ DbGood
        /\ call \in [Caller -> Call]
    BY DEF IInv, RegistryTypeOK, Tx
  <1>3. tx'[c] = t /\ tx' \in [Caller -> Tx] /\ \A o \in Caller : o # c => tx'[o] = tx[o]
    BY <1>1, <1>2
  <1>4. RegistryTypeOK' /\ DbGood' /\ \A o \in Caller : CallGood(call[o])'
    BY <1>1, <1>3 DEF IInv, RegistryTypeOK, DbGood, Core, WellFormed, Holders, OneUse, HeldBy,
                      Rows, TrustedUnknown, KnownIssuers, CallGood
  <1>5. \A o \in Caller : InTx(o)' => o = c
    BY <1>1, <1>3 DEF InTx
  <1>6. TxGood(call[c], 1, db, 0)
    <2>1. call[c].op \in Ops
      BY <1>1, <1>2, OnlyIdleDoesNothing
    <2>2. 1 \in 1..Steps[call[c].op] + 1 /\ Bereft(call[c], 1) = {}
      BY <2>1 DEF Ops, Steps, Bereft
    <2> QED
      BY <1>2, <2>1, <2>2, KeepsItself DEF DbGood, TxGood, NewRows, NewRoles, Redeemed
  <1>7. TxGood(call[c], 1, db, 0)'
    BY <1>1, <1>6 DEF TxGood, Core, WellFormed, Holders, OneUse, HeldBy, Rows, Bereft,
                      TrustedUnknown, Keeps, NewRows, NewKey, NewRoles, Redeemed
  <1>8. TxsGood'
    BY <1>1, <1>3, <1>5, <1>7 DEF TxsGood
  <1> QED
    BY <1>4, <1>8 DEF IInv

\* A transaction that is refused, or rolled back.
LEMMA EndsWithNothing ==
    ASSUME IInv, NEW c \in Caller, Ends(c), UNCHANGED <<now, db, asked>>
    PROVE  IInv'
  <1>1. call' = [call EXCEPT ![c] = Idle] /\ tx' = [tx EXCEPT ![c] = NoTx]
        /\ call \in [Caller -> Call] /\ tx \in [Caller -> Tx]
    BY DEF Ends, IInv, RegistryTypeOK
  <1>2. /\ call'[c] = Idle /\ tx'[c] = NoTx
        /\ \A o \in Caller : o # c => call'[o] = call[o] /\ tx'[o] = tx[o]
    BY <1>1
  <1>3. RegistryTypeOK' /\ DbGood'
    BY <1>1, RestIsTyped DEF IInv, RegistryTypeOK, DbGood, Core, WellFormed, Holders, OneUse,
                             HeldBy, Rows, TrustedUnknown, KnownIssuers
  <1>4. \A o \in Caller : CallGood(call[o])'
    BY <1>1, KeepsItself, CallsStayGood DEF IInv
  <1>5. ASSUME NEW q, NEW at, NEW d, NEW row, TxGood(q, at, d, row)
        PROVE  TxGood(q, at, d, row)'
    BY <1>5 DEF TxGood, Core, WellFormed, Holders, OneUse, HeldBy, Rows, TrustedUnknown, Keeps,
                NewRows, NewKey, NewRoles, Redeemed, Bereft
  <1>6. \A o \in Caller : InTx(o)' => o # c /\ InTx(o)
    BY <1>2 DEF InTx, NoTx
  <1>7. \A o \in Caller : o # c /\ InTx(o) => TxGood(call[o], tx[o].at, tx[o].db, tx[o].row)'
    BY <1>2, <1>5 DEF IInv, TxsGood
  <1>8. TxsGood'
    BY <1>6, <1>7 DEF IInv, TxsGood
  <1> QED
    BY <1>3, <1>4, <1>8 DEF IInv

LEMMA Executes == ASSUME IInv, NEW c \in Caller, Execute(c) PROVE IInv'
  <1>1. /\ tx'[c].at = tx[c].at + 1
        /\ TxGood(call[c], tx[c].at + 1, tx'[c].db, tx'[c].row)
    BY StatementIsGood
  <1>2. UNCHANGED <<now, db, call, asked>> /\ InTx(c)
    BY DEF Execute
  <1>3. /\ tx \in [Caller -> Tx] /\ call[c].link \in Nat /\ tx[c].at \in Nat /\ tx[c].row \in Nat
    BY DEF IInv, RegistryTypeOK, Tx, Call
  <1>4. PICK e, r :
            /\ tx' = [tx EXCEPT ![c] = [at |-> tx[c].at + 1, db |-> e, row |-> r]]
            /\ r \in {call[c].link, tx[c].row}
    BY DEF Execute
  <1>5. /\ tx'[c] = [at |-> tx[c].at + 1, db |-> e, row |-> r]
        /\ \A o \in Caller : o # c => tx'[o] = tx[o]
    BY <1>3, <1>4
  <1>6. tx' \in [Caller -> Tx]
    <2>1. e \in Database
      BY <1>1, <1>5 DEF TxGood, Core
    <2>2. [at |-> tx[c].at + 1, db |-> e, row |-> r] \in Tx
      BY <1>3, <1>4, <2>1 DEF Tx
    <2> QED
      BY <1>3, <1>4, <2>2
  <1>7. RegistryTypeOK' /\ DbGood' /\ \A o \in Caller : CallGood(call[o])'
    BY <1>2, <1>6 DEF IInv, RegistryTypeOK, DbGood, Core, WellFormed, Holders, OneUse, HeldBy,
                      Rows, TrustedUnknown, KnownIssuers, CallGood
  <1>8. \A o \in Caller : InTx(o)' => o = c
    BY <1>2, <1>5 DEF IInv, TxsGood, InTx
  <1>9. TxGood(call[c], tx[c].at, tx[c].db, tx[c].row)'
    BY <1>1, <1>2 DEF TxGood, Core, WellFormed, Holders, OneUse, HeldBy, Rows, Bereft,
                      TrustedUnknown, Keeps, NewRows, NewKey, NewRoles, Redeemed
  <1>10. TxsGood'
    BY <1>2, <1>8, <1>9 DEF IInv, TxsGood
  <1> QED
    BY <1>7, <1>10 DEF IInv

\* What a transaction has done becomes what is there.
LEMMA Commits == ASSUME IInv, NEW c \in Caller, Commit(c) PROVE IInv'
  <1> DEFINE q == call[c]
             d == tx[c].db
             n == Len(db.token) + 1
  <1>1. /\ db' = d /\ UNCHANGED now /\ InTx(c) /\ tx[c].at > Len(Program[q.op])
        /\ asked' = IF q.op = "link" THEN [asked EXCEPT ![Len(d.token)] = q.who] ELSE asked
        /\ call' = [call EXCEPT ![c] = Idle] /\ tx' = [tx EXCEPT ![c] = NoTx]
    BY DEF Commit, Ends
  <1>2. /\ q \in Call /\ call \in [Caller -> Call] /\ tx \in [Caller -> Tx] /\ tx[c].at \in Nat
        /\ asked \in [1..MaxToken -> Nat]
    BY DEF IInv, RegistryTypeOK, Tx
  <1>3. TxGood(q, tx[c].at, d, tx[c].row) /\ Len(db.token) < MaxToken
    BY <1>1 DEF IInv, TxsGood
  <1>4. tx[c].at = Steps[q.op] + 1 /\ tx[c].at > 1
    <2>1. q.op \in Ops /\ tx[c].at \in 1..Steps[q.op] + 1
      BY <1>3 DEF TxGood
    <2>2. Len(Program[q.op]) = Steps[q.op] /\ Steps[q.op] \in 1..4
      BY <2>1, ProgramLengths
    <2>3. tx[c].at > Len(Program[q.op])
      BY <1>1
    <2> HIDE DEF q
    <2> QED
      BY <1>2, <2>1, <2>2, <2>3
  <1>5. Core(d, {}) /\ Keeps(db, d) /\ TrustedUnknown(d) /\ NewRows(q, tx[c].at, d)
        /\ d \in Database
    <2>1. Bereft(q, tx[c].at) = {} /\ ~(q.op = "rotate" /\ tx[c].at = 2)
      BY <1>3, <1>4 DEF TxGood, Ops, Steps, Bereft
    <2> QED
      BY <1>3, <2>1 DEF TxGood, Core
  <1>6. Rows(db) = 1..Len(db.token) /\ Len(db.token) \in Nat /\ MaxToken \in Nat
    BY RowsAreNumbered, RegistryAssumption DEF IInv, RegistryTypeOK
  <1>7. KnownIssuers /\ \A o \in Caller : CallGood(call[o])
    BY DEF IInv, DbGood
  <1> HIDE DEF q, d
  <1>8. asked' \in [1..MaxToken -> Nat] /\ KnownIssuers' /\ TrustedUnknown(db)'
    <2>1. CASE q.op = "link"
      <3>1. /\ Rows(d) = Rows(db) \cup {n} /\ Len(d.token) = n
            /\ d.token[n].kind = "view" /\ d.token[n].by = q.who /\ ~d.token[n].unknown
        BY <1>4, <1>5, <2>1 DEF NewRows, NewKey
      <3>2. asked' = [asked EXCEPT ![n] = q.who] /\ n \in 1..MaxToken /\ n \notin Rows(db)
            /\ q.who \in Nat
        BY <1>1, <1>2, <1>3, <1>6, <2>1, <3>1 DEF Call
      <3>3. /\ asked'[n] = q.who /\ asked' \in [1..MaxToken -> Nat]
            /\ \A k : k # n => asked'[k] = asked[k]
        BY <1>2, <3>2
      <3> HIDE DEF n
      <3>4. Rows(db)' = Rows(d)
        BY <1>1 DEF Rows
      <3>5. \A k \in Rows(d) : k = n \/ (k \in Rows(db) /\ k # n)
        BY <3>1, <3>2
      <3>6. KnownIssuers'
        <4> SUFFICES ASSUME NEW k \in Rows(d), d.token[k].kind = "view"
                     PROVE  /\ k <= MaxToken
                            /\ ~d.token[k].unknown => d.token[k].by = asked'[k]
          BY <1>1, <3>4 DEF KnownIssuers
        <4>1. CASE k = n
          BY <3>1, <3>2, <3>3, <4>1
        <4>2. CASE k \in Rows(db) /\ k # n
          <5>1. SameRow(db.token[k], d.token[k]) /\ asked'[k] = asked[k]
            BY <1>5, <3>3, <4>2 DEF Keeps
          <5> QED
            BY <1>7, <4>2, <5>1 DEF SameRow, KnownIssuers
        <4> QED
          BY <3>5, <4>1, <4>2
      <3>7. TrustedUnknown(db)'
        <4> SUFFICES ASSUME NEW k \in Rows(d), d.token[k].kind = "view", d.token[k].unknown,
                            d.token[k].live
                     PROVE  \/ asked'[k] = Admin
                            \/ /\ asked'[k] \in Rows(d)
                               /\ d.token[asked'[k]].kind = "role" /\ d.token[asked'[k]].live
          BY <1>1, <3>4 DEF TrustedUnknown
        <4>1. k # n
          BY <3>1
        <4>2. asked'[k] = asked[k]
          BY <3>3, <4>1
        <4> QED
          BY <1>5, <4>2 DEF TrustedUnknown
      <3> QED
        BY <3>3, <3>6, <3>7
    <2>2. CASE q.op # "link"
      <3>1. asked' = asked /\ NewRoles(d)
        BY <1>1, <1>5, <2>2 DEF NewRows
      <3>2. \A k \in Rows(d) : d.token[k].kind = "view" => k \in Rows(db)
        BY <3>1 DEF NewRoles
      <3>3. KnownIssuers'
        BY <1>1, <1>5, <1>7, <3>1, <3>2 DEF KnownIssuers, Keeps, SameRow, Rows
      <3>4. TrustedUnknown(db)'
        BY <1>1, <1>5, <3>1 DEF TrustedUnknown, Rows
      <3> QED
        BY <1>2, <3>1, <3>3, <3>4
    <2> QED
      BY <2>1, <2>2
  <1>9. Core(db, {})'
    BY <1>1, <1>5 DEF Core, WellFormed, Holders, OneUse, HeldBy, Rows
  <1>10. RegistryTypeOK'
    BY <1>1, <1>2, <1>5, <1>8, RestIsTyped DEF IInv, RegistryTypeOK
  <1>11. \A o \in Caller : CallGood(call[o])'
    BY <1>1, <1>2, <1>5, <1>7, CallsStayGood
  <1>12. TxsGood'
    <2>1. \A o \in Caller : ~InTx(o)'
      BY <1>1, <1>2 DEF IInv, TxsGood, InTx, NoTx
    <2> QED
      BY <2>1 DEF TxsGood
  <1> QED
    BY <1>8, <1>9, <1>10, <1>11, <1>12 DEF IInv, DbGood

LEMMA Invariance == Spec => []IInv
  <1>1. IInv /\ [Next]_vars => IInv'
    <2> SUFFICES ASSUME IInv, [Next]_vars PROVE IInv'
      OBVIOUS
    <2>1. CASE Tick
      BY <2>1, Ticks
    <2>2. ASSUME NEW c \in Caller, Ask(c) PROVE IInv'
      BY <2>2, Asks
    <2>3. ASSUME NEW c \in Caller, Begin(c) PROVE IInv'
      BY <2>3, Begins
    <2>4. ASSUME NEW c \in Caller, Refuse(c) PROVE IInv'
      BY <2>4, EndsWithNothing DEF Refuse
    <2>5. ASSUME NEW c \in Caller, Execute(c) PROVE IInv'
      BY <2>5, Executes
    <2>6. ASSUME NEW c \in Caller, Commit(c) PROVE IInv'
      BY <2>6, Commits
    <2>7. ASSUME NEW c \in Caller, Fail(c) PROVE IInv'
      BY <2>7, EndsWithNothing DEF Fail
    <2>8. CASE UNCHANGED vars
      BY <2>8 DEF vars, IInv, RegistryTypeOK, DbGood, Core, WellFormed, Holders, OneUse, HeldBy,
                  Rows, TrustedUnknown, KnownIssuers, CallGood, TxsGood, InTx, TxGood, Keeps,
                  NewRows, NewKey, NewRoles, Redeemed
    <2> QED
      BY <2>1, <2>2, <2>3, <2>4, <2>5, <2>6, <2>7, <2>8 DEF Next
  <1> QED
    BY <1>1, Initially, PTL DEF Spec

-----------------------------------------------------------------------------
(* Theorems.                                                                *)

\* The clock, the tables, the transactions and the calls have their types in every
\* reachable state (auth.py SCHEMA).
THEOREM TypeCorrect == Spec => []RegistryTypeOK
  <1>1. IInv => RegistryTypeOK
    BY DEF IInv
  <1> QED
    BY <1>1, Invariance, PTL

\* Every role of the channel has exactly one token that works, and nobody else has one,
\* whatever the callers, their failures and the order of their statements (write_tx,
\* rotate_token, add_role, delete_channel).
THEOREM RolesAreHeld == Spec => []RolesHoldOneToken
  <1>1. IInv => RolesHoldOneToken
    <2> SUFFICES ASSUME IInv, NEW r \in Role
                 PROVE  Cardinality(HeldBy(db, r)) = IF db.chan = "live" /\ r \in db.roles
                                                     THEN 1 ELSE 0
      BY DEF RolesHoldOneToken
    <2>1. Holders(db, {})
      BY DEF IInv, DbGood, Core
    <2>2. CASE db.chan = "live" /\ r \in db.roles
      <3>1. PICK i \in Rows(db) : HeldBy(db, r) = {i}
        BY <2>1, <2>2 DEF Holders
      <3>2. Cardinality({i}) = 1
        BY FS_Singleton
      <3> QED
        BY <2>2, <3>1, <3>2
    <2>3. CASE ~(db.chan = "live" /\ r \in db.roles)
      <3>1. HeldBy(db, r) = {}
        BY <2>1, <2>3 DEF Holders
      <3>2. Cardinality({}) = 0
        BY FS_EmptySet
      <3> QED
        BY <2>3, <3>1, <3>2
    <2> QED
      BY <2>2, <2>3
  <1> QED
    BY <1>1, Invariance, PTL

\* No key that was asked for with a token that has been revoked since opens the board, for
\* any number of callers, rotations and keys (rotate_token, _VIEW_KEY_LIVE).
THEOREM LeakedTokensOpenNothing == Spec => []LeakedTokenOpensNothing
  <1>1. IInv => LeakedTokenOpensNothing
    <2> SUFFICES ASSUME IInv, NEW k \in Rows(db), db.token[k].kind = "view", KeyOpens(db, k)
                 PROVE  asked[k] = Admin \/ db.token[asked[k]].live
      BY DEF LeakedTokenOpensNothing, SessionOpens, LinkOpens
    <2>1. TrustedUnknown(db) /\ KnownIssuers
      BY DEF IInv, DbGood
    <2>2. CASE db.token[k].unknown
      BY <2>1, <2>2 DEF TrustedUnknown, KeyOpens
    <2>3. CASE ~db.token[k].unknown
      BY <2>1, <2>3 DEF KnownIssuers, KeyOpens, KeyLive
    <2> QED
      BY <2>2, <2>3
  <1> QED
    BY <1>1, Invariance, PTL

\* A link that opened a session opens nothing any more, for any number of browsers that
\* redeem it at once (redeem_board_nonce).
THEOREM LinksOpenOnce == Spec => []OneSessionPerLink
  <1>1. IInv => OneSessionPerLink
    BY DEF IInv, DbGood, Core, OneUse, OneSessionPerLink
  <1> QED
    BY <1>1, Invariance, PTL

-----------------------------------------------------------------------------
(* What a transaction may take: sessions and links that are late, used or    *)
(* revoked, and the oldest keys of an issuer.  A second invariant compares  *)
(* what it has made of the database with what is committed.                 *)

\* What a call has left: every session and every link whose key it has not revoked, but
\* those that are late, and the link that it redeems.
Spared(q, d) ==
    /\ \A s \in db.session : s.exp > now /\ d.token[s.key].live => s \in d.session
    /\ \A n \in db.nonce : ~n.used /\ n.exp > now => n \in d.nonce \/ n.key = q.link

\* Of the keys X and a new one, at most KeyCap are kept, and they are the newest.
KeepsNewest(X, new, kept) ==
    /\ Cardinality(kept) <= KeyCap
    /\ new \in kept
    /\ \A i \in X \ kept, j \in kept : i < j

\* The keys of the issuer, once a link's key is there, and once they are capped.
Capping(q, at, d) ==
    LET old == KeysOf(db, q.arg)  new == Len(db.token) + 1 IN
    q.op = "link" =>
        /\ at = 2 => KeysOf(d, q.arg) = old \cup {new}
        /\ at > 2 => KeepsNewest(old, new, KeysOf(d, q.arg))

TakesLittle ==
    \A c \in Caller : InTx(c) =>
        Spared(call[c], tx[c].db) /\ Capping(call[c], tx[c].at, tx[c].db)

-----------------------------------------------------------------------------
(* The newest of a set.                                                     *)

\* Of a set of numbers, those with fewer than C greater ones are at most C: no two of them
\* have equally many.
LEMMA NewestAreFew ==
    ASSUME NEW S \in SUBSET Nat, IsFiniteSet(S), NEW C \in Nat
    PROVE  LET T == {i \in S : Cardinality({j \in S : j > i}) < C} IN
           IsFiniteSet(T) /\ Cardinality(T) <= C
  <1> DEFINE Above(i) == {j \in S : j > i}
             T == {i \in S : Cardinality(Above(i)) < C}
             f == [i \in T |-> Cardinality(Above(i))]
  <1>1. \A i \in S : IsFiniteSet(Above(i)) /\ Cardinality(Above(i)) \in Nat
    BY FS_Subset, FS_CardinalityType
  <1>2. ASSUME NEW i \in S, NEW k \in S, i < k
        PROVE  Cardinality(Above(i)) # Cardinality(Above(k))
    <2>0. i \in Nat /\ k \in Nat /\ \A j \in S : j \in Nat
      OBVIOUS
    <2>1. Above(k) \in SUBSET Above(i) /\ k \in Above(i) /\ k \notin Above(k)
      <3>1. \A j \in S : j > k => j > i
        BY <1>2, <2>0
      <3>2. k > i /\ ~(k > k)
        BY <1>2, <2>0
      <3> QED
        BY <3>1, <3>2
    <2>2. Above(k) # Above(i) /\ IsFiniteSet(Above(i))
      BY <1>1, <2>1
    <2> HIDE DEF Above
    <2> QED
      BY <2>1, <2>2, FS_Subset
  <1>3. f \in Injection(T, 0..C-1)
    <2>1. \A i \in T : f[i] \in 0..C-1
      BY <1>1
    <2>2. \A i, k \in T : f[i] = f[k] => i = k
      <3> SUFFICES ASSUME NEW i \in T, NEW k \in T, i # k PROVE f[i] # f[k]
        OBVIOUS
      <3>1. i \in S /\ k \in S /\ f[i] = Cardinality(Above(i)) /\ f[k] = Cardinality(Above(k))
        OBVIOUS
      <3>2. i < k \/ k < i
        BY <3>1
      <3> HIDE DEF f, Above
      <3> QED
        BY <1>2, <3>1, <3>2
    <2> HIDE DEF T
    <2>3. f \in [T -> 0..C-1]
      BY <2>1
    <2> QED
      BY <2>2, <2>3 DEF Injection, IsInjective
  <1>4. IsFiniteSet(0..C-1) /\ Cardinality(0..C-1) = C
    BY FS_Interval
  <1> HIDE DEF T, f
  <1>5. IsFiniteSet(T) /\ Cardinality(T) <= C
    BY <1>3, <1>4, FS_Injection
  <1> QED
    BY <1>5 DEF T

\* Capping leaves the KeyCap newest, and the new key is one of them.
LEMMA CappingKeepsNewest ==
    ASSUME NEW X \in SUBSET Nat, IsFiniteSet(X), NEW new \in Nat, \A i \in X : i < new
    PROVE  LET S == X \cup {new} IN
           KeepsNewest(X, new, {i \in S : Cardinality({j \in S : j > i}) < KeyCap})
  <1> DEFINE S == X \cup {new}
             Above(i) == {j \in S : j > i}
             T == {i \in S : Cardinality(Above(i)) < KeyCap}
  <1>1. S \in SUBSET Nat /\ IsFiniteSet(S) /\ KeyCap \in Nat \ {0}
    BY FS_AddElement, RegistryAssumption
  <1>2. Cardinality(T) <= KeyCap
    <2> HIDE DEF S
    <2> QED
      BY <1>1, NewestAreFew
  <1>3. new \in T
    <2>1. Above(new) = {} /\ new \in S
      <3>1. \A j \in S : ~(j > new)
        OBVIOUS
      <3> QED
        BY <3>1
    <2> QED
      BY <1>1, <2>1, FS_EmptySet
  <1>4. ASSUME NEW i \in X \ T, NEW j \in T PROVE i < j
    <2>1. /\ i \in S /\ j \in S /\ i \in Nat /\ j \in Nat
          /\ ~(Cardinality(Above(i)) < KeyCap) /\ Cardinality(Above(j)) < KeyCap
      BY <1>1
    <2>2. ASSUME ~(i < j) PROVE FALSE
      <3>1. Above(i) \in SUBSET Above(j) /\ Above(j) \in SUBSET S
        <4>1. \A k \in S : k > i => k > j
          BY <1>1, <2>1, <2>2
        <4> HIDE DEF S
        <4> QED
          BY <4>1
      <3> HIDE DEF Above, S, T
      <3>2. IsFiniteSet(Above(j)) /\ Cardinality(Above(j)) \in Nat
        BY <1>1, <3>1, FS_Subset, FS_CardinalityType
      <3>3. Cardinality(Above(i)) <= Cardinality(Above(j)) /\ IsFiniteSet(Above(i))
        BY <3>1, <3>2, FS_Subset
      <3>4. Cardinality(Above(i)) \in Nat
        BY <3>3, FS_CardinalityType
      <3> QED
        BY <1>1, <2>1, <3>2, <3>3, <3>4
    <2> QED
      BY <2>2
  <1> HIDE DEF T, S, Above
  <1>5. KeepsNewest(X, new, T)
    BY <1>2, <1>3, <1>4 DEF KeepsNewest
  <1> QED
    BY <1>5 DEF T, S, Above

-----------------------------------------------------------------------------
(* The statements, one by one.                                              *)

\* Whatever leaves the sessions and links, and brings no key back to life.
LEMMA SparesMore ==
    ASSUME IInv, NEW q, NEW d, NEW e, Spared(q, d), Keeps(db, d),
           d.session \subseteq e.session, d.nonce \subseteq e.nonce,
           \A i \in Rows(d) : e.token[i].live => d.token[i].live
    PROVE  Spared(q, e)
  <1>1. \A s \in db.session : s.key \in Rows(d)
    BY DEF IInv, DbGood, Core, WellFormed, Keeps
  <1> QED
    BY <1>1 DEF Spared

LEMMA RevokedSpares ==
    ASSUME IInv, NEW q, NEW d \in Database, NEW I, Spared(q, d), Keeps(db, d)
    PROVE  Spared(q, Revoked(d, I))
  <1> DEFINE e == Revoked(d, I)
  <1>1. SameBut(d, e) /\ \A i \in Rows(d) : e.token[i].live <=> d.token[i].live /\ i \notin I
    BY RevokedEffect
  <1> HIDE DEF e
  <1>2. Spared(q, e)
    BY <1>1, SparesMore DEF SameBut
  <1> QED
    BY <1>2 DEF e

LEMMA AppendSpares ==
    ASSUME IInv, NEW q, NEW d \in Database, NEW x \in TokenRow, Spared(q, d), Keeps(db, d)
    PROVE  Spared(q, [d EXCEPT !.token = Append(@, x)])
  <1> DEFINE e == [d EXCEPT !.token = Append(@, x)]
  <1>1. SameBut(d, e) /\ \A i \in Rows(d) : e.token[i] = d.token[i]
    BY AppendEffect
  <1> HIDE DEF e
  <1>2. Spared(q, e)
    BY <1>1, SparesMore DEF SameBut
  <1> QED
    BY <1>2 DEF e

\* _purge_board_state takes what is late or used, or whose key is revoked.
LEMMA PurgedSpares ==
    ASSUME IInv, NEW q, NEW d \in Database, Spared(q, d)
    PROVE  Spared(q, Purged(d))
  <1>1. /\ Purged(d).token = d.token
        /\ Purged(d).nonce = {n \in d.nonce : ~n.used /\ n.exp > now}
        /\ Purged(d).session = {s \in d.session : s.exp > now /\ d.token[s.key].live}
    BY DEF Purged, Database
  <1> QED
    BY <1>1 DEF Spared

\* Only the link that is redeemed is burnt.
LEMMA BurntSpares ==
    ASSUME IInv, NEW q, NEW d \in Database, Spared(q, d)
    PROVE  Spared(q, Burnt(d, q.link))
  <1> DEFINE e == Burnt(d, q.link)
             N == {IF n.key = q.link /\ ~n.used /\ n.exp > now
                   THEN [n EXCEPT !.used = TRUE] ELSE n : n \in d.nonce}
  <1>1. e.token = d.token /\ e.session = d.session /\ e.nonce = N
    <2>1. e = [d EXCEPT !.nonce = N]
      BY DEF Burnt
    <2> HIDE DEF N, e
    <2> QED
      BY <2>1 DEF Database
  <1>2. \A n \in d.nonce : n.key # q.link => n \in N
    OBVIOUS
  <1> HIDE DEF e, N
  <1>3. Spared(q, e)
    BY <1>1, <1>2 DEF Spared
  <1> QED
    BY <1>3 DEF e

\* The other statements only add to what is there.
LEMMA AddingSpares ==
    ASSUME IInv, NEW q, NEW d \in Database, NEW row, Spared(q, d), Keeps(db, d)
    PROVE  /\ Spared(q, [d EXCEPT !.roles = @ \cup {q.arg}])
           /\ Spared(q, [d EXCEPT !.chan = "deleted"])
           /\ Spared(q, InsertNonce(d))
           /\ Spared(q, OpenSession(d, row))
  <1>1. ASSUME NEW e, e.token = d.token, d.session \subseteq e.session,
               d.nonce \subseteq e.nonce
        PROVE  Spared(q, e)
    BY <1>1, SparesMore
  <1>2. Spared(q, [d EXCEPT !.roles = @ \cup {q.arg}])
    BY <1>1 DEF Database
  <1>3. Spared(q, [d EXCEPT !.chan = "deleted"])
    BY <1>1 DEF Database
  <1>4. Spared(q, InsertNonce(d))
    <2>1. /\ InsertNonce(d).token = d.token /\ d.session \subseteq InsertNonce(d).session
          /\ d.nonce \subseteq InsertNonce(d).nonce
      BY DEF InsertNonce, Database
    <2> QED
      BY <1>1, <2>1
  <1>5. Spared(q, OpenSession(d, row))
    <2>1. /\ OpenSession(d, row).token = d.token
          /\ d.session \subseteq OpenSession(d, row).session
          /\ d.nonce \subseteq OpenSession(d, row).nonce
      <3>1. CASE row # 0 /\ KeyOpens(d, row)
        BY <3>1 DEF OpenSession, Database
      <3>2. CASE ~(row # 0 /\ KeyOpens(d, row))
        BY <3>2 DEF OpenSession
      <3> QED
        BY <3>1, <3>2
    <2> QED
      BY <1>1, <2>1
  <1> QED
    BY <1>2, <1>3, <1>4, <1>5

Statements == {"found", "revoke_role", "revoke_views", "purge", "issue", "write_roles",
               "insert_key", "cap", "insert_nonce", "revoke_all", "mark_deleted", "burn",
               "open"}

\* A channel is founded where there was none, and nothing to spare.
LEMMA StatementSpares ==
    ASSUME IInv, NEW q \in Call, NEW d \in Database, NEW row, NEW stmt \in Statements,
           Spared(q, d), Keeps(db, d), stmt = "found" => db.session = {} /\ db.nonce = {}
    PROVE  Spared(q, Effect(stmt, d, q, row))
  <1>1. CASE stmt = "found"
    BY <1>1 DEF Spared
  <1>2. CASE stmt = "revoke_role"
    BY <1>2, EffectOf, RevokedSpares
  <1>3. CASE stmt = "revoke_views"
    <2>1. \E I : RevokeViews(d, q.arg) = Revoked(d, I)
      BY DEF RevokeViews
    <2>2. Spared(q, RevokeViews(d, q.arg))
      BY <2>1, RevokedSpares
    <2> QED
      BY <1>3, <2>2, EffectOf
  <1>4. CASE stmt = "purge"
    BY <1>4, EffectOf, PurgedSpares
  <1>5. CASE stmt = "issue"
    <2>1. RoleToken(q.arg) \in TokenRow
      BY DEF RoleToken, TokenRow, Admin, Call
    <2> QED
      BY <1>5, <2>1, EffectOf, AppendSpares DEF Issued
  <1>6. CASE stmt = "write_roles"
    BY <1>6, EffectOf, AddingSpares
  <1>7. CASE stmt = "insert_key"
    <2>1. ViewKey(q.who, q.arg, FALSE, now + KeyTTL) \in TokenRow
      BY RegistryAssumption DEF IInv, RegistryTypeOK, ViewKey, TokenRow, Call
    <2>2. Spared(q, InsertKey(d, q))
      BY <2>1, AppendSpares DEF InsertKey
    <2> QED
      BY <1>7, <2>2, EffectOf
  <1>8. CASE stmt = "cap"
    BY <1>8, EffectOf, RevokedSpares DEF Capped
  <1>9. CASE stmt = "insert_nonce"
    BY <1>9, EffectOf, AddingSpares
  <1>10. CASE stmt = "revoke_all"
    BY <1>10, EffectOf, RevokedSpares
  <1>11. CASE stmt = "mark_deleted"
    BY <1>11, EffectOf, AddingSpares
  <1>12. CASE stmt = "burn"
    BY <1>12, EffectOf, BurntSpares
  <1>13. CASE stmt = "open"
    BY <1>13, EffectOf, AddingSpares
  <1> QED
    BY <1>1, <1>2, <1>3, <1>4, <1>5, <1>6, <1>7, <1>8, <1>9, <1>10, <1>11, <1>12, <1>13
       DEF Statements

\* Only create founds a channel.
LEMMA StatementsOfPrograms ==
    ASSUME NEW op \in Ops, NEW at \in 1..Len(Program[op])
    PROVE  /\ Program[op][at] \in Statements
           /\ Program[op][at] = "found" => op = "create" /\ at = 1
  <1>1. CASE op = "create"
    BY <1>1 DEF Program, Statements
  <1>2. CASE op = "rotate"
    BY <1>2 DEF Program, Statements
  <1>3. CASE op = "add"
    BY <1>3 DEF Program, Statements
  <1>4. CASE op = "link"
    BY <1>4 DEF Program, Statements
  <1>5. CASE op = "revoke"
    BY <1>5 DEF Program, Statements
  <1>6. CASE op = "delete"
    BY <1>6 DEF Program, Statements
  <1>7. CASE op = "redeem"
    BY <1>7 DEF Program, Statements
  <1> QED
    BY <1>1, <1>2, <1>3, <1>4, <1>5, <1>6, <1>7 DEF Ops

LEMMA TransactionSpares ==
    ASSUME IInv, NEW c \in Caller, Execute(c), Spared(call[c], tx[c].db)
    PROVE  Spared(call[c], tx'[c].db)
  <1> DEFINE q    == call[c]
             at   == tx[c].at
             d    == tx[c].db
             stmt == Program[q.op][at]
  <1>1. /\ q \in Call /\ at \in Nat
        /\ q.op \in Ops /\ at >= 1 /\ d \in Database /\ Keeps(db, d) /\ (at = 1 => d = db)
    BY DEF IInv, RegistryTypeOK, Tx, TxsGood, TxGood, Core, Execute
  <1>2. /\ tx'[c].db = Effect(stmt, d, q, tx[c].row)
        /\ at <= Len(Program[q.op]) /\ (at = 1 => ~Refuses(d, q))
    BY DEF Execute, IInv, RegistryTypeOK
  <1>3. at \in 1..Len(Program[q.op])
    BY <1>1, <1>2, ProgramLengths
  <1>4. stmt \in Statements /\ (stmt = "found" => q.op = "create" /\ at = 1)
    BY <1>1, <1>3, StatementsOfPrograms
  <1>5. Spared(q, d)
    OBVIOUS
  <1> HIDE DEF q, at, d, stmt
  <1>6. stmt = "found" => d.session = {} /\ d.nonce = {} /\ db.session = {} /\ db.nonce = {}
    <2>1. q.op = "create" /\ at = 1 => db.chan = "absent"
      BY <1>1, <1>2 DEF Refuses
    <2>2. db.chan = "absent" => db.session = {} /\ db.nonce = {}
      BY DEF IInv, DbGood, Core, WellFormed
    <2> QED
      BY <1>1, <1>4, <2>1, <2>2
  <1>7. Spared(q, Effect(stmt, d, q, tx[c].row))
    BY <1>1, <1>4, <1>5, <1>6, StatementSpares
  <1> QED
    BY <1>2, <1>7 DEF q

-----------------------------------------------------------------------------
(* The statements of a link.                                                *)

\* The key that is inserted is the issuer's newest.
LEMMA InsertsTheNewest ==
    ASSUME IInv, NEW q \in Call
    PROVE  KeysOf(InsertKey(db, q), q.arg) = KeysOf(db, q.arg) \cup {Len(db.token) + 1}
  <1> DEFINE x == ViewKey(q.who, q.arg, FALSE, now + KeyTTL)
             e == InsertKey(db, q)
             n == Len(db.token) + 1
  <1>1. x \in TokenRow /\ x.kind = "view" /\ x.role = q.arg /\ x.live
    BY RegistryAssumption DEF IInv, RegistryTypeOK, ViewKey, TokenRow, Call
  <1>2. db \in Database
    BY DEF IInv, RegistryTypeOK
  <1>3. /\ Rows(e) = Rows(db) \cup {n} /\ n \notin Rows(db)
        /\ \A i \in Rows(db) : e.token[i] = db.token[i]
        /\ e.token[n] = x
    BY <1>1, <1>2, AppendEffect DEF InsertKey
  <1> HIDE DEF x, e, n
  <1>4. \A i \in Rows(db) : i \in KeysOf(e, q.arg) <=> i \in KeysOf(db, q.arg)
    BY <1>3 DEF KeysOf
  <1>5. n \in KeysOf(e, q.arg)
    BY <1>1, <1>3 DEF KeysOf
  <1>6. KeysOf(e, q.arg) \subseteq Rows(db) \cup {n} /\ KeysOf(db, q.arg) \subseteq Rows(db)
    BY <1>3 DEF KeysOf
  <1>7. KeysOf(e, q.arg) = KeysOf(db, q.arg) \cup {n}
    BY <1>4, <1>5, <1>6
  <1> QED
    BY <1>7 DEF e, n

LEMMA CapsToTheNewest ==
    ASSUME IInv, NEW q \in Call, NEW d \in Database,
           KeysOf(d, q.arg) = KeysOf(db, q.arg) \cup {Len(db.token) + 1}
    PROVE  KeepsNewest(KeysOf(db, q.arg), Len(db.token) + 1, KeysOf(Capped(d, q), q.arg))
  <1> DEFINE X   == KeysOf(db, q.arg)
             new == Len(db.token) + 1
             S   == X \cup {new}
             I   == OverCap(d, q.arg)
             e   == Capped(d, q)
             Above(i) == {j \in S : j > i}
  <1>1. X \in SUBSET Nat /\ IsFiniteSet(X) /\ new \in Nat /\ \A i \in X : i < new
    <2>1. Rows(db) = 1..Len(db.token) /\ Len(db.token) \in Nat
      BY RowsAreNumbered DEF IInv, RegistryTypeOK
    <2>2. X \in SUBSET Rows(db)
      BY DEF KeysOf
    <2>3. IsFiniteSet(Rows(db))
      BY <2>1, FS_Interval
    <2>4. IsFiniteSet(X)
      BY <2>2, <2>3, FS_Subset
    <2> HIDE DEF X
    <2> QED
      BY <2>1, <2>2, <2>4
  <1>2. I = {i \in S : Cardinality(Above(i)) >= KeyCap}
    BY DEF OverCap
  <1>3. KeysOf(e, q.arg) = S \ I
    <2>1. /\ Rows(e) = Rows(d) /\ Keeps(d, e)
          /\ \A i \in Rows(d) : e.token[i].live <=> d.token[i].live /\ i \notin I
      BY RevokedEffect DEF Capped
    <2> HIDE DEF e, I, S, X, new
    <2>2. KeysOf(e, q.arg) = KeysOf(d, q.arg) \ I
      BY <2>1 DEF KeysOf, Keeps, SameRow
    <2> QED
      BY <2>2 DEF S, X, new
  <1>4. \A i \in S : Cardinality(Above(i)) \in Nat
    <2>1. IsFiniteSet(S)
      BY <1>1, FS_AddElement
    <2> HIDE DEF S
    <2> QED
      BY <2>1, FS_Subset, FS_CardinalityType
  <1>5. S \ I = {i \in S : Cardinality(Above(i)) < KeyCap}
    <2> HIDE DEF S, Above, I
    <2> QED
      BY <1>2, <1>4, RegistryAssumption
  <1>6. KeepsNewest(X, new, {i \in S : Cardinality(Above(i)) < KeyCap})
    <2> HIDE DEF X, new
    <2> QED
      BY <1>1, CappingKeepsNewest
  <1> HIDE DEF X, new, S, I, e, Above
  <1>7. KeepsNewest(X, new, KeysOf(e, q.arg))
    BY <1>3, <1>5, <1>6
  <1> QED
    BY <1>7 DEF X, new, e

LEMMA LinkCaps ==
    ASSUME IInv, NEW c \in Caller, Execute(c), Capping(call[c], tx[c].at, tx[c].db)
    PROVE  Capping(call[c], tx'[c].at, tx'[c].db)
  <1> DEFINE q    == call[c]
             at   == tx[c].at
             d    == tx[c].db
             stmt == Program[q.op][at]
  <1> SUFFICES ASSUME q.op = "link" PROVE Capping(q, tx'[c].at, tx'[c].db)
    BY DEF Capping
  <1>1. /\ q \in Call /\ at \in Nat /\ at >= 1 /\ d \in Database /\ (at = 1 => d = db)
    BY DEF IInv, RegistryTypeOK, Tx, TxsGood, TxGood, Core, Execute
  <1>2. /\ tx'[c].db = Effect(stmt, d, q, tx[c].row) /\ tx'[c].at = at + 1
        /\ at <= Len(Program[q.op])
    BY DEF Execute, IInv, RegistryTypeOK
  <1>3. Capping(q, at, d)
    OBVIOUS
  <1> HIDE DEF q, at, d, stmt
  <1>4. at \in 1..3 /\ /\ at = 1 => stmt = "insert_key"
                       /\ at = 2 => stmt = "cap"
                       /\ at = 3 => stmt = "insert_nonce"
    BY <1>1, <1>2 DEF Program, stmt
  <1>5. CASE at = 1
    <2>1. tx'[c].db = InsertKey(db, q) /\ tx'[c].at = 2
      BY <1>1, <1>2, <1>4, <1>5, EffectOf
    <2> QED
      BY <1>1, <2>1, InsertsTheNewest DEF Capping
  <1>6. CASE at = 2
    <2>1. tx'[c].db = Capped(d, q) /\ tx'[c].at = 3
      BY <1>1, <1>2, <1>4, <1>6, EffectOf
    <2>2. KeysOf(d, q.arg) = KeysOf(db, q.arg) \cup {Len(db.token) + 1}
      BY <1>3, <1>6 DEF Capping
    <2> QED
      BY <1>1, <2>1, <2>2, CapsToTheNewest DEF Capping
  <1>7. CASE at = 3
    <2>1. tx'[c].db = InsertNonce(d) /\ tx'[c].at = 4
      BY <1>1, <1>2, <1>4, <1>7, EffectOf
    <2>2. KeysOf(InsertNonce(d), q.arg) = KeysOf(d, q.arg)
      BY <1>1 DEF InsertNonce, Database, KeysOf, Rows
    <2>3. KeepsNewest(KeysOf(db, q.arg), Len(db.token) + 1, KeysOf(d, q.arg))
      BY <1>3, <1>7 DEF Capping
    <2> QED
      BY <2>1, <2>2, <2>3 DEF Capping
  <1> QED
    BY <1>4, <1>5, <1>6, <1>7

-----------------------------------------------------------------------------
(* The second invariant.                                                    *)

\* A transaction that begins has taken nothing.
LEMMA BeginsSparing ==
    ASSUME IInv, NEW c \in Caller, Begin(c)
    PROVE  TakesLittle'
  <1>1. /\ db' = db /\ now' = now /\ call' = call
        /\ tx' = [tx EXCEPT ![c] = [at |-> 1, db |-> db, row |-> 0]]
        /\ \A o \in Caller : ~InTx(o)
        /\ tx \in [Caller -> Tx]
    BY DEF Begin, IInv, RegistryTypeOK
  <1>2. \A o \in Caller : InTx(o)' => o = c
    BY <1>1 DEF InTx
  <1>3. tx'[c].at = 1 /\ tx'[c].db = db
    BY <1>1
  <1>4. Spared(call[c], db)' /\ Capping(call[c], 1, db)'
    BY <1>1 DEF Spared, Capping
  <1>5. Spared(call[c], tx[c].db)'
    BY <1>1, <1>3, <1>4 DEF Spared
  <1>6. Capping(call[c], tx[c].at, tx[c].db)'
    BY <1>3 DEF Capping
  <1> QED
    BY <1>2, <1>5, <1>6 DEF TakesLittle

LEMMA ExecutesSparing ==
    ASSUME IInv, TakesLittle, NEW c \in Caller, Execute(c)
    PROVE  TakesLittle'
  <1>1. /\ InTx(c) /\ db' = db /\ now' = now /\ call' = call
        /\ \A o \in Caller : o # c => ~InTx(o)
    BY DEF Execute, IInv, TxsGood
  <1>2. \A o \in Caller : InTx(o)' => o = c
    BY <1>1 DEF Execute, IInv, RegistryTypeOK, InTx
  <1>3. Spared(call[c], tx[c].db) /\ Capping(call[c], tx[c].at, tx[c].db)
    BY <1>1 DEF TakesLittle
  <1>4. Spared(call[c], tx'[c].db)
    BY <1>3, TransactionSpares
  <1>5. Capping(call[c], tx'[c].at, tx'[c].db)
    BY <1>3, LinkCaps
  <1>6. Spared(call[c], tx[c].db)'
    BY <1>1, <1>4 DEF Spared
  <1>7. Capping(call[c], tx[c].at, tx[c].db)'
    BY <1>1, <1>5 DEF Capping, KeysOf, Rows
  <1> QED
    BY <1>2, <1>6, <1>7 DEF TakesLittle

\* A call that ends leaves no transaction, and nobody else was in one.
LEMMA EndsSparing ==
    ASSUME IInv, TakesLittle, NEW c \in Caller, Ends(c), UNCHANGED now,
           db' = db \/ InTx(c)
    PROVE  TakesLittle'
  <1>1. /\ call' = [call EXCEPT ![c] = Idle] /\ tx' = [tx EXCEPT ![c] = NoTx]
        /\ call \in [Caller -> Call] /\ tx \in [Caller -> Tx]
    BY DEF Ends, IInv, RegistryTypeOK
  <1>2. \A o \in Caller : InTx(o)' =>
            o # c /\ InTx(o) /\ call'[o] = call[o] /\ tx'[o] = tx[o]
    BY <1>1 DEF InTx, NoTx
  <1> SUFFICES ASSUME NEW o \in Caller, InTx(o)'
               PROVE  Spared(call[o], tx[o].db)' /\ Capping(call[o], tx[o].at, tx[o].db)'
    BY DEF TakesLittle
  <1>3. o # c /\ InTx(o) /\ call'[o] = call[o] /\ tx'[o] = tx[o]
    BY <1>2
  <1>4. db' = db
    BY <1>3 DEF IInv, TxsGood
  <1>5. Spared(call[o], tx[o].db) /\ Capping(call[o], tx[o].at, tx[o].db)
    BY <1>3 DEF TakesLittle
  <1>6. Spared(call[o], tx[o].db)'
    BY <1>3, <1>4, <1>5 DEF Spared
  <1>7. Capping(call[o], tx[o].at, tx[o].db)'
    BY <1>3, <1>4, <1>5 DEF Capping, KeysOf, Rows
  <1> QED
    BY <1>6, <1>7

\* Time makes sessions and links late; a request comes from a caller without transaction.
LEMMA OthersSparing ==
    ASSUME IInv, TakesLittle, Tick \/ (\E c \in Caller : Ask(c)) \/ UNCHANGED vars
    PROVE  TakesLittle'
  <1>1. db' = db /\ tx' = tx /\ now \in Nat /\ now' \in Nat /\ now <= now'
    BY DEF Tick, Ask, vars, IInv, RegistryTypeOK
  <1> SUFFICES ASSUME NEW o \in Caller, InTx(o)'
               PROVE  Spared(call[o], tx[o].db)' /\ Capping(call[o], tx[o].at, tx[o].db)'
    BY DEF TakesLittle
  <1>2. InTx(o)
    BY <1>1 DEF InTx
  <1>3. call'[o] = call[o]
    <2>1. call[o] # Idle
      BY <1>2 DEF IInv, TxsGood, TxGood, Idle, Ops
    <2>2. ASSUME NEW c \in Caller, Ask(c) PROVE call'[o] = call[o]
      BY <2>1, <2>2 DEF Ask, IInv, RegistryTypeOK
    <2> QED
      BY <2>2 DEF Tick, vars
  <1>4. Spared(call[o], tx[o].db) /\ Capping(call[o], tx[o].at, tx[o].db)
    BY <1>2 DEF TakesLittle
  <1>5. Spared(call[o], tx[o].db)'
    <2>1. /\ \A s \in db.session : s.exp \in Nat
          /\ \A n \in db.nonce : n.exp \in Nat
      BY DEF IInv, RegistryTypeOK, Database, Session, Link
    <2>2. /\ \A s \in db.session : s.exp > now' => s.exp > now
          /\ \A n \in db.nonce : n.exp > now' => n.exp > now
      BY <1>1, <2>1
    <2> QED
      BY <1>1, <1>3, <1>4, <2>2 DEF Spared
  <1>6. Capping(call[o], tx[o].at, tx[o].db)'
    BY <1>1, <1>3, <1>4 DEF Capping, KeysOf, Rows
  <1> QED
    BY <1>5, <1>6

LEMMA SparingInvariance == Spec => [](IInv /\ TakesLittle)
  <1>1. Init => TakesLittle
    BY DEF Init, TakesLittle, InTx, NoTx
  <1>2. IInv /\ TakesLittle /\ [Next]_vars => TakesLittle'
    <2> SUFFICES ASSUME IInv, TakesLittle, [Next]_vars PROVE TakesLittle'
      OBVIOUS
    <2>1. ASSUME NEW c \in Caller, Begin(c) PROVE TakesLittle'
      BY <2>1, BeginsSparing
    <2>2. ASSUME NEW c \in Caller, Execute(c) PROVE TakesLittle'
      BY <2>2, ExecutesSparing
    <2>3. ASSUME NEW c \in Caller, Refuse(c) \/ Fail(c) PROVE TakesLittle'
      BY <2>3, EndsSparing DEF Refuse, Fail
    <2>4. ASSUME NEW c \in Caller, Commit(c) PROVE TakesLittle'
      BY <2>4, EndsSparing DEF Commit
    <2> QED
      BY <2>1, <2>2, <2>3, <2>4, OthersSparing DEF Next
  <1> QED
    BY <1>1, <1>2, Invariance, PTL DEF Spec

-----------------------------------------------------------------------------
(* Theorems.                                                                *)

\* Only a commit changes what is committed.
LEMMA OnlyCommitsChange ==
    ASSUME [Next]_vars, \A c \in Caller : ~Commit(c)
    PROVE  db' = db
  BY DEF Next, vars, Tick, Ask, Begin, Refuse, Execute, Fail

\* A session that opens the board goes on doing so for as long as its key is not revoked,
\* and a link that would open it works until it is used, for any number of callers,
\* sessions and links (_purge_board_state, redeem_board_nonce).
THEOREM PurgesSpareTheLive == Spec => PurgeSparesTheLive
  <1>1. IInv /\ TakesLittle /\ [Next]_vars =>
          [\A k \in Rows(db) :
             db'.chan = db.chan /\ db'.token[k].live =>
             /\ \A s \in db.session : s.key = k /\ SessionOpens(db, s) => s \in db'.session
             /\ \A n \in db.nonce : n.key = k /\ LinkOpens(db, n) =>
                   n \in db'.nonce \/ \E c \in Caller : Commit(c) /\ call[c].link = k]_vars
    <2> SUFFICES ASSUME IInv, TakesLittle, [Next]_vars,
                        NEW k \in Rows(db), db'.token[k].live
                 PROVE  /\ \A s \in db.session : s.key = k /\ SessionOpens(db, s) => s \in db'.session
                        /\ \A n \in db.nonce : n.key = k /\ LinkOpens(db, n) =>
                              n \in db'.nonce \/ \E c \in Caller : Commit(c) /\ call[c].link = k
      OBVIOUS
    <2>1. CASE \A c \in Caller : ~Commit(c)
      BY <2>1, OnlyCommitsChange
    <2>2. ASSUME NEW c \in Caller, Commit(c)
          PROVE  /\ \A s \in db.session : s.key = k /\ SessionOpens(db, s) => s \in db'.session
                 /\ \A n \in db.nonce : n.key = k /\ LinkOpens(db, n) =>
                       n \in db'.nonce \/ \E o \in Caller : Commit(o) /\ call[o].link = k
      <3>1. db' = tx[c].db /\ InTx(c)
        BY <2>2 DEF Commit
      <3>2. Spared(call[c], db')
        BY <3>1 DEF TakesLittle
      <3> QED
        BY <2>2, <3>2 DEF Spared, SessionOpens, LinkOpens
    <2> QED
      BY <2>1, <2>2
  <1> QED
    BY <1>1, SparingInvariance, PTL DEF Spec, PurgeSparesTheLive

\* However many links are asked for, at most KeyCap keys of an issuer work, the new one
\* among them, and those that go are older than those that stay, for any cap
\* (create_view_token).
THEOREM CapsTakeTheOldest == Spec => CapTakesTheOldest
  <1>1. IInv /\ TakesLittle /\ [Next]_vars =>
          [\A c \in Caller : Commit(c) /\ call[c].op = "link" =>
             LET r == call[c].arg IN
             /\ Cardinality(KeysOf(db', r)) <= KeyCap
             /\ Len(db'.token) \in KeysOf(db', r)
             /\ \A gone \in KeysOf(db, r) \ KeysOf(db', r), kept \in KeysOf(db', r) :
                   gone < kept]_vars
    <2> SUFFICES ASSUME IInv, TakesLittle, NEW c \in Caller, Commit(c), call[c].op = "link"
                 PROVE  LET r == call[c].arg IN
                        /\ Cardinality(KeysOf(db', r)) <= KeyCap
                        /\ Len(db'.token) \in KeysOf(db', r)
                        /\ \A gone \in KeysOf(db, r) \ KeysOf(db', r), kept \in KeysOf(db', r) :
                              gone < kept
      OBVIOUS
    <2>1. db' = tx[c].db /\ InTx(c) /\ tx[c].at > Len(Program["link"])
      BY DEF Commit
    <2>2. TxGood(call[c], tx[c].at, db', tx[c].row) /\ Capping(call[c], tx[c].at, db')
      BY <2>1 DEF TakesLittle, IInv, TxsGood
    <2>3. Len(Program["link"]) = 3 /\ tx[c].at \in Nat
      BY DEF Program, IInv, RegistryTypeOK, Tx
    <2>4. tx[c].at > 2 /\ tx[c].at > 1
      BY <2>1, <2>3
    <2>5. Len(db'.token) = Len(db.token) + 1
      BY <2>2, <2>4 DEF TxGood, NewRows, NewKey
    <2>6. KeepsNewest(KeysOf(db, call[c].arg), Len(db'.token), KeysOf(db', call[c].arg))
      BY <2>2, <2>4, <2>5 DEF Capping
    <2> QED
      BY <2>6 DEF KeepsNewest
  <1> QED
    BY <1>1, SparingInvariance, PTL DEF Spec, CapTakesTheOldest

-----------------------------------------------------------------------------
(* What each call has done so far.  A third invariant follows its view of   *)
(* the database, statement by statement, from what is committed.            *)

\* An issuer that is recorded is there, and links stand for keys.
Linked(d) ==
    /\ \A t \in Rows(d) : d.token[t].by # Admin =>
          d.token[t].by \in Rows(d) /\ d.token[t].kind = "view"
    /\ \A n \in d.nonce : n.key \in Rows(d) /\ d.token[n.key].kind = "view"

\* No token is there again; the roles, but those in R, keep theirs; no link is new.
Fades(d, e) == \A t \in Rows(d) : e.token[t].live => d.token[t].live
TokensStay(d, e, R) ==
    \A t \in Rows(d) : d.token[t].kind = "role" /\ d.token[t].role \notin R =>
        (e.token[t].live <=> d.token[t].live)
FewerLinks(d, e) ==
    \A n \in e.nonce : \E o \in d.nonce : o.key = n.key /\ (~n.used => ~o.used)
SameRoles(d, e) == e.chan = d.chan /\ e.roles = d.roles
SameRows(d, e) == Len(e.token) = Len(d.token)
TokenAdded(d, e, r) ==
    Len(e.token) = Len(d.token) + 1 /\ e.token[Len(d.token) + 1] = RoleToken(r)

Creating(d) ==
    /\ db.chan = "absent" /\ d.chan = "live" /\ d.roles = Founders
    /\ d.nonce = {} /\ Len(d.token) <= MaxToken
    /\ \A t \in Rows(d) : \E r \in Founders : d.token[t] = RoleToken(r)

Rotating(q, at, d) ==
    /\ db.chan = "live" /\ q.arg \in db.roles /\ SameRoles(db, d)
    /\ Fades(db, d) /\ TokensStay(db, d, {q.arg})
    /\ FewerLinks(db, d) /\ d.session \subseteq db.session
    /\ \A t \in HeldBy(db, q.arg) : ~d.token[t].live
    /\ at < 5 => SameRows(db, d)
    /\ at = 5 => TokenAdded(db, d, q.arg)

Adding(q, at, d) ==
    /\ db.chan = "live" /\ q.arg \notin db.roles /\ d.chan = "live"
    /\ d.nonce = db.nonce /\ d.session = db.session
    /\ \A t \in Rows(db) : d.token[t] = db.token[t]
    /\ at = 2 => SameRows(db, d)
    /\ at = 3 => TokenAdded(db, d, q.arg)

Linking(at, d) ==
    /\ db.chan = "live" /\ SameRoles(db, d)
    /\ Fades(db, d) /\ TokensStay(db, d, {}) /\ d.session = db.session
    /\ at < 4 => d.nonce = db.nonce
    /\ at = 4 => \E n \in d.nonce : /\ d.nonce = db.nonce \cup {n}
                                  /\ n.key = Len(db.token) + 1 /\ ~n.used

Revoking(d) ==
    /\ SameRoles(db, d) /\ SameRows(db, d) /\ TokensStay(db, d, {}) /\ FewerLinks(db, d)
    /\ \A t \in Rows(db) : db.token[t].kind = "view" => ~d.token[t].live

Deleting(at, d) ==
    /\ db.chan = "live" /\ SameRows(db, d) /\ d.nonce = db.nonce
    /\ at = 3 => d.chan = "deleted"
    /\ \A t \in Rows(db) : ~d.token[t].live

Redeeming(q, at, d, row) ==
    /\ SameRoles(db, d) /\ d.token = db.token /\ FewerLinks(db, d)
    /\ row # 0 => row = q.link /\ \E n \in db.nonce : n.key = row /\ ~n.used
    /\ \A s \in d.session : s \in db.session \/
          (at = 4 /\ row # 0 /\ s.key = row /\ db.chan = "live" /\ ~Dead(db, row))

Done(q, at, d, row) ==
    at > 1 =>
        /\ q.op = "create" => Creating(d)
        /\ q.op = "rotate" => Rotating(q, at, d)
        /\ q.op = "add"    => Adding(q, at, d)
        /\ q.op = "link"   => Linking(at, d)
        /\ q.op = "revoke" => Revoking(d)
        /\ q.op = "delete" => Deleting(at, d)
        /\ q.op = "redeem" => Redeeming(q, at, d, row)

DoneSoFar ==
    /\ Linked(db)
    /\ \A c \in Caller : InTx(c) => Done(call[c], tx[c].at, tx[c].db, tx[c].row)

-----------------------------------------------------------------------------
(* What the statements do to that.                                          *)

LEMMA SameRowsSameLength ==
    ASSUME NEW d \in Database, NEW e \in Database, Rows(e) = Rows(d)
    PROVE  SameRows(d, e)
  <1>1. /\ Rows(d) = 1..Len(d.token) /\ Len(d.token) \in Nat
        /\ Rows(e) = 1..Len(e.token) /\ Len(e.token) \in Nat
    BY RowsAreNumbered
  <1>2. ASSUME NEW m \in Nat, NEW n \in Nat, 1..m = 1..n PROVE m = n
    <2>1. (m > 0 => m \in 1..n) /\ (n > 0 => n \in 1..m)
      BY <1>2
    <2> QED
      BY <2>1
  <1> QED
    BY <1>1, <1>2 DEF SameRows

LEMMA FadingGoesOn ==
    ASSUME NEW a, NEW b, NEW c, NEW R, Keeps(a, b)
    PROVE  /\ Fades(a, b) /\ Fades(b, c) => Fades(a, c)
           /\ TokensStay(a, b, R) /\ TokensStay(b, c, R) => TokensStay(a, c, R)
           /\ FewerLinks(a, b) /\ FewerLinks(b, c) => FewerLinks(a, c)
           /\ SameRoles(a, b) /\ SameRoles(b, c) => SameRoles(a, c)
           /\ SameRows(a, b) /\ SameRows(b, c) => SameRows(a, c)
  <1>1. Fades(a, b) /\ Fades(b, c) => Fades(a, c)
    BY DEF Fades, Keeps
  <1>2. TokensStay(a, b, R) /\ TokensStay(b, c, R) => TokensStay(a, c, R)
    BY DEF TokensStay, Keeps, SameRow
  <1>3. FewerLinks(a, b) /\ FewerLinks(b, c) => FewerLinks(a, c)
    BY DEF FewerLinks
  <1> QED
    BY <1>1, <1>2, <1>3 DEF SameRoles, SameRows

LEMMA NothingFades ==
    ASSUME NEW d, NEW R
    PROVE  Fades(d, d) /\ TokensStay(d, d, R) /\ FewerLinks(d, d) /\ SameRoles(d, d)
           /\ SameRows(d, d)
  BY DEF Fades, TokensStay, FewerLinks, SameRoles, SameRows

LEMMA RevokedFades ==
    ASSUME NEW d \in Database, NEW I, NEW R,
           \A t \in Rows(d) : t \in I => d.token[t].kind = "view" \/ d.token[t].role \in R
    PROVE  LET e == Revoked(d, I) IN
           /\ e \in Database /\ Keeps(d, e) /\ Rows(e) = Rows(d)
           /\ Fades(d, e) /\ TokensStay(d, e, R) /\ FewerLinks(d, e)
           /\ SameRoles(d, e) /\ SameRows(d, e)
           /\ e.nonce = d.nonce /\ e.session = d.session
           /\ \A t \in Rows(d) : t \in I => ~e.token[t].live
  <1> DEFINE e == Revoked(d, I)
  <1>1. /\ e \in Database /\ Rows(e) = Rows(d) /\ SameBut(d, e) /\ Keeps(d, e)
        /\ \A i \in Rows(d) : e.token[i].live <=> d.token[i].live /\ i \notin I
    BY RevokedEffect
  <1> HIDE DEF e
  <1>2. SameRows(d, e)
    BY <1>1, SameRowsSameLength
  <1>3. FewerLinks(d, e) /\ SameRoles(d, e) /\ e.nonce = d.nonce /\ e.session = d.session
    BY <1>1 DEF FewerLinks, SameRoles, SameBut
  <1>4. Fades(d, e) /\ \A t \in Rows(d) : t \in I => ~e.token[t].live
    BY <1>1 DEF Fades
  <1>5. TokensStay(d, e, R)
    BY <1>1 DEF TokensStay
  <1> QED
    BY <1>1, <1>2, <1>3, <1>4, <1>5 DEF e

LEMMA LeavingTokensFadesNothing ==
    ASSUME NEW d, NEW e, NEW R, e.token = d.token
    PROVE  Keeps(d, e) /\ Rows(e) = Rows(d) /\ Fades(d, e) /\ TokensStay(d, e, R) /\ SameRows(d, e)
  BY DEF Keeps, SameRow, Rows, Fades, TokensStay, SameRows

LEMMA PurgedFades ==
    ASSUME NEW d \in Database
    PROVE  LET e == Purged(d) IN
           /\ e \in Database /\ e.token = d.token /\ SameRoles(d, e)
           /\ FewerLinks(d, e) /\ e.session \subseteq d.session
  <1> DEFINE e == Purged(d)
  <1>1. /\ e \in Database /\ e.chan = d.chan /\ e.roles = d.roles /\ e.token = d.token
        /\ e.nonce = {n \in d.nonce : ~n.used /\ n.exp > now}
        /\ e.session \subseteq d.session
    BY PurgedEffect
  <1> HIDE DEF e
  <1> QED
    BY <1>1 DEF SameRoles, FewerLinks, e

LEMMA BurntFades ==
    ASSUME NEW d \in Database, NEW k
    PROVE  LET e == Burnt(d, k) IN
           /\ e.token = d.token /\ SameRoles(d, e) /\ FewerLinks(d, e)
           /\ e.session = d.session
           /\ Burns(d, k) => \E n \in d.nonce : n.key = k /\ ~n.used
  <1> DEFINE e == Burnt(d, k)
             f(n) == IF n.key = k /\ ~n.used /\ n.exp > now THEN [n EXCEPT !.used = TRUE] ELSE n
             N == {f(n) : n \in d.nonce}
  <1>1. /\ e.token = d.token /\ e.session = d.session /\ e.nonce = N
        /\ e.chan = d.chan /\ e.roles = d.roles
    <2>1. e = [d EXCEPT !.nonce = N]
      BY DEF Burnt
    <2> HIDE DEF N, e
    <2> QED
      BY <2>1 DEF Database
  <1>2. \A n \in d.nonce : f(n).key = n.key /\ (~f(n).used => ~n.used)
    <2> SUFFICES ASSUME NEW n \in d.nonce PROVE f(n).key = n.key /\ (~f(n).used => ~n.used)
      OBVIOUS
    <2>1. n \in Link
      BY DEF Database
    <2>2. CASE n.key = k /\ ~n.used /\ n.exp > now
      BY <2>1, <2>2 DEF Link
    <2>3. CASE ~(n.key = k /\ ~n.used /\ n.exp > now)
      BY <2>3
    <2> QED
      BY <2>2, <2>3
  <1> HIDE DEF e, f
  <1>3. FewerLinks(d, e)
    BY <1>1, <1>2 DEF FewerLinks
  <1> QED
    BY <1>1, <1>3 DEF SameRoles, Burns, e

-----------------------------------------------------------------------------
(* What each call has done after a statement more.                          *)

LEMMA CreateFollows ==
    ASSUME IInv, db.chan = "absent"
    PROVE  Creating(Founded(db))
  <1> DEFINE e == Founded(db)
  <1>1. db \in Database /\ db.nonce = {} /\ db.session = {}
    BY DEF IInv, DbGood, Core, WellFormed
  <1>2. /\ e.chan = "live" /\ e.roles = Founders /\ e.nonce = {}
        /\ Len(e.token) = Cardinality(Founders)
        /\ \A t \in Rows(e) : \E r \in Founders : e.token[t] = RoleToken(r)
    BY <1>1, FoundedEffect
  <1>3. Cardinality(Founders) \in Nat /\ Cardinality(Founders) <= MaxToken
    BY RegistryAssumption, FS_CardinalityType
  <1> HIDE DEF e
  <1>4. Creating(e)
    BY <1>2, <1>3 DEF Creating
  <1> QED
    BY <1>4 DEF e

LEMMA RotateFollows ==
    ASSUME IInv, NEW q, NEW at \in 1..4, NEW d \in Database, Keeps(db, d),
           IF at = 1 THEN d = db /\ d.chan = "live" /\ q.arg \in d.roles ELSE Rotating(q, at, d),
           q.arg \in Role
    PROVE  /\ at = 1 => Rotating(q, 2, Revoked(d, HeldBy(d, q.arg)))
           /\ at = 2 => Rotating(q, 3, RevokeViews(d, q.arg))
           /\ at = 3 => Rotating(q, 4, Purged(d))
           /\ at = 4 => Rotating(q, 5, Issued(d, q.arg))
  <1>1. ASSUME at = 1 PROVE Rotating(q, 2, Revoked(d, HeldBy(d, q.arg)))
    <2> DEFINE I == HeldBy(d, q.arg)
               e == Revoked(d, I)
    <2>1. \A t \in Rows(d) : t \in I => d.token[t].kind = "view" \/ d.token[t].role \in {q.arg}
      BY DEF HeldBy
    <2>2. d = db /\ d.chan = "live" /\ q.arg \in d.roles /\ I \subseteq Rows(d)
      BY <1>1 DEF HeldBy
    <2>3. /\ Fades(d, e) /\ TokensStay(d, e, {q.arg}) /\ FewerLinks(d, e)
          /\ SameRoles(d, e) /\ SameRows(d, e) /\ e.session = d.session
          /\ \A t \in Rows(d) : t \in I => ~e.token[t].live
      <3> HIDE DEF I
      <3> QED
        BY <2>1, RevokedFades
    <2> HIDE DEF e
    <2> QED
      BY <2>2, <2>3 DEF Rotating, e
  <1>2. at # 1 => Rotating(q, at, d)
    OBVIOUS
  <1>3. ASSUME at = 2 PROVE Rotating(q, 3, RevokeViews(d, q.arg))
    <2> DEFINE I == {i \in Rows(d) : d.token[i].kind = "view"
                         /\ (q.arg = NoRole \/ d.token[i].role = q.arg \/ d.token[i].unknown)}
               e == Revoked(d, I)
    <2>1. \A t \in Rows(d) : t \in I => d.token[t].kind = "view" \/ d.token[t].role \in {q.arg}
      OBVIOUS
    <2>2. e = RevokeViews(d, q.arg)
      BY DEF RevokeViews
    <2>3. /\ Fades(d, e) /\ TokensStay(d, e, {q.arg}) /\ FewerLinks(d, e)
          /\ SameRoles(d, e) /\ SameRows(d, e) /\ e.session = d.session
      <3> HIDE DEF I
      <3> QED
        BY <2>1, RevokedFades
    <2> HIDE DEF e
    <2>4. Rotating(q, 2, d)
      BY <1>2, <1>3
    <2>5. /\ Fades(db, e) /\ TokensStay(db, e, {q.arg}) /\ FewerLinks(db, e)
          /\ SameRoles(db, e) /\ SameRows(db, e)
      BY <2>3, <2>4, FadingGoesOn DEF Rotating
    <2>6. \A t \in HeldBy(db, q.arg) : ~e.token[t].live
      BY <2>3, <2>4 DEF Rotating, Fades, Keeps, HeldBy
    <2> QED
      BY <2>2, <2>3, <2>4, <2>5, <2>6 DEF Rotating
  <1>4. ASSUME at = 3 PROVE Rotating(q, 4, Purged(d))
    <2> DEFINE e == Purged(d)
    <2>1. /\ e.token = d.token /\ SameRoles(d, e)
          /\ FewerLinks(d, e) /\ e.session \subseteq d.session
      BY PurgedFades
    <2> HIDE DEF e
    <2>2. Rotating(q, 3, d)
      BY <1>2, <1>4
    <2>3. Fades(d, e) /\ TokensStay(d, e, {q.arg}) /\ SameRows(d, e)
      BY <2>1, LeavingTokensFadesNothing
    <2>4. /\ Fades(db, e) /\ TokensStay(db, e, {q.arg}) /\ FewerLinks(db, e)
          /\ SameRoles(db, e) /\ SameRows(db, e)
      BY <2>1, <2>2, <2>3, FadingGoesOn DEF Rotating
    <2> QED
      BY <2>1, <2>2, <2>4 DEF Rotating, e
  <1>5. ASSUME at = 4 PROVE Rotating(q, 5, Issued(d, q.arg))
    <2> DEFINE e == Issued(d, q.arg)
    <2>1. RoleToken(q.arg) \in TokenRow
      BY DEF RoleToken, TokenRow, Admin
    <2>2. /\ SameBut(d, e) /\ Len(e.token) = Len(d.token) + 1
          /\ \A t \in Rows(d) : e.token[t] = d.token[t]
          /\ e.token[Len(d.token) + 1] = RoleToken(q.arg)
      BY <2>1, AppendEffect DEF Issued
    <2> HIDE DEF e
    <2>3. Rotating(q, 4, d)
      BY <1>2, <1>5
    <2>4. Fades(d, e) /\ TokensStay(d, e, {q.arg}) /\ FewerLinks(d, e) /\ SameRoles(d, e)
          /\ e.session = d.session
      BY <2>2 DEF Fades, TokensStay, FewerLinks, SameRoles, SameBut
    <2>5. Fades(db, e) /\ TokensStay(db, e, {q.arg}) /\ FewerLinks(db, e) /\ SameRoles(db, e)
      BY <2>3, <2>4, FadingGoesOn DEF Rotating
    <2>6. \A t \in HeldBy(db, q.arg) : ~e.token[t].live
      BY <2>3, <2>4 DEF Rotating, Fades, Keeps, HeldBy
    <2>7. TokenAdded(db, e, q.arg)
      BY <2>2, <2>3 DEF Rotating, SameRows, TokenAdded
    <2>8. e.session \subseteq db.session
      BY <2>3, <2>4 DEF Rotating
    <2>9. Rotating(q, 5, e)
      BY <2>3, <2>5, <2>6, <2>7, <2>8 DEF Rotating
    <2> QED
      BY <2>9 DEF e
  <1> QED
    BY <1>1, <1>3, <1>4, <1>5

LEMMA AddFollows ==
    ASSUME IInv, NEW q, NEW at \in 1..2, NEW d \in Database, Keeps(db, d),
           IF at = 1 THEN d = db /\ d.chan = "live" /\ q.arg \notin d.roles ELSE Adding(q, at, d),
           q.arg \in Role
    PROVE  /\ at = 1 => Adding(q, 2, [d EXCEPT !.roles = @ \cup {q.arg}])
           /\ at = 2 => Adding(q, 3, Issued(d, q.arg))
  <1>1. ASSUME at = 1 PROVE Adding(q, 2, [d EXCEPT !.roles = @ \cup {q.arg}])
    <2> DEFINE e == [d EXCEPT !.roles = @ \cup {q.arg}]
    <2>1. e.token = d.token /\ e.chan = d.chan /\ e.nonce = d.nonce /\ e.session = d.session
      BY DEF Database
    <2> HIDE DEF e
    <2> QED
      BY <1>1, <2>1 DEF Adding, SameRows, e
  <1>2. ASSUME at = 2 PROVE Adding(q, 3, Issued(d, q.arg))
    <2> DEFINE e == Issued(d, q.arg)
    <2>1. RoleToken(q.arg) \in TokenRow
      BY DEF RoleToken, TokenRow, Admin
    <2>2. /\ SameBut(d, e) /\ Len(e.token) = Len(d.token) + 1
          /\ \A t \in Rows(d) : e.token[t] = d.token[t]
          /\ e.token[Len(d.token) + 1] = RoleToken(q.arg)
      BY <2>1, AppendEffect DEF Issued
    <2> HIDE DEF e
    <2>3. Adding(q, 2, d)
      BY <1>2
    <2>4. \A t \in Rows(db) : e.token[t] = db.token[t]
      BY <2>2, <2>3 DEF Adding, Keeps
    <2>5. TokenAdded(db, e, q.arg)
      BY <2>2, <2>3 DEF Adding, SameRows, TokenAdded
    <2>6. Adding(q, 3, e)
      BY <2>2, <2>3, <2>4, <2>5 DEF Adding, SameBut
    <2> QED
      BY <2>6 DEF e
  <1> QED
    BY <1>1, <1>2

LEMMA LinkFollows ==
    ASSUME IInv, NEW q \in Call, NEW at \in 1..3, NEW d \in Database, Keeps(db, d),
           IF at = 1 THEN d = db /\ d.chan = "live" ELSE Linking(at, d) /\ NewKey(q, d)
    PROVE  /\ at = 1 => Linking(2, InsertKey(d, q))
           /\ at = 2 => Linking(3, Capped(d, q))
           /\ at = 3 => Linking(4, InsertNonce(d))
  <1>1. ASSUME at = 1 PROVE Linking(2, InsertKey(d, q))
    <2> DEFINE x == ViewKey(q.who, q.arg, FALSE, now + KeyTTL)
               e == InsertKey(d, q)
    <2>1. x \in TokenRow
      BY RegistryAssumption DEF IInv, RegistryTypeOK, ViewKey, TokenRow, Call
    <2>2. SameBut(d, e) /\ \A t \in Rows(d) : e.token[t] = d.token[t]
      BY <2>1, AppendEffect DEF InsertKey
    <2> HIDE DEF e
    <2>3. Linking(2, e)
      BY <1>1, <2>2 DEF Linking, SameBut, SameRoles, Fades, TokensStay
    <2> QED
      BY <2>3 DEF e
  <1>2. at # 1 => Linking(at, d) /\ NewKey(q, d)
    OBVIOUS
  <1>3. ASSUME at = 2 PROVE Linking(3, Capped(d, q))
    <2> DEFINE I == OverCap(d, q.arg)
               e == Capped(d, q)
    <2>1. \A t \in Rows(d) : t \in I => d.token[t].kind = "view" \/ d.token[t].role \in {}
      BY DEF OverCap, KeysOf
    <2>2. e = Revoked(d, I)
      BY DEF Capped
    <2> HIDE DEF I, e
    <2>3. /\ Fades(d, e) /\ TokensStay(d, e, {}) /\ SameRoles(d, e)
          /\ e.nonce = d.nonce /\ e.session = d.session
      BY <2>1, <2>2, RevokedFades
    <2>4. Linking(2, d)
      BY <1>2, <1>3
    <2>5. Fades(db, e) /\ TokensStay(db, e, {}) /\ SameRoles(db, e)
      BY <2>3, <2>4, FadingGoesOn DEF Linking
    <2>6. Linking(3, e)
      BY <2>3, <2>4, <2>5 DEF Linking
    <2> QED
      BY <2>6 DEF e
  <1>4. ASSUME at = 3 PROVE Linking(4, InsertNonce(d))
    <2> DEFINE n == [key |-> Len(d.token), exp |-> now + NonceTTL, used |-> FALSE]
               e == InsertNonce(d)
    <2>1. e.token = d.token /\ SameRoles(d, e) /\ e.session = d.session
          /\ e.nonce = d.nonce \cup {n}
      <3>1. e = [d EXCEPT !.nonce = d.nonce \cup {n}]
        BY DEF InsertNonce
      <3> HIDE DEF e, n
      <3> QED
        BY <3>1 DEF Database, SameRoles
    <2>2. Linking(3, d) /\ Len(d.token) = Len(db.token) + 1
      BY <1>2, <1>4 DEF NewKey
    <2>3. n.key = Len(db.token) + 1 /\ ~n.used
      BY <2>2
    <2> HIDE DEF e, n
    <2>4. Fades(d, e) /\ TokensStay(d, e, {})
      BY <2>1, LeavingTokensFadesNothing
    <2>5. Fades(db, e) /\ TokensStay(db, e, {}) /\ SameRoles(db, e)
      BY <2>1, <2>2, <2>4, FadingGoesOn DEF Linking
    <2>6. e.nonce = db.nonce \cup {n} /\ e.session = db.session /\ db.chan = "live"
      BY <2>1, <2>2 DEF Linking
    <2>7. Linking(4, e)
      BY <2>3, <2>5, <2>6 DEF Linking
    <2> QED
      BY <2>7 DEF e
  <1> QED
    BY <1>1, <1>3, <1>4

LEMMA RevokeFollows ==
    ASSUME IInv, NEW q, NEW at \in 1..2, NEW d \in Database, Keeps(db, d), q.arg = NoRole,
           IF at = 1 THEN d = db ELSE Revoking(d)
    PROVE  /\ at = 1 => Revoking(RevokeViews(d, q.arg))
           /\ at = 2 => Revoking(Purged(d))
  <1>1. ASSUME at = 1 PROVE Revoking(RevokeViews(d, q.arg))
    <2> DEFINE I == {i \in Rows(d) : d.token[i].kind = "view"
                         /\ (q.arg = NoRole \/ d.token[i].role = q.arg \/ d.token[i].unknown)}
               e == Revoked(d, I)
    <2>1. /\ \A t \in Rows(d) : t \in I => d.token[t].kind = "view" \/ d.token[t].role \in {}
          /\ \A t \in Rows(d) : d.token[t].kind = "view" => t \in I
      OBVIOUS
    <2>2. e = RevokeViews(d, q.arg)
      BY DEF RevokeViews
    <2> HIDE DEF I
    <2>3. /\ SameRoles(d, e) /\ SameRows(d, e) /\ TokensStay(d, e, {}) /\ FewerLinks(d, e)
          /\ \A t \in Rows(d) : t \in I => ~e.token[t].live
      BY <2>1, RevokedFades
    <2> HIDE DEF e
    <2> QED
      BY <1>1, <2>1, <2>2, <2>3 DEF Revoking
  <1>2. ASSUME at = 2 PROVE Revoking(Purged(d))
    <2> DEFINE e == Purged(d)
    <2>1. e.token = d.token /\ SameRoles(d, e) /\ FewerLinks(d, e)
      BY PurgedFades
    <2> HIDE DEF e
    <2>2. Revoking(d)
      BY <1>2
    <2>3. TokensStay(d, e, {}) /\ SameRows(d, e)
      BY <2>1, LeavingTokensFadesNothing
    <2>4. SameRoles(db, e) /\ SameRows(db, e) /\ TokensStay(db, e, {}) /\ FewerLinks(db, e)
      BY <2>1, <2>2, <2>3, FadingGoesOn DEF Revoking
    <2> QED
      BY <2>1, <2>2, <2>4 DEF Revoking, e
  <1> QED
    BY <1>1, <1>2

LEMMA DeleteFollows ==
    ASSUME IInv, NEW at \in 1..2, NEW d \in Database, Keeps(db, d),
           IF at = 1 THEN d = db /\ d.chan = "live" ELSE Deleting(at, d)
    PROVE  /\ at = 1 => Deleting(2, Revoked(d, Rows(d)))
           /\ at = 2 => Deleting(3, [d EXCEPT !.chan = "deleted"])
  <1>1. ASSUME at = 1 PROVE Deleting(2, Revoked(d, Rows(d)))
    <2> DEFINE e == Revoked(d, Rows(d))
    <2>1. /\ e \in Database /\ Rows(e) = Rows(d) /\ SameBut(d, e)
          /\ \A i \in Rows(d) : e.token[i].live <=> d.token[i].live /\ i \notin Rows(d)
      BY RevokedEffect
    <2> HIDE DEF e
    <2>2. SameRows(d, e)
      BY <2>1, SameRowsSameLength
    <2> QED
      BY <1>1, <2>1, <2>2 DEF Deleting, SameBut, e
  <1>2. ASSUME at = 2 PROVE Deleting(3, [d EXCEPT !.chan = "deleted"])
    <2> DEFINE e == [d EXCEPT !.chan = "deleted"]
    <2>1. e.token = d.token /\ e.nonce = d.nonce /\ e.chan = "deleted"
      BY DEF Database
    <2> HIDE DEF e
    <2>2. Deleting(2, d)
      BY <1>2
    <2> QED
      BY <2>1, <2>2 DEF Deleting, SameRows, e
  <1> QED
    BY <1>1, <1>2

LEMMA RedeemFollows ==
    ASSUME IInv, NEW q, NEW at \in 1..3, NEW d \in Database, NEW row,
           IF at = 1 THEN d = db /\ row = 0 ELSE Redeeming(q, at, d, row)
    PROVE  /\ at = 1 => /\ Burns(d, q.link) => Redeeming(q, 2, Burnt(d, q.link), q.link)
                        /\ ~Burns(d, q.link) => Redeeming(q, 2, Burnt(d, q.link), row)
           /\ at = 2 => Redeeming(q, 3, Purged(d), row)
           /\ at = 3 => Redeeming(q, 4, OpenSession(d, row), row)
  <1>1. ASSUME at = 1
        PROVE  /\ Burns(d, q.link) => Redeeming(q, 2, Burnt(d, q.link), q.link)
               /\ ~Burns(d, q.link) => Redeeming(q, 2, Burnt(d, q.link), row)
    <2>1. d = db /\ row = 0
      BY <1>1
    <2> DEFINE e == Burnt(d, q.link)
    <2>2. /\ e.token = d.token /\ SameRoles(d, e) /\ FewerLinks(d, e)
          /\ e.session = d.session
          /\ Burns(d, q.link) => \E n \in d.nonce : n.key = q.link /\ ~n.used
      BY BurntFades
    <2> HIDE DEF e
    <2>3. Burns(d, q.link) => Redeeming(q, 2, e, q.link)
      BY <2>1, <2>2 DEF Redeeming
    <2>4. Redeeming(q, 2, e, 0)
      BY <2>1, <2>2 DEF Redeeming
    <2> QED
      BY <2>1, <2>3, <2>4 DEF e
  <1>2. at # 1 => Redeeming(q, at, d, row)
    OBVIOUS
  <1>3. ASSUME at = 2 PROVE Redeeming(q, 3, Purged(d), row)
    <2> DEFINE e == Purged(d)
    <2>1. e.token = d.token /\ SameRoles(d, e) /\ FewerLinks(d, e) /\ e.session \subseteq d.session
      BY PurgedFades
    <2> HIDE DEF e
    <2>2. Redeeming(q, 2, d, row)
      BY <1>2, <1>3
    <2>3. SameRoles(db, e) /\ FewerLinks(db, e)
      BY <2>1, <2>2 DEF Redeeming, SameRoles, FewerLinks
    <2> QED
      BY <2>1, <2>2, <2>3 DEF Redeeming, e
  <1>4. ASSUME at = 3 PROVE Redeeming(q, 4, OpenSession(d, row), row)
    <2> DEFINE e == OpenSession(d, row)
               x == [key |-> row, exp |-> Least(now + SessionTTL, d.token[row].exp)]
    <2>1. Redeeming(q, 3, d, row)
      BY <1>2, <1>4
    <2>2. CASE ~(row # 0 /\ KeyOpens(d, row))
      <3>1. e = d
        BY <2>2 DEF OpenSession
      <3> HIDE DEF e
      <3> QED
        BY <2>1, <3>1 DEF Redeeming, e
    <2>3. CASE row # 0 /\ KeyOpens(d, row)
      <3>1. e = [d EXCEPT !.session = d.session \cup {x}]
        BY <2>3 DEF OpenSession
      <3>2. x.key = row
        OBVIOUS
      <3> HIDE DEF x, e
      <3>3. /\ e.token = d.token /\ e.chan = d.chan /\ e.roles = d.roles
            /\ e.nonce = d.nonce /\ e.session = d.session \cup {x}
        BY <3>1 DEF Database
      <3>4. db.chan = "live" /\ ~Dead(db, row)
        BY <2>1, <2>3 DEF Redeeming, SameRoles, KeyOpens, KeyLive, Dead
      <3>5. SameRoles(db, e) /\ FewerLinks(db, e)
        BY <2>1, <3>3 DEF Redeeming, SameRoles, FewerLinks
      <3> QED
        BY <2>1, <2>3, <3>2, <3>3, <3>4, <3>5 DEF Redeeming, e
    <2> QED
      BY <2>2, <2>3
  <1> QED
    BY <1>1, <1>3, <1>4

LEMMA StatementFollows ==
    ASSUME IInv, NEW c \in Caller, Execute(c), Done(call[c], tx[c].at, tx[c].db, tx[c].row)
    PROVE  Done(call[c], tx'[c].at, tx'[c].db, tx'[c].row)
  <1> DEFINE q    == call[c]
             at   == tx[c].at
             d    == tx[c].db
             row  == tx[c].row
             stmt == Program[q.op][at]
             e    == Effect(stmt, d, q, row)
             r    == IF stmt = "burn" /\ Burns(d, q.link) THEN q.link ELSE row
  <1>1. q \in Call /\ CallGood(q) /\ at \in Nat /\ d \in Database
    BY DEF IInv, RegistryTypeOK, Tx
  <1>2. TxGood(q, at, d, row)
    BY DEF IInv, TxsGood, Execute
  <1>3. tx'[c].at = at + 1 /\ tx'[c].db = e /\ tx'[c].row = r
        /\ at <= Len(Program[q.op]) /\ (at = 1 => ~Refuses(d, q))
    BY DEF Execute, IInv, RegistryTypeOK
  <1>4. q.op \in Ops /\ at \in 1..Steps[q.op] + 1 /\ (at = 1 => d = db) /\ Keeps(db, d)
    BY <1>2 DEF TxGood
  <1>5. Len(Program[q.op]) = Steps[q.op] /\ at \in 1..Steps[q.op]
    BY <1>3, <1>4, ProgramLengths
  <1>6. Done(q, at, d, row) /\ (at # 1 => at > 1)
    BY <1>5
  <1> SUFFICES Done(q, at + 1, e, r)
    BY <1>3
  <1> HIDE DEF q, at, d, row
  <1>7. CASE q.op = "create"
    <2>1. at = 1 /\ stmt = "found"
      BY <1>5, <1>7 DEF Steps, Program
    <2>2. e = Founded(db) /\ db.chan = "absent"
      BY <1>3, <1>4, <1>7, <2>1, EffectOf DEF Refuses
    <2> QED
      BY <1>7, <2>2, CreateFollows DEF Done
  <1>8. CASE q.op = "rotate"
    <2>1. at \in 1..4 /\ q.arg \in Role
      BY <1>1, <1>5, <1>8 DEF Steps, CallGood
    <2>2. at = 1 => d = db /\ d.chan = "live" /\ q.arg \in d.roles
      BY <1>3, <1>4, <1>8 DEF Refuses
    <2>3. at # 1 => Rotating(q, at, d)
      BY <1>6, <1>8 DEF Done
    <2>4. /\ at = 1 => Rotating(q, 2, Revoked(d, HeldBy(d, q.arg)))
          /\ at = 2 => Rotating(q, 3, RevokeViews(d, q.arg))
          /\ at = 3 => Rotating(q, 4, Purged(d))
          /\ at = 4 => Rotating(q, 5, Issued(d, q.arg))
      BY <1>1, <1>4, <2>1, <2>2, <2>3, RotateFollows
    <2>5. /\ at = 1 => stmt = "revoke_role"
          /\ at = 2 => stmt = "revoke_views"
          /\ at = 3 => stmt = "purge"
          /\ at = 4 => stmt = "issue"
      BY <1>8 DEF Program
    <2>6. /\ at = 1 => e = Revoked(d, HeldBy(d, q.arg))
          /\ at = 2 => e = RevokeViews(d, q.arg)
          /\ at = 3 => e = Purged(d)
          /\ at = 4 => e = Issued(d, q.arg)
      BY <2>5, EffectOf
    <2> HIDE DEF e, r, stmt
    <2>7. Rotating(q, at + 1, e)
      <3>1. CASE at = 1
        BY <2>4, <2>6, <3>1
      <3>2. CASE at = 2
        BY <2>4, <2>6, <3>2
      <3>3. CASE at = 3
        BY <2>4, <2>6, <3>3
      <3>4. CASE at = 4
        BY <2>4, <2>6, <3>4
      <3> QED
        BY <2>1, <3>1, <3>2, <3>3, <3>4
    <2> QED
      BY <1>8, <2>7 DEF Done
  <1>9. CASE q.op = "add"
    <2>1. at \in 1..2 /\ q.arg \in Role
      BY <1>1, <1>5, <1>9 DEF Steps, CallGood
    <2>2. at = 1 => d = db /\ d.chan = "live" /\ q.arg \notin d.roles
      BY <1>3, <1>4, <1>9 DEF Refuses
    <2>3. at # 1 => Adding(q, at, d)
      BY <1>6, <1>9 DEF Done
    <2> DEFINE w == [d EXCEPT !.roles = @ \cup {q.arg}]
    <2>4. /\ at = 1 => Adding(q, 2, w)
          /\ at = 2 => Adding(q, 3, Issued(d, q.arg))
      BY <1>1, <1>4, <2>1, <2>2, <2>3, AddFollows
    <2>5. (at = 1 => stmt = "write_roles") /\ (at = 2 => stmt = "issue")
      BY <1>9 DEF Program
    <2>6. /\ at = 1 => e = Effect("write_roles", d, q, row)
          /\ at = 2 => e = Effect("issue", d, q, row)
      BY <2>5
    <2>7. /\ Effect("write_roles", d, q, row) = w
          /\ Effect("issue", d, q, row) = Issued(d, q.arg)
      BY EffectOf
    <2> HIDE DEF e, r, stmt, w
    <2>8. Adding(q, at + 1, e)
      <3>1. CASE at = 1
        BY <2>4, <2>6, <2>7, <3>1
      <3>2. CASE at = 2
        BY <2>4, <2>6, <2>7, <3>2
      <3> QED
        BY <2>1, <3>1, <3>2
    <2> QED
      BY <1>9, <2>8 DEF Done
  <1>10. CASE q.op = "link"
    <2>1. at \in 1..3
      BY <1>5, <1>10 DEF Steps
    <2>2. at = 1 => d = db /\ d.chan = "live"
      BY <1>3, <1>4, <1>10 DEF Refuses
    <2>3. at # 1 => Linking(at, d) /\ NewKey(q, d)
      BY <1>2, <1>6, <1>10 DEF Done, TxGood, NewRows
    <2>4. /\ at = 1 => Linking(2, InsertKey(d, q))
          /\ at = 2 => Linking(3, Capped(d, q))
          /\ at = 3 => Linking(4, InsertNonce(d))
      BY <1>1, <1>4, <2>1, <2>2, <2>3, LinkFollows
    <2>5. /\ at = 1 => stmt = "insert_key"
          /\ at = 2 => stmt = "cap"
          /\ at = 3 => stmt = "insert_nonce"
      BY <1>10 DEF Program
    <2>6. /\ at = 1 => e = InsertKey(d, q)
          /\ at = 2 => e = Capped(d, q)
          /\ at = 3 => e = InsertNonce(d)
      BY <2>5, EffectOf
    <2> HIDE DEF e, r, stmt
    <2>7. Linking(at + 1, e)
      <3>1. CASE at = 1
        BY <2>4, <2>6, <3>1
      <3>2. CASE at = 2
        BY <2>4, <2>6, <3>2
      <3>3. CASE at = 3
        BY <2>4, <2>6, <3>3
      <3> QED
        BY <2>1, <3>1, <3>2, <3>3
    <2> QED
      BY <1>10, <2>7 DEF Done
  <1>11. CASE q.op = "revoke"
    <2>1. at \in 1..2 /\ q.arg = NoRole
      BY <1>1, <1>5, <1>11 DEF Steps, CallGood
    <2>2. at # 1 => Revoking(d)
      BY <1>6, <1>11 DEF Done
    <2>3. /\ at = 1 => Revoking(RevokeViews(d, q.arg))
          /\ at = 2 => Revoking(Purged(d))
      BY <1>1, <1>4, <2>1, <2>2, RevokeFollows
    <2>4. (at = 1 => stmt = "revoke_views") /\ (at = 2 => stmt = "purge")
      BY <1>11 DEF Program
    <2>5. (at = 1 => e = RevokeViews(d, q.arg)) /\ (at = 2 => e = Purged(d))
      BY <2>4, EffectOf
    <2> HIDE DEF e, r, stmt
    <2>6. Revoking(e)
      BY <2>1, <2>3, <2>5
    <2> QED
      BY <1>11, <2>6 DEF Done
  <1>12. CASE q.op = "delete"
    <2>1. at \in 1..2
      BY <1>5, <1>12 DEF Steps
    <2>2. at = 1 => d = db /\ d.chan = "live"
      BY <1>3, <1>4, <1>12 DEF Refuses
    <2>3. at # 1 => Deleting(at, d)
      BY <1>6, <1>12 DEF Done
    <2>4. /\ at = 1 => Deleting(2, Revoked(d, Rows(d)))
          /\ at = 2 => Deleting(3, [d EXCEPT !.chan = "deleted"])
      BY <1>1, <1>4, <2>1, <2>2, <2>3, DeleteFollows
    <2>5. (at = 1 => stmt = "revoke_all") /\ (at = 2 => stmt = "mark_deleted")
      BY <1>12 DEF Program
    <2>6. /\ at = 1 => e = Effect("revoke_all", d, q, row)
          /\ at = 2 => e = Effect("mark_deleted", d, q, row)
      BY <2>5
    <2>7. /\ Effect("revoke_all", d, q, row) = Revoked(d, Rows(d))
          /\ Effect("mark_deleted", d, q, row) = [d EXCEPT !.chan = "deleted"]
      BY EffectOf
    <2> HIDE DEF e, r, stmt
    <2>8. Deleting(at + 1, e)
      <3>1. CASE at = 1
        BY <2>4, <2>6, <2>7, <3>1
      <3>2. CASE at = 2
        BY <2>4, <2>6, <2>7, <3>2
      <3> QED
        BY <2>1, <3>1, <3>2
    <2> QED
      BY <1>12, <2>8 DEF Done
  <1>13. CASE q.op = "redeem"
    <2>1. at \in 1..3
      BY <1>5, <1>13 DEF Steps
    <2>2. at = 1 => d = db /\ row = 0
      BY <1>2, <1>4, <1>13 DEF TxGood, Redeemed
    <2>3. at # 1 => Redeeming(q, at, d, row)
      BY <1>6, <1>13 DEF Done
    <2>4. /\ at = 1 => /\ Burns(d, q.link) => Redeeming(q, 2, Burnt(d, q.link), q.link)
                       /\ ~Burns(d, q.link) => Redeeming(q, 2, Burnt(d, q.link), row)
          /\ at = 2 => Redeeming(q, 3, Purged(d), row)
          /\ at = 3 => Redeeming(q, 4, OpenSession(d, row), row)
      BY <1>1, <2>1, <2>2, <2>3, RedeemFollows
    <2>5. /\ at = 1 => stmt = "burn"
          /\ at = 2 => stmt = "purge"
          /\ at = 3 => stmt = "open"
      BY <1>13 DEF Program
    <2>6. /\ at = 1 => e = Burnt(d, q.link)
          /\ at = 2 => e = Purged(d)
          /\ at = 3 => e = OpenSession(d, row)
      BY <2>5, EffectOf
    <2>7. /\ at = 1 /\ Burns(d, q.link) => r = q.link
          /\ at = 1 /\ ~Burns(d, q.link) => r = row
          /\ at \in {2, 3} => r = row
      BY <2>5
    <2> HIDE DEF e, r, stmt
    <2>8. Redeeming(q, at + 1, e, r)
      <3>1. CASE at = 1 /\ Burns(d, q.link)
        BY <2>4, <2>6, <2>7, <3>1
      <3>2. CASE at = 1 /\ ~Burns(d, q.link)
        BY <2>4, <2>6, <2>7, <3>2
      <3>3. CASE at = 2
        BY <2>4, <2>6, <2>7, <3>3
      <3>4. CASE at = 3
        BY <2>4, <2>6, <2>7, <3>4
      <3> QED
        BY <2>1, <3>1, <3>2, <3>3, <3>4
    <2> QED
      BY <1>13, <2>8 DEF Done
  <1> QED
    BY <1>4, <1>7, <1>8, <1>9, <1>10, <1>11, <1>12, <1>13 DEF Ops

-----------------------------------------------------------------------------
(* The third invariant.                                                     *)

\* What a call has done that commits.
LEMMA CommitsWhatIsDone ==
    ASSUME IInv, DoneSoFar, NEW c \in Caller, Commit(c)
    PROVE  LET q == call[c]  d == tx[c].db  row == tx[c].row IN
           /\ db' = d /\ q \in Call /\ q.op \in Ops /\ CallGood(q)
           /\ d \in Database /\ Core(d, {}) /\ Keeps(db, d) /\ TrustedUnknown(d)
           /\ Len(db.token) < MaxToken
           /\ q.op = "link" => NewKey(q, d)
           /\ q.op = "create" => Creating(d)
           /\ q.op = "rotate" => Rotating(q, 5, d)
           /\ q.op = "add"    => Adding(q, 3, d)
           /\ q.op = "link"   => Linking(4, d)
           /\ q.op = "revoke" => Revoking(d)
           /\ q.op = "delete" => Deleting(3, d)
           /\ q.op = "redeem" => Redeeming(q, 4, d, row)
  <1> DEFINE q   == call[c]
             at  == tx[c].at
             d   == tx[c].db
             row == tx[c].row
  <1>1. db' = d /\ InTx(c) /\ at > Len(Program[q.op])
    BY DEF Commit
  <1>2. q \in Call /\ at \in Nat /\ d \in Database /\ CallGood(q)
    BY DEF IInv, RegistryTypeOK, Tx
  <1>3. TxGood(q, at, d, row) /\ Len(db.token) < MaxToken /\ Done(q, at, d, row)
    BY <1>1 DEF IInv, TxsGood, DoneSoFar
  <1> HIDE DEF q, at, d, row
  <1>4. q.op \in Ops /\ at = Steps[q.op] + 1 /\ at > 1
    <2>1. q.op \in Ops /\ at \in 1..Steps[q.op] + 1
      BY <1>3 DEF TxGood
    <2>2. Len(Program[q.op]) = Steps[q.op] /\ Steps[q.op] \in 1..4
      BY <2>1, ProgramLengths
    <2> QED
      BY <1>1, <1>2, <2>1, <2>2
  <1>5. Core(d, {}) /\ Keeps(db, d) /\ TrustedUnknown(d) /\ NewRows(q, at, d)
    <2>1. Bereft(q, at) = {} /\ ~(q.op = "rotate" /\ at = 2)
      BY <1>4 DEF Ops, Steps, Bereft
    <2> QED
      BY <1>3, <2>1 DEF TxGood
  <1>6. q.op = "link" => NewKey(q, d)
    BY <1>4, <1>5 DEF NewRows
  <1>7. /\ q.op = "create" => Creating(d)
        /\ q.op = "rotate" => Rotating(q, at, d)
        /\ q.op = "add"    => Adding(q, at, d)
        /\ q.op = "link"   => Linking(at, d)
        /\ q.op = "revoke" => Revoking(d)
        /\ q.op = "delete" => Deleting(at, d)
        /\ q.op = "redeem" => Redeeming(q, at, d, row)
    BY <1>3, <1>4 DEF Done
  <1>8. /\ q.op = "rotate" => at = 5
        /\ q.op \in {"link", "redeem"} => at = 4
        /\ q.op \in {"add", "delete"} => at = 3
    BY <1>4 DEF Steps
  <1> QED
    BY <1>1, <1>2, <1>3, <1>4, <1>5, <1>6, <1>7, <1>8 DEF q, at, d, row

LEMMA CommitsLinked ==
    ASSUME IInv, DoneSoFar, NEW c \in Caller, Commit(c)
    PROVE  Linked(db)'
  <1> DEFINE q   == call[c]
             d   == tx[c].db
             row == tx[c].row
  <1>1. /\ db' = d /\ q.op \in Ops /\ CallGood(q) /\ d \in Database /\ Keeps(db, d)
        /\ q.op = "link" => NewKey(q, d)
        /\ q.op = "create" => Creating(d)
        /\ q.op = "rotate" => Rotating(q, 5, d)
        /\ q.op = "add"    => Adding(q, 3, d)
        /\ q.op = "link"   => Linking(4, d)
        /\ q.op = "revoke" => Revoking(d)
        /\ q.op = "delete" => Deleting(3, d)
        /\ q.op = "redeem" => Redeeming(q, 4, d, row)
    BY CommitsWhatIsDone
  <1> HIDE DEF q, d, row
  <1>2. Linked(db) /\ db \in Database
    BY DEF DoneSoFar, IInv, RegistryTypeOK
  <1>3. /\ Rows(db) = 1..Len(db.token) /\ Len(db.token) \in Nat
        /\ Rows(d) = 1..Len(d.token) /\ Len(d.token) \in Nat
    BY <1>1, <1>2, RowsAreNumbered
  <1>4. \A t \in Rows(d) \ Rows(db) :
            \/ d.token[t].by = Admin
            \/ d.token[t].by \in Rows(db) /\ d.token[t].kind = "view"
    <2> SUFFICES ASSUME NEW t \in Rows(d) \ Rows(db)
                 PROVE  \/ d.token[t].by = Admin
                        \/ d.token[t].by \in Rows(db) /\ d.token[t].kind = "view"
      OBVIOUS
    <2>1. CASE q.op = "create"
      <3>1. PICK r : d.token[t] = RoleToken(r)
        BY <1>1, <2>1 DEF Creating
      <3> QED
        BY <3>1 DEF RoleToken
    <2>2. CASE q.op \in {"rotate", "add"}
      <3>1. Len(d.token) = Len(db.token) + 1 /\ \E r : d.token[Len(db.token) + 1] = RoleToken(r)
        BY <1>1, <2>2 DEF Rotating, Adding, TokenAdded
      <3>2. t = Len(db.token) + 1
        BY <1>3, <3>1
      <3> QED
        BY <3>1, <3>2 DEF RoleToken
    <2>3. CASE q.op = "link"
      <3>1. t = Len(db.token) + 1
        BY <1>1, <2>3 DEF NewKey
      <3>2. d.token[t].kind = "view" /\ d.token[t].by = q.who
        BY <1>1, <2>3, <3>1 DEF NewKey
      <3> QED
        BY <1>1, <2>3, <3>2 DEF CallGood
    <2>4. CASE q.op \in {"revoke", "delete", "redeem"}
      <3>1. Rows(d) = Rows(db)
        <4>1. q.op \in {"revoke", "delete"} => Len(d.token) = Len(db.token)
          BY <1>1 DEF Revoking, Deleting, SameRows
        <4>2. q.op = "redeem" => d.token = db.token
          BY <1>1 DEF Redeeming
        <4> QED
          BY <1>3, <2>4, <4>1, <4>2
      <3> QED
        BY <3>1
    <2> QED
      BY <1>1, <2>1, <2>2, <2>3, <2>4 DEF Ops
  <1>5. \A t \in Rows(d) : d.token[t].by # Admin =>
            d.token[t].by \in Rows(d) /\ d.token[t].kind = "view"
    <2> SUFFICES ASSUME NEW t \in Rows(d), d.token[t].by # Admin
                 PROVE  d.token[t].by \in Rows(d) /\ d.token[t].kind = "view"
      OBVIOUS
    <2>1. CASE t \in Rows(db)
      BY <1>1, <1>2, <2>1 DEF Linked, Keeps, SameRow
    <2>2. CASE t \notin Rows(db)
      BY <1>1, <1>4, <2>2 DEF Keeps
    <2> QED
      BY <2>1, <2>2
  <1>6. \A n \in d.nonce : n.key \in Rows(d) /\ d.token[n.key].kind = "view"
    <2>1. \A k \in Rows(db) : db.token[k].kind = "view" => k \in Rows(d) /\ d.token[k].kind = "view"
      BY <1>1 DEF Keeps, SameRow
    <2>2. CASE q.op = "create"
      BY <1>1, <2>2 DEF Creating
    <2>3. CASE q.op \in {"rotate", "revoke", "redeem"}
      <3>1. FewerLinks(db, d)
        BY <1>1, <2>3 DEF Rotating, Revoking, Redeeming
      <3> QED
        BY <1>2, <2>1, <3>1 DEF FewerLinks, Linked
    <2>4. CASE q.op \in {"add", "delete"}
      <3>1. d.nonce = db.nonce
        BY <1>1, <2>4 DEF Adding, Deleting
      <3> QED
        BY <1>2, <2>1, <3>1 DEF Linked
    <2>5. CASE q.op = "link"
      <3>1. PICK n : d.nonce = db.nonce \cup {n} /\ n.key = Len(db.token) + 1
        BY <1>1, <2>5 DEF Linking
      <3>2. n.key \in Rows(d) /\ d.token[n.key].kind = "view"
        BY <1>1, <2>5, <3>1 DEF NewKey
      <3> QED
        BY <1>2, <2>1, <3>1, <3>2 DEF Linked
    <2> QED
      BY <1>1, <2>2, <2>3, <2>4, <2>5 DEF Ops
  <1> QED
    BY <1>1, <1>5, <1>6 DEF Linked, Rows

LEMMA BeginsToDo ==
    ASSUME IInv, DoneSoFar, NEW c \in Caller, Begin(c)
    PROVE  DoneSoFar'
  <1>1. /\ db' = db /\ tx' = [tx EXCEPT ![c] = [at |-> 1, db |-> db, row |-> 0]]
        /\ \A o \in Caller : ~InTx(o)
        /\ tx \in [Caller -> Tx]
    BY DEF Begin, IInv, RegistryTypeOK
  <1>2. \A o \in Caller : InTx(o)' => o = c
    BY <1>1 DEF InTx
  <1>3. tx'[c].at = 1
    BY <1>1
  <1>4. Linked(db)'
    BY <1>1 DEF DoneSoFar, Linked, Rows
  <1>5. Done(call[c], tx[c].at, tx[c].db, tx[c].row)'
    BY <1>3 DEF Done
  <1> QED
    BY <1>2, <1>4, <1>5 DEF DoneSoFar

\* What has been done does not depend on the clock.
LEMMA DoneStays ==
    ASSUME NEW q, NEW at, NEW d, NEW row, Done(q, at, d, row), db' = db
    PROVE  Done(q, at, d, row)'
  BY DEF Done, Creating, Rotating, Adding, Linking, Revoking, Deleting, Redeeming, Rows, HeldBy,
         SameRoles, SameRows, Fades, TokensStay, FewerLinks, TokenAdded

LEMMA ExecutesOn ==
    ASSUME IInv, DoneSoFar, NEW c \in Caller, Execute(c)
    PROVE  DoneSoFar'
  <1>1. /\ InTx(c) /\ db' = db /\ call' = call
        /\ \A o \in Caller : o # c => ~InTx(o)
    BY DEF Execute, IInv, TxsGood
  <1>2. \A o \in Caller : InTx(o)' => o = c
    BY <1>1 DEF Execute, IInv, RegistryTypeOK, InTx
  <1>3. Done(call[c], tx'[c].at, tx'[c].db, tx'[c].row)
    BY <1>1, StatementFollows DEF DoneSoFar
  <1>4. PICK at, d, row : at = tx'[c].at /\ d = tx'[c].db /\ row = tx'[c].row
    OBVIOUS
  <1>5. PICK q : q = call[c]
    OBVIOUS
  <1>6. Done(q, at, d, row)'
    BY <1>1, <1>3, <1>4, <1>5, DoneStays
  <1>7. Linked(db)'
    BY <1>1 DEF DoneSoFar, Linked, Rows
  <1>8. q = call'[c]
    BY <1>1, <1>5
  <1>9. Done(call[c], tx[c].at, tx[c].db, tx[c].row)'
    BY <1>4, <1>6, <1>8
  <1> QED
    BY <1>2, <1>7, <1>9 DEF DoneSoFar

\* A call that ends leaves no transaction, and nobody else was in one.
LEMMA EndsDone ==
    ASSUME IInv, DoneSoFar, NEW c \in Caller, Ends(c), Linked(db)', db' = db \/ InTx(c)
    PROVE  DoneSoFar'
  <1>1. /\ call' = [call EXCEPT ![c] = Idle] /\ tx' = [tx EXCEPT ![c] = NoTx]
        /\ call \in [Caller -> Call] /\ tx \in [Caller -> Tx]
    BY DEF Ends, IInv, RegistryTypeOK
  <1>2. \A o \in Caller : InTx(o)' =>
            o # c /\ InTx(o) /\ call'[o] = call[o] /\ tx'[o] = tx[o]
    BY <1>1 DEF InTx, NoTx
  <1> SUFFICES ASSUME NEW o \in Caller, InTx(o)'
               PROVE  Done(call[o], tx[o].at, tx[o].db, tx[o].row)'
    BY DEF DoneSoFar
  <1>3. o # c /\ InTx(o) /\ call'[o] = call[o] /\ tx'[o] = tx[o]
    BY <1>2
  <1>4. db' = db
    BY <1>3 DEF IInv, TxsGood
  <1>5. Done(call[o], tx[o].at, tx[o].db, tx[o].row)
    BY <1>3 DEF DoneSoFar
  <1>6. PICK q, at, d, row : q = call[o] /\ at = tx[o].at /\ d = tx[o].db /\ row = tx[o].row
    OBVIOUS
  <1>7. Done(q, at, d, row)'
    BY <1>4, <1>5, <1>6, DoneStays
  <1>8. q = call'[o] /\ at = tx'[o].at /\ d = tx'[o].db /\ row = tx'[o].row
    BY <1>3, <1>6
  <1> QED
    BY <1>7, <1>8

\* A request comes from a caller without transaction.
LEMMA OthersDone ==
    ASSUME IInv, DoneSoFar, Tick \/ (\E c \in Caller : Ask(c)) \/ UNCHANGED vars
    PROVE  DoneSoFar'
  <1>1. db' = db /\ tx' = tx
    BY DEF Tick, Ask, vars
  <1>2. Linked(db)'
    BY <1>1 DEF DoneSoFar, Linked, Rows
  <1> SUFFICES ASSUME NEW o \in Caller, InTx(o)'
               PROVE  Done(call[o], tx[o].at, tx[o].db, tx[o].row)'
    BY <1>2 DEF DoneSoFar
  <1>3. InTx(o)
    BY <1>1 DEF InTx
  <1>4. call'[o] = call[o]
    <2>1. call[o] # Idle
      BY <1>3 DEF IInv, TxsGood, TxGood, Idle, Ops
    <2>2. ASSUME NEW c \in Caller, Ask(c) PROVE call'[o] = call[o]
      BY <2>1, <2>2 DEF Ask, IInv, RegistryTypeOK
    <2> QED
      BY <2>2 DEF Tick, vars
  <1>5. PICK q, at, d, row : q = call[o] /\ at = tx[o].at /\ d = tx[o].db /\ row = tx[o].row
    OBVIOUS
  <1>6. Done(q, at, d, row)'
    BY <1>1, <1>3, <1>5, DoneStays DEF DoneSoFar
  <1>7. q = call'[o] /\ at = tx'[o].at /\ d = tx'[o].db /\ row = tx'[o].row
    BY <1>1, <1>4, <1>5
  <1> QED
    BY <1>6, <1>7

\* The registry with a key from before issuers were recorded: tokens of the founders, then
\* the key, and its link.
LEMMA LegacyLooks ==
    ASSUME db = InsertNonce(Legacy)
    PROVE  LET n == Cardinality(Founders) IN
           /\ n \in Nat /\ Rows(db) = 1..(n + 1)
           /\ db.chan = "live" /\ db.roles = Founders /\ db.session = {}
           /\ \A i \in 1..n : \E r \in Founders : db.token[i] = RoleToken(r)
           /\ db.token[n + 1] = ViewKey(Admin, NoRole, TRUE, KeyTTL)
           /\ \E l : db.nonce = {l} /\ l.key = n + 1 /\ ~l.used
  <1>1. PICK f, n, x, l :
            /\ f = Founded(Absent) /\ n = Cardinality(Founders)
            /\ x = ViewKey(Admin, NoRole, TRUE, KeyTTL)
            /\ l = [key |-> n + 1, exp |-> now + NonceTTL, used |-> FALSE]
    OBVIOUS
  <1>2. Absent \in Database /\ Absent.nonce = {} /\ Absent.session = {}
    BY RestIsTyped DEF Absent
  <1>3. /\ f \in Database /\ f.chan = "live" /\ f.roles = Founders
        /\ f.nonce = {} /\ f.session = {} /\ Len(f.token) = n
        /\ \A i \in Rows(f) : \E r \in Founders : f.token[i] = RoleToken(r)
    BY <1>1, <1>2, FoundedEffect
  <1>4. x \in TokenRow
    BY <1>1, RegistryAssumption DEF ViewKey, TokenRow, Admin
  <1> DEFINE g == [f EXCEPT !.token = Append(@, x)]
  <1>5. /\ g \in Database /\ SameBut(f, g) /\ Len(g.token) = n + 1
        /\ Rows(g) = Rows(f) \cup {n + 1}
        /\ \A i \in Rows(f) : g.token[i] = f.token[i]
        /\ g.token[n + 1] = x
    <2>1. /\ g \in Database /\ SameBut(f, g) /\ Len(g.token) = Len(f.token) + 1
          /\ Rows(g) = Rows(f) \cup {Len(f.token) + 1}
          /\ \A i \in Rows(f) : g.token[i] = f.token[i]
          /\ g.token[Len(f.token) + 1] = x
      BY <1>3, <1>4, AppendEffect
    <2> HIDE DEF g
    <2> QED
      BY <1>3, <2>1
  <1>6. Legacy = g
    BY <1>1 DEF Legacy
  <1> HIDE DEF g
  <1>7. db = [g EXCEPT !.nonce = g.nonce \cup {l}]
    BY <1>1, <1>5, <1>6 DEF InsertNonce
  <1>8. /\ db.nonce = {l} /\ db.token = g.token
        /\ db.chan = "live" /\ db.roles = Founders /\ db.session = {}
    <2>1. g.nonce = {} /\ g.chan = "live" /\ g.roles = Founders /\ g.session = {}
      BY <1>3, <1>5 DEF SameBut
    <2>2. /\ db.nonce = g.nonce \cup {l} /\ db.token = g.token
          /\ db.chan = g.chan /\ db.roles = g.roles /\ db.session = g.session
      BY <1>5, <1>7 DEF Database
    <2> QED
      BY <2>1, <2>2
  <1>9. l.key = n + 1 /\ ~l.used
    BY <1>1
  <1>10. n \in Nat /\ Rows(f) = 1..n /\ Rows(g) = 1..(n + 1) /\ Rows(db) = 1..(n + 1)
    <2>1. n \in Nat /\ Rows(f) = 1..n /\ Rows(g) = 1..(n + 1)
      BY <1>3, <1>5, RowsAreNumbered
    <2> QED
      BY <1>8, <2>1 DEF Rows
  <1>11. \A i \in 1..n : \E r \in Founders : db.token[i] = RoleToken(r)
    <2> SUFFICES ASSUME NEW i \in 1..n PROVE \E r \in Founders : db.token[i] = RoleToken(r)
      OBVIOUS
    <2>1. db.token[i] = f.token[i]
      BY <1>5, <1>8, <1>10
    <2> QED
      BY <1>3, <1>10, <2>1
  <1>12. db.token[n + 1] = ViewKey(Admin, NoRole, TRUE, KeyTTL)
    BY <1>1, <1>5, <1>8
  <1>13. \E o : db.nonce = {o} /\ o.key = n + 1 /\ ~o.used
    BY <1>8, <1>9
  <1> QED
    BY <1>1, <1>8, <1>10, <1>11, <1>12, <1>13

LEMMA BeginsLinked == Init => DoneSoFar
  <1> SUFFICES ASSUME Init PROVE DoneSoFar
    OBVIOUS
  <1>1. \A c \in Caller : ~InTx(c)
    BY DEF Init, InTx, NoTx
  <1>2. CASE db = Absent
    BY <1>1, <1>2 DEF DoneSoFar, Linked, Absent, Rows
  <1>3. CASE db = InsertNonce(Legacy)
    <2>1. PICK n \in Nat :
              /\ Rows(db) = 1..(n + 1)
              /\ \A i \in 1..n : \E r \in Founders : db.token[i] = RoleToken(r)
              /\ db.token[n + 1] = ViewKey(Admin, NoRole, TRUE, KeyTTL)
              /\ \E l : db.nonce = {l} /\ l.key = n + 1 /\ ~l.used
      BY <1>3, LegacyLooks
    <2>2. \A i \in 1..n : db.token[i].by = Admin
      <3> SUFFICES ASSUME NEW i \in 1..n PROVE db.token[i].by = Admin
        OBVIOUS
      <3>1. PICK r : db.token[i] = RoleToken(r)
        BY <2>1
      <3> QED
        BY <3>1 DEF RoleToken
    <2>3. db.token[n + 1].by = Admin /\ db.token[n + 1].kind = "view"
      BY <2>1 DEF ViewKey
    <2>4. \A i \in Rows(db) : db.token[i].by = Admin
      <3>1. \A i \in Rows(db) : i \in 1..n \/ i = n + 1
        BY <2>1
      <3> QED
        BY <2>2, <2>3, <3>1
    <2>5. n + 1 \in Rows(db) /\ \A l \in db.nonce : l.key = n + 1
      BY <2>1
    <2>6. Linked(db)
      BY <2>3, <2>4, <2>5 DEF Linked
    <2> QED
      BY <1>1, <2>6 DEF DoneSoFar
  <1> QED
    BY <1>2, <1>3 DEF Init

LEMMA DoneInvariance == Spec => [](IInv /\ TakesLittle /\ DoneSoFar)
  <1>1. Init => DoneSoFar
    BY BeginsLinked
  <1>2. IInv /\ DoneSoFar /\ [Next]_vars => DoneSoFar'
    <2> SUFFICES ASSUME IInv, DoneSoFar, [Next]_vars PROVE DoneSoFar'
      OBVIOUS
    <2>1. ASSUME NEW c \in Caller, Begin(c) PROVE DoneSoFar'
      BY <2>1, BeginsToDo
    <2>2. ASSUME NEW c \in Caller, Execute(c) PROVE DoneSoFar'
      BY <2>2, ExecutesOn
    <2>3. ASSUME NEW c \in Caller, Refuse(c) \/ Fail(c) PROVE DoneSoFar'
      <3>1. db' = db /\ Ends(c)
        BY <2>3 DEF Refuse, Fail
      <3>2. Linked(db)'
        BY <3>1 DEF DoneSoFar, Linked, Rows
      <3> QED
        BY <3>1, <3>2, EndsDone
    <2>4. ASSUME NEW c \in Caller, Commit(c) PROVE DoneSoFar'
      BY <2>4, CommitsLinked, EndsDone DEF Commit
    <2> QED
      BY <2>1, <2>2, <2>3, <2>4, OthersDone DEF Next
  <1> QED
    BY <1>1, <1>2, SparingInvariance, PTL DEF Spec

-----------------------------------------------------------------------------
(* The registry keeps its promise: a commit is what the call asks for, done *)
(* at once, and nothing else is seen.                                       *)

\* What becomes of a token that fades.
LEMMA StageFades ==
    ASSUME NEW d, NEW e, NEW t \in Rows(d), Linked(d), OneUse(d), Keeps(d, e),
           FewerLinks(d, e), \A s \in e.session : s.key = t => s \in d.session
    PROVE  /\ Dead(d, t) => Stage(d, t) = "revoked"
           /\ Dead(e, t) => Stage(e, t) = "revoked"
           /\ d.token[t].kind = "role" /\ ~Dead(d, t) => Stage(d, t) = "held"
           /\ d.token[t].kind = "role" /\ ~Dead(e, t) => Stage(e, t) = "held"
           /\ d.token[t].kind # "role" /\ ~Dead(d, t) => Stage(d, t) \in {"link", "session", "shut"}
           /\ d.token[t].kind # "role" /\ ~Dead(d, t) /\ ~Dead(e, t) =>
                 \/ Stage(e, t) = Stage(d, t)
                 \/ Stage(d, t) \in {"link", "session"} /\ Stage(e, t) = "shut"
  <1>1. t \in Rows(e) /\ e.token[t].kind = d.token[t].kind
    BY DEF Keeps, SameRow
  <1>2. /\ Dead(d, t) => Stage(d, t) = "revoked"
        /\ Dead(e, t) => Stage(e, t) = "revoked"
        /\ d.token[t].kind = "role" /\ ~Dead(d, t) => Stage(d, t) = "held"
        /\ d.token[t].kind = "role" /\ ~Dead(e, t) => Stage(e, t) = "held"
        /\ d.token[t].kind # "role" /\ ~Dead(d, t) => Stage(d, t) \in {"link", "session", "shut"}
    BY <1>1 DEF Stage
  <1>3. ASSUME d.token[t].kind # "role", ~Dead(d, t), ~Dead(e, t)
        PROVE  \/ Stage(e, t) = Stage(d, t)
               \/ Stage(d, t) \in {"link", "session"} /\ Stage(e, t) = "shut"
    <2>1. CASE \E s \in e.session : s.key = t
      <3>1. \E s \in d.session : s.key = t
        BY <2>1
      <3> QED
        BY <1>1, <1>3, <2>1, <3>1 DEF Stage
    <2>2. CASE (\A s \in e.session : s.key # t) /\ \E n \in e.nonce : n.key = t /\ ~n.used
      <3>1. \E n \in d.nonce : n.key = t /\ ~n.used
        BY <2>2 DEF FewerLinks
      <3>2. \A s \in d.session : s.key # t
        BY <3>1 DEF OneUse
      <3> QED
        BY <1>1, <1>3, <2>2, <3>1, <3>2 DEF Stage
    <2>3. CASE (\A s \in e.session : s.key # t) /\ \A n \in e.nonce : n.key = t => n.used
      <3>1. Stage(e, t) = "shut"
        BY <1>1, <1>3, <2>3 DEF Stage
      <3>2. Stage(d, t) \in {"link", "session", "shut"}
        BY <1>2, <1>3
      <3> QED
        BY <3>1, <3>2
    <2> QED
      BY <2>1, <2>2, <2>3
  <1> QED
    BY <1>2, <1>3

\* What is dead stays so, and a token of a role stays as long as it works.
LEMMA DeadStays ==
    ASSUME NEW d, NEW e, NEW t \in Rows(d), Linked(d), Keeps(d, e), Fades(d, e)
    PROVE  /\ Dead(d, t) => Dead(e, t)
           /\ d.token[t].kind = "role" => (Dead(e, t) <=> ~e.token[t].live)
           /\ d.token[t].kind = "role" => (Dead(d, t) <=> ~d.token[t].live)
  <1>1. t \in Rows(e) /\ e.token[t].by = d.token[t].by
    BY DEF Keeps, SameRow
  <1>2. d.token[t].by # Admin => d.token[t].by \in Rows(d) /\ d.token[t].kind = "view"
    BY DEF Linked
  <1> QED
    BY <1>1, <1>2 DEF Fades, Dead

\* A token is held while it works for its role.
LEMMA HeldIsHeld ==
    ASSUME NEW d \in Database, Linked(d),
           \A t \in Rows(d) : d.token[t].kind = "role" => d.token[t].role \in Role
    PROVE  /\ \A r, o \in Role : r # o => HeldBy(d, r) \cap HeldBy(d, o) = {}
           /\ \A t : Stage(d, t) = "held" <=> \E r \in Role : t \in HeldBy(d, r)
  <1>1. \A r, o \in Role : r # o => HeldBy(d, r) \cap HeldBy(d, o) = {}
    BY DEF HeldBy
  <1>2. ASSUME NEW t, Stage(d, t) = "held" PROVE \E r \in Role : t \in HeldBy(d, r)
    <2>1. t \in Rows(d) /\ ~Dead(d, t) /\ d.token[t].kind = "role"
      BY <1>2 DEF Stage
    <2>2. t \in HeldBy(d, d.token[t].role)
      BY <2>1 DEF Dead, HeldBy
    <2> QED
      BY <2>1, <2>2
  <1>3. ASSUME NEW t, NEW r \in Role, t \in HeldBy(d, r) PROVE Stage(d, t) = "held"
    <2>1. t \in Rows(d) /\ d.token[t].kind = "role" /\ d.token[t].live
      BY <1>3 DEF HeldBy
    <2>2. d.token[t].by = Admin
      BY <2>1 DEF Linked
    <2> QED
      BY <2>1, <2>2 DEF Stage, Dead
  <1> QED
    BY <1>1, <1>2, <1>3

\* The numbers of the rows are tokens, and so is the next one.
LEMMA RowsAreTokens ==
    ASSUME IInv, Len(db.token) < MaxToken
    PROVE  /\ Rows(db) \subseteq 1..MaxToken /\ Len(db.token) + 1 \in 1..MaxToken
           /\ Rows(db) = 1..Len(db.token) /\ Len(db.token) \in Nat
           /\ \A t : t \notin Rows(db) => Stage(db, t) = "unissued"
  <1>1. /\ Rows(db) = 1..Len(db.token) /\ Len(db.token) \in Nat /\ MaxToken \in Nat
    BY RowsAreNumbered, RegistryAssumption DEF IInv, RegistryTypeOK
  <1>2. Rows(db) \subseteq 1..MaxToken /\ Len(db.token) + 1 \in 1..MaxToken
    BY <1>1
  <1> QED
    BY <1>1, <1>2 DEF Stage

LEMMA FoundsAtOnce ==
    ASSUME IInv, DoneSoFar, NEW c \in Caller, Commit(c), call[c].op = "create"
    PROVE  Promised!Found
  <1> DEFINE d == tx[c].db
  <1>1. /\ db' = d /\ d \in Database /\ Core(d, {}) /\ Creating(d) /\ Len(db.token) < MaxToken
    BY CommitsWhatIsDone
  <1>2. asked' = asked
    BY DEF Commit
  <1>3. Linked(d)
    BY <1>1, CommitsLinked DEF Linked, Rows
  <1> HIDE DEF d
  <1>4. db.chan = "absent" /\ Rows(db) = {}
    BY <1>1 DEF Creating, IInv, DbGood, Core, WellFormed
  <1>5. Rows(d) = 1..Len(d.token) /\ Rows(d) \subseteq 1..MaxToken
    BY <1>1, RowsAreNumbered, RegistryAssumption DEF Creating
  <1>6. \A t \in Rows(d) : /\ d.token[t].kind = "role" /\ d.token[t].role \in Role
                           /\ d.token[t].live /\ d.token[t].by = Admin
    <2> SUFFICES ASSUME NEW t \in Rows(d)
                 PROVE  /\ d.token[t].kind = "role" /\ d.token[t].role \in Role
                        /\ d.token[t].live /\ d.token[t].by = Admin
      OBVIOUS
    <2>1. PICK r \in Founders : d.token[t] = RoleToken(r)
      BY <1>1 DEF Creating
    <2> QED
      BY <2>1, RegistryAssumption DEF RoleToken
  <1>7. /\ \A r, o \in Role : r # o => HeldBy(d, r) \cap HeldBy(d, o) = {}
        /\ \A t : Stage(d, t) = "held" <=> \E r \in Role : t \in HeldBy(d, r)
    BY <1>1, <1>3, <1>6, HeldIsHeld
  <1>8. \A r \in Role : IF r \in Founders THEN \E t \in 1..MaxToken : HeldBy(d, r) = {t}
                                          ELSE HeldBy(d, r) = {}
    BY <1>1, <1>5 DEF Core, Holders, Creating
  <1>9. \A t \in 1..MaxToken :
            /\ Stage(db, t) = "unissued"
            /\ Stage(d, t) \in {"held", "unissued"}
    BY <1>4, <1>6 DEF Stage, Dead
  <1> QED
    BY <1>1, <1>2, <1>4, <1>7, <1>8, <1>9
       DEF Creating, Promised!Found, Promised!OneEach, Promised!Distributed, Promised!Unissued

LEMMA AddsAtOnce ==
    ASSUME IInv, DoneSoFar, NEW c \in Caller, Commit(c), call[c].op = "add"
    PROVE  Promised!Add(call[c].arg, Len(db.token) + 1)
  <1> DEFINE d == tx[c].db
             r == call[c].arg
             n == Len(db.token) + 1
  <1>1. /\ db' = d /\ d \in Database /\ Adding(call[c], 3, d) /\ Len(db.token) < MaxToken
        /\ CallGood(call[c])
    BY CommitsWhatIsDone
  <1>2. asked' = asked
    BY DEF Commit
  <1>3. /\ Rows(db) \subseteq 1..MaxToken /\ n \in 1..MaxToken /\ n \notin Rows(db)
        /\ \A t : t \notin Rows(db) => Stage(db, t) = "unissued"
    BY <1>1, RowsAreTokens
  <1>4. /\ db.chan = "live" /\ r \notin db.roles /\ r \in Role /\ d.chan = "live"
        /\ d.nonce = db.nonce /\ d.session = db.session
        /\ \A t \in Rows(db) : d.token[t] = db.token[t]
        /\ Len(d.token) = n /\ d.token[n] = RoleToken(r)
    BY <1>1 DEF Adding, TokenAdded, CallGood
  <1>5. Rows(d) = Rows(db) \cup {n}
    BY <1>1, <1>4, RowsAreTokens, RowsAreNumbered
  <1>6. Linked(db) /\ Holders(db, {})
    BY DEF DoneSoFar, IInv, DbGood, Core
  <1> HIDE DEF d, r, n
  <1>7. HeldBy(db, r) = {}
    BY <1>4, <1>6 DEF Holders
  <1>8. /\ \A o : o # r => HeldBy(d, o) = HeldBy(db, o)
        /\ HeldBy(d, r) = {n}
    <2>1. d.token[n].kind = "role" /\ d.token[n].role = r /\ d.token[n].live
      BY <1>4 DEF RoleToken
    <2>2. \A o : \A t \in Rows(db) : t \in HeldBy(d, o) <=> t \in HeldBy(db, o)
      BY <1>4, <1>5 DEF HeldBy
    <2>3. \A o : n \in HeldBy(d, o) <=> o = r
      BY <1>5, <2>1 DEF HeldBy
    <2>4. \A o : HeldBy(d, o) \subseteq Rows(db) \cup {n} /\ HeldBy(db, o) \subseteq Rows(db)
      BY <1>5 DEF HeldBy
    <2> QED
      BY <1>3, <1>7, <2>2, <2>3, <2>4
  <1>9. \A t \in Rows(db) : Stage(d, t) = Stage(db, t)
    <2> SUFFICES ASSUME NEW t \in Rows(db) PROVE Stage(d, t) = Stage(db, t)
      OBVIOUS
    <2>1. d.token[t] = db.token[t] /\ t \in Rows(d)
      BY <1>4, <1>5
    <2>2. db.token[t].by # Admin => d.token[db.token[t].by] = db.token[db.token[t].by]
      BY <1>4, <1>6 DEF Linked
    <2>3. Dead(d, t) <=> Dead(db, t)
      BY <2>1, <2>2 DEF Dead
    <2> QED
      BY <1>4, <2>1, <2>3 DEF Stage
  <1>10. Stage(d, n) = "held"
    BY <1>4, <1>5 DEF Stage, Dead, RoleToken
  <1>11. \A t : t \notin Rows(db) /\ t # n => Stage(d, t) = Stage(db, t)
    BY <1>5 DEF Stage
  <1>12. [t \in 1..MaxToken |-> Stage(d, t)]
           = [[t \in 1..MaxToken |-> Stage(db, t)] EXCEPT ![n] = "held"]
    BY <1>3, <1>9, <1>10, <1>11
  <1>13. [o \in Role |-> HeldBy(d, o)] = [[o \in Role |-> HeldBy(db, o)] EXCEPT ![r] = {n}]
    BY <1>4, <1>8
  <1>14. Promised!Add(r, n)
    BY <1>1, <1>2, <1>3, <1>4, <1>7, <1>12, <1>13 DEF Promised!Add, Promised!Unissued
  <1> QED
    BY <1>14 DEF r, n

LEMMA RotatesAtOnce ==
    ASSUME IInv, DoneSoFar, NEW c \in Caller, Commit(c), call[c].op = "rotate"
    PROVE  \E old \in 1..MaxToken : Promised!Rotate(call[c].arg, old, Len(db.token) + 1)
  <1> DEFINE d == tx[c].db
             r == call[c].arg
             n == Len(db.token) + 1
  <1>1. /\ db' = d /\ d \in Database /\ Rotating(call[c], 5, d) /\ Len(db.token) < MaxToken
        /\ CallGood(call[c]) /\ Keeps(db, d) /\ TrustedUnknown(d)
    BY CommitsWhatIsDone
  <1>2. asked' = asked
    BY DEF Commit
  <1>3. /\ Rows(db) \subseteq 1..MaxToken /\ n \in 1..MaxToken /\ n \notin Rows(db)
        /\ \A t : t \notin Rows(db) => Stage(db, t) = "unissued"
    BY <1>1, RowsAreTokens
  <1>4. /\ db.chan = "live" /\ r \in db.roles /\ r \in Role /\ SameRoles(db, d)
        /\ Fades(db, d) /\ TokensStay(db, d, {r}) /\ FewerLinks(db, d)
        /\ d.session \subseteq db.session
        /\ \A t \in HeldBy(db, r) : ~d.token[t].live
        /\ Len(d.token) = n /\ d.token[n] = RoleToken(r)
    BY <1>1 DEF Rotating, TokenAdded, CallGood
  <1>5. Rows(d) = Rows(db) \cup {n}
    BY <1>1, <1>4, RowsAreTokens, RowsAreNumbered
  <1>6. Linked(db) /\ Holders(db, {}) /\ OneUse(db) /\ KnownIssuers
    BY DEF DoneSoFar, IInv, DbGood, Core
  <1> HIDE DEF d, r, n
  <1>7. PICK old \in Rows(db) : HeldBy(db, r) = {old}
    BY <1>4, <1>6 DEF Holders
  <1>8. /\ db.token[old].kind = "role" /\ ~d.token[old].live /\ old # n /\ old # Admin
        /\ old \in 1..MaxToken
    <2>1. old \in HeldBy(db, r) /\ old \in 1..MaxToken
      BY <1>3, <1>7
    <2> QED
      BY <1>3, <1>4, <2>1 DEF HeldBy, Admin
  <1>9. \A t \in Rows(db) : db.token[t].kind = "role" /\ t # old =>
            (d.token[t].live <=> db.token[t].live)
    <2> SUFFICES ASSUME NEW t \in Rows(db), db.token[t].kind = "role", t # old
                 PROVE  d.token[t].live <=> db.token[t].live
      OBVIOUS
    <2>1. CASE db.token[t].role = r
      <3>1. t \notin HeldBy(db, r)
        BY <1>7
      <3> QED
        BY <1>4, <2>1, <3>1 DEF HeldBy, Fades
    <2>2. CASE db.token[t].role # r
      BY <1>4, <2>2 DEF TokensStay
    <2> QED
      BY <2>1, <2>2
  <1>10. /\ \A o : o # r => HeldBy(d, o) = HeldBy(db, o)
         /\ HeldBy(d, r) = {n}
    <2>1. d.token[n].kind = "role" /\ d.token[n].role = r /\ d.token[n].live
      BY <1>4 DEF RoleToken
    <2>2. \A o : o # r => \A t \in Rows(db) : t \in HeldBy(d, o) <=> t \in HeldBy(db, o)
      BY <1>1, <1>4, <1>5 DEF HeldBy, Keeps, SameRow, TokensStay
    <2>3. \A t \in Rows(db) : t \notin HeldBy(d, r)
      BY <1>1, <1>4 DEF HeldBy, Keeps, SameRow, Fades
    <2>4. \A o : n \in HeldBy(d, o) <=> o = r
      BY <1>5, <2>1 DEF HeldBy
    <2>5. \A o : HeldBy(d, o) \subseteq Rows(db) \cup {n} /\ HeldBy(db, o) \subseteq Rows(db)
      BY <1>5 DEF HeldBy
    <2> QED
      BY <1>3, <2>2, <2>3, <2>4, <2>5
  <1>11. Stage(d, old) = "revoked"
    BY <1>5, <1>8 DEF Stage, Dead
  <1>12. Stage(d, n) = "held"
    BY <1>4, <1>5 DEF Stage, Dead, RoleToken
  <1>13. ASSUME NEW t \in (1..MaxToken) \ {old, n}
         PROVE  IF Stage(db, t) \in {"link", "session", "shut"} /\ asked[t] = old
                THEN Stage(d, t) = "revoked"
                ELSE \/ Stage(d, t) = Stage(db, t)
                     \/ Stage(db, t) \in {"link", "session"} /\ Stage(d, t) = "shut"
                     \/ Stage(db, t) \in {"link", "session", "shut"} /\ Stage(d, t) = "revoked"
    <2>1. CASE t \notin Rows(db)
      <3>1. Stage(d, t) = "unissued" /\ Stage(db, t) = "unissued"
        BY <1>5, <1>13, <2>1 DEF Stage
      <3> QED
        BY <3>1
    <2>2. CASE t \in Rows(db)
      <3>1. /\ Dead(db, t) => Stage(db, t) = "revoked"
            /\ Dead(d, t) => Stage(d, t) = "revoked"
            /\ db.token[t].kind = "role" /\ ~Dead(db, t) => Stage(db, t) = "held"
            /\ db.token[t].kind = "role" /\ ~Dead(d, t) => Stage(d, t) = "held"
            /\ db.token[t].kind # "role" /\ ~Dead(db, t) => Stage(db, t) \in {"link", "session", "shut"}
            /\ db.token[t].kind # "role" /\ ~Dead(db, t) /\ ~Dead(d, t) =>
                  \/ Stage(d, t) = Stage(db, t)
                  \/ Stage(db, t) \in {"link", "session"} /\ Stage(d, t) = "shut"
        BY <1>1, <1>4, <1>6, <2>2, StageFades
      <3>2. /\ Dead(db, t) => Dead(d, t)
            /\ db.token[t].kind = "role" => (Dead(d, t) <=> ~d.token[t].live)
            /\ db.token[t].kind = "role" => (Dead(db, t) <=> ~db.token[t].live)
        BY <1>1, <1>4, <1>6, <2>2, DeadStays
      <3>3. CASE db.token[t].kind = "role"
        BY <1>9, <1>13, <2>2, <3>1, <3>2, <3>3
      <3>4. CASE db.token[t].kind # "role"
        <4>1. asked[t] = old => Dead(d, t)
          <5> SUFFICES ASSUME asked[t] = old, d.token[t].live
                       PROVE  d.token[t].by # Admin /\ ~d.token[d.token[t].by].live
            BY DEF Dead
          <5>1. db.token[t].kind = "view" /\ t \in Rows(d)
                /\ d.token[t].kind = "view" /\ d.token[t].by = db.token[t].by
                /\ d.token[t].unknown = db.token[t].unknown
            <6>1. db.token[t] \in TokenRow
              BY <2>2, RowsAreNumbered DEF IInv, RegistryTypeOK
            <6> QED
              BY <1>1, <2>2, <3>4, <6>1 DEF TokenRow, Keeps, SameRow
          <5>2. ~d.token[t].unknown
            BY <1>1, <1>8, <5>1 DEF TrustedUnknown
          <5>3. d.token[t].by = old
            BY <1>6, <2>2, <5>1, <5>2 DEF KnownIssuers
          <5> QED
            BY <1>8, <5>3
        <4> QED
          BY <3>1, <3>2, <3>4, <4>1
      <3> QED
        BY <3>3, <3>4
    <2> QED
      BY <2>1, <2>2
  <1>14. [o \in Role |-> HeldBy(d, o)] = [[o \in Role |-> HeldBy(db, o)] EXCEPT ![r] = {n}]
    BY <1>4, <1>10
  <1>15. Promised!Rotate(r, old, n)
    BY <1>1, <1>2, <1>3, <1>4, <1>7, <1>8, <1>11, <1>12, <1>13, <1>14
       DEF Promised!Rotate, Promised!Unissued, Promised!Key, Promised!Ages, Promised!Goes,
           SameRoles
  <1> QED
    BY <1>8, <1>15 DEF r, n

LEMMA OffersAtOnce ==
    ASSUME IInv, TakesLittle, DoneSoFar, NEW c \in Caller, Commit(c), call[c].op = "link"
    PROVE  Promised!Offer(call[c].who, Len(db.token) + 1)
           /\ call[c].who \in 1..MaxToken \cup {Admin}
  <1> DEFINE d == tx[c].db
             who == call[c].who
             n == Len(db.token) + 1
  <1>1. /\ db' = d /\ d \in Database /\ Linking(4, d) /\ NewKey(call[c], d)
        /\ Len(db.token) < MaxToken /\ CallGood(call[c]) /\ Keeps(db, d)
    BY CommitsWhatIsDone
  <1>2. asked' = [asked EXCEPT ![n] = who] /\ InTx(c)
    <2>1. Len(d.token) = n
      BY <1>1 DEF NewKey
    <2> HIDE DEF n
    <2> QED
      BY <2>1 DEF Commit
  <1>3. /\ Rows(db) \subseteq 1..MaxToken /\ n \in 1..MaxToken /\ n \notin Rows(db)
        /\ \A t : t \notin Rows(db) => Stage(db, t) = "unissued"
    BY <1>1, RowsAreTokens
  <1>4. /\ db.chan = "live" /\ SameRoles(db, d)
        /\ Fades(db, d) /\ TokensStay(db, d, {}) /\ d.session = db.session
        /\ Rows(d) = Rows(db) \cup {n}
        /\ d.token[n].kind = "view" /\ d.token[n].by = who
        /\ who = Admin \/ (who \in Rows(db) /\ db.token[who].kind = "role")
    BY <1>1 DEF Linking, NewKey, CallGood
  <1>5. PICK x : d.nonce = db.nonce \cup {x} /\ x.key = n /\ ~x.used
    BY <1>1 DEF Linking
  <1>6. Linked(db) /\ WellFormed(db)
    BY DEF DoneSoFar, IInv, DbGood, Core
  <1>7. d.token[n].live
    <2>1. Capping(call[c], tx[c].at, d)
      BY <1>2 DEF TakesLittle
    <2>2. tx[c].at > 2
      <3>1. Len(Program["link"]) = 3 /\ tx[c].at \in Nat
        BY DEF Program, IInv, RegistryTypeOK, Tx
      <3> QED
        BY <3>1 DEF Commit
    <2>3. n \in KeysOf(d, call[c].arg)
      BY <2>1, <2>2 DEF Capping, KeepsNewest
    <2> HIDE DEF d, n
    <2> QED
      BY <2>3 DEF KeysOf
  <1> HIDE DEF d, who, n
  <1>8. \A o : HeldBy(d, o) = HeldBy(db, o)
    <2>1. \A o : \A t \in Rows(db) : t \in HeldBy(d, o) <=> t \in HeldBy(db, o)
      BY <1>1, <1>4 DEF HeldBy, Keeps, SameRow, TokensStay
    <2>2. \A o : n \notin HeldBy(d, o)
      BY <1>4 DEF HeldBy
    <2>3. \A o : HeldBy(d, o) \subseteq Rows(db) \cup {n} /\ HeldBy(db, o) \subseteq Rows(db)
      BY <1>4 DEF HeldBy
    <2> QED
      BY <2>1, <2>2, <2>3
  <1>9. who # Admin => /\ who \in 1..MaxToken
                       /\ d.token[who].live <=> db.token[who].live
                       /\ Stage(db, who) = "held" <=> db.token[who].live
    <2> SUFFICES ASSUME who # Admin
                 PROVE  /\ who \in 1..MaxToken
                        /\ d.token[who].live <=> db.token[who].live
                        /\ Stage(db, who) = "held" <=> db.token[who].live
      OBVIOUS
    <2>1. who \in Rows(db) /\ db.token[who].kind = "role"
      BY <1>4
    <2>2. d.token[who].live <=> db.token[who].live
      BY <1>4, <2>1 DEF TokensStay
    <2>3. Dead(db, who) <=> ~db.token[who].live
      BY <1>6, <2>1 DEF Dead, Linked
    <2> QED
      BY <1>3, <2>1, <2>2, <2>3 DEF Stage
  <1>10. Stage(d, n) = IF who = Admin \/ (who \in 1..MaxToken /\ Stage(db, who) = "held")
                       THEN "link" ELSE "revoked"
    <2>1. Dead(d, n) <=> who # Admin /\ ~d.token[who].live
      BY <1>4, <1>7 DEF Dead
    <2>2. ~Dead(d, n) => Stage(d, n) = "link"
      <3>1. \A s \in d.session : s.key # n
        BY <1>3, <1>4, <1>6 DEF WellFormed
      <3> QED
        BY <1>4, <1>5, <3>1 DEF Stage
    <2>3. Dead(d, n) => Stage(d, n) = "revoked"
      BY <1>4 DEF Stage
    <2> QED
      BY <1>9, <2>1, <2>2, <2>3
  <1>11. ASSUME NEW t \in (1..MaxToken) \ {n}
         PROVE  \/ Stage(d, t) = Stage(db, t)
                \/ Stage(db, t) \in {"link", "session", "shut"} /\ Stage(d, t) = "revoked"
    <2>1. CASE t \notin Rows(db)
      BY <1>4, <1>11, <2>1 DEF Stage
    <2>2. CASE t \in Rows(db)
      <3>1. t \in Rows(d) /\ d.token[t].kind = db.token[t].kind
        BY <1>1, <2>2 DEF Keeps, SameRow
      <3>2. /\ Dead(db, t) => Dead(d, t)
            /\ db.token[t].kind = "role" => (Dead(d, t) <=> ~d.token[t].live)
            /\ db.token[t].kind = "role" => (Dead(db, t) <=> ~db.token[t].live)
        BY <1>1, <1>4, <1>6, <2>2, DeadStays
      <3>3. db.token[t].kind = "role" => (Dead(db, t) <=> Dead(d, t))
        BY <1>4, <2>2, <3>2 DEF TokensStay
      <3>4. (\E o \in d.nonce : o.key = t /\ ~o.used) <=> (\E o \in db.nonce : o.key = t /\ ~o.used)
        BY <1>5, <1>11
      <3>5. (Dead(db, t) <=> Dead(d, t)) => Stage(d, t) = Stage(db, t)
        BY <1>4, <2>2, <3>1, <3>4 DEF Stage
      <3>6. ~Dead(db, t) /\ Dead(d, t) =>
                Stage(db, t) \in {"link", "session", "shut"} /\ Stage(d, t) = "revoked"
        BY <2>2, <3>1, <3>3 DEF Stage
      <3> QED
        BY <3>2, <3>5, <3>6
    <2> QED
      BY <2>1, <2>2
  <1>12. Promised!Offer(who, n)
    BY <1>1, <1>2, <1>3, <1>4, <1>8, <1>10, <1>11
       DEF Promised!Offer, Promised!Unissued, Promised!Trusted, Promised!Key, Promised!Goes,
           SameRoles
  <1>13. who \in 1..MaxToken \cup {Admin}
    BY <1>9
  <1> QED
    BY <1>12, <1>13 DEF who, n

LEMMA RevokesAtOnce ==
    ASSUME IInv, DoneSoFar, NEW c \in Caller, Commit(c), call[c].op = "revoke"
    PROVE  Promised!RevokeKeys
  <1> DEFINE d == tx[c].db
  <1>1. db' = d /\ d \in Database /\ Revoking(d) /\ Keeps(db, d)
    BY CommitsWhatIsDone
  <1>2. asked' = asked
    BY DEF Commit
  <1> HIDE DEF d
  <1>3. /\ SameRoles(db, d) /\ TokensStay(db, d, {})
        /\ \A t \in Rows(db) : db.token[t].kind = "view" => ~d.token[t].live
    BY <1>1 DEF Revoking
  <1>4. Rows(d) = Rows(db)
    BY <1>1, RowsAreNumbered DEF Revoking, SameRows, IInv, RegistryTypeOK
  <1>5. \A o : HeldBy(d, o) = HeldBy(db, o)
    BY <1>1, <1>3, <1>4 DEF HeldBy, Keeps, SameRow, TokensStay
  <1>6. \A t : Stage(d, t) = IF Stage(db, t) \in {"link", "session", "shut"} THEN "revoked"
                             ELSE Stage(db, t)
    <2> SUFFICES ASSUME NEW t
                 PROVE  Stage(d, t) = IF Stage(db, t) \in {"link", "session", "shut"} THEN "revoked"
                                      ELSE Stage(db, t)
      OBVIOUS
    <2>1. CASE t \notin Rows(db)
      BY <1>4, <2>1 DEF Stage
    <2>2. CASE t \in Rows(db)
      <3>1. db.token[t].kind \in {"role", "view"} /\ d.token[t].kind = db.token[t].kind
            /\ d.token[t].by = db.token[t].by
        BY <1>1, <2>2, RowsAreNumbered DEF IInv, RegistryTypeOK, TokenRow, Keeps, SameRow
      <3>2. CASE db.token[t].kind = "role"
        <4>1. db.token[t].by = Admin
          BY <2>2, <3>2 DEF DoneSoFar, Linked
        <4>2. Dead(d, t) <=> Dead(db, t)
          BY <1>3, <2>2, <3>1, <3>2, <4>1 DEF Dead, TokensStay
        <4> QED
          BY <1>4, <2>2, <3>1, <3>2, <4>2 DEF Stage
      <3>3. CASE db.token[t].kind = "view"
        <4>1. Dead(d, t)
          BY <1>3, <2>2, <3>3 DEF Dead
        <4> QED
          BY <1>4, <2>2, <3>1, <3>3, <4>1 DEF Stage
      <3> QED
        BY <3>1, <3>2, <3>3
    <2> QED
      BY <2>1, <2>2
  <1>7. [t \in 1..MaxToken |-> Stage(d, t)]
          = [t \in 1..MaxToken |-> IF t \in Promised!Key THEN "revoked"
                                   ELSE [i \in 1..MaxToken |-> Stage(db, i)][t]]
    BY <1>6 DEF Promised!Key
  <1> QED
    BY <1>1, <1>2, <1>3, <1>5, <1>7 DEF Promised!RevokeKeys, SameRoles

LEMMA DeletesAtOnce ==
    ASSUME IInv, DoneSoFar, NEW c \in Caller, Commit(c), call[c].op = "delete"
    PROVE  Promised!Delete
  <1> DEFINE d == tx[c].db
  <1>1. db' = d /\ d \in Database /\ Deleting(3, d)
    BY CommitsWhatIsDone
  <1>2. asked' = asked
    BY DEF Commit
  <1> HIDE DEF d
  <1>3. /\ db.chan = "live" /\ d.chan = "deleted"
        /\ \A t \in Rows(db) : ~d.token[t].live
    BY <1>1 DEF Deleting
  <1>4. Rows(d) = Rows(db)
    BY <1>1, RowsAreNumbered DEF Deleting, SameRows, IInv, RegistryTypeOK
  <1>5. \A o : HeldBy(d, o) = {}
    BY <1>3, <1>4 DEF HeldBy
  <1>6. \A t : /\ t \notin Rows(db) => Stage(d, t) = "unissued" /\ Stage(db, t) = "unissued"
               /\ t \in Rows(db) => Stage(d, t) = "revoked" /\ Stage(db, t) # "unissued"
    BY <1>3, <1>4 DEF Stage, Dead
  <1>7. [t \in 1..MaxToken |-> Stage(d, t)]
          = [t \in 1..MaxToken |-> IF t \in Promised!Unissued THEN "unissued" ELSE "revoked"]
    BY <1>6 DEF Promised!Unissued
  <1> QED
    BY <1>1, <1>2, <1>3, <1>5, <1>7 DEF Promised!Delete

LEMMA OpensAtOnce ==
    ASSUME IInv, DoneSoFar, NEW c \in Caller, Commit(c), call[c].op = "redeem"
    PROVE  Promised!Age \/ \E key \in 1..MaxToken : Promised!Open(key)
  <1> DEFINE d == tx[c].db
             row == tx[c].row
  <1>1. /\ db' = d /\ d \in Database /\ Redeeming(call[c], 4, d, row) /\ Len(db.token) < MaxToken
    BY CommitsWhatIsDone
  <1>2. asked' = asked
    BY DEF Commit
  <1> HIDE DEF d, row
  <1>3. /\ SameRoles(db, d) /\ d.token = db.token /\ FewerLinks(db, d)
        /\ row # 0 => \E n \in db.nonce : n.key = row /\ ~n.used
        /\ \A s \in d.session : s \in db.session \/
              (row # 0 /\ s.key = row /\ db.chan = "live" /\ ~Dead(db, row))
    BY <1>1 DEF Redeeming
  <1>4. /\ Rows(db) \subseteq 1..MaxToken
        /\ \A t : t \notin Rows(db) => Stage(db, t) = "unissued"
    BY <1>1, RowsAreTokens
  <1>5. Linked(db) /\ OneUse(db)
    BY DEF DoneSoFar, IInv, DbGood, Core
  <1>6. Rows(d) = Rows(db) /\ Keeps(db, d)
    BY <1>3, LeavingTokensFadesNothing
  <1>7. /\ \A o : HeldBy(d, o) = HeldBy(db, o)
        /\ \A t : Dead(d, t) <=> Dead(db, t)
    BY <1>3, <1>6 DEF HeldBy, Dead
  <1>8. ASSUME NEW t, \A s \in d.session : s.key = t => s \in db.session
        PROVE  \/ Stage(d, t) = Stage(db, t)
               \/ Stage(db, t) \in {"link", "session"} /\ Stage(d, t) = "shut"
    <2>1. CASE t \notin Rows(db)
      BY <1>6, <2>1 DEF Stage
    <2>2. CASE t \in Rows(db)
      <3>1. /\ Dead(db, t) => Stage(db, t) = "revoked"
            /\ Dead(d, t) => Stage(d, t) = "revoked"
            /\ db.token[t].kind = "role" /\ ~Dead(db, t) => Stage(db, t) = "held"
            /\ db.token[t].kind = "role" /\ ~Dead(d, t) => Stage(d, t) = "held"
            /\ db.token[t].kind # "role" /\ ~Dead(db, t) /\ ~Dead(d, t) =>
                  \/ Stage(d, t) = Stage(db, t)
                  \/ Stage(db, t) \in {"link", "session"} /\ Stage(d, t) = "shut"
        BY <1>3, <1>5, <1>6, <1>8, <2>2, StageFades
      <3> QED
        BY <1>7, <3>1
    <2> QED
      BY <2>1, <2>2
  <1>9. CASE \A s \in d.session : s \in db.session
    <2>1. \A t : \/ Stage(d, t) = Stage(db, t)
                 \/ Stage(db, t) \in {"link", "session"} /\ Stage(d, t) = "shut"
      BY <1>8, <1>9
    <2>2. Promised!Age
      BY <1>1, <1>2, <1>3, <1>7, <2>1 DEF Promised!Age, Promised!Ages, SameRoles
    <2> QED
      BY <2>2
  <1>10. CASE ~ \A s \in d.session : s \in db.session
    <2>1. PICK s \in d.session : s \notin db.session
      BY <1>10
    <2>2. s.key = row /\ row # 0 /\ db.chan = "live" /\ ~Dead(db, row)
      BY <1>3, <2>1
    <2>3. PICK n \in db.nonce : n.key = row /\ ~n.used
      BY <1>3, <2>2
    <2>4. row \in Rows(db) /\ db.token[row].kind = "view"
      BY <1>5, <2>3 DEF Linked
    <2>5. \A o \in db.session : o.key # row
      BY <1>5, <2>3 DEF OneUse
    <2>6. Stage(db, row) = "link"
      BY <2>2, <2>3, <2>4, <2>5 DEF Stage
    <2>7. Stage(d, row) = "session"
      BY <1>3, <1>6, <1>7, <2>1, <2>2, <2>4 DEF Stage
    <2>8. \A t : t # row =>
            \/ Stage(d, t) = Stage(db, t)
            \/ Stage(db, t) \in {"link", "session"} /\ Stage(d, t) = "shut"
      BY <1>3, <1>8
    <2>9. row \in 1..MaxToken
      BY <1>4, <2>4
    <2>10. Promised!Open(row)
      BY <1>1, <1>2, <1>3, <1>7, <2>2, <2>6, <2>7, <2>8, <2>9
         DEF Promised!Open, Promised!Ages, SameRoles
    <2> QED
      BY <2>9, <2>10
  <1> QED
    BY <1>9, <1>10

LEMMA CommitsAtOnce ==
    ASSUME IInv, TakesLittle, DoneSoFar, NEW c \in Caller, Commit(c)
    PROVE  Promised!Next
  <1>1. call[c].op \in Ops /\ CallGood(call[c]) /\ Len(db.token) < MaxToken
    BY CommitsWhatIsDone
  <1>2. Len(db.token) + 1 \in 1..MaxToken
    BY <1>1, RowsAreTokens
  <1>3. CASE call[c].op = "create"
    BY <1>3, FoundsAtOnce DEF Promised!Next
  <1>4. CASE call[c].op = "add"
    <2>1. call[c].arg \in Role /\ Promised!Add(call[c].arg, Len(db.token) + 1)
      BY <1>1, <1>4, AddsAtOnce DEF CallGood
    <2> QED
      BY <1>2, <2>1 DEF Promised!Next
  <1>5. CASE call[c].op = "rotate"
    <2>1. call[c].arg \in Role
      BY <1>1, <1>5 DEF CallGood
    <2>2. PICK old \in 1..MaxToken : Promised!Rotate(call[c].arg, old, Len(db.token) + 1)
      BY <1>5, RotatesAtOnce
    <2> QED
      BY <1>2, <2>1, <2>2 DEF Promised!Next
  <1>6. CASE call[c].op = "link"
    <2>1. Promised!Offer(call[c].who, Len(db.token) + 1) /\ call[c].who \in 1..MaxToken \cup {Admin}
      BY <1>6, OffersAtOnce
    <2> QED
      BY <1>2, <2>1 DEF Promised!Next
  <1>7. CASE call[c].op = "revoke"
    BY <1>7, RevokesAtOnce DEF Promised!Next
  <1>8. CASE call[c].op = "delete"
    BY <1>8, DeletesAtOnce DEF Promised!Next
  <1>9. CASE call[c].op = "redeem"
    BY <1>9, OpensAtOnce DEF Promised!Next
  <1> QED
    BY <1>1, <1>3, <1>4, <1>5, <1>6, <1>7, <1>8, <1>9 DEF Ops

\* Between two commits nothing is seen to happen.
LEMMA RestIsUnseen ==
    ASSUME [Next]_vars, \A c \in Caller : ~Commit(c)
    PROVE  UNCHANGED Promised!vars
  <1>1. db' = db
    BY OnlyCommitsChange
  <1>2. asked' = asked
    BY DEF Next, vars, Tick, Ask, Begin, Refuse, Execute, Fail
  <1> QED
    BY <1>1, <1>2 DEF Promised!vars

LEMMA PromisedAtFirst ==
    ASSUME Init, IInv, DoneSoFar
    PROVE  Promised!Init
  <1>1. CASE db = Absent /\ asked = [i \in 1..MaxToken |-> Admin]
    <2>1. db.chan = "absent" /\ Rows(db) = {}
      BY <1>1 DEF Absent, Rows
    <2>2. \A r : HeldBy(db, r) = {}
      BY <2>1 DEF HeldBy
    <2>3. \A t : Stage(db, t) = "unissued"
      BY <2>1 DEF Stage
    <2> QED
      BY <1>1, <2>1, <2>2, <2>3 DEF Promised!Init
  <1>2. ASSUME db = InsertNonce(Legacy),
               NEW t \in 1..Cardinality(Founders),
               asked = [i \in 1..MaxToken |-> IF i = Cardinality(Founders) + 1 THEN t ELSE Admin]
        PROVE  Promised!Init
    <2>1. PICK n \in Nat :
              /\ n = Cardinality(Founders) /\ Rows(db) = 1..(n + 1)
              /\ db.chan = "live" /\ db.roles = Founders /\ db.session = {}
              /\ \A i \in 1..n : \E r \in Founders : db.token[i] = RoleToken(r)
              /\ db.token[n + 1] = ViewKey(Admin, NoRole, TRUE, KeyTTL)
              /\ \E l : db.nonce = {l} /\ l.key = n + 1 /\ ~l.used
      BY <1>2, LegacyLooks
    <2>2. n + 1 <= MaxToken /\ MaxToken \in Nat /\ t \in 1..n
      BY <1>2, <2>1, RegistryAssumption
    <2>3. \A i \in 1..n : /\ db.token[i].kind = "role" /\ db.token[i].role \in Role
                          /\ db.token[i].live /\ db.token[i].by = Admin
      <3> SUFFICES ASSUME NEW i \in 1..n
                   PROVE  /\ db.token[i].kind = "role" /\ db.token[i].role \in Role
                          /\ db.token[i].live /\ db.token[i].by = Admin
        OBVIOUS
      <3>1. PICK r \in Founders : db.token[i] = RoleToken(r)
        BY <2>1
      <3> QED
        BY <3>1, RegistryAssumption DEF RoleToken
    <2>4. db.token[n + 1].kind = "view" /\ db.token[n + 1].live /\ db.token[n + 1].by = Admin
      BY <2>1 DEF ViewKey
    <2>5. \A i \in Rows(db) : i \in 1..n \/ i = n + 1
      BY <2>1
    <2>6. /\ \A r, o \in Role : r # o => HeldBy(db, r) \cap HeldBy(db, o) = {}
          /\ \A i : Stage(db, i) = "held" <=> \E r \in Role : i \in HeldBy(db, r)
      <3>1. \A i \in Rows(db) : db.token[i].kind = "role" => db.token[i].role \in Role
        BY <2>3, <2>4, <2>5
      <3> QED
        BY <3>1, HeldIsHeld DEF IInv, RegistryTypeOK, DoneSoFar
    <2>7. \A r \in Role : IF r \in Founders THEN \E i \in 1..MaxToken : HeldBy(db, r) = {i}
                                            ELSE HeldBy(db, r) = {}
      <3>1. Rows(db) \subseteq 1..MaxToken
        BY <2>1, <2>2
      <3> QED
        BY <2>1, <3>1 DEF IInv, DbGood, Core, Holders
    <2>8. \A i \in 1..n : Stage(db, i) = "held"
      BY <2>1, <2>3 DEF Stage, Dead
    <2>9. Stage(db, n + 1) = "link"
      <3>1. n + 1 \in Rows(db)
        BY <2>1
      <3>2. ~Dead(db, n + 1)
        BY <2>4 DEF Dead
      <3>3. \E l \in db.nonce : l.key = n + 1 /\ ~l.used
        BY <2>1
      <3> QED
        BY <2>1, <2>4, <3>1, <3>2, <3>3 DEF Stage
    <2>10. \A i : i \notin Rows(db) => Stage(db, i) = "unissued"
      BY DEF Stage
    <2>11. asked[n + 1] = t /\ t \in 1..MaxToken /\ Stage(db, t) = "held"
      BY <1>2, <2>1, <2>2, <2>8
    <2>12. \A i \in 1..MaxToken :
              /\ Stage(db, i) \in {"unissued", "held", "link"}
              /\ Stage(db, i) \in {"link", "session", "shut"} => i = n + 1
      BY <2>5, <2>8, <2>9, <2>10
    <2> QED
      BY <2>1, <2>6, <2>7, <2>11, <2>12
         DEF Promised!Init, Promised!OneEach, Promised!Distributed, Promised!Key, Promised!Trusted
  <1> QED
    BY <1>1, <1>2 DEF Init

\* However calls are interleaved, refused and rolled back, and whatever the clock does
\* meanwhile, the registry implements module Access: each call that commits is as if it
\* was done at once, and nothing else is seen, for any roles, callers, caps and lifetimes
\* (write_tx).
THEOREM RegistryKeepsItsPromise == Spec => CallsActAtOnce
  <1>1. Init /\ IInv /\ DoneSoFar => Promised!Init
    BY PromisedAtFirst
  <1>2. IInv /\ TakesLittle /\ DoneSoFar /\ [Next]_vars => [Promised!Next]_(Promised!vars)
    <2> SUFFICES ASSUME IInv, TakesLittle, DoneSoFar, [Next]_vars
                 PROVE  [Promised!Next]_(Promised!vars)
      OBVIOUS
    <2>1. CASE \A c \in Caller : ~Commit(c)
      BY <2>1, RestIsUnseen
    <2>2. ASSUME NEW c \in Caller, Commit(c) PROVE Promised!Next
      BY <2>2, CommitsAtOnce
    <2> QED
      BY <2>1, <2>2
  <1> QED
    BY <1>1, <1>2, DoneInvariance, PTL DEF Spec, CallsActAtOnce, Promised!Spec

=============================================================================
