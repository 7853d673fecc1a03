------------------------------- MODULE Store -------------------------------
(***************************************************************************)
(* The PostgreSQL schema "tchatator" that every server process shares:     *)
(* the tables of src/src/server/sql/tables.sql as sets of rows, and the    *)
(* views, functions and triggers over them as operators and as the actions *)
(* one SQL command performs.  Each command of the server runs in its own   *)
(* autocommit transaction at READ COMMITTED, so a command sees what other  *)
(* sessions committed before it, and nothing holds between two commands.   *)
(***************************************************************************)
EXTENDS Integers, FiniteSets

CONSTANTS
  Member, Pro, Admin,  \* ids of the users that have a row in _member, _pro, _admin
  IntMax,              \* the largest serial (PostgreSQL int4, C int32_t)
  MaxTime,             \* bound on the clock
  FirstId,             \* the first msg_id the sequence will hand out
  Names,               \* names of users
  NameOf               \* the name each user has at first

User == Member \cup Pro \cup Admin
Root == 0              \* "consider 0 as the root user id", functions.sql:11
Null == -1             \* SQL null
Infinity == MaxTime + 1

ASSUME StoreAssumption ==
  /\ IntMax \in Nat \ {0}
  /\ MaxTime \in Nat
  /\ FirstId \in 1..IntMax
  /\ User \subseteq 1..IntMax
  /\ Member \cap Pro = {} /\ Member \cap Admin = {} /\ Pro \cap Admin = {}
  /\ NameOf \in [User -> Names]
  /\ \A m, n \in Member : NameOf[m] = NameOf[n] => m = n   \* user_name is unique

MsgId == 1..IntMax
Time == 0..MaxTime

\* role_t: the flags of types.h
role_admin == 1
role_member == 2
role_pro == 4
Role == {role_admin, role_member, role_pro}

VARIABLES
  users,     \* _user (with its row in _member, _pro or _admin): the ids that exist
  names,     \* _member.user_name and _pro.business_name, of the users that exist
  msgs,      \* _msg: the rows, deleted ones included
  nextId,    \* _msg's serial sequence
  blocks,    \* _single_block: the rows
  bans,      \* _member.full_block_expires_at, a row for each that is not null
  now        \* localtimestamp

storeVars == <<users, names, msgs, nextId, blocks, bans, now>>

Msg == [id : MsgId, sender : User \cup {Root}, recipient : User,
        sentAt : Time, deletedAge : Time \cup {Null}]
Block == [member : Member, pro : Pro, expiresAt : Time \cup {Infinity}]
Ban == [member : Member, expiresAt : Time \cup {Infinity}]

----------------------------------------------------------------------------
(* Views *)

\* The role column of view "user".
UserRole(u) == IF u \in Admin THEN 0 ELSE IF u \in Member THEN role_member ELSE role_pro

\* The view msg: the rows not marked deleted.
Visible == {m \in msgs : m.deletedAge = Null}

\* The order of view msg_ordered: latest first, then last inserted first.
Newer(m, n) == m.sentAt > n.sentAt \/ (m.sentAt = n.sentAt /\ m.id > n.id)

\* Mutant of PageRows: the where clause on the recipient is dropped.
PageRowsOfAll(u, l, o) ==
  LET Rank(m) == Cardinality({n \in Visible : Newer(n, m)})
  IN  {m \in Visible : o <= Rank(m) /\ Rank(m) < o + l}

\* msg_ordered where user_id_recipient = u limit l offset o.  A page is the
\* set of its rows: Newer orders them.
PageRows(u, l, o) ==
  LET inbox == {m \in Visible : m.recipient = u}
      Rank(m) == Cardinality({n \in inbox : Newer(n, m)})
  IN  {m \in inbox : o <= Rank(m) /\ Rank(m) < o + l}

----------------------------------------------------------------------------
(* send_msg and _insert_msg *)

\* The condition under which send_msg returns 0, as it is written.
Refuses(s, r) ==
  \/ \E b \in bans : b.member = s /\ b.expiresAt < now
  \/ \E b \in blocks : b.member = s /\ b.pro = r /\ b.expiresAt < now

\* Whether a block is in force, which is what a refusal is meant to depend on.
BlockInForce(s, r) ==
  \/ \E b \in bans : b.member = s /\ now < b.expiresAt
  \/ \E b \in blocks : b.member = s /\ b.pro = r /\ now < b.expiresAt

\* Mutants of InsertAllowed: without the foreign keys, and without sender_ne_recipient.
InsertAllowedWithoutKeys(s, r) == s # r
InsertAllowedToSelf(s, r) == (s = Root \/ s \in users) /\ r \in users

\* The constraints of _msg: the foreign keys (null for root) and sender_ne_recipient.
InsertAllowed(s, r) == (s = Root \/ s \in users) /\ r \in users /\ s # r

\* Mutant of SequenceExhausted: one id too many.
SequenceExhaustedLate == nextId > IntMax + 1

\* nextval fails when the serial has no value left.
SequenceExhausted == nextId > IntMax

\* Mutant of InsertMsg: rows are numbered by their count.
InsertMsgByCount(s, r, t) ==
  /\ ~SequenceExhausted
  /\ msgs' = IF InsertAllowed(s, r)
               THEN msgs \cup {[id |-> nextId, sender |-> s, recipient |-> r,
                                sentAt |-> t, deletedAge |-> Null]}
               ELSE msgs
  /\ nextId' = FirstId + Cardinality(msgs')
  /\ UNCHANGED <<users, names, blocks, bans, now>>

\* The insert draws the id first, so an insert that a constraint refuses uses
\* one up; sent_at is the start of the command's transaction.
InsertMsg(s, r, t) ==
  /\ ~SequenceExhausted
  /\ nextId' = nextId + 1
  /\ msgs' = IF InsertAllowed(s, r)
               THEN msgs \cup {[id |-> nextId, sender |-> s, recipient |-> r,
                                sentAt |-> t, deletedAge |-> Null]}
               ELSE msgs
  /\ UNCHANGED <<users, names, blocks, bans, now>>

----------------------------------------------------------------------------
(* ftg_msg_delete: the assertion and the update of the instead-of trigger *)

NotDeleted(id) == \E m \in Visible : m.id = id

\* Mutants of MarkDeleted: a second deletion reverts the first; the row goes away.
MarkDeletedToggles(id, t) ==
  /\ msgs' = {IF m.id # id THEN m
              ELSE [m EXCEPT !.deletedAge = IF @ = Null THEN t - m.sentAt ELSE Null] : m \in msgs}
  /\ UNCHANGED <<users, names, nextId, blocks, bans, now>>
MarkDeletedForGood(id, t) ==
  /\ msgs' = {m \in msgs : m.id # id}
  /\ UNCHANGED <<users, names, nextId, blocks, bans, now>>

\* The age is that at t, when the delete's transaction started.
MarkDeleted(id, t) ==
  /\ msgs' = {IF m.id = id THEN [m EXCEPT !.deletedAge = t - m.sentAt] ELSE m : m \in msgs}
  /\ UNCHANGED <<users, names, nextId, blocks, bans, now>>

----------------------------------------------------------------------------
(* What the rest of the platform does to these tables *)

\* _member.user_name is unique, _pro.business_name is not.
NameIsFree(u, n) == u \in Member => \A v \in (users \cap Member) \ {u} : names[v] # n

\* Registers a user, under an id the writer chooses: one of a user that was
\* deleted will do.
Register(u, n) ==
  /\ u \notin users /\ NameIsFree(u, n)
  /\ users' = users \cup {u}
  /\ names' = [names EXCEPT ![u] = n]
  /\ UNCHANGED <<msgs, nextId, blocks, bans, now>>

\* Renames a user.
Rename(u, n) ==
  /\ u \in users /\ NameIsFree(u, n) /\ names[u] # n
  /\ names' = [names EXCEPT ![u] = n]
  /\ UNCHANGED <<users, msgs, nextId, blocks, bans, now>>

\* Deletes a user: every reference to it cascades.
DeleteUser(u) ==
  /\ u \in users
  /\ users' = users \ {u}
  /\ msgs' = {m \in msgs : m.sender # u /\ m.recipient # u}
  /\ blocks' = {b \in blocks : b.member # u /\ b.pro # u}
  /\ bans' = {b \in bans : b.member # u}
  /\ UNCHANGED <<names, nextId, now>>

\* Sets or renews a pro's block of a member.
SetBlock(m, p, t) ==
  /\ m \in users /\ p \in users
  /\ blocks' = {b \in blocks : <<b.member, b.pro>> # <<m, p>>}
                 \cup {[member |-> m, pro |-> p, expiresAt |-> t]}
  /\ UNCHANGED <<users, names, msgs, nextId, bans, now>>

\* Lifts a pro's block of a member.
LiftBlock(m, p) ==
  /\ \E b \in blocks : b.member = m /\ b.pro = p
  /\ blocks' = {b \in blocks : <<b.member, b.pro>> # <<m, p>>}
  /\ UNCHANGED <<users, names, msgs, nextId, bans, now>>

\* Sets, renews or lifts (t = Null) a member's ban.
SetBan(m, t) ==
  /\ m \in users
  /\ bans' = {b \in bans : b.member # m}
               \cup (IF t = Null THEN {} ELSE {[member |-> m, expiresAt |-> t]})
  /\ bans' # bans
  /\ UNCHANGED <<users, names, msgs, nextId, blocks, now>>

Tick ==
  /\ now < MaxTime
  /\ now' = now + 1
  /\ UNCHANGED <<users, names, msgs, nextId, blocks, bans>>

----------------------------------------------------------------------------

StoreInit ==
  /\ users = User
  /\ names = NameOf
  /\ msgs = {}
  /\ nextId = FirstId
  /\ blocks = {}
  /\ bans = {}
  /\ now = 0

StoreTypeOK ==
  /\ users \subseteq User
  /\ names \in [User -> Names]
  /\ msgs \subseteq Msg
  /\ nextId \in 1..(IntMax + 1)
  /\ blocks \subseteq Block
  /\ bans \subseteq Ban
  /\ now \in Time
============================================================================
