----------------------------- MODULE AnswerProofs -----------------------------
(***************************************************************************)
(* What an answer of Evaluate says stays true: a removed message is not    *)
(* seen again, and a page holds messages of the inbox asked for.  Settled  *)
(* says of each process what its answer, or its next command, rests on;    *)
(* the store only ever makes it truer (Onward).  Nobody who bears a name   *)
(* all the time is passed over for another (Borne).  Page after page, a    *)
(* reader misses no more than what left its inbox meanwhile (Reads).       *)
(***************************************************************************)
EXTENDS SafetyProofs, Naming, Paging, FiniteSetTheorems

\* An id that was given out and of which no row is seen, or only rows for u.
Gone(i) == i < nextId /\ ~NotDeleted(i)
Addressed(i, u) == i < nextId /\ \A m \in msgs : m.id = i => m.recipient = u

Shown(u, page) == Cardinality(page) <= PageInbox /\ \A i \in page : Addressed(i, u)

\* What a finished action has answered.
Told(a, r) ==
  /\ r.type \in Actions => r.type = a.req.do
  /\ r.type = "rm" => Gone(a.req.arg)
  /\ r.type = "inbox" => Shown(a.req.key, r.page)

Holds(l, a, r) ==
  /\ l = "rm_update" => a.req.arg < nextId
  /\ l = "idle" => Told(a, r)

Settled == \A p \in Proc : Holds(pc[p], act[p], rep[p])

-----------------------------------------------------------------------------
(* The store *)

\* The age that a deletion stores is not null: its row was sent before it began.
LEMMA AgeKnown ==
  ASSUME TInv, NEW p \in Proc, pc[p] = "rm_update", NEW m \in msgs, m.id = act[p].req.arg
  PROVE  [m EXCEPT !.deletedAge = act[p].begun - m.sentAt].deletedAge # Null
<1>1. m \in Msg /\ act[p] \in Locals
  BY DEF TInv, Typed, StoreTypeOK, ProcTypeOK
<1>2. act[p].begun \in Nat /\ m.sentAt \in Nat
  BY <1>1, StoreAssumption DEF Locals, Msg, Time
<1>3. m.sentAt <= act[p].begun
  BY DEF TInv, Typed, Ages, Deleting
<1>4. [m EXCEPT !.deletedAge = act[p].begun - m.sentAt].deletedAge = act[p].begun - m.sentAt
  BY <1>1 DEF Msg
<1>. QED
  BY <1>2, <1>3, <1>4 DEF Null

\* A deletion keeps ids and recipients, and what it deletes is not seen.
LEMMA DeletionOf ==
  ASSUME TInv, NEW p \in Proc, Deletes(p), NEW n \in msgs'
  PROVE  \E m \in msgs : /\ m.id = n.id /\ m.recipient = n.recipient
                         /\ n.id # act[p].req.arg => n = m
                         /\ n.id = act[p].req.arg => n.deletedAge # Null
<1>. DEFINE i == act[p].req.arg
            t == act[p].begun
<1>1. PICK m \in msgs : n = IF m.id = i THEN [m EXCEPT !.deletedAge = t - m.sentAt] ELSE m
  BY DEF Deletes, MarkDeleted
<1>2. m \in Msg
  BY DEF TInv, Typed, StoreTypeOK
<1>3. m.id = i => [m EXCEPT !.deletedAge = t - m.sentAt].deletedAge # Null
  BY AgeKnown DEF Deletes
<1>. HIDE DEF i, t
<1>4. n.id = m.id /\ n.recipient = m.recipient
  BY <1>1, <1>2 DEF Msg
<1>5. /\ n.id # i => n = m
      /\ n.id = i => n.deletedAge # Null
  BY <1>1, <1>3, <1>4
<1>. QED
  BY <1>4, <1>5 DEF i

\* Ids are not given out again, and rows neither reappear nor change their
\* recipient.
Onward ==
  /\ nextId <= nextId'
  /\ \A n \in msgs' : n.id < nextId =>
       \E m \in msgs : m.id = n.id /\ m.recipient = n.recipient
                         /\ (n.deletedAge = Null => m.deletedAge = Null)

LEMMA OnwardStep ==
  ASSUME TInv, Control, [Next]_vars
  PROVE  Onward
<1>1. nextId \in Nat /\ \A m \in msgs : m \in Msg
  BY StoreAssumption DEF TInv, Typed, StoreTypeOK
<1>2. ASSUME nextId' = nextId, msgs' \subseteq msgs
      PROVE  Onward
  BY <1>1, <1>2 DEF Onward
<1>3. CASE Quiet
  BY <1>2, <1>3 DEF Quiet, storeVars
<1>4. CASE Platform
  BY <1>2, <1>4 DEF Platform, DeleteUser, Register, Rename, LiftBlock, SetBlock, SetBan, Tick
<1>5. ASSUME NEW p \in Proc, Inserts(p)
      PROVE  Onward
  <2>1. nextId' = nextId + 1
    BY <1>5 DEF Inserts, InsertMsg
  <2>2. \A n \in msgs' : n \in msgs \/ n.id = nextId
    BY <1>5 DEF Inserts, InsertMsg
  <2>. QED
    BY <1>1, <2>1, <2>2 DEF Onward
<1>6. ASSUME NEW p \in Proc, Deletes(p)
      PROVE  Onward
  <2>1. nextId' = nextId
    BY <1>6 DEF Deletes, MarkDeleted
  <2>2. ASSUME NEW n \in msgs'
        PROVE  \E m \in msgs : m.id = n.id /\ m.recipient = n.recipient
                                 /\ (n.deletedAge = Null => m.deletedAge = Null)
    BY <1>6, DeletionOf
  <2>. QED
    BY <1>1, <2>1, <2>2 DEF Onward
<1>. QED
  BY <1>3, <1>4, <1>5, <1>6, Effect

\* What held of a process before a step of the store holds after it.
LEMMA Truer ==
  ASSUME TInv, TInv', Onward, NEW l, NEW a \in Locals, NEW r \in Response, Holds(l, a, r)
  PROVE  Holds(l, a, r)'
<1>1. /\ nextId \in Nat /\ nextId' \in Nat /\ nextId <= nextId'
      /\ IntMax \in Nat
  BY StoreAssumption DEF TInv, Typed, StoreTypeOK, Onward
<1>2. ASSUME NEW i \in Nat, Gone(i)
      PROVE  Gone(i)'
  BY <1>1, <1>2 DEF Onward, Gone, NotDeleted, Visible
<1>3. ASSUME NEW i \in Nat, NEW u, Addressed(i, u)
      PROVE  Addressed(i, u)'
  BY <1>1, <1>3 DEF Onward, Addressed
<1>4. a.req.arg \in Nat /\ r.page \subseteq Nat
  <2>1. a.req \in Request
    BY EvaluateAssumption DEF Locals
  <2>. QED
    BY <1>1, <2>1 DEF Request, Response, MsgId
<1>7. ASSUME Told(a, r)
      PROVE  Told(a, r)'
  <2>1. r.type = "rm" => Gone(a.req.arg)'
    BY <1>2, <1>4, <1>7 DEF Told
  <2>2. r.type = "inbox" => Shown(a.req.key, r.page)'
    BY <1>3, <1>4, <1>7 DEF Told, Shown
  <2>. QED
    BY <1>7, <2>1, <2>2 DEF Told
<1>8. a.req.arg < nextId => a.req.arg < nextId'
  BY <1>1, <1>4
<1>. QED
  BY <1>7, <1>8 DEF Holds

-----------------------------------------------------------------------------
(* A page *)

\* A page has no more rows than its limit: no two rows of an inbox have the
\* same number of newer ones before them (views.sql:18-26).
LEMMA PageBound ==
  ASSUME TInv, Rows, NEW u, NEW l \in Nat, NEW o \in Nat
  PROVE  Cardinality({m.id : m \in PageRows(u, l, o)}) <= l
<1>. DEFINE inbox == {m \in Visible : m.recipient = u}
            Before(m) == {n \in inbox : Newer(n, m)}
            rows == {m \in inbox : o <= Cardinality(Before(m)) /\ Cardinality(Before(m)) < o + l}
            page == {m.id : m \in rows}
            Row(i) == CHOOSE m \in rows : m.id = i
            place == [i \in page |-> Cardinality(Before(Row(i)))]
<1>1. PageRows(u, l, o) = rows
  BY DEF PageRows
<1>2. \A m \in inbox : m \in msgs /\ m.id \in 1..IntMax /\ m.sentAt \in Nat
  BY StoreAssumption DEF TInv, Typed, StoreTypeOK, Visible, Msg, MsgId, Time
<1>3. \A m, n \in inbox : m.id = n.id => m = n
  BY <1>2 DEF Rows, UniqueIds
<1>4. IsFiniteSet(inbox)
  <2>1. IsFiniteSet(1..IntMax)
    BY StoreAssumption, FS_Interval
  <2>2. [m \in inbox |-> m.id] \in Injection(inbox, 1..IntMax)
    BY <1>2, <1>3 DEF Injection, IsInjective
  <2>. QED
    BY <2>1, <2>2, FS_Injection
<1>5. \A m \in inbox : IsFiniteSet(Before(m)) /\ Cardinality(Before(m)) \in Nat
  BY <1>4, FS_Subset, FS_CardinalityType
<1>6. ASSUME NEW m \in inbox, NEW n \in inbox, Newer(m, n)
      PROVE  Cardinality(Before(m)) # Cardinality(Before(n))
  <2>1. Before(m) \subseteq Before(n)
    BY <1>2, <1>6 DEF Newer
  <2>2. m \in Before(n) /\ m \notin Before(m)
    BY <1>2, <1>6 DEF Newer
  <2>. QED
    BY <1>5, <2>1, <2>2, FS_Subset
<1>7. \A m, n \in inbox : m # n => Newer(m, n) \/ Newer(n, m)
  BY <1>2, <1>3 DEF Newer
<1>8. \A m, n \in rows : Cardinality(Before(m)) = Cardinality(Before(n)) => m = n
  BY <1>6, <1>7
<1>9. \A i \in page : Row(i) \in rows /\ Row(i).id = i
  OBVIOUS
<1>10. place \in Injection(page, o..(o + l - 1))
  <2>1. \A i \in page : place[i] \in o..(o + l - 1)
    <3> SUFFICES ASSUME NEW i \in page PROVE place[i] \in o..(o + l - 1)
      OBVIOUS
    <3>. DEFINE k == Cardinality(Before(Row(i)))
    <3>1. k \in Nat /\ o <= k /\ k < o + l
      BY <1>5, <1>9
    <3>. HIDE DEF k
    <3>2. k \in o..(o + l - 1)
      BY <3>1
    <3>. QED
      BY <3>2 DEF k
  <2>2. \A i, j \in page : place[i] = place[j] => i = j
    <3> SUFFICES ASSUME NEW i \in page, NEW j \in page, place[i] = place[j] PROVE i = j
      OBVIOUS
    <3>1. Cardinality(Before(Row(i))) = Cardinality(Before(Row(j)))
      OBVIOUS
    <3>. HIDE DEF rows, Row, page, Before
    <3>2. Row(i) = Row(j)
      BY <1>8, <1>9, <3>1
    <3>. QED
      BY <1>9, <3>2
  <2>3. place \in [page -> o..(o + l - 1)]
    BY <2>1
  <2>. HIDE DEF place, page
  <2>. QED
    BY <2>2, <2>3 DEF Injection, IsInjective
<1>11. IsFiniteSet(o..(o + l - 1)) /\ Cardinality(o..(o + l - 1)) = l
  BY FS_Interval
<1>. HIDE DEF place, page
<1>12. Cardinality(page) <= l
  BY <1>10, <1>11, FS_Injection
<1>. QED
  BY <1>1, <1>12 DEF page

\* The offset of a page is an integer.
LEMMA OffsetType ==
  ASSUME NEW a \in Locals
  PROVE  PageInbox \in Nat /\ Wrap(PageInbox * (a.req.arg - 1)) \in Int
<1>1. a.req.arg \in Int /\ PageInbox \in Nat /\ IntMax \in Nat \ {0}
  <2>1. a.req \in Request
    BY EvaluateAssumption DEF Locals
  <2>. QED
    BY <2>1, EvaluateAssumption, StoreAssumption DEF Request
<1>2. \A n \in Int : Wrap(n) \in Int
  BY <1>1 DEF Wrap
<1>3. PageInbox * (a.req.arg - 1) \in Int
  BY <1>1
<1>. QED
  BY <1>1, <1>2, <1>3

-----------------------------------------------------------------------------
(* The step of a process *)

\* What holds of the new state of a process over the old store holds over the new.
LEMMA Moved ==
  ASSUME TInv, TInv', Onward, NEW p \in Proc, Holds(pc'[p], act'[p], rep'[p])
  PROVE  Holds(pc[p], act[p], rep[p])'
<1>1. PICK l, a, r : l = pc'[p] /\ a = act'[p] /\ r = rep'[p]
  OBVIOUS
<1>2. a \in Locals /\ r \in Response
  BY <1>1 DEF TInv, Typed, ProcTypeOK
<1>3. Holds(l, a, r)
  BY <1>1
<1>4. Holds(l, a, r)'
  BY <1>2, <1>3, Truer
<1>. QED
  BY <1>1, <1>4 DEF Holds

\* The step of one process keeps Settled when it keeps it for that process.
LEMMA SettledOf ==
  ASSUME TInv, TInv', Onward, Settled, NEW p \in Proc, Holds(pc[p], act[p], rep[p])',
         \A q \in Proc \ {p} : pc'[q] = pc[q] /\ act'[q] = act[q] /\ rep'[q] = rep[q]
  PROVE  Settled'
<1> SUFFICES ASSUME NEW q \in Proc PROVE Holds(pc[q], act[q], rep[q])'
  BY DEF Settled
<1>1. CASE q = p
  BY <1>1
<1>2. CASE q # p
  <2>1. pc'[q] = pc[q] /\ act'[q] = act[q] /\ rep'[q] = rep[q]
    BY <1>2
  <2>2. Holds(pc'[q], act'[q], rep'[q])
    BY <2>1 DEF Settled
  <2>. QED
    BY <2>2, Moved
<1>. QED
  BY <1>1, <1>2

\* An error says nothing, and neither does an exit.
LEMMA FailHolds ==
  ASSUME TInv, NEW p \in Proc, NEW status, Fail(p, status)
  PROVE  Holds(pc'[p], act'[p], rep'[p])
<1>1. pc'[p] = "idle" /\ rep'[p].type = "error"
  BY FailAt
<1>. QED
  BY <1>1 DEF Holds, Told, Actions, Stubs

LEMMA ExitHolds ==
  ASSUME TInv, NEW p \in Proc, Exit(p)
  PROVE  Holds(pc'[p], act'[p], rep'[p])
<1>1. pc'[p] = "exited"
  BY DEF Exit, Goto, TInv, Typed, ProcTypeOK
<1>. QED
  BY <1>1 DEF Holds

\* The answer of an action other than rm and inbox.
LEMMA SucceedHolds ==
  ASSUME TInv, NEW p \in Proc, NEW word, NEW page, Succeed(p, word, page),
         act'[p].req = act[p].req,
         rep[p].type \in Actions => rep[p].type = act[p].req.do,
         rep[p].type \notin {"rm", "inbox"}
  PROVE  Holds(pc'[p], act'[p], rep'[p])
<1>1. pc'[p] = "idle" /\ rep'[p].type = rep[p].type
  BY SucceedAt
<1>. QED
  BY <1>1 DEF Holds, Told

\* What a success says is what the command found.
LEMMA SucceedPage ==
  ASSUME TInv, NEW p \in Proc, NEW word, NEW page, Succeed(p, word, page)
  PROVE  rep'[p].page = page
<1>1. rep[p] \in Response
  BY DEF TInv, Typed, ProcTypeOK
<1>2. rep' = [rep EXCEPT ![p] = [rep[p] EXCEPT !.word = word, !.page = page]]
  BY <1>1 DEF Succeed, TInv, Typed, ProcTypeOK
<1>3. rep'[p] = [rep[p] EXCEPT !.word = word, !.page = page]
  BY <1>2 DEF TInv, Typed, ProcTypeOK
<1>. QED
  BY <1>1, <1>3 DEF Response

-----------------------------------------------------------------------------
(* action_parse *)

\* A request that arrives is not answered yet, or with an error.
LEMMA ParseHolds ==
  ASSUME TInv, NEW p \in Proc, NEW r \in Requests, Parse(p, r)
  PROVE  Holds(pc'[p], act'[p], rep'[p])
<1>3. CASE rep' = [rep EXCEPT ![p] = [type |-> "error", word |-> type_invalid, info |-> 0, page |-> {}]]
           /\ UNCHANGED pc
  <2>1. pc'[p] = "idle" /\ rep'[p].type = "error"
    BY <1>3 DEF Parse, At, TInv, Typed, ProcTypeOK
  <2>. QED
    BY <2>1 DEF Holds, Told, Actions, Stubs
<1>4. CASE Fail(p, internal_error)
  BY <1>4, FailHolds
<1>5. CASE Goto(p, FirstCommand(r))
  <2>1. pc'[p] \in {"verify", "by_email", "by_member"}
    BY <1>5, GotoAt DEF FirstCommand
  <2>. QED
    BY <2>1 DEF Holds
<1>. QED
  BY <1>3, <1>4, <1>5 DEF Parse

\* The searches by name go on, or end with an error.
LEMMA ByNameHolds ==
  ASSUME TInv, NEW p \in Proc, ByMember(p) \/ ByPro(p) \/ ByEmail(p)
  PROVE  Holds(pc'[p], act'[p], rep'[p])
<1>1. ASSUME NEW label \in {"verify", "by_pro"}, Goto(p, label)
      PROVE  Holds(pc'[p], act'[p], rep'[p])
  BY <1>1, GotoAt DEF Holds
<1>2. CASE ByEmail(p)
  BY <1>2, FailHolds DEF ByEmail
<1>3. ASSUME Goto(p, "idle"),
             rep' = [rep EXCEPT ![p] = [type |-> "error", word |-> type_invalid, info |-> 0, page |-> {}]]
      PROVE  Holds(pc'[p], act'[p], rep'[p])
  <2>1. pc'[p] = "idle" /\ rep'[p].type = "error"
    BY <1>3, GotoAt DEF TInv, Typed, ProcTypeOK
  <2>. QED
    BY <2>1 DEF Holds, Told, Actions, Stubs
<1>. QED
  BY <1>1, <1>2, <1>3 DEF ByMember, ByPro, Resolved

-----------------------------------------------------------------------------
(* action_evaluate *)

\* An identified caller's stub is answered; another action goes on.
LEMMA IdentifiedHolds ==
  ASSUME TInv, Control, Settled, NEW p \in Proc, NEW id, NEW role, pc[p] = "verify",
         Identified(p, id, role)
  PROVE  Holds(pc'[p], act'[p], rep'[p])
<1>. DEFINE a == act[p]
            do == a.req.do
            b == [a EXCEPT !.id = id, !.role = role]
<1>1. act' = [act EXCEPT ![p] = b]
  BY DEF Identified
<1>2. act'[p] = b /\ a \in Locals
  BY <1>1 DEF TInv, Typed, ProcTypeOK
<1>3. act'[p].req = a.req
  BY <1>2 DEF Locals
<1>4. rep[p].type = do
  BY DEF Control, Ctl, Underway, Sending
<1>6. CASE Fail(p, forbidden)
  BY <1>6, FailHolds
<1>7. CASE do \in Stubs /\ Succeed(p, 0, {})
  BY <1>3, <1>4, <1>7, SucceedHolds DEF Stubs
<1>8. CASE Goto(p, NextCommand(do))
  <2>1. pc'[p] \in {"get_user", "dest_role", "inbox", "rm_scan"}
    BY <1>8, GotoAt DEF NextCommand
  <2>. QED
    BY <2>1 DEF Holds
<1>. QED
  BY <1>6, <1>7, <1>8 DEF Identified

LEMMA VerifyHolds ==
  ASSUME TInv, Control, Settled, NEW p \in Proc,
         VerifyRoot(p) \/ VerifyRootNoPassword(p) \/ Verify(p)
  PROVE  Holds(pc'[p], act'[p], rep'[p])
<1>1. CASE VerifyRoot(p)
  BY <1>1, IdentifiedHolds DEF VerifyRoot, At
<1>2. CASE VerifyRootNoPassword(p)
  BY <1>2, ExitHolds DEF VerifyRootNoPassword
<1>3. CASE Verify(p)
  BY <1>3, FailHolds, ExitHolds, IdentifiedHolds DEF Verify, Query
<1>. QED
  BY <1>1, <1>2, <1>3

\* The rows of a page are in the inbox of the caller.
LEMMA ReadHolds ==
  ASSUME TInv, Control, Rows, Settled, NEW p \in Proc, GetUser(p) \/ GetInbox(p)
  PROVE  Holds(pc'[p], act'[p], rep'[p])
<1>. DEFINE a == act[p]
<1>1. act'[p] = a /\ a \in Locals /\ rep[p].type = a.req.do
  BY DEF GetUser, GetInbox, Query, Control, Ctl, Underway, Sending, TInv, Typed, ProcTypeOK
<1>2. CASE GetUser(p)
  <2>1. a.req.do = "whois"
    BY <1>2 DEF GetUser, Query, Control, Ctl, Underway
  <2>. QED
    BY <1>1, <1>2, <2>1, FailHolds, SucceedHolds DEF GetUser
<1>3. CASE GetInbox(p)
  <2>. DEFINE offset == Wrap(PageInbox * (a.req.arg - 1))
              page == {m.id : m \in PageRows(a.id, PageInbox, offset)}
  <2>1. a.req.do = "inbox" /\ a.id = a.req.key
    BY <1>3 DEF GetInbox, Query, Control, Ctl, Underway, Known
  <2>2. ASSUME offset >= 0, Succeed(p, 0, page)
        PROVE  Holds(pc'[p], act'[p], rep'[p])
    <3>1. offset \in Nat /\ PageInbox \in Nat
      BY <1>1, <2>2, OffsetType
    <3>2. \A m, n \in msgs : m.id = n.id => m = n
      BY DEF Rows, UniqueIds
    <3>3. \A m \in msgs : m.id < nextId
      BY DEF Rows, UniqueIds
    <3>4. \A i \in page : Addressed(i, a.req.key)
      <4>1. ASSUME NEW m \in PageRows(a.id, PageInbox, offset)
            PROVE  m \in msgs /\ m.recipient = a.req.key
        BY <2>1 DEF PageRows, Visible
      <4>. QED
        BY <3>2, <3>3, <4>1 DEF Addressed
    <3>5. Cardinality(page) <= PageInbox
      BY <3>1, PageBound
    <3>6. pc'[p] = "idle" /\ rep'[p].type = "inbox" /\ rep'[p].page = page
      BY <1>1, <2>1, <2>2, SucceedAt, SucceedPage
    <3>. HIDE DEF page
    <3>7. Shown(act'[p].req.key, rep'[p].page)
      BY <1>1, <3>4, <3>5, <3>6 DEF Shown
    <3>. QED
      BY <1>1, <2>1, <3>6, <3>7 DEF Holds, Told
  <2>. QED
    BY <1>3, <2>2, FailHolds DEF GetInbox
<1>. QED
  BY <1>2, <1>3

\* send says nothing that Holds is about.
LEMMA SendHolds ==
  ASSUME TInv, Control, NEW p \in Proc,
         GetDestRole(p) \/ CheckContacted(p) \/ SendMsg(p) \/ InsertOfSend(p)
  PROVE  Holds(pc'[p], act'[p], rep'[p])
<1>1. /\ act[p] \in Locals /\ act[p].req.do = "send"
      /\ rep[p].type \in {"send", "error"}
  BY DEF GetDestRole, CheckContacted, SendMsg, InsertOfSend, At, Query, Control, Ctl, Underway,
         Sending, TInv, Typed, ProcTypeOK
<1>2. ASSUME NEW label \in Sending, Goto(p, label)
      PROVE  Holds(pc'[p], act'[p], rep'[p])
  BY <1>2, GotoAt DEF Holds, Sending
<1>3. CASE GetDestRole(p)
  BY <1>2, <1>3, FailHolds DEF GetDestRole, Sending
<1>4. CASE CheckContacted(p)
  BY <1>2, <1>4 DEF CheckContacted, Sending
<1>5. CASE SendMsg(p)
  BY <1>2, <1>5, FailHolds DEF SendMsg, Sending
<1>6. CASE InsertOfSend(p)
  <2>1. ASSUME Succeed(p, nextId, {}), act' = [act EXCEPT ![p].stored = nextId]
        PROVE  Holds(pc'[p], act'[p], rep'[p])
    <3>1. act' = [act EXCEPT ![p] = [act[p] EXCEPT !.stored = nextId]]
      BY <2>1
    <3>2. act'[p] = [act[p] EXCEPT !.stored = nextId]
      BY <3>1 DEF TInv, Typed, ProcTypeOK
    <3>3. act'[p].req = act[p].req
      BY <1>1, <3>2 DEF Locals
    <3>. QED
      BY <1>1, <2>1, <3>3, SucceedHolds DEF Actions, Stubs
  <2>. QED
    BY <1>6, <2>1, FailHolds, ExitHolds DEF InsertOfSend
<1>. QED
  BY <1>3, <1>4, <1>5, <1>6

\* A message that the assertion has seen has an id that was given out.
LEMMA RmHolds ==
  ASSUME TInv, Rows, NEW p \in Proc, ScanOfRm(p) \/ AssertOfRm(p) \/ CommandFails(p)
  PROVE  Holds(pc'[p], act'[p], rep'[p])
<1>. DEFINE i == act[p].req.arg
<1>1. CASE ScanOfRm(p)
  <2>1. ASSUME Goto(p, "rm_assert")
        PROVE  Holds(pc'[p], act'[p], rep'[p])
    BY <2>1, GotoAt DEF Holds
  <2>. QED
    BY <1>1, <2>1, FailHolds DEF ScanOfRm
<1>2. CASE AssertOfRm(p)
  <2>1. ASSUME NotDeleted(i), Goto(p, "rm_update"), UNCHANGED act
        PROVE  Holds(pc'[p], act'[p], rep'[p])
    <3>1. i < nextId
      BY <2>1 DEF NotDeleted, Visible, Rows, UniqueIds
    <3>2. pc'[p] = "rm_update" /\ act'[p].req.arg = i
      BY <2>1, GotoAt
    <3>. QED
      BY <3>1, <3>2 DEF Holds
  <2>. QED
    BY <1>2, <2>1, FailHolds DEF AssertOfRm
<1>3. CASE CommandFails(p)
  BY <1>3, FailHolds DEF CommandFails
<1>. QED
  BY <1>1, <1>2, <1>3

\* After the update nobody sees the message (msg.sql:40-52).
LEMMA UpdateHolds ==
  ASSUME TInv, Control, Settled, NEW p \in Proc, UpdateOfRm(p)
  PROVE  Holds(pc[p], act[p], rep[p])'
<1>. DEFINE i == act[p].req.arg
<1>1. /\ pc[p] = "rm_update" /\ Deletes(p) /\ act' = act
      /\ Fail(p, internal_error) \/ Succeed(p, 0, {})
  BY DEF UpdateOfRm, Query, Deletes
<1>2. CASE Fail(p, internal_error)
  <2>1. pc'[p] = "idle" /\ rep'[p].type = "error"
    BY <1>2, FailAt
  <2>. QED
    BY <2>1 DEF Holds, Told, Actions, Stubs
<1>3. CASE Succeed(p, 0, {})
  <2>1. pc'[p] = "idle" /\ rep'[p].type = rep[p].type
    BY <1>3, SucceedAt
  <2>2. rep[p].type = "rm" /\ act[p].req.do = "rm"
    BY <1>1 DEF Control, Ctl, Underway, Removing, Sending
  <2>3. i < nextId'
    BY <1>1 DEF Settled, Holds, Deletes, MarkDeleted
  <2>4. ~NotDeleted(i)'
    <3> SUFFICES ASSUME NEW n \in msgs', n.id = i PROVE n.deletedAge # Null
      BY <1>1 DEF NotDeleted, Visible
    <3>. QED
      BY <1>1, DeletionOf
  <2>5. Gone(act[p].req.arg)'
    BY <1>1, <2>3, <2>4 DEF Gone, NotDeleted, Visible
  <2>. QED
    BY <1>1, <2>1, <2>2, <2>5 DEF Holds, Told
<1>. QED
  BY <1>1, <1>2, <1>3

-----------------------------------------------------------------------------
(* Settled is inductive *)

\* The step of a process leaves the others where they are.
LEMMA Others ==
  ASSUME TInv, NEW p \in Proc, (\E r \in Requests : Parse(p, r)) \/ Step(p) \/ LoseConnection(p)
  PROVE  \A q \in Proc \ {p} : pc'[q] = pc[q] /\ act'[q] = act[q] /\ rep'[q] = rep[q]
<1> SUFFICES ASSUME NEW q \in Proc \ {p}
             PROVE  pc'[q] = pc[q] /\ act'[q] = act[q] /\ rep'[q] = rep[q]
  OBVIOUS
<1>1. ASSUME NEW label, Goto(p, label)
      PROVE  pc'[q] = pc[q]
  BY <1>1, GotoAt
<1>2. ASSUME NEW status, Fail(p, status)
      PROVE  pc'[q] = pc[q] /\ rep'[q] = rep[q]
  BY <1>2, FailAt
<1>3. ASSUME NEW word, NEW page, Succeed(p, word, page)
      PROVE  pc'[q] = pc[q] /\ rep'[q] = rep[q]
  BY <1>3, SucceedAt
<1>4. ASSUME Exit(p)
      PROVE  pc'[q] = pc[q] /\ rep'[q] = rep[q]
  BY <1>1, <1>4 DEF Exit
<1>5. ASSUME FailInvariant(p)
      PROVE  rep'[q] = rep[q]
  BY <1>5, InvariantAt
<1>6. ASSUME NEW b, act' = [act EXCEPT ![p] = b]
      PROVE  act'[q] = act[q]
  BY <1>6 DEF TInv, Typed, ProcTypeOK
<1>7. ASSUME NEW r, rep' = [rep EXCEPT ![p] = r]
      PROVE  rep'[q] = rep[q]
  BY <1>7 DEF TInv, Typed, ProcTypeOK
<1>8. ASSUME NEW r \in Requests, Parse(p, r)
      PROVE  pc'[q] = pc[q] /\ act'[q] = act[q] /\ rep'[q] = rep[q]
  BY <1>1, <1>2, <1>6, <1>7, <1>8 DEF Parse
<1>9. CASE ByMember(p) \/ ByPro(p) \/ ByEmail(p)
  BY <1>1, <1>2, <1>6, <1>7, <1>9 DEF ByMember, ByPro, ByEmail, Resolved
<1>10. CASE VerifyRoot(p) \/ VerifyRootNoPassword(p) \/ Verify(p)
  <2>1. ASSUME NEW id, NEW role, Identified(p, id, role)
        PROVE  pc'[q] = pc[q] /\ act'[q] = act[q] /\ rep'[q] = rep[q]
    BY <1>1, <1>2, <1>3, <1>6, <2>1 DEF Identified
  <2>. QED
    BY <1>2, <1>4, <1>10, <2>1 DEF VerifyRoot, VerifyRootNoPassword, Verify
<1>11. CASE GetUser(p) \/ GetInbox(p)
  BY <1>2, <1>3, <1>11 DEF GetUser, GetInbox
<1>12. CASE GetDestRole(p)
  BY <1>1, <1>2, <1>5, <1>6, <1>12 DEF GetDestRole
<1>13. CASE CheckContacted(p) \/ SendMsg(p)
  BY <1>1, <1>2, <1>5, <1>6, <1>13 DEF CheckContacted, SendMsg
<1>14. CASE InsertOfSend(p)
  BY <1>2, <1>3, <1>4, <1>6, <1>14 DEF InsertOfSend
<1>15. CASE ScanOfRm(p) \/ AssertOfRm(p) \/ UpdateOfRm(p) \/ CommandFails(p)
  BY <1>1, <1>2, <1>3, <1>6, <1>15 DEF ScanOfRm, AssertOfRm, UpdateOfRm, CommandFails
<1>16. CASE LoseConnection(p)
  BY <1>16 DEF LoseConnection
<1>. QED
  BY <1>8, <1>9, <1>10, <1>11, <1>12, <1>13, <1>14, <1>15, <1>16 DEF Step

LEMMA SettledNext == TInv /\ TInv' /\ Control /\ Rows /\ Settled /\ [Next]_vars => Settled'
<1> SUFFICES ASSUME TInv, TInv', Control, Rows, Settled, [Next]_vars PROVE Settled'
  OBVIOUS
<1>1. Onward
  BY OnwardStep
<1>2. ASSUME NEW p \in Proc, (\E r \in Requests : Parse(p, r)) \/ Step(p)
      PROVE  Settled'
  <2>1. UpdateOfRm(p) \/ Holds(pc'[p], act'[p], rep'[p])
    BY <1>2, ParseHolds, ByNameHolds, VerifyHolds, ReadHolds, SendHolds, RmHolds DEF Step
  <2>2. Holds(pc[p], act[p], rep[p])'
    BY <1>1, <2>1, UpdateHolds, Moved
  <2>. QED
    BY <1>1, <1>2, <2>2, Others, SettledOf
<1>3. ASSUME UNCHANGED <<pc, act, rep>>
      PROVE  Settled'
  <2> SUFFICES ASSUME NEW p \in Proc PROVE Holds(pc[p], act[p], rep[p])'
    BY DEF Settled
  <2>1. Holds(pc'[p], act'[p], rep'[p])
    BY <1>3 DEF Settled
  <2>. QED
    BY <1>1, <2>1, Moved
<1>. QED
  BY <1>2, <1>3 DEF Next, LoseConnection, Platform, procVars, vars

LEMMA SettledInit == Init => Settled
<1> SUFFICES ASSUME Init, NEW p \in Proc PROVE Holds(pc[p], act[p], rep[p])
  BY DEF Settled
<1>1. pc[p] = "idle" /\ rep[p].type = "none"
  BY DEF Init
<1>. QED
  BY <1>1 DEF Holds, Told, Actions, Stubs

LEMMA SettledInv == Spec => []Settled
BY TypingInv, ControlInv, RowsInv, SettledInit, SettledNext, PTL DEF Spec

-----------------------------------------------------------------------------

\* What rm and inbox answer, Settled and Control say of a finished action.
LEMMA AnswerOfDone ==
  ASSUME TInv, Control, Settled, NEW p \in Proc, NEW do \in Actions, Succeeded(p, do)
  PROVE  /\ rep[p].type = do /\ act[p].req.do = do
         /\ Told(act[p], rep[p]) /\ Proven(act[p].req)
<1>1. /\ pc[p] = "idle" /\ rep[p].type # "none" /\ act[p].req.do = do
      /\ StatusOf(rep[p]) = Success /\ rep[p] \in Response
  BY DEF Succeeded, Answered, TInv, Typed, ProcTypeOK
<1>2. Ctl("idle", act[p], rep[p]) /\ Told(act[p], rep[p])
  BY <1>1 DEF Control, Settled, Holds
<1>3. rep[p].type # "error"
  BY <1>1, <1>2, StatusMeans DEF Ctl
<1>4. rep[p].type \in Actions
  BY <1>1, <1>3 DEF Response
<1>. QED
  BY <1>1, <1>2, <1>4 DEF Ctl, Told, Finished, Authorised, Proved, Proven

\* A successful rm means that nobody sees the message any more, whatever is sent
\* and removed afterwards (invariant RmAnswersTruth).
THEOREM Removal == Spec => []RmAnswersTruth
<1>1. TInv /\ Control /\ Settled => RmAnswersTruth
  BY AnswerOfDone DEF RmAnswersTruth, Told, Gone, Actions
<1>. QED
  BY <1>1, TypingInv, ControlInv, SettledInv, PTL

\* A page is a part of the caller's own inbox, and no longer than a page
\* (invariant InboxIsOwn).
THEOREM Reading == Spec => []InboxIsOwn
<1>1. TInv /\ Control /\ Settled => InboxIsOwn
  BY AnswerOfDone DEF InboxIsOwn, Told, Shown, Addressed, Actions
<1>. QED
  BY <1>1, TypingInv, ControlInv, SettledInv, PTL

-----------------------------------------------------------------------------
(* Names *)

\* user_name is unique among the members that exist.
MemberNames == \A m, n \in users \cap Member : names[m] = names[n] => m = n

\* Whoever has borne the name all the time bears it now, and the search has
\* not left a member behind.
Borne ==
  /\ MemberNames
  /\ \A p \in Proc : lasting[p] \subseteq Bearers(act[p].req)
  /\ NoNamesakePassedOver

\* A search is over only with the command that found its user, and the
\* request and the user it is about stay until the next request.
LEMMA FoundStep ==
  ASSUME TInv, [Next]_vars, NEW p \in Proc
  PROVE  \/ /\ pc[p] = "idle" /\ pc'[p] # "by_pro"
            /\ \/ pc'[p] \in {"idle", "by_member", "by_email"}
               \/ act'[p].req.user.by = "id" \/ ~NamesUser(act'[p].req.do)
         \/ ByMember(p) \/ ByPro(p)
         \/ /\ pc[p] # "idle" /\ (pc'[p] = "by_pro" => pc[p] = "by_pro") /\ (Found(p)' => Found(p))
            /\ act'[p].req = act[p].req /\ act'[p].user = act[p].user
<1>. /\ act[p] \in Locals /\ act \in [Proc -> Locals] /\ pc \in [Proc -> Labels]
  BY DEF TInv, Typed, ProcTypeOK
<1>. DEFINE Same == act'[p].req = act[p].req /\ act'[p].user = act[p].user
<1>1. CASE pc'[p] = pc[p] /\ act'[p] = act[p]
  BY <1>1 DEF Found
<1>2. ASSUME NEW r \in Requests, Parse(p, r)
      PROVE  /\ pc[p] = "idle" /\ pc'[p] # "by_pro"
             /\ \/ pc'[p] \in {"idle", "by_member", "by_email"}
                \/ act'[p].req.user.by = "id" \/ ~NamesUser(act'[p].req.do)
  <2>1. pc[p] = "idle" /\ act'[p].req = r
    BY <1>2 DEF Parse, At, Start
  <2>2. pc'[p] \in {"idle", FirstCommand(r)}
    BY <1>2, <2>1 DEF Parse, Fail, Goto
  <2>. QED
    BY <2>1, <2>2 DEF FirstCommand
<1>3. ASSUME Step(p), ~ByMember(p), ~ByPro(p)
      PROVE  /\ pc[p] # "idle" /\ pc'[p] # "by_pro" /\ (Found(p)' => Found(p)) /\ Same
  <2>1. CASE VerifyRoot(p) \/ VerifyRootNoPassword(p) \/ Verify(p)
    <3>1. pc[p] = "verify" /\ pc'[p] \in {"idle", "exited", NextCommand(act[p].req.do)}
      BY <2>1 DEF VerifyRoot, VerifyRootNoPassword, Verify, Identified, Fail, Succeed, Goto, Exit, At, Query
    <3>2. ASSUME NEW id, NEW role, Identified(p, id, role)
          PROVE  Same
      <4>1. act'[p] = [act[p] EXCEPT !.id = id, !.role = role]
        BY <3>2 DEF Identified
      <4>. QED
        BY <4>1 DEF Locals
    <3>3. Same
      BY <2>1, <3>2 DEF VerifyRoot, VerifyRootNoPassword, Verify
    <3>. QED
      BY <3>1, <3>3 DEF Found, NextCommand
  <2>2. CASE ByEmail(p) \/ CommandFails(p)
    BY <2>2 DEF ByEmail, CommandFails, At, Fail, Goto, Found
  <2>3. CASE GetUser(p) \/ GetInbox(p) \/ CheckContacted(p) \/ AssertOfRm(p) \/ UpdateOfRm(p)
    BY <2>3 DEF GetUser, GetInbox, CheckContacted, AssertOfRm, UpdateOfRm, At, Query, Fail, Succeed, Goto, Found
  <2>4. CASE GetDestRole(p)
    <3>1. act'[p] = act[p] \/ act'[p] = [act[p] EXCEPT !.dest_role = UserRole(act[p].user)]
      BY <2>4 DEF GetDestRole
    <3>2. Same
      BY <3>1 DEF Locals
    <3>. QED
      BY <2>4, <3>2 DEF GetDestRole, Query, Fail, Goto, Found
  <2>5. CASE SendMsg(p) \/ ScanOfRm(p)
    <3>1. act'[p] = act[p] \/ act'[p] = [act[p] EXCEPT !.begun = now]
      BY <2>5 DEF SendMsg, ScanOfRm
    <3>2. Same
      BY <3>1 DEF Locals
    <3>. QED
      BY <2>5, <3>2 DEF SendMsg, ScanOfRm, Query, Fail, Goto, Found
  <2>6. CASE InsertOfSend(p)
    <3>1. act'[p] = act[p] \/ act'[p] = [act[p] EXCEPT !.stored = nextId]
      BY <2>6 DEF InsertOfSend
    <3>2. Same
      BY <3>1 DEF Locals
    <3>3. pc[p] = "insert_msg" /\ pc'[p] \in {"idle", "exited"}
      BY <2>6 DEF InsertOfSend, Query, Fail, Succeed, Exit, Goto
    <3>. QED
      BY <3>2, <3>3 DEF Found
  <2>. QED
    BY <1>3, <2>1, <2>2, <2>3, <2>4, <2>5, <2>6 DEF Step
<1>4. ASSUME NEW q \in Proc, q # p, (\E r \in Requests : Parse(q, r)) \/ Step(q) \/ LoseConnection(q)
      PROVE  pc'[p] = pc[p] /\ act'[p] = act[p]
  BY <1>4, Others
<1>5. CASE LoseConnection(p)
  BY <1>1, <1>5 DEF LoseConnection
<1>6. CASE Platform \/ UNCHANGED vars
  BY <1>1, <1>6 DEF Platform, procVars, vars
<1>. QED
  BY <1>1, <1>2, <1>3, <1>4, <1>5, <1>6 DEF Next

\* The platform gives no member the name of another (tables.sql:11-20).
LEMMA MemberNamesStep ==
  ASSUME TInv, MemberNames, [Next]_vars
  PROVE  MemberNames'
<1>1. ASSUME UNCHANGED names, users' \subseteq users
      PROVE  MemberNames'
  BY <1>1 DEF MemberNames
<1>2. ASSUME NEW u, NEW n, Register(u, n) \/ Rename(u, n)
      PROVE  MemberNames'
  <2>1. /\ users' = users \cup {u} /\ NameIsFree(u, n)
        /\ names' = [names EXCEPT ![u] = n] /\ names \in [User -> Names] /\ users \subseteq User
    BY <1>2 DEF Register, Rename, TInv, Typed, StoreTypeOK
  <2>. QED
    BY <2>1 DEF MemberNames, NameIsFree, User
<1>3. CASE Platform
  BY <1>1, <1>2, <1>3 DEF Platform, DeleteUser, LiftBlock, SetBlock, SetBan, Tick
<1>4. CASE UNCHANGED vars
  BY <1>1, <1>4 DEF vars, storeVars
<1>5. ASSUME NEW p \in Proc, (\E r \in Requests : Parse(p, r)) \/ Step(p) \/ LoseConnection(p)
      PROVE  UNCHANGED <<users, names>>
  BY <1>5 DEF Parse, Step, LoseConnection, ByMember, ByPro, ByEmail, VerifyRoot, VerifyRootNoPassword,
              Verify, GetUser, GetInbox, GetDestRole, CheckContacted, SendMsg, InsertOfSend, InsertMsg,
              ScanOfRm, AssertOfRm, UpdateOfRm, MarkDeleted, CommandFails, storeVars
<1>. QED
  BY <1>1, <1>3, <1>4, <1>5 DEF Next

LEMMA BorneNext == TInv /\ Borne /\ [NamingNext]_<<vars, lasting>> => Borne'
<1> SUFFICES ASSUME TInv, Borne, [NamingNext]_<<vars, lasting>> PROVE Borne'
  OBVIOUS
<1>1. CASE UNCHANGED <<vars, lasting>>
  <2>1. UNCHANGED <<users, names, pc, act, lasting>>
    BY <1>1 DEF vars, storeVars, procVars
  <2>. QED
    BY <2>1 DEF Borne, MemberNames, Bearers, NoNamesakePassedOver, Found
<1>2. CASE NamingNext
  <2>1. [Next]_vars /\ Follow
    BY <1>2 DEF NamingNext
  <2>2. MemberNames'
    BY <2>1, MemberNamesStep DEF Borne
  <2>3. ASSUME NEW p \in Proc
        PROVE  /\ lasting'[p] \subseteq Bearers(act[p].req)'
               /\ pc[p] # "idle" => lasting'[p] \subseteq lasting[p]
    BY <2>1 DEF Follow
  <2>4. ASSUME NEW p \in Proc, act'[p].req.user.by = "name"
        PROVE  /\ pc'[p] = "by_pro" => lasting'[p] \cap Member = {}
               /\ (Found(p)' /\ NamesUser(act'[p].req.do)) =>
                    \A u \in lasting'[p] \ {act'[p].user} : act'[p].user \in Member /\ u \in Pro
    <3>. DEFINE name == act[p].req.user.val
                Clear == /\ pc'[p] = "by_pro" => lasting'[p] \cap Member = {}
                         /\ (Found(p)' /\ NamesUser(act'[p].req.do)) =>
                              \A u \in lasting'[p] \ {act'[p].user} :
                                act'[p].user \in Member /\ u \in Pro
    <3>1. CASE /\ pc[p] = "idle" /\ pc'[p] # "by_pro"
               /\ \/ pc'[p] \in {"idle", "by_member", "by_email"}
                  \/ act'[p].req.user.by = "id" \/ ~NamesUser(act'[p].req.do)
      BY <2>4, <3>1 DEF Found
    <3>2. CASE /\ pc[p] # "idle" /\ (pc'[p] = "by_pro" => pc[p] = "by_pro") /\ (Found(p)' => Found(p))
               /\ act'[p].req = act[p].req /\ act'[p].user = act[p].user
      BY <2>3, <2>4, <3>2 DEF Borne, NoNamesakePassedOver
    <3>3. ASSUME pc[p] \in {"by_member", "by_pro"}, UNCHANGED <<users, names>>, act'[p].req = act[p].req
          PROVE  \A u \in lasting'[p] :
                   u \in lasting[p] /\ u \in users \cap (Member \cup Pro) /\ names[u] = name
      BY <2>3, <3>3 DEF Bearers
    <3>4. act[p] \in Locals /\ act \in [Proc -> Locals] /\ pc \in [Proc -> Labels]
      BY DEF TInv, Typed, ProcTypeOK
    <3>5. ASSUME NEW u, Resolved(p, u)
          PROVE  act'[p].req = act[p].req /\ act'[p].user = u /\ pc'[p] = "verify"
      <4>1. act'[p] = [act[p] EXCEPT !.user = u] /\ pc'[p] = "verify"
        BY <3>4, <3>5 DEF Resolved, Goto
      <4>. QED
        BY <3>4, <4>1 DEF Locals
    <3>6. CASE ByMember(p)
      <4>. DEFINE found == {u \in users \cap Member : names[u] = name}
      <4>1. pc[p] = "by_member" /\ UNCHANGED <<users, names>>
        BY <3>6 DEF ByMember, Query, storeVars
      <4>2. ASSUME NEW u \in found, Resolved(p, u)
            PROVE  Clear
        <5>1. \A v \in lasting'[p] : v \in users \cap (Member \cup Pro) /\ names[v] = name
          BY <3>3, <3>5, <4>1, <4>2
        <5>2. \A v \in lasting'[p] \ {u} : v \in Pro
          BY <4>2, <5>1 DEF Borne, MemberNames
        <5>. QED
          BY <3>5, <4>2, <5>2
      <4>3. ASSUME found = {}, Goto(p, "by_pro"), UNCHANGED act
            PROVE  Clear
        <5>1. \A v \in lasting'[p] : v \in users \cap (Member \cup Pro) /\ names[v] = name
          BY <3>3, <4>1, <4>3
        <5>2. pc'[p] = "by_pro"
          BY <3>4, <4>3 DEF Goto
        <5>. QED
          BY <4>3, <5>1, <5>2 DEF Found
      <4>. QED
        BY <3>6, <4>2, <4>3 DEF ByMember
    <3>7. CASE ByPro(p)
      <4>. DEFINE found == {u \in users \cap Pro : names[u] = name}
      <4>1. pc[p] = "by_pro" /\ UNCHANGED <<users, names>>
        BY <3>7 DEF ByPro, Query, storeVars
      <4>2. ASSUME NEW u, found = {u}, Resolved(p, u)
            PROVE  Clear
        <5>1. act[p].req.user.by = "name"
          BY <2>4, <3>5, <4>2
        <5>2. lasting[p] \cap Member = {}
          BY <4>1, <5>1 DEF Borne, NoNamesakePassedOver
        <5>3. \A v \in lasting'[p] : v \in found
          BY <3>3, <3>5, <4>1, <4>2, <5>2
        <5>. QED
          BY <3>5, <4>2, <5>3
      <4>3. ASSUME Goto(p, "idle")
            PROVE  Clear
        <5>1. pc'[p] = "idle"
          BY <3>4, <4>3 DEF Goto
        <5>. QED
          BY <5>1 DEF Found
      <4>. QED
        BY <3>7, <4>2, <4>3 DEF ByPro
    <3>. QED
      BY <2>1, <3>1, <3>2, <3>6, <3>7, FoundStep
  <2>. QED
    BY <2>2, <2>3, <2>4 DEF Borne, NoNamesakePassedOver
<1>. QED
  BY <1>1, <1>2

\* What holds of the processes holds of those that a name's bearers are followed with.
LEMMA NamingIsSpec == NamingSpec => Spec
<1>1. NamingInit => Init
  BY DEF NamingInit
<1>2. [NamingNext]_<<vars, lasting>> => [Next]_vars
  BY DEF NamingNext
<1>. QED
  BY <1>1, <1>2, PTL DEF NamingSpec, Spec

LEMMA BorneInit == NamingInit => Borne
<1> SUFFICES ASSUME NamingInit PROVE Borne
  OBVIOUS
<1>1. MemberNames
  BY StoreAssumption DEF NamingInit, Init, StoreInit, MemberNames
<1>2. \A p \in Proc : lasting[p] = Bearers(act[p].req) /\ pc[p] = "idle"
  BY DEF NamingInit, Init
<1>. QED
  BY <1>1, <1>2 DEF Borne, NoNamesakePassedOver, Found

\* Whoever bears the name that a request asks for, from its arrival to its
\* search and on, is not passed over for another, whatever the platform
\* registers, renames or deletes (invariant NoNamesakePassedOver).
THEOREM NameKept == NamingSpec => []NoNamesakePassedOver
<1>1. Borne => NoNamesakePassedOver
  BY DEF Borne
<1>. QED
  BY <1>1, NamingIsSpec, TypingInv, BorneInit, BorneNext, PTL DEF NamingSpec

-----------------------------------------------------------------------------
(* Reading page by page *)

\* What of a box a page lists before m.
Ahead(box, m) == {n \in box : Newer(n, m)}

\* MissedOnlyForGone is not inductive by itself: what is due must have been
\* given out, for a new row is not to count as missed.
Reads ==
  /\ pages \in Nat /\ gone \in Nat
  /\ due \subseteq 1..(nextId - 1)
  /\ pages = 0 => due = {}
  /\ MissedOnlyForGone

\* Rows with different ids are as many as their ids, and no more than these can be.
LEMMA CountOfRows ==
  ASSUME NEW S \in SUBSET Msg, \A m, n \in S : m.id = n.id => m = n
  PROVE  /\ IsFiniteSet(S) /\ Cardinality(S) \in Nat /\ Cardinality(S) <= IntMax
         /\ Cardinality({m.id : m \in S}) = Cardinality(S)
<1>. DEFINE ids == {m.id : m \in S}
            id == [m \in S |-> m.id]
<1>1. \A m \in S : m.id \in 1..IntMax
  BY DEF Msg, MsgId
<1>2. IsFiniteSet(1..IntMax) /\ Cardinality(1..IntMax) = IntMax
  BY StoreAssumption, FS_Interval
<1>3. id \in Injection(S, 1..IntMax)
  BY <1>1 DEF Injection, IsInjective
<1>4. IsFiniteSet(S) /\ Cardinality(S) <= IntMax /\ Cardinality(S) \in Nat
  BY <1>2, <1>3, FS_Injection, FS_CardinalityType
<1>5. id \in Bijection(S, ids)
  BY DEF Bijection, Injection, Surjection, IsInjective
<1>6. Cardinality(ids) = Cardinality(S)
  BY <1>4, <1>5, FS_Bijection DEF ExistsBijection
<1>. QED
  BY <1>4, <1>6

\* A row of the inbox after a step was there before it, unless it is new.
LEMMA InboxStays ==
  ASSUME TInv, Control, [Next]_vars, NEW m \in Inbox', m.id < nextId
  PROVE  m \in Inbox
<1>1. \A n \in msgs : n \in Msg
  BY DEF TInv, Typed, StoreTypeOK
<1>2. m \in msgs' /\ m.deletedAge = Null /\ m.recipient = Reader
  BY DEF Inbox, Visible
<1>3. m \in msgs => m \in Inbox
  BY <1>2 DEF Inbox, Visible
<1>4. nextId \in Nat
  BY StoreAssumption DEF TInv, Typed, StoreTypeOK
<1>5. CASE Quiet
  BY <1>2, <1>3, <1>5 DEF Quiet, storeVars
<1>6. CASE Platform
  <2>1. msgs' \subseteq msgs
    BY <1>6 DEF Platform, DeleteUser, Register, Rename, LiftBlock, SetBlock, SetBan, Tick
  <2>. QED
    BY <1>2, <1>3, <2>1
<1>7. ASSUME NEW p \in Proc, Inserts(p)
      PROVE  m \in Inbox
  <2>1. m \in msgs \/ m.id = nextId
    BY <1>2, <1>7 DEF Inserts, InsertMsg
  <2>. QED
    BY <1>3, <1>4, <2>1
<1>8. ASSUME NEW p \in Proc, Deletes(p)
      PROVE  m \in Inbox
  <2>1. PICK n \in msgs : /\ m.id # act[p].req.arg => m = n
                          /\ m.id = act[p].req.arg => m.deletedAge # Null
    BY <1>2, <1>8, DeletionOf
  <2>. QED
    BY <1>2, <1>3, <2>1
<1>. QED
  BY <1>5, <1>6, <1>7, <1>8, Effect

\* Any step but the reader's own: what it adds comes before or behind, and
\* each row it takes away moves one row at most to a page already read.
LEMMA NoTurnReads ==
  ASSUME TInv, TInv', Control, Rows, Rows', Reads, [Next]_vars,
         UNCHANGED <<pages, due, shown>>,
         gone' = gone + (IF pages = 0 THEN 0
                         ELSE Cardinality({m.id : m \in Inbox} \ {m.id : m \in Inbox'}))
  PROVE  Reads'
<1>. DEFINE left == Inbox \ Inbox'
            read == pages * PageInbox
            band == PageRows(Reader, Cardinality(left), read)
<1>1. /\ pages \in Nat /\ gone \in Nat /\ read \in Nat /\ PageInbox \in Nat
      /\ nextId \in Nat /\ nextId' \in Nat /\ nextId <= nextId'
  <2>1. PageInbox \in Nat /\ IntMax \in Nat
    BY StoreAssumption, EvaluateAssumption
  <2>2. nextId \in Nat /\ nextId' \in Nat /\ nextId <= nextId'
    BY <2>1, OnwardStep DEF Onward, TInv, Typed, StoreTypeOK
  <2>. QED
    BY <2>1, <2>2 DEF Reads
<1>2. /\ Inbox \subseteq msgs /\ left \subseteq Inbox
      /\ \A S \in SUBSET Inbox : S \in SUBSET Msg /\ \A m, n \in S : m.id = n.id => m = n
      /\ Inbox' \in SUBSET Msg /\ \A m, n \in Inbox' : m.id = n.id => m = n
  BY DEF Inbox, Visible, TInv, Typed, StoreTypeOK, Rows, UniqueIds
<1>3. /\ IsFiniteSet(left) /\ Cardinality(left) \in Nat
      /\ Cardinality({m.id : m \in left}) = Cardinality(left)
      /\ IsFiniteSet(Inbox) /\ IsFiniteSet(Inbox')
  BY <1>2, CountOfRows
<1>4. due' \subseteq 1..(nextId' - 1) /\ (pages' = 0 => due' = {})
  <2>1. \A k, l \in Nat : k <= l => 1..(k - 1) \subseteq 1..(l - 1)
    OBVIOUS
  <2>2. 1..(nextId - 1) \subseteq 1..(nextId' - 1)
    BY <1>1, <2>1
  <2>. QED
    BY <2>2 DEF Reads
<1>5. \A m \in Inbox' : m.id \in due => m \in Inbox
  <2>1. \A i \in due : i < nextId
    BY <1>1 DEF Reads
  <2>. QED
    BY <2>1, InboxStays
<1>6. CASE pages = 0
  <2>1. Missed' = {}
    BY <1>6 DEF Missed, Reads
  <2>2. Cardinality(Missed') <= gone' /\ gone' \in Nat
    BY <1>1, <1>6, <2>1, FS_EmptySet
  <2>. QED
    BY <1>1, <1>4, <2>2 DEF Reads, MissedOnlyForGone
<1>7. CASE pages # 0
  <2>1. {m.id : m \in Inbox} \ {m.id : m \in Inbox'} = {m.id : m \in left}
    <3>1. ASSUME NEW m \in Inbox, NEW n \in Inbox', m.id = n.id
          PROVE  m \in Inbox'
      <4>1. m \in msgs /\ m.id < nextId
        BY <1>2, <3>1 DEF Rows, UniqueIds
      <4>2. n \in msgs
        BY <1>2, <3>1, <4>1, InboxStays
      <4>. QED
        BY <3>1, <4>1, <4>2 DEF Rows, UniqueIds
    <3>. QED
      BY <3>1
  <2>2. gone' = gone + Cardinality(left)
    BY <1>3, <1>7, <2>1
  <2>3. ASSUME NEW m \in Inbox, m \in Inbox'
        PROVE  \E k, l \in Nat : /\ k = Rank(m) /\ l = Cardinality(Ahead(Inbox', m))
                                 /\ k <= l + Cardinality(left)
    <3>. DEFINE A == Ahead(Inbox, m)
                B == Ahead(Inbox', m)
    <3>1. IsFiniteSet(A) /\ IsFiniteSet(B) /\ Cardinality(A) \in Nat /\ Cardinality(B) \in Nat
      <4>1. A \in SUBSET Inbox /\ B \in SUBSET Inbox' /\ IsFiniteSet(Inbox')
        BY <1>3 DEF Ahead
      <4>. QED
        BY <1>3, <4>1, FS_Subset, FS_CardinalityType
    <3>2. A \subseteq B \cup left
      BY DEF Ahead
    <3>. HIDE DEF A, B, left
    <3>3. /\ IsFiniteSet(B \cup left)
          /\ Cardinality(B \cup left) = Cardinality(B) + Cardinality(left) - Cardinality(B \cap left)
      BY <1>3, <3>1, FS_Union
    <3>4. Cardinality(B \cap left) \in Nat
      BY <3>1, FS_Intersection, FS_CardinalityType
    <3>5. Cardinality(A) <= Cardinality(B \cup left)
      BY <3>2, <3>3, FS_Subset
    <3>6. Cardinality(A) <= Cardinality(B) + Cardinality(left)
      BY <1>3, <3>1, <3>3, <3>4, <3>5
    <3>7. Rank(m) = Cardinality(A)
      BY DEF Rank, A, Ahead
    <3>. QED
      BY <3>1, <3>6, <3>7 DEF B
  <2>4. Missed' \subseteq Missed \cup band
    <3> SUFFICES ASSUME NEW m \in Missed', m \notin Missed PROVE m \in band
      OBVIOUS
    <3>1. m \in Inbox' /\ m.id \in due \ shown /\ Cardinality(Ahead(Inbox', m)) < read
      BY DEF Missed, Rank, Ahead
    <3>2. m \in Inbox
      BY <1>5, <3>1
    <3>3. ~(Rank(m) < read)
      BY <3>1, <3>2 DEF Missed
    <3>. HIDE DEF read
    <3>4. PICK k \in Nat, l \in Nat :
            k = Rank(m) /\ l = Cardinality(Ahead(Inbox', m)) /\ k <= l + Cardinality(left)
      BY <2>3, <3>1, <3>2
    <3>5. k < read + Cardinality(left) /\ read <= k
      BY <1>1, <1>3, <3>1, <3>3, <3>4
    <3>. QED
      BY <3>2, <3>4, <3>5 DEF PageRows, Inbox, Rank
  <2>5. /\ IsFiniteSet(Missed) /\ Cardinality(Missed) \in Nat
        /\ IsFiniteSet(band) /\ Cardinality(band) \in Nat /\ Cardinality(band) <= Cardinality(left)
    <3>1. Missed \subseteq Inbox /\ band \subseteq Inbox
      BY DEF Missed, PageRows, Inbox
    <3>2. Cardinality({m.id : m \in band}) <= Cardinality(left)
      BY <1>1, <1>3, PageBound
    <3>. QED
      BY <1>2, <3>1, <3>2, CountOfRows
  <2>. HIDE DEF band, left
  <2>6. /\ IsFiniteSet(Missed \cup band)
        /\ Cardinality(Missed \cup band) <= Cardinality(Missed) + Cardinality(band)
    <3>1. Cardinality(Missed \cap band) \in Nat
      BY <2>5, FS_Intersection, FS_CardinalityType
    <3>2. /\ IsFiniteSet(Missed \cup band)
          /\ Cardinality(Missed \cup band)
               = Cardinality(Missed) + Cardinality(band) - Cardinality(Missed \cap band)
      BY <2>5, FS_Union
    <3>. QED
      BY <2>5, <3>1, <3>2
  <2>7. Cardinality(Missed') <= Cardinality(Missed \cup band) /\ Cardinality(Missed') \in Nat
        /\ Cardinality(Missed \cup band) \in Nat
    BY <2>4, <2>6, FS_Subset, FS_CardinalityType
  <2>8. Cardinality(Missed') <= gone' /\ gone' \in Nat
    BY <1>1, <1>3, <2>2, <2>5, <2>6, <2>7 DEF Reads, MissedOnlyForGone
  <2>. QED
    BY <1>1, <1>4, <2>8 DEF Reads, MissedOnlyForGone
<1>. QED
  BY <1>6, <1>7

\* A page that is answered is the one asked for, on the rows of that moment
\* (db_get_inbox).
LEMMA TurnOfInbox ==
  ASSUME TInv, TInv', Control, Control', [Next]_vars, NEW p \in Proc, TakesTurn(p)
  PROVE  LET offset == Wrap(PageInbox * (act[p].req.arg - 1))
         IN  /\ UNCHANGED msgs /\ UNCHANGED nextId /\ offset \in Nat
             /\ rep'[p].page = {m.id : m \in PageRows(Reader, PageInbox, offset)}
<1>. DEFINE offset == Wrap(PageInbox * (act[p].req.arg - 1))
<1>1. pc[p] = "inbox" /\ pc'[p] = "idle" /\ act[p].id = Reader /\ StatusOf(rep'[p]) = Success
  BY DEF TakesTurn
<1>2. rep'[p].type # "error"
  <2>1. rep'[p] \in Response /\ (rep'[p].type = "error" => (rep'[p].info # 0 \/ rep'[p].word # type_other))
    BY <1>1 DEF TInv, Typed, ProcTypeOK, Control, Ctl
  <2>. QED
    BY <1>1, <2>1, StatusMeans
<1>3. \A status : ~Fail(p, status)
  BY <1>2, FailAt
<1>4. GetInbox(p)
  <2>1. PICK q \in Proc : (\E r \in Requests : Parse(q, r)) \/ Step(q) \/ LoseConnection(q)
    BY <1>1 DEF Next, Platform, procVars, vars
  <2>2. q = p
    BY <1>1, <2>1, Others
  <2>. QED
    BY <1>1, <1>3, <2>1, <2>2
       DEF Step, Parse, LoseConnection, At, Query, ByMember, ByPro, ByEmail, VerifyRoot,
           VerifyRootNoPassword, Verify, GetUser, GetDestRole, CheckContacted, SendMsg,
           InsertOfSend, ScanOfRm, AssertOfRm, UpdateOfRm, CommandFails
<1>5. offset \in Int
  BY OffsetType DEF TInv, Typed, ProcTypeOK
<1>6. offset >= 0 /\ Succeed(p, 0, {m.id : m \in PageRows(Reader, PageInbox, offset)})
  BY <1>1, <1>3, <1>4 DEF GetInbox
<1>7. rep'[p].page = {m.id : m \in PageRows(Reader, PageInbox, offset)}
  BY <1>6, SucceedPage
<1>. QED
  BY <1>4, <1>5, <1>6, <1>7 DEF GetInbox, storeVars

\* The product of page_inbox and a page number is kept as long as it is an int.
LEMMA WrapKeeps == ASSUME NEW n \in 0..IntMax PROVE Wrap(n) = n
<1>1. IntMax \in Nat /\ n \in 0..IntMax
  BY StoreAssumption
<1>2. n + IntMax + 1 \in 0..(2 * (IntMax + 1) - 1)
  BY <1>1
<1>3. \A k, d \in Nat : k < d => k % d = k
  OBVIOUS
<1>4. (n + IntMax + 1) % (2 * (IntMax + 1)) = n + IntMax + 1
  BY <1>1, <1>2, <1>3
<1>. QED
  BY <1>1, <1>4 DEF Wrap

\* A page that is read closes the gap up to the next one: offsets that
\* overflow are those of pages behind the last row.
LEMMA TurnReads ==
  ASSUME TInv, TInv', Control, Control', Rows, Reads, [Next]_vars, NEW p \in Proc, Turn(p)
  PROVE  Reads'
<1>. DEFINE arg == act[p].req.arg
            offset == Wrap(PageInbox * (arg - 1))
            page == {m.id : m \in PageRows(Reader, PageInbox, offset)}
<1>1. /\ UNCHANGED msgs /\ UNCHANGED nextId /\ offset \in Nat /\ rep'[p].page = page
      /\ arg \in {1, pages + 1} /\ pages' = arg
  BY TurnOfInbox DEF Turn, TakesTurn
<1>2. PageInbox \in Nat \ {0} /\ IntMax \in Nat \ {0} /\ pages \in Nat /\ gone \in Nat
  BY StoreAssumption, EvaluateAssumption DEF Reads
<1>3. /\ Inbox' = Inbox
      /\ Missed' = {m \in Inbox : m.id \in due' \ shown' /\ Rank(m) < arg * PageInbox}
  BY <1>1 DEF Inbox, Visible, Rank, Missed
<1>4. ASSUME NEW S \in SUBSET Inbox
      PROVE  IsFiniteSet(S) /\ Cardinality(S) \in Nat /\ Cardinality(S) <= IntMax
  <2>1. S \in SUBSET Msg /\ \A m, n \in S : m.id = n.id => m = n
    BY DEF Inbox, Visible, TInv, Typed, StoreTypeOK, Rows, UniqueIds
  <2>. QED
    BY <2>1, CountOfRows
<1>5. ASSUME NEW m \in Inbox
      PROVE  Rank(m) \in Nat /\ Rank(m) <= IntMax
  BY <1>4 DEF Rank
<1>6. ASSUME NEW m \in Inbox, offset <= Rank(m), Rank(m) < offset + PageInbox
      PROVE  m.id \in page
  <2>1. m \in PageRows(Reader, PageInbox, offset)
    BY <1>6 DEF PageRows, Inbox, Rank
  <2>. QED
    BY <2>1
<1>. HIDE DEF page, offset
<1>7. CASE arg = 1
  <2>1. due' = {m.id : m \in Inbox} /\ shown' = page /\ gone' = 0
    BY <1>1, <1>7 DEF Turn
  <2>2. due' \subseteq 1..(nextId' - 1)
    <3>1. \A m \in Inbox : m.id \in 1..(nextId - 1)
      <4>1. \A m \in Inbox : m \in Msg /\ m.id < nextId
        BY DEF Inbox, Visible, TInv, Typed, StoreTypeOK, Rows, UniqueIds
      <4>. QED
        BY <4>1, <1>2 DEF Msg, MsgId, TInv, Typed, StoreTypeOK
    <3>. QED
      BY <1>1, <2>1, <3>1
  <2>3. offset = 0
    BY <1>2, <1>7, WrapKeeps DEF offset
  <2>4. Missed' = {}
    <3>1. \A m \in Inbox : Rank(m) < arg * PageInbox => m.id \in page
      BY <1>2, <1>5, <1>6, <1>7, <2>3
    <3>. QED
      BY <1>3, <2>1, <3>1
  <2>5. Cardinality(Missed') <= gone' /\ gone' \in Nat
    BY <2>1, <2>4, FS_EmptySet
  <2>. QED
    BY <1>1, <1>7, <2>2, <2>5 DEF Reads, MissedOnlyForGone
<1>8. CASE arg # 1
  <2>1. arg = pages + 1 /\ due' = due /\ shown' = shown \cup page /\ gone' = gone
    BY <1>1, <1>8 DEF Turn
  <2>2. ASSUME NEW m \in Inbox, m.id \notin page, Rank(m) < arg * PageInbox
        PROVE  Rank(m) < pages * PageInbox
    <3>. DEFINE read == pages * PageInbox
    <3>1. read \in Nat /\ arg * PageInbox = read + PageInbox /\ PageInbox * (arg - 1) = read
      BY <1>2, <2>1
    <3>2. CASE read > IntMax
      BY <1>2, <1>5, <3>1, <3>2
    <3>3. CASE read <= IntMax
      <4>1. offset = read
        BY <1>2, <3>1, <3>3, WrapKeeps DEF offset
      <4>2. Rank(m) < read
        <5>. HIDE DEF read
        <5>. QED
          BY <1>2, <1>5, <1>6, <2>2, <3>1, <4>1
      <4>. QED
        BY <4>2
    <3>. QED
      BY <1>2, <3>1, <3>2, <3>3
  <2>3. Missed' \subseteq Missed
    BY <1>3, <2>1, <2>2 DEF Missed
  <2>4. IsFiniteSet(Missed) /\ Cardinality(Missed) \in Nat /\ Cardinality(Missed') \in Nat
    BY <1>3, <1>4 DEF Missed
  <2>5. Cardinality(Missed') <= gone'
    BY <1>2, <2>1, <2>3, <2>4, FS_Subset DEF Reads, MissedOnlyForGone
  <2>. QED
    BY <1>1, <1>2, <1>8, <2>1, <2>5 DEF Reads, MissedOnlyForGone
<1>. QED
  BY <1>7, <1>8

LEMMA ReadsNext ==
  TInv /\ TInv' /\ Control /\ Control' /\ Rows /\ Rows' /\ Reads /\ [PagingNext]_<<vars, readerVars>>
    => Reads'
<1> SUFFICES ASSUME TInv, TInv', Control, Control', Rows, Rows', Reads,
                    [PagingNext]_<<vars, readerVars>>
             PROVE  Reads'
  OBVIOUS
<1>1. [Next]_vars
  BY DEF PagingNext
<1>2. CASE \E p \in Proc : Turn(p)
  BY <1>1, <1>2, TurnReads
<1>3. CASE NoTurn
  BY <1>1, <1>3, NoTurnReads DEF NoTurn
<1>4. CASE UNCHANGED <<vars, readerVars>>
  <2>1. Missed' = Missed
    BY <1>4 DEF vars, storeVars, readerVars, Missed, Rank, Inbox, Visible
  <2>. QED
    BY <1>4, <2>1 DEF vars, storeVars, readerVars, Reads, MissedOnlyForGone
<1>. QED
  BY <1>2, <1>3, <1>4 DEF PagingNext

\* What holds of the processes holds of those that a reader goes through.
LEMMA PagingIsSpec == PagingSpec => Spec
<1>1. PagingInit => Init
  BY DEF PagingInit
<1>2. [PagingNext]_<<vars, readerVars>> => [Next]_vars
  BY DEF PagingNext
<1>. QED
  BY <1>1, <1>2, PTL DEF PagingSpec, Spec

LEMMA ReadsInit == PagingInit => Reads
<1> SUFFICES ASSUME PagingInit PROVE Reads
  OBVIOUS
<1>1. Missed = {}
  BY DEF PagingInit, Missed
<1>2. Cardinality(Missed) = 0
  BY <1>1, FS_EmptySet
<1>. QED
  BY <1>2 DEF PagingInit, Reads, MissedOnlyForGone

\* Whoever reads page after page misses at most as many messages as left the
\* inbox meanwhile (invariant MissedOnlyForGone).
THEOREM Skipping == PagingSpec => []MissedOnlyForGone
<1>1. Reads => MissedOnlyForGone
  BY DEF Reads
<1>. QED
  BY <1>1, PagingIsSpec, TypingInv, ControlInv, RowsInv, ReadsInit, ReadsNext, PTL DEF PagingSpec
=============================================================================
