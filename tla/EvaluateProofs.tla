--------------------------- MODULE EvaluateProofs ---------------------------
(***************************************************************************)
(* Proofs about Evaluate, for every set of processes, users and requests   *)
(* and every bound.                                                        *)
(***************************************************************************)
EXTENDS Evaluate, TLAPS

\* TypeOK is not inductive by itself: that an age is a time needs what a delete
\* removes to have been sent before it began.
Clock ==
  /\ \A m \in msgs : m.sentAt <= now
  /\ \A p \in Proc : act[p].begun <= now

ProcTypeOK ==
  /\ pc \in [Proc -> Labels]
  /\ act \in [Proc -> Locals]
  /\ rep \in [Proc -> Response]
  /\ conn \in [Proc -> BOOLEAN]

Typed == StoreTypeOK /\ ProcTypeOK /\ Clock

Deleting(p) == pc[p] \in {"rm_assert", "rm_update"}

\* The row was there when the delete began, and no later one takes its id.
Ages ==
  /\ \A m \in msgs : m.id < nextId
  /\ \A p \in Proc : Deleting(p) =>
       /\ act[p].req.arg < nextId
       /\ \A m \in msgs : m.id = act[p].req.arg => m.sentAt <= act[p].begun

TInv == Typed /\ Ages

----------------------------------------------------------------------------
(* What the helpers do to the types *)

\* The locals of an action that has just been parsed are typed.
LEMMA StartType == \A r \in Requests : Start(r) \in Locals /\ Start(r).begun = 0
<1> SUFFICES ASSUME NEW r \in Requests PROVE Start(r) \in Locals /\ Start(r).begun = 0
  OBVIOUS
<1>1. r \in Request
  BY EvaluateAssumption
<1>2. (IF r.user.by = "id" THEN r.user.val ELSE 0) \in 0..IntMax
  BY <1>1, EvaluateAssumption, StoreAssumption DEF Request, UserKey
<1>. QED
  BY <1>2, StoreAssumption DEF Start, Locals, Root, Time

\* Fail keeps the types of pc and rep (macro fail, action.c:25).
LEMMA FailType ==
  ASSUME NEW p \in Proc, NEW status \in Status, ProcTypeOK, Fail(p, status)
  PROVE  pc' \in [Proc -> Labels] /\ rep' \in [Proc -> Response]
<1>1. "idle" \in Labels
  BY DEF Labels
<1>2. [type |-> "error", word |-> type_other, info |-> status, page |-> {}] \in Response
  BY StoreAssumption DEF Response, type_other
<1>. QED
  BY <1>1, <1>2 DEF Fail, Goto, ProcTypeOK

\* Succeed keeps them when the word and the page are typed.
LEMMA SucceedType ==
  ASSUME NEW p \in Proc, NEW word \in 0..IntMax, NEW page \in SUBSET MsgId,
         ProcTypeOK, Succeed(p, word, page)
  PROVE  pc' \in [Proc -> Labels] /\ rep' \in [Proc -> Response]
<1>1. "idle" \in Labels
  BY DEF Labels
<1>2. rep[p] \in Response /\ word \in 0..(IntMax + 5)
  BY StoreAssumption DEF ProcTypeOK
<1>3. [rep[p] EXCEPT !.word = word, !.page = page] \in Response
  BY <1>2 DEF Response
<1>4. rep' = [rep EXCEPT ![p] = [rep[p] EXCEPT !.word = word, !.page = page]]
  BY <1>2 DEF Succeed, ProcTypeOK
<1>. QED
  BY <1>1, <1>3, <1>4 DEF Succeed, Goto, ProcTypeOK

\* Goto keeps pc typed.
LEMMA GotoType ==
  ASSUME NEW p \in Proc, NEW label \in Labels, ProcTypeOK, Goto(p, label)
  PROVE  pc' \in [Proc -> Labels]
BY DEF Goto, ProcTypeOK

\* A process that is identified goes on with typed locals (check_role).
LEMMA IdentifiedType ==
  ASSUME NEW p \in Proc, NEW id \in User \cup {Root}, NEW role \in Role, Typed, conn' = conn,
         UNCHANGED storeVars, Identified(p, id, role)
  PROVE  ProcTypeOK' /\ Clock'
<1>1. act[p] \in Locals /\ act' = [act EXCEPT ![p] = [act[p] EXCEPT !.id = id, !.role = role]]
  BY DEF Identified, Typed, ProcTypeOK
<1>2. act' \in [Proc -> Locals]
  <2>1. [act[p] EXCEPT !.id = id, !.role = role] \in Locals
    BY <1>1 DEF Locals
  <2>. QED
    BY <2>1, <1>1 DEF Typed, ProcTypeOK
<1>3. Clock'
  BY <1>1, StoreAssumption DEF Typed, ProcTypeOK, Clock, Locals, storeVars
<1>4. pc' \in [Proc -> Labels] /\ rep' \in [Proc -> Response]
  <2>1. CASE Fail(p, forbidden)
    BY <2>1, FailType DEF Typed, Status
  <2>2. CASE Succeed(p, 0, {})
    <3>1. 0 \in 0..IntMax /\ {} \in SUBSET MsgId
      BY StoreAssumption
    <3>. QED
      BY <2>2, <3>1, SucceedType DEF Typed
  <2>3. CASE /\ act[p].req.do \notin Stubs
             /\ Goto(p, NextCommand(act[p].req.do)) /\ UNCHANGED rep
    <3>1. NextCommand(act[p].req.do) \in Labels
      BY DEF NextCommand, Labels
    <3>. QED
      BY <2>3, <3>1, GotoType DEF Typed, ProcTypeOK
  <2>. QED
    BY <2>1, <2>2, <2>3 DEF Identified
<1>. QED
  BY <1>2, <1>3, <1>4 DEF Typed, ProcTypeOK

----------------------------------------------------------------------------
(* Types *)

\* A step that leaves the store alone keeps its part of the invariant.
LEMMA StoreKept ==
  ASSUME Typed, UNCHANGED storeVars, ProcTypeOK',
         \A p \in Proc : act'[p].begun = act[p].begun \/ act'[p].begun <= now
  PROVE  Typed'
BY DEF Typed, StoreTypeOK, Clock, storeVars

\* So does one that answers with a failure.
LEMMA FailStep ==
  ASSUME Typed, NEW p \in Proc, NEW status \in Status, Fail(p, status), UNCHANGED <<storeVars, act>>,
         conn' \in [Proc -> BOOLEAN]
  PROVE  Typed'
<1>1. ProcTypeOK'
  BY FailType DEF Typed, ProcTypeOK
<1>. QED
  BY <1>1, StoreKept

\* ... or that goes on to another command.
LEMMA GotoStep ==
  ASSUME Typed, NEW p \in Proc, NEW label \in Labels, Goto(p, label),
         UNCHANGED <<storeVars, act, rep, conn>>
  PROVE  Typed'
<1>1. ProcTypeOK'
  BY GotoType DEF Typed, ProcTypeOK
<1>. QED
  BY <1>1, StoreKept

\* The invalid user key of action_parse.
LEMMA InvalidType ==
  [type |-> "error", word |-> type_invalid, info |-> 0, page |-> {}] \in Response
BY StoreAssumption DEF Response, type_invalid

\* Resolved and errors of the user key keep the types.
LEMMA ResolvedStep ==
  ASSUME Typed, NEW p \in Proc, NEW u \in users, Resolved(p, u), UNCHANGED <<storeVars, conn>>
  PROVE  Typed'
<1>1. u \in 0..IntMax
  BY StoreAssumption DEF Typed, StoreTypeOK
<1>2. "verify" \in Labels
  BY DEF Labels
<1>3. act' = [act EXCEPT ![p] = [act[p] EXCEPT !.user = u]] /\ act[p] \in Locals
  BY DEF Resolved, Typed, ProcTypeOK
<1>4. [act[p] EXCEPT !.user = u] \in Locals
  BY <1>1, <1>3 DEF Locals
<1>5. ProcTypeOK'
  BY <1>2, <1>3, <1>4, GotoType DEF Resolved, Typed, ProcTypeOK
<1>6. \A q \in Proc : act'[q].begun = act[q].begun
  BY <1>3 DEF Locals, Typed, ProcTypeOK
<1>. QED
  BY <1>5, <1>6, StoreKept

\* A request that arrives, whether or not it can be parsed (action_parse).
LEMMA ParseStep ==
  ASSUME Typed, NEW p \in Proc, NEW r \in Requests, Parse(p, r)
  PROVE  Typed'
<1>1. act' = [act EXCEPT ![p] = Start(r)] /\ UNCHANGED <<storeVars, conn>>
  BY DEF Parse
<1>2. act' \in [Proc -> Locals]
  BY <1>1, StartType DEF Typed, ProcTypeOK
<1>3. \A q \in Proc : act'[q].begun = act[q].begun \/ act'[q].begun <= now
  BY <1>1, StartType DEF Typed, ProcTypeOK, StoreTypeOK, Time
<1>4. pc' \in [Proc -> Labels] /\ rep' \in [Proc -> Response]
  <2>1. CASE rep' = [rep EXCEPT ![p] = [type |-> "error", word |-> type_invalid, info |-> 0, page |-> {}]]
             /\ UNCHANGED pc
    BY <2>1, InvalidType DEF Typed, ProcTypeOK
  <2>2. CASE Fail(p, internal_error)
    BY <2>2, FailType DEF Typed, Status
  <2>3. CASE /\ r.do \in Actions /\ Goto(p, FirstCommand(r))
             /\ rep' = [rep EXCEPT ![p] = [type |-> r.do, word |-> 0, info |-> 0, page |-> {}]]
    <3>1. FirstCommand(r) \in Labels
      BY DEF FirstCommand, Labels
    <3>2. [type |-> r.do, word |-> 0, info |-> 0, page |-> {}] \in Response
      BY <2>3, StoreAssumption DEF Response
    <3>. QED
      BY <2>3, <3>1, <3>2, GotoType DEF Typed, ProcTypeOK
  <2>. QED
    BY <2>1, <2>2, <2>3 DEF Parse
<1>5. ProcTypeOK'
  BY <1>1, <1>2, <1>4 DEF Typed, ProcTypeOK
<1>. QED
  BY <1>1, <1>3, <1>5, StoreKept

\* The two searches of a user by name (db_get_user_id_by_name).
LEMMA ByNameStep ==
  ASSUME Typed, NEW p \in Proc, ByMember(p) \/ ByPro(p)
  PROVE  Typed'
<1>1. CASE ByMember(p)
  <2>1. CASE \E u \in users : Resolved(p, u)
    BY <1>1, <2>1, ResolvedStep DEF ByMember
  <2>2. CASE Goto(p, "by_pro") /\ UNCHANGED <<act, rep>>
    <3>1. "by_pro" \in Labels
      BY DEF Labels
    <3>. QED
      BY <1>1, <2>2, <3>1, GotoStep DEF ByMember
  <2>. QED
    BY <1>1, <2>1, <2>2 DEF ByMember
<1>2. CASE ByPro(p)
  <2>1. CASE \E u \in users : Resolved(p, u)
    BY <1>2, <2>1, ResolvedStep DEF ByPro
  <2>2. CASE /\ Goto(p, "idle") /\ UNCHANGED act
             /\ rep' = [rep EXCEPT ![p] =
                  [type |-> "error", word |-> type_invalid, info |-> 0, page |-> {}]]
    <3>1. "idle" \in Labels
      BY DEF Labels
    <3>2. ProcTypeOK'
      BY <1>2, <2>2, <3>1, InvalidType, GotoType DEF ByPro, Typed, ProcTypeOK
    <3>. QED
      BY <1>2, <2>2, <3>2, StoreKept DEF ByPro
  <2>. QED
    BY <1>2, <2>1, <2>2 DEF ByPro
<1>. QED
  BY <1>1, <1>2

\* The process ends (errno_exit).
LEMMA ExitStep ==
  ASSUME Typed, NEW p \in Proc, Exit(p), UNCHANGED <<storeVars, act, conn>>
  PROVE  Typed'
<1>1. "exited" \in Labels
  BY DEF Labels
<1>. QED
  BY <1>1, GotoStep DEF Exit

\* The authentication of the caller (db_verify_user_constr) and check_role.
LEMMA VerifyStep ==
  ASSUME Typed, NEW p \in Proc,
         ByEmail(p) \/ VerifyRoot(p) \/ VerifyRootNoPassword(p) \/ Verify(p)
  PROVE  Typed'
<1>1. CASE ByEmail(p)
  BY <1>1, FailStep DEF ByEmail, Status, Typed, ProcTypeOK
<1>2. CASE VerifyRoot(p)
  <2>1. ProcTypeOK' /\ Clock'
    BY <1>2, IdentifiedType DEF VerifyRoot, Role
  <2>. QED
    BY <1>2, <2>1 DEF VerifyRoot, Typed, StoreTypeOK, storeVars
<1>3. CASE VerifyRootNoPassword(p)
  BY <1>3, ExitStep DEF VerifyRootNoPassword
<1>4. CASE Verify(p)
  <2>. DEFINE key == act[p].req.key
  <2>1. UNCHANGED <<storeVars, conn>>
    BY <1>4 DEF Verify
  <2>2. CASE (Fail(p, unauthorized) \/ Fail(p, internal_error)) /\ UNCHANGED act
    BY <2>1, <2>2, FailStep DEF Status, Typed, ProcTypeOK
  <2>3. CASE Exit(p) /\ UNCHANGED act
    BY <2>1, <2>3, ExitStep
  <2>4. CASE key \in users /\ ValidRole(UserRole(key)) /\ Identified(p, key, UserRole(key))
    <3>1. key \in User \cup {Root} /\ UserRole(key) \in Role
      BY <2>4 DEF Typed, StoreTypeOK, ValidRole
    <3>2. ProcTypeOK' /\ Clock'
      BY <2>1, <2>4, <3>1, IdentifiedType
    <3>. QED
      BY <2>1, <3>2 DEF Typed, StoreTypeOK, storeVars
  <2>. QED
    BY <1>4, <2>2, <2>3, <2>4 DEF Verify
<1>. QED
  BY <1>1, <1>2, <1>3, <1>4

\* whois and inbox: the page that is answered holds ids of rows.
LEMMA ReadStep ==
  ASSUME Typed, NEW p \in Proc, GetUser(p) \/ GetInbox(p)
  PROVE  Typed'
<1>1. UNCHANGED <<storeVars, act, conn>>
  BY DEF GetUser, GetInbox
<1>2. CASE Fail(p, not_found) \/ Fail(p, internal_error)
  BY <1>1, <1>2, FailStep DEF Status, Typed, ProcTypeOK
<1>3. ASSUME NEW page \in SUBSET MsgId, Succeed(p, 0, page)
      PROVE  Typed'
  <2>1. 0 \in 0..IntMax
    BY StoreAssumption
  <2>2. pc' \in [Proc -> Labels] /\ rep' \in [Proc -> Response]
    BY <1>3, <2>1, SucceedType DEF Typed
  <2>. QED
    BY <1>1, <2>2, StoreKept DEF Typed, ProcTypeOK
<1>4. CASE GetUser(p)
  <2>1. {} \in SUBSET MsgId
    OBVIOUS
  <2>. QED
    BY <1>2, <1>3, <1>4, <2>1 DEF GetUser
<1>5. CASE GetInbox(p)
  <2>. DEFINE offset == Wrap(PageInbox * (act[p].req.arg - 1))
              page == {m.id : m \in PageRows(act[p].id, PageInbox, offset)}
  <2>1. PageRows(act[p].id, PageInbox, offset) \subseteq msgs
    BY DEF PageRows, Visible
  <2>2. page \in SUBSET MsgId
    BY <2>1 DEF Typed, StoreTypeOK, Msg
  <2>3. Fail(p, internal_error) \/ Succeed(p, 0, page)
    BY <1>5 DEF GetInbox
  <2>. QED
    BY <1>2, <1>3, <2>2, <2>3
<1>. QED
  BY <1>4, <1>5

\* What a broken invariant leaves in the response is typed (fail_invariant).
LEMMA InvariantType ==
  ASSUME Typed, NEW p \in Proc, FailInvariant(p)
  PROVE  rep' \in [Proc -> Response]
<1>1. rep' = [rep EXCEPT ![p] =
                [rep[p] EXCEPT !.type = "error", !.word = type_invariant, !.info = NamePointer]]
  BY DEF FailInvariant, Typed, ProcTypeOK
<1>2. rep[p] \in Response /\ type_invariant \in 0..(IntMax + 5)
  BY StoreAssumption DEF Typed, ProcTypeOK, type_invariant
<1>3. [rep[p] EXCEPT !.type = "error", !.word = type_invariant, !.info = NamePointer] \in Response
  BY <1>2 DEF Response
<1>. QED
  BY <1>1, <1>3 DEF Typed, ProcTypeOK

\* The time at which a command begins is the present.
LEMMA BegunType ==
  ASSUME Typed, NEW p \in Proc, act' = [act EXCEPT ![p].begun = now]
  PROVE  act' \in [Proc -> Locals] /\ \A q \in Proc : act'[q].begun = act[q].begun \/ act'[q].begun <= now
<1>1. act[p] \in Locals /\ act' = [act EXCEPT ![p] = [act[p] EXCEPT !.begun = now]]
  BY DEF Typed, ProcTypeOK
<1>2. [act[p] EXCEPT !.begun = now] \in Locals
  BY <1>1 DEF Locals, Typed, StoreTypeOK
<1>. QED
  BY <1>1, <1>2 DEF Locals, Typed, ProcTypeOK, StoreTypeOK, Time

\* The commands of send up to the insert.
LEMMA BeforeInsertStep ==
  ASSUME Typed, NEW p \in Proc, GetDestRole(p) \/ CheckContacted(p) \/ SendMsg(p)
  PROVE  Typed'
<1>. DEFINE a == act[p]
            role == UserRole(a.user)
<1>1. UNCHANGED <<storeVars, conn>>
  BY DEF GetDestRole, CheckContacted, SendMsg
<1>2. a \in Locals
  BY DEF Typed, ProcTypeOK
<1>3. {"count", "send_msg", "insert_msg"} \subseteq Labels
  BY DEF Labels
<1>4. CASE GetDestRole(p)
  <2>1. CASE /\ Fail(p, not_found) \/ Fail(p, internal_error) \/ Fail(p, payload_too_large)
             /\ UNCHANGED act
    BY <1>1, <2>1, FailStep DEF Status, Typed, ProcTypeOK
  <2>2. CASE /\ ValidRole(role)
             /\ act' = [act EXCEPT ![p].dest_role = role]
             /\ Goto(p, IF a.role = role_pro /\ role = role_member THEN "count" ELSE "send_msg")
             /\ IF BreaksInvariant(a, role) THEN FailInvariant(p) ELSE UNCHANGED rep
    <3>1. act' = [act EXCEPT ![p] = [a EXCEPT !.dest_role = role]]
      BY <2>2
    <3>2. [a EXCEPT !.dest_role = role] \in Locals
      BY <1>2, <2>2 DEF Locals, ValidRole
    <3>3. act' \in [Proc -> Locals]
      BY <3>1, <3>2 DEF Typed, ProcTypeOK
    <3>4. \A q \in Proc : act'[q].begun = act[q].begun
      BY <1>2, <3>1 DEF Locals, Typed, ProcTypeOK
    <3>5. rep' \in [Proc -> Response]
      BY <2>2, InvariantType DEF Typed, ProcTypeOK
    <3>6. pc' \in [Proc -> Labels]
      BY <1>3, <2>2, GotoType DEF Typed
    <3>. QED
      BY <1>1, <3>3, <3>4, <3>5, <3>6, StoreKept DEF Typed, ProcTypeOK
  <2>. QED
    BY <1>4, <2>1, <2>2 DEF GetDestRole
<1>5. CASE CheckContacted(p)
  <2>1. rep' \in [Proc -> Response]
    BY <1>5, InvariantType DEF CheckContacted, Typed, ProcTypeOK
  <2>2. pc' \in [Proc -> Labels]
    BY <1>3, <1>5, GotoType DEF CheckContacted, Typed
  <2>. QED
    BY <1>1, <1>5, <2>1, <2>2, StoreKept DEF CheckContacted, Typed, ProcTypeOK
<1>6. CASE SendMsg(p)
  <2>1. CASE Fail(p, forbidden) /\ UNCHANGED act
    BY <1>1, <2>1, FailStep DEF Status, Typed, ProcTypeOK
  <2>2. CASE act' = [act EXCEPT ![p].begun = now] /\ Goto(p, "insert_msg") /\ UNCHANGED rep
    <3>1. act' \in [Proc -> Locals] /\ \A q \in Proc : act'[q].begun = act[q].begun \/ act'[q].begun <= now
      BY <2>2, BegunType
    <3>2. pc' \in [Proc -> Labels]
      BY <1>3, <2>2, GotoType DEF Typed
    <3>. QED
      BY <1>1, <2>2, <3>1, <3>2, StoreKept DEF Typed, ProcTypeOK
  <2>. QED
    BY <1>6, <2>1, <2>2 DEF SendMsg
<1>. QED
  BY <1>4, <1>5, <1>6

\* The insert numbers its row with the value it takes from the sequence
\* (_insert_msg).
LEMMA InsertMsgType ==
  ASSUME Typed, NEW s \in User \cup {Root}, NEW r \in 0..IntMax, NEW t \in Time, t <= now,
         InsertMsg(s, r, t)
  PROVE  /\ StoreTypeOK' /\ now' = now
         /\ \A m \in msgs' : m.sentAt <= now
         /\ nextId \in MsgId
<1>1. nextId \in MsgId /\ nextId' \in 1..(IntMax + 1)
  BY StoreAssumption DEF InsertMsg, SequenceExhausted, Typed, StoreTypeOK, MsgId
<1>2. CASE InsertAllowed(s, r)
  <2>. DEFINE m == [id |-> nextId, sender |-> s, recipient |-> r, sentAt |-> t, deletedAge |-> Null]
  <2>1. m \in Msg
    BY <1>1, <1>2 DEF Msg, InsertAllowed, Typed, StoreTypeOK
  <2>2. msgs' = msgs \cup {m}
    BY <1>2 DEF InsertMsg
  <2>. QED
    BY <1>1, <2>1, <2>2 DEF InsertMsg, Typed, StoreTypeOK, Clock
<1>3. CASE ~InsertAllowed(s, r)
  BY <1>1, <1>3 DEF InsertMsg, Typed, StoreTypeOK, Clock
<1>. QED
  BY <1>2, <1>3

\* The insert and every way its command may end.
LEMMA InsertStep ==
  ASSUME Typed, NEW p \in Proc, InsertOfSend(p)
  PROVE  Typed'
<1>. DEFINE a == act[p]
<1>1. a \in Locals
  BY DEF Typed, ProcTypeOK
<1>2. CASE Fail(p, internal_error) /\ UNCHANGED <<storeVars, act, conn>>
  BY <1>2, FailStep DEF Status, Typed, ProcTypeOK
<1>3. CASE InsertMsg(a.id, a.user, a.begun)
  <2>1. /\ StoreTypeOK' /\ now' = now
        /\ \A m \in msgs' : m.sentAt <= now
        /\ nextId \in MsgId
    BY <1>1, <1>3, InsertMsgType DEF Locals, Typed, Clock
  <2>2. nextId \in 0..IntMax /\ internal_error \in Status
    BY <2>1 DEF MsgId, Status
  <2>3. act' \in [Proc -> Locals] /\ \A q \in Proc : act'[q].begun = act[q].begun
    <3>1. [a EXCEPT !.stored = nextId] \in Locals
      BY <1>1, <2>2 DEF Locals
    <3>2. act' = [act EXCEPT ![p] = [a EXCEPT !.stored = nextId]] \/ act' = act
      BY <1>3 DEF InsertOfSend, InsertMsg, SequenceExhausted
    <3>. QED
      BY <1>1, <3>1, <3>2 DEF Typed, ProcTypeOK, Locals
  <2>4. pc' \in [Proc -> Labels] /\ rep' \in [Proc -> Response]
    <3>1. CASE Fail(p, internal_error)
      BY <2>2, <3>1, FailType DEF Typed
    <3>2. CASE Succeed(p, nextId, {})
      BY <2>2, <3>2, SucceedType DEF Typed
    <3>3. CASE Exit(p)
      BY <3>3, GotoType DEF Exit, Labels, Typed, ProcTypeOK
    <3>. QED
      BY <1>3, <3>1, <3>2, <3>3 DEF InsertOfSend, InsertMsg, SequenceExhausted
  <2>5. conn' \in [Proc -> BOOLEAN]
    BY <1>3 DEF InsertOfSend, InsertMsg, SequenceExhausted, Typed, ProcTypeOK
  <2>. QED
    BY <2>1, <2>3, <2>4, <2>5 DEF Typed, ProcTypeOK, Clock
<1>. QED
  BY <1>2, <1>3 DEF InsertOfSend

\* A deletion gives a row an age that is a time: it was sent before the
\* delete began (ftg_msg_delete).
LEMMA MarkDeletedType ==
  ASSUME Typed, NEW id, NEW t \in Time, \A m \in msgs : m.id = id => m.sentAt <= t,
         MarkDeleted(id, t)
  PROVE  StoreTypeOK' /\ now' = now /\ \A m \in msgs' : m.sentAt <= now
<1>1. ASSUME NEW m \in msgs, m.id = id
      PROVE  [m EXCEPT !.deletedAge = t - m.sentAt] \in Msg
  <2>1. m \in Msg /\ m.sentAt \in Time /\ m.sentAt <= t
    BY <1>1 DEF Typed, StoreTypeOK, Msg
  <2>2. t - m.sentAt \in Time
    BY <2>1, StoreAssumption DEF Time
  <2>. QED
    BY <2>1, <2>2 DEF Msg
<1>2. ASSUME NEW n \in msgs'
      PROVE  n \in Msg /\ n.sentAt <= now
  <2>1. PICK m \in msgs : n = IF m.id = id THEN [m EXCEPT !.deletedAge = t - m.sentAt] ELSE m
    BY DEF MarkDeleted
  <2>2. m \in Msg /\ m.sentAt <= now
    BY DEF Typed, StoreTypeOK, Clock
  <2>. QED
    BY <1>1, <2>1, <2>2 DEF Msg
<1>. QED
  BY <1>2 DEF MarkDeleted, Typed, StoreTypeOK

\* The three statements of rm, and a command on a lost connection.
LEMMA RmStep ==
  ASSUME TInv, NEW p \in Proc,
         ScanOfRm(p) \/ AssertOfRm(p) \/ UpdateOfRm(p) \/ CommandFails(p) \/ LoseConnection(p)
  PROVE  Typed'
<1>. Typed
  BY DEF TInv
<1>1. {"rm_assert", "rm_update"} \subseteq Labels /\ {not_found, internal_error} \subseteq Status
  BY DEF Labels, Status
<1>2. CASE ScanOfRm(p)
  <2>1. CASE Fail(p, not_found) /\ UNCHANGED act
    BY <1>1, <1>2, <2>1, FailStep DEF ScanOfRm, Typed, ProcTypeOK
  <2>2. CASE act' = [act EXCEPT ![p].begun = now] /\ Goto(p, "rm_assert") /\ UNCHANGED rep
    <3>1. act' \in [Proc -> Locals] /\ \A q \in Proc : act'[q].begun = act[q].begun \/ act'[q].begun <= now
      BY <2>2, BegunType
    <3>2. pc' \in [Proc -> Labels]
      BY <1>1, <2>2, GotoType DEF Typed
    <3>. QED
      BY <1>2, <2>2, <3>1, <3>2, StoreKept DEF ScanOfRm, Typed, ProcTypeOK
  <2>. QED
    BY <1>2, <2>1, <2>2 DEF ScanOfRm
<1>3. CASE AssertOfRm(p)
  BY <1>1, <1>3, FailStep, GotoStep DEF AssertOfRm, Typed, ProcTypeOK
<1>4. CASE UpdateOfRm(p)
  <2>1. StoreTypeOK' /\ now' = now /\ \A m \in msgs' : m.sentAt <= now
    <3>1. \A m \in msgs : m.id = act[p].req.arg => m.sentAt <= act[p].begun
      BY <1>4 DEF UpdateOfRm, Query, Deleting, TInv, Ages
    <3>2. act[p].begun \in Time
      BY DEF Typed, ProcTypeOK, Locals
    <3>. QED
      BY <1>4, <3>1, <3>2, MarkDeletedType DEF UpdateOfRm
  <2>2. pc' \in [Proc -> Labels] /\ rep' \in [Proc -> Response]
    <3>1. CASE Fail(p, internal_error)
      BY <1>1, <3>1, FailType DEF Typed
    <3>2. CASE Succeed(p, 0, {})
      <4>1. 0 \in 0..IntMax /\ {} \in SUBSET MsgId
        BY StoreAssumption
      <4>. QED
        BY <3>2, <4>1, SucceedType DEF Typed
    <3>. QED
      BY <1>4, <3>1, <3>2 DEF UpdateOfRm
  <2>3. act' = act /\ conn' \in [Proc -> BOOLEAN]
    BY <1>4 DEF UpdateOfRm, Typed, ProcTypeOK
  <2>. QED
    BY <2>1, <2>2, <2>3 DEF Typed, ProcTypeOK, Clock
<1>5. CASE CommandFails(p)
  BY <1>1, <1>5, FailStep DEF CommandFails, Typed, ProcTypeOK
<1>6. CASE LoseConnection(p)
  <2>1. ProcTypeOK'
    BY <1>6 DEF LoseConnection, Typed, ProcTypeOK
  <2>. QED
    BY <1>6, <2>1, StoreKept DEF LoseConnection
<1>. QED
  BY <1>2, <1>3, <1>4, <1>5, <1>6

\* What the platform and the clock do.
LEMMA PlatformStep ==
  ASSUME Typed, Platform
  PROVE  Typed'
<1>1. ProcTypeOK'
  BY DEF Platform, procVars, Typed, ProcTypeOK
<1>2. ASSUME NEW u, DeleteUser(u)
      PROVE  Typed'
  BY <1>1, <1>2 DEF DeleteUser, Platform, procVars, Typed, StoreTypeOK, Clock
<1>6. ASSUME NEW u \in Movers, NEW n \in NewNames, Register(u, n) \/ Rename(u, n)
      PROVE  Typed'
  <2>1. u \in User /\ n \in Names
    BY EvaluateAssumption
  <2>2. users' \subseteq User /\ names' \in [User -> Names]
    BY <1>6, <2>1 DEF Register, Rename, Typed, StoreTypeOK
  <2>. QED
    BY <1>1, <1>6, <2>2 DEF Register, Rename, Platform, procVars, Typed, StoreTypeOK, Clock
<1>3. ASSUME NEW m \in Member, NEW q \in Pro,
             LiftBlock(m, q) \/ \E t \in BlockTimes : SetBlock(m, q, t)
      PROVE  Typed'
  <2>1. blocks' \subseteq Block
    <3>1. CASE LiftBlock(m, q)
      BY <3>1 DEF LiftBlock, Typed, StoreTypeOK
    <3>2. ASSUME NEW t \in BlockTimes, SetBlock(m, q, t)
          PROVE  blocks' \subseteq Block
      <4>1. [member |-> m, pro |-> q, expiresAt |-> t] \in Block
        BY EvaluateAssumption DEF Block
      <4>. QED
        BY <3>2, <4>1 DEF SetBlock, Typed, StoreTypeOK
    <3>. QED
      BY <1>3, <3>1, <3>2
  <2>. QED
    BY <1>1, <1>3, <2>1 DEF LiftBlock, SetBlock, Platform, procVars, Typed, StoreTypeOK, Clock
<1>4. ASSUME NEW m \in Member, NEW t \in BlockTimes \cup {Null}, SetBan(m, t)
      PROVE  Typed'
  <2>1. bans' \subseteq Ban
    <3>1. CASE t = Null
      BY <1>4, <3>1 DEF SetBan, Typed, StoreTypeOK
    <3>2. CASE t # Null
      <4>1. [member |-> m, expiresAt |-> t] \in Ban
        BY <3>2, EvaluateAssumption DEF Ban
      <4>. QED
        BY <1>4, <4>1 DEF SetBan, Typed, StoreTypeOK
    <3>. QED
      BY <3>1, <3>2
  <2>. QED
    BY <1>1, <1>4, <2>1 DEF SetBan, Platform, procVars, Typed, StoreTypeOK, Clock
<1>5. CASE Tick
  <2>1. now \in Time /\ now' \in Time /\ now' = now + 1
    BY <1>5, StoreAssumption DEF Tick, Typed, StoreTypeOK, Time
  <2>2. \A m \in msgs' : m.sentAt <= now'
    BY <1>5, <2>1 DEF Tick, Typed, StoreTypeOK, Clock, Msg, Time
  <2>3. \A p \in Proc : act'[p].begun <= now'
    BY <2>1 DEF Platform, procVars, Typed, ProcTypeOK, Clock, Locals, Time
  <2>. QED
    BY <1>1, <1>5, <2>1, <2>2, <2>3 DEF Tick, Typed, StoreTypeOK, Clock
<1>7. \A b \in Blockable : b[1] \in Member /\ b[2] \in Pro
  BY EvaluateAssumption
<1>8. \A m \in Bannable : m \in Member
  BY EvaluateAssumption
<1>. QED
  BY <1>2, <1>3, <1>4, <1>5, <1>6, <1>7, <1>8 DEF Platform

----------------------------------------------------------------------------
(* Ages *)

\* A row stays what it was, but for the age of its deletion, or takes the next id.
LEMMA RowsStep ==
  ASSUME Typed, [Next]_vars
  PROVE  /\ nextId' \in {nextId, nextId + 1}
         /\ \A n \in msgs' :
              \/ \E m \in msgs : n.id = m.id /\ n.sentAt = m.sentAt
              \/ n.id = nextId /\ nextId' = nextId + 1
<1>1. ASSUME NEW s, NEW r, NEW t, InsertMsg(s, r, t)
      PROVE  /\ nextId' = nextId + 1
             /\ \A n \in msgs' : n \in msgs \/ n.id = nextId
  BY <1>1 DEF InsertMsg
<1>2. ASSUME NEW id, NEW t, MarkDeleted(id, t)
      PROVE  nextId' = nextId /\ \A n \in msgs' : \E m \in msgs : n.id = m.id /\ n.sentAt = m.sentAt
  <2>1. ASSUME NEW n \in msgs' PROVE \E m \in msgs : n.id = m.id /\ n.sentAt = m.sentAt
    <3>1. PICK m \in msgs : n = IF m.id = id THEN [m EXCEPT !.deletedAge = t - m.sentAt] ELSE m
      BY <1>2 DEF MarkDeleted
    <3>2. m \in Msg
      BY DEF Typed, StoreTypeOK
    <3>. QED
      BY <3>1, <3>2 DEF Msg
  <2>. QED
    BY <1>2, <2>1 DEF MarkDeleted
<1>3. CASE UNCHANGED storeVars
  BY <1>3 DEF storeVars
<1>4. CASE UNCHANGED vars
  BY <1>3, <1>4 DEF vars
<1>5. CASE Platform
  BY <1>5 DEF Platform, DeleteUser, Register, Rename, LiftBlock, SetBlock, SetBan, Tick
<1>6. ASSUME NEW p \in Proc, NEW r \in Requests, Parse(p, r)
      PROVE  UNCHANGED storeVars
  BY <1>6 DEF Parse
<1>7. ASSUME NEW p \in Proc, Step(p) \/ LoseConnection(p), ~InsertOfSend(p), ~UpdateOfRm(p)
      PROVE  UNCHANGED storeVars
  BY <1>7 DEF Step, LoseConnection, ByMember, ByPro, ByEmail, VerifyRoot, VerifyRootNoPassword, Verify,
              GetUser, GetInbox, GetDestRole, CheckContacted, SendMsg, ScanOfRm, AssertOfRm, CommandFails
<1>8. ASSUME NEW p \in Proc, InsertOfSend(p)
      PROVE  UNCHANGED storeVars \/ InsertMsg(act[p].id, act[p].user, act[p].begun)
  BY <1>8 DEF InsertOfSend
<1>9. ASSUME NEW p \in Proc, UpdateOfRm(p)
      PROVE  MarkDeleted(act[p].req.arg, act[p].begun)
  BY <1>9 DEF UpdateOfRm
<1>. QED
  BY <1>1, <1>2, <1>3, <1>4, <1>5, <1>6, <1>7, <1>8, <1>9 DEF Next

\* A delete goes on from where it was, or from its scan, which found the row.
LEMMA DeletingStep ==
  ASSUME Typed, [Next]_vars, NEW p \in Proc, Deleting(p)'
  PROVE  \/ Deleting(p) /\ act'[p] = act[p]
         \/ /\ UNCHANGED storeVars /\ NotDeleted(act[p].req.arg)
            /\ act'[p].req = act[p].req /\ act'[p].begun = now
<1>. pc \in [Proc -> Labels] /\ act \in [Proc -> Locals] /\ act[p] \in Locals
  BY DEF Typed, ProcTypeOK
<1>1. CASE UNCHANGED vars \/ Platform
  BY <1>1 DEF vars, Platform, procVars, Deleting
<1>2. ASSUME NEW q \in Proc \ {p}, (\E r \in Requests : Parse(q, r)) \/ Step(q) \/ LoseConnection(q)
      PROVE  pc'[p] = pc[p] /\ act'[p] = act[p]
  BY <1>2 DEF Parse, Step, LoseConnection, ByMember, ByPro, ByEmail, VerifyRoot, VerifyRootNoPassword, Verify,
              GetUser, GetInbox, GetDestRole, CheckContacted, SendMsg, InsertOfSend, ScanOfRm, AssertOfRm,
              UpdateOfRm, CommandFails, Resolved, Identified, Fail, Succeed, Goto, Exit
<1>3. ASSUME NEW r \in Requests, Parse(p, r)
      PROVE  FALSE
  BY <1>3 DEF Parse, FirstCommand, Fail, Goto, At, Deleting
<1>4. CASE LoseConnection(p)
  BY <1>4 DEF LoseConnection, Deleting
<1>5. CASE AssertOfRm(p)
  BY <1>5 DEF AssertOfRm, Deleting, Query
<1>6. CASE ScanOfRm(p)
  <2>1. pc'[p] # "idle"
    BY DEF Deleting
  <2>2. NotDeleted(act[p].req.arg) /\ act' = [act EXCEPT ![p].begun = now] /\ UNCHANGED storeVars
    BY <1>6, <2>1 DEF ScanOfRm, Fail, Goto
  <2>. QED
    BY <2>2 DEF Locals
<1>7. CASE Step(p) /\ ~AssertOfRm(p) /\ ~ScanOfRm(p)
  <2>1. CASE VerifyRoot(p) \/ Verify(p)
    <3>1. pc'[p] \in {"idle", "exited", NextCommand(act[p].req.do)} /\ pc[p] = "verify"
      BY <2>1 DEF VerifyRoot, Verify, Identified, Fail, Succeed, Goto, Exit, At, Query
    <3>. QED
      BY <3>1 DEF NextCommand, Deleting
  <2>2. CASE ByMember(p) \/ ByPro(p) \/ ByEmail(p) \/ VerifyRootNoPassword(p) \/ GetUser(p) \/ GetInbox(p)
    BY <2>2 DEF ByMember, ByPro, ByEmail, VerifyRootNoPassword, GetUser, GetInbox, Resolved,
                Fail, Succeed, Goto, Exit, Deleting
  <2>3. CASE GetDestRole(p) \/ CheckContacted(p) \/ SendMsg(p) \/ InsertOfSend(p)
             \/ UpdateOfRm(p) \/ CommandFails(p)
    BY <2>3 DEF GetDestRole, CheckContacted, SendMsg, InsertOfSend, UpdateOfRm, CommandFails,
                Fail, Succeed, Goto, Exit, Deleting
  <2>. QED
    BY <1>7, <2>1, <2>2, <2>3 DEF Step
<1>. QED
  BY <1>1, <1>2, <1>3, <1>4, <1>5, <1>6, <1>7 DEF Next, Deleting

\* Every step keeps what the ages rest on.
LEMMA AgesStep == TInv /\ [Next]_vars => Ages'
<1> SUFFICES ASSUME TInv, [Next]_vars PROVE Ages'
  OBVIOUS
<1>. Typed /\ Ages
  BY DEF TInv
<1>1. /\ nextId \in Nat /\ nextId' \in {nextId, nextId + 1}
      /\ \A n \in msgs' :
              \/ \E m \in msgs : n.id = m.id /\ n.sentAt = m.sentAt
              \/ n.id = nextId /\ nextId' = nextId + 1
  BY RowsStep, StoreAssumption DEF Typed, StoreTypeOK
<1>2. \A m \in msgs : m.id \in Nat /\ m.sentAt \in Nat
  BY StoreAssumption DEF Typed, StoreTypeOK, Msg, MsgId, Time
<1>3. \A n \in msgs' : n.id < nextId'
  BY <1>1, <1>2 DEF Ages
<1>4. ASSUME NEW p \in Proc, Deleting(p)'
      PROVE  /\ act'[p].req.arg < nextId'
             /\ \A m \in msgs' : m.id = act'[p].req.arg => m.sentAt <= act'[p].begun
  <2>0. act[p].req.arg \in Nat
    BY StoreAssumption, EvaluateAssumption DEF Typed, ProcTypeOK, Locals, Request
  <2>1. CASE Deleting(p) /\ act'[p] = act[p]
    BY <1>1, <1>2, <2>0, <2>1 DEF Ages
  <2>2. CASE /\ UNCHANGED storeVars /\ NotDeleted(act[p].req.arg)
             /\ act'[p].req = act[p].req /\ act'[p].begun = now
    <3>1. UNCHANGED <<msgs, nextId>>
      BY <2>2 DEF storeVars
    <3>2. act[p].req.arg < nextId
      BY <2>2 DEF NotDeleted, Visible, Ages
    <3>. QED
      BY <2>2, <3>1, <3>2 DEF Typed, Clock
  <2>. QED
    BY <1>4, <2>1, <2>2, DeletingStep
<1>. QED
  BY <1>3, <1>4 DEF Ages, Deleting

----------------------------------------------------------------------------

\* The first state: a process that has answered nothing.
LEMMA TInit == Init => TInv
<1> SUFFICES ASSUME Init PROVE TInv
  OBVIOUS
<1>1. StoreTypeOK
  BY StoreAssumption DEF Init, StoreInit, StoreTypeOK, Time
<1>2. (CHOOSE r \in Requests : TRUE) \in Requests
  BY EvaluateAssumption
<1>3. Start(CHOOSE r \in Requests : TRUE) \in Locals /\ Start(CHOOSE r \in Requests : TRUE).begun = 0
  BY <1>2, StartType
<1>4. [type |-> "none", word |-> 0, info |-> 0, page |-> {}] \in Response
  BY StoreAssumption DEF Response
<1>5. "idle" \in Labels
  BY DEF Labels
<1>6. ProcTypeOK
  BY <1>3, <1>4, <1>5 DEF Init, ProcTypeOK
<1>7. Clock
  BY <1>3 DEF Init, StoreInit, Clock
<1>8. Ages
  BY DEF Init, StoreInit, Ages, Deleting
<1>. QED
  BY <1>1, <1>6, <1>7, <1>8 DEF TInv, Typed

\* Every step keeps the types and the clock.
LEMMA TNext == TInv /\ [Next]_vars => TInv'
<1> SUFFICES ASSUME TInv, [Next]_vars PROVE TInv'
  OBVIOUS
<1>. Typed
  BY DEF TInv
<1>1. ASSUME NEW p \in Proc, NEW r \in Requests, Parse(p, r)
      PROVE  Typed'
  BY <1>1, ParseStep
<1>2. ASSUME NEW p \in Proc, Step(p) \/ LoseConnection(p)
      PROVE  Typed'
  BY <1>2, ByNameStep, VerifyStep, ReadStep, BeforeInsertStep, InsertStep, RmStep DEF Step
<1>3. ASSUME Platform PROVE Typed'
  BY <1>3, PlatformStep
<1>4. ASSUME UNCHANGED vars PROVE Typed'
  BY <1>4, StoreKept DEF vars, storeVars, procVars, Typed, ProcTypeOK, StoreTypeOK, Clock
<1>. QED
  BY <1>1, <1>2, <1>3, <1>4, AgesStep DEF Next, TInv

\* The types hold in every reachable state: no command of any process, in any
\* order, stores an id beyond the serial, an age that is not a time, or a
\* response without a status (the invariant TypeOK).
THEOREM Typing == Spec => []TypeOK
<1>1. TInv => TypeOK
  BY DEF TInv, Typed, ProcTypeOK, TypeOK
<1>. QED
  BY <1>1, TInit, TNext, PTL DEF Spec

\* The same for what the other proofs use of it.
LEMMA TypingInv == Spec => []TInv
BY TInit, TNext, PTL DEF Spec
=============================================================================
