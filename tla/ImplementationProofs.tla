------------------------- MODULE ImplementationProofs -------------------------
(***************************************************************************)
(* The processes of Evaluate implement ChatService: every step, under the  *)
(* mapping of module Implementation, is a step of the service or none.     *)
(* Beyond what Control, Rows and the page lemma say, this takes that an    *)
(* action means nobody yet while its name is looked for (Unnamed).         *)
(***************************************************************************)
EXTENDS AnswerProofs, Implementation

\* The labels before the user key is resolved, and those where nothing is.
ByName == {"by_member", "by_pro"}
Unresolved == ByName \cup {"by_email", "idle", "exited"}

\* A name that is looked for is the name of nobody yet.
Clear(l, a) == l \in ByName => a.req.user.by = "name" /\ a.user = 0
Unnamed == \A p \in Proc : Clear(pc[p], act[p])

\* What p's action is about stays.
Keeps(p) == act'[p].req = act[p].req /\ act'[p].user = act[p].user

\* A step of p, as the others see it.
Frame(p) == \A q \in Proc \ {p} : pc'[q] = pc[q] /\ act'[q] = act[q] /\ rep'[q] = rep[q]

-----------------------------------------------------------------------------
(* Unnamed *)

\* From verify on, an action keeps its request and its user.
LEMMA KeepsKey ==
  ASSUME TInv, NEW p \in Proc, Step(p), ~ByMember(p), ~ByPro(p)
  PROVE  /\ act'[p].req = act[p].req /\ act'[p].user = act[p].user
         /\ pc'[p] \notin ByName
<1>1. act[p] \in Locals
  BY DEF TInv, Typed, ProcTypeOK
<1>2. ASSUME NEW b, act' = [act EXCEPT ![p] = b], b.req = act[p].req, b.user = act[p].user
      PROVE  act'[p].req = act[p].req /\ act'[p].user = act[p].user
  BY <1>2 DEF TInv, Typed, ProcTypeOK
<1>3. ASSUME NEW id, NEW role, Identified(p, id, role)
      PROVE  act'[p].req = act[p].req /\ act'[p].user = act[p].user
  <2>. DEFINE b == [act[p] EXCEPT !.id = id, !.role = role]
  <2>1. b.req = act[p].req /\ b.user = act[p].user
    BY <1>1 DEF Locals
  <2>2. act' = [act EXCEPT ![p] = b]
    BY <1>3 DEF Identified
  <2>. QED
    BY <1>2, <2>1, <2>2
<1>4. act'[p].req = act[p].req /\ act'[p].user = act[p].user
  <2>1. CASE VerifyRoot(p) \/ Verify(p)
    BY <1>3, <2>1 DEF VerifyRoot, Verify
  <2>2. CASE GetDestRole(p)
    <3>. DEFINE b == [act[p] EXCEPT !.dest_role = UserRole(act[p].user)]
    <3>1. b.req = act[p].req /\ b.user = act[p].user
      BY <1>1 DEF Locals
    <3>2. act' = [act EXCEPT ![p] = b] \/ UNCHANGED act
      BY <2>2 DEF GetDestRole
    <3>. QED
      BY <1>2, <3>1, <3>2
  <2>3. CASE SendMsg(p) \/ ScanOfRm(p)
    <3>. DEFINE b == [act[p] EXCEPT !.begun = now]
    <3>1. b.req = act[p].req /\ b.user = act[p].user
      BY <1>1 DEF Locals
    <3>2. act' = [act EXCEPT ![p] = b] \/ UNCHANGED act
      BY <2>3 DEF SendMsg, ScanOfRm
    <3>. QED
      BY <1>2, <3>1, <3>2
  <2>4. CASE InsertOfSend(p)
    <3>. DEFINE b == [act[p] EXCEPT !.stored = nextId]
    <3>1. b.req = act[p].req /\ b.user = act[p].user
      BY <1>1 DEF Locals
    <3>2. act' = [act EXCEPT ![p] = b] \/ UNCHANGED act
      BY <2>4 DEF InsertOfSend
    <3>. QED
      BY <1>2, <3>1, <3>2
  <2>. QED
    BY <2>1, <2>2, <2>3, <2>4
       DEF Step, ByEmail, VerifyRootNoPassword, GetUser, GetInbox, CheckContacted, AssertOfRm,
           UpdateOfRm, CommandFails
<1>5. pc'[p] \notin ByName
  <2>1. ASSUME NEW label, Goto(p, label), label \notin ByName
        PROVE  pc'[p] \notin ByName
    BY <2>1, GotoAt
  <2>2. ASSUME NEW id, NEW role, Identified(p, id, role)
        PROVE  pc'[p] \notin ByName
    BY <2>1, <2>2 DEF Identified, Fail, Succeed, NextCommand, ByName
  <2>3. CASE VerifyRoot(p) \/ VerifyRootNoPassword(p) \/ Verify(p)
    BY <2>1, <2>2, <2>3 DEF VerifyRoot, VerifyRootNoPassword, Verify, Fail, Exit, ByName
  <2>4. CASE ByEmail(p) \/ GetUser(p) \/ GetInbox(p) \/ UpdateOfRm(p) \/ CommandFails(p)
    BY <2>1, <2>4 DEF ByEmail, GetUser, GetInbox, UpdateOfRm, CommandFails, Fail, Succeed, ByName
  <2>5. CASE GetDestRole(p)
    <3>1. Goto(p, "idle") \/ Goto(p, "count") \/ Goto(p, "send_msg")
      BY <2>5 DEF GetDestRole, Fail
    <3>. QED
      BY <2>1, <3>1 DEF ByName
  <2>6. CASE CheckContacted(p) \/ SendMsg(p) \/ InsertOfSend(p)
    BY <2>1, <2>6 DEF CheckContacted, SendMsg, InsertOfSend, Fail, Succeed, Exit, ByName
  <2>7. CASE ScanOfRm(p) \/ AssertOfRm(p)
    BY <2>1, <2>7 DEF ScanOfRm, AssertOfRm, Fail, ByName
  <2>. QED
    BY <2>3, <2>4, <2>5, <2>6, <2>7 DEF Step
<1>. QED
  BY <1>4, <1>5

LEMMA StepClear ==
  ASSUME TInv, Unnamed, NEW p \in Proc, (\E r \in Requests : Parse(p, r)) \/ Step(p)
  PROVE  Clear(pc'[p], act'[p])
<1>1. ASSUME NEW r \in Requests, Parse(p, r)
      PROVE  Clear(pc'[p], act'[p])
  <2>1. act'[p] = Start(r) /\ pc[p] = "idle"
    BY <1>1 DEF Parse, At, TInv, Typed, ProcTypeOK
  <2>2. UNCHANGED pc \/ Goto(p, "idle") \/ Goto(p, FirstCommand(r))
    BY <1>1 DEF Parse, Fail
  <2>3. pc'[p] = "idle" \/ pc'[p] = FirstCommand(r)
    BY <2>1, <2>2, GotoAt
  <2>4. act'[p].req = r /\ (r.user.by = "name" => act'[p].user = 0)
    BY <2>1 DEF Start
  <2>5. r.user.by \in {"id", "name", "email"}
    BY EvaluateAssumption DEF Request, UserKey
  <2>. QED
    BY <2>3, <2>4, <2>5 DEF Clear, FirstCommand, ByName
<1>2. ASSUME NEW u, Resolved(p, u)
      PROVE  Clear(pc'[p], act'[p])
  BY <1>2, GotoAt DEF Resolved, Clear, ByName
<1>3. CASE ByMember(p)
  <2>1. ASSUME Goto(p, "by_pro"), UNCHANGED act
        PROVE  Clear(pc'[p], act'[p])
    BY <1>3, <2>1 DEF ByMember, Query, Unnamed, Clear, ByName
  <2>. QED
    BY <1>2, <1>3, <2>1 DEF ByMember
<1>4. CASE ByPro(p)
  <2>1. ASSUME Goto(p, "idle")
        PROVE  Clear(pc'[p], act'[p])
    BY <2>1, GotoAt DEF Clear, ByName
  <2>. QED
    BY <1>2, <1>4, <2>1 DEF ByPro
<1>5. ASSUME Step(p), ~ByMember(p), ~ByPro(p)
      PROVE  Clear(pc'[p], act'[p])
  BY <1>5, KeepsKey DEF Clear
<1>. QED
  BY <1>1, <1>3, <1>4, <1>5

LEMMA UnnamedNext == TInv /\ Unnamed /\ [Next]_vars => Unnamed'
<1> SUFFICES ASSUME TInv, Unnamed, [Next]_vars, NEW q \in Proc PROVE Clear(pc'[q], act'[q])
  BY DEF Unnamed, Clear
<1>1. ASSUME NEW p \in Proc, (\E r \in Requests : Parse(p, r)) \/ Step(p)
      PROVE  Clear(pc'[q], act'[q])
  BY <1>1, StepClear, Others DEF Unnamed
<1>2. CASE UNCHANGED <<pc, act>>
  BY <1>2 DEF Unnamed
<1>. QED
  BY <1>1, <1>2 DEF Next, LoseConnection, Platform, procVars, vars

LEMMA UnnamedInit == Init => Unnamed
BY DEF Init, Unnamed, Clear, ByName

LEMMA UnnamedInv == Spec => []Unnamed
BY TypingInv, UnnamedInit, UnnamedNext, PTL DEF Spec

-----------------------------------------------------------------------------
(* The mapping *)

\* A step of p changes p's part of the mapped state only.
LEMMA MapOf ==
  ASSUME NEW p \in Proc, Frame(p)
  PROVE  /\ [q \in Proc |-> Phase(q)]' = [[q \in Proc |-> Phase(q)] EXCEPT ![p] = Phase(p)']
         /\ [q \in Proc |-> act[q].req]' = [[q \in Proc |-> act[q].req] EXCEPT ![p] = act'[p].req]
         /\ [q \in Proc |-> act[q].user]' = [[q \in Proc |-> act[q].user] EXCEPT ![p] = act'[p].user]
         /\ [q \in Proc |-> AnswerOf(q)]' = [[q \in Proc |-> AnswerOf(q)] EXCEPT ![p] = AnswerOf(p)']
<1>1. \A q \in Proc \ {p} :
        /\ Phase(q)' = Phase(q) /\ act'[q].req = act[q].req /\ act'[q].user = act[q].user
        /\ AnswerOf(q)' = AnswerOf(q)
  BY DEF Frame, Phase, AnswerOf
<1>. QED
  BY <1>1

\* The step that ends p's action answers for it.
LEMMA Answering ==
  ASSUME NEW p \in Proc, Frame(p), pc[p] \notin {"idle", "exited"}, pc'[p] = "idle",
         Keeps(p), rep'[p].type # "none"
  PROVE  Service!Answer(p, OutcomeOf(StatusOf(rep'[p])),
                        IF rep'[p].type = "send" THEN rep'[p].word ELSE 0, rep'[p].page)
<1>1. Phase(p) \in {"asked", "admitted"} /\ Phase(p)' = "ready"
  BY DEF Phase
<1>2. AnswerOf(p)' = [outcome |-> OutcomeOf(StatusOf(rep'[p])),
                      id |-> IF rep'[p].type = "send" THEN rep'[p].word ELSE 0,
                      page |-> rep'[p].page]
  BY DEF AnswerOf
<1>3. /\ [q \in Proc |-> act[q].req]' = [q \in Proc |-> act[q].req]
      /\ [q \in Proc |-> act[q].user]' = [q \in Proc |-> act[q].user]
  BY DEF Frame, Keeps
<1>. HIDE DEF Phase, AnswerOf
<1>. QED
  BY <1>1, <1>2, <1>3, MapOf DEF Service!Answer

\* The macro fail.
LEMMA Failing ==
  ASSUME TInv, NEW p \in Proc, Frame(p), pc[p] \notin {"idle", "exited"},
         Keeps(p), NEW status, Fail(p, status)
  PROVE  Service!Answer(p, OutcomeOf(status), 0, {})
<1>1. rep'[p] = [type |-> "error", word |-> type_other, info |-> status, page |-> {}] /\ pc'[p] = "idle"
  BY GotoAt DEF Fail, TInv, Typed, ProcTypeOK
<1>2. /\ rep'[p].type = "error" /\ rep'[p].page = {}
      /\ StatusOf(rep'[p]) = status
  BY <1>1 DEF StatusOf, type_other
<1>. QED
  BY <1>1, <1>2, Answering

\* The outcomes of fail.
LEMMA Outcomes ==
  /\ OutcomeOf(unauthorized) = "unauthorized" /\ OutcomeOf(forbidden) = "forbidden"
  /\ OutcomeOf(not_found) = "not_found" /\ OutcomeOf(payload_too_large) = "too_long"
  /\ OutcomeOf(internal_error) = "unclear" /\ OutcomeOf(Success) = "done"
BY DEF OutcomeOf, Success, unauthorized, forbidden, not_found, payload_too_large, internal_error

\* errno_exit.
LEMMA Vanishing ==
  ASSUME TInv, NEW p \in Proc, Frame(p), pc[p] \notin {"idle", "exited"},
         Keeps(p), Exit(p)
  PROVE  Service!Vanish(p)
<1>1. pc'[p] = "exited"
  BY GotoAt DEF Exit
<1>2. Phase(p) \in {"asked", "admitted"} /\ Phase(p)' = "gone" /\ AnswerOf(p)' = AnswerOf(p)
  BY <1>1 DEF Phase, AnswerOf
<1>3. /\ [q \in Proc |-> act[q].req]' = [q \in Proc |-> act[q].req]
      /\ [q \in Proc |-> act[q].user]' = [q \in Proc |-> act[q].user]
  BY DEF Frame, Keeps
<1>4. [q \in Proc |-> AnswerOf(q)]' = [q \in Proc |-> AnswerOf(q)]
  BY <1>2 DEF Frame, AnswerOf
<1>. HIDE DEF Phase, AnswerOf
<1>. QED
  BY <1>2, <1>3, <1>4, MapOf DEF Service!Vanish

\* What the store shows when it is left alone.
LEMMA SamePlatform ==
  ASSUME UNCHANGED <<users, names, blocks, bans, now>>
  PROVE  UNCHANGED Service!platform
BY DEF Service!platform, Barred, Refuses

LEMMA SameStore ==
  ASSUME UNCHANGED storeVars
  PROVE  UNCHANGED Service!store
<1>1. Box' = Box
  BY DEF storeVars, Box, Visible
<1>. QED
  BY <1>1, SamePlatform DEF storeVars, Service!store

\* A command that leaves the phase as it is changes nothing of the service.
LEMMA Hidden ==
  ASSUME TInv, NEW p \in Proc, Frame(p), pc[p] \notin {"idle", "exited"},
         pc'[p] \notin {"idle", "exited"}, Keeps(p), Phase(p)' = Phase(p),
         UNCHANGED storeVars
  PROVE  UNCHANGED Service!state
<1>1. AnswerOf(p)' = AnswerOf(p)
  BY DEF AnswerOf
<1>2. \A q \in Proc \ {p} :
        /\ Phase(q)' = Phase(q) /\ act'[q].req = act[q].req /\ act'[q].user = act[q].user
        /\ AnswerOf(q)' = AnswerOf(q)
  BY DEF Frame, Phase, AnswerOf
<1>3. UNCHANGED Service!store
  BY SameStore
<1>. HIDE DEF Phase, AnswerOf
<1>. QED
  BY <1>1, <1>2, <1>3 DEF Keeps, Service!state

\* A success answers done.
LEMMA Done ==
  ASSUME TInv, NEW p \in Proc, Frame(p), pc[p] \notin {"idle", "exited"},
         Keeps(p), NEW word, NEW page, Succeed(p, word, page),
         rep[p].type \in Actions
  PROVE  Service!Answer(p, "done", IF rep[p].type = "send" THEN word ELSE 0, page)
<1>1. /\ pc'[p] = "idle" /\ rep'[p].type = rep[p].type /\ rep'[p].word = word
      /\ rep'[p].page = page
  BY SucceedAt, SucceedPage
<1>2. rep'[p].type \notin {"none", "error"}
  BY <1>1 DEF Actions, Stubs
<1>3. StatusOf(rep'[p]) = Success
  BY <1>2 DEF StatusOf
<1>. QED
  BY <1>1, <1>2, <1>3, Answering, Outcomes

-----------------------------------------------------------------------------
(* The steps before a caller is admitted *)

LEMMA ParseImplements ==
  ASSUME TInv, NEW p \in Proc, NEW r \in Requests, Parse(p, r)
  PROVE  Service!Ask(p)
<1>1. Frame(p) /\ pc[p] = "idle" /\ UNCHANGED storeVars
  BY Others DEF Frame, Parse, At
<1>2. act'[p].req = r /\ act'[p].user = IF r.user.by = "id" THEN r.user.val ELSE 0
  <2>1. act'[p] = Start(r)
    BY DEF Parse, TInv, Typed, ProcTypeOK
  <2>. QED
    BY <2>1 DEF Start
<1>3. Phase(p) = "ready"
  BY <1>1 DEF Phase
<1>4. ASSUME NEW word, NEW info, pc'[p] = "idle",
             rep'[p] = [type |-> "error", word |-> word, info |-> info, page |-> {}],
             word = type_invalid \/ (word = type_other /\ info = internal_error)
      PROVE  Service!Ask(p)
  <2>1. Phase(p)' = "ready"
    BY <1>4 DEF Phase
  <2>2. OutcomeOf(StatusOf(rep'[p])) = "unclear"
    BY <1>4 DEF StatusOf, OutcomeOf, type_invalid, type_other, bad_request, internal_error, Success,
                unauthorized, forbidden, not_found, payload_too_large
  <2>3. AnswerOf(p)' = [outcome |-> "unclear", id |-> 0, page |-> {}]
    BY <1>4, <2>2 DEF AnswerOf
  <2>. HIDE DEF Phase, AnswerOf
  <2>4. [q \in Proc |-> Phase(q)]' = [q \in Proc |-> Phase(q)]
    BY <1>1, <1>3, <2>1, MapOf
  <2>. QED
    BY <1>1, <1>2, <1>3, <2>3, <2>4, MapOf, SameStore DEF Service!Ask, Service!NoAnswer
<1>5. CASE Goto(p, FirstCommand(r))
  <2>1. pc'[p] \in {"verify", "by_email", "by_member"}
    BY <1>5, GotoAt DEF FirstCommand
  <2>2. Phase(p)' = "asked" /\ AnswerOf(p)' = Service!NoAnswer
    BY <2>1 DEF Phase, AnswerOf, Service!NoAnswer
  <2>. HIDE DEF Phase, AnswerOf
  <2>. QED
    BY <1>1, <1>2, <1>3, <2>2, MapOf, SameStore DEF Service!Ask
<1>6. CASE Fail(p, internal_error)
  <2>1. rep'[p] = [type |-> "error", word |-> type_other, info |-> internal_error, page |-> {}]
        /\ pc'[p] = "idle"
    BY <1>6, GotoAt DEF Fail, TInv, Typed, ProcTypeOK
  <2>. QED
    BY <1>4, <2>1
<1>7. CASE rep' = [rep EXCEPT ![p] = [type |-> "error", word |-> type_invalid, info |-> 0, page |-> {}]]
           /\ UNCHANGED pc
  <2>1. rep'[p] = [type |-> "error", word |-> type_invalid, info |-> 0, page |-> {}]
        /\ pc'[p] = "idle"
    BY <1>1, <1>7 DEF TInv, Typed, ProcTypeOK
  <2>. QED
    BY <1>4, <2>1
<1>. QED
  BY <1>5, <1>6, <1>7 DEF Parse

\* A failure that is no refusal.
LEMMA UnclearImplements ==
  ASSUME TInv, NEW p \in Proc, Frame(p), pc[p] \notin {"idle", "exited"},
         Keeps(p), Fail(p, internal_error) \/ Exit(p), UNCHANGED storeVars
  PROVE  Service!Fail(p)
<1>1. Service!Answer(p, "unclear", 0, {}) \/ Service!Vanish(p)
  BY Failing, Vanishing, Outcomes
<1>. QED
  BY <1>1, SameStore DEF Service!Fail, Service!store

\* A name is settled by the search that finds it; going on from the members
\* to the pros is not seen.
LEMMA ByNameImplements ==
  ASSUME TInv, Unnamed, NEW p \in Proc, ByMember(p) \/ ByPro(p) \/ ByEmail(p)
  PROVE  Service!Settle(p) \/ Service!Fail(p) \/ UNCHANGED Service!state
<1>1. /\ Frame(p) /\ pc[p] \in {"by_member", "by_pro", "by_email"} /\ UNCHANGED storeVars
      /\ act[p] \in Locals
  BY Others DEF Frame, Step, ByMember, ByPro, ByEmail, At, Query, TInv, Typed, ProcTypeOK
<1>2. ASSUME Goto(p, "by_pro"), UNCHANGED act
      PROVE  UNCHANGED Service!state
  <2>1. pc'[p] = "by_pro" /\ Keeps(p)
    BY <1>2, GotoAt DEF Keeps
  <2>2. Phase(p)' = "asked" /\ Phase(p) = "asked"
    BY <1>1, <2>1 DEF Phase
  <2>. HIDE DEF Phase
  <2>. QED
    BY <1>1, <2>1, <2>2, Hidden
<1>3. ASSUME NEW u \in users \cap (Member \cup Pro), names[u] = act[p].req.user.val,
             pc[p] \in ByName, Resolved(p, u)
      PROVE  Service!Settle(p)
  <2>1. act' = [act EXCEPT ![p] = [act[p] EXCEPT !.user = u]] /\ UNCHANGED rep
    BY <1>3 DEF Resolved
  <2>2. act'[p] = [act[p] EXCEPT !.user = u]
    BY <2>1 DEF TInv, Typed, ProcTypeOK
  <2>3. act'[p].req = act[p].req /\ act'[p].user = u
    BY <1>1, <2>2 DEF Locals
  <2>4. pc'[p] = "verify"
    BY <1>3, GotoAt DEF Resolved
  <2>5. /\ Phase(p) = "asked" /\ Phase(p)' = "asked" /\ AnswerOf(p)' = AnswerOf(p)
    BY <1>1, <2>1, <2>4 DEF Phase, AnswerOf
  <2>6. act[p].req.user.by = "name" /\ act[p].user = 0
    BY <1>3 DEF Unnamed, Clear
  <2>7. Service!Called([q \in Proc |-> act[q].req][p], u)
    BY <1>3, <2>6 DEF Service!Called
  <2>. HIDE DEF Phase, AnswerOf
  <2>8. /\ [q \in Proc |-> Phase(q)]' = [q \in Proc |-> Phase(q)]
        /\ [q \in Proc |-> act[q].req]' = [q \in Proc |-> act[q].req]
        /\ [q \in Proc |-> AnswerOf(q)]' = [q \in Proc |-> AnswerOf(q)]
    BY <1>1, <2>3, <2>5, MapOf
  <2>9. [q \in Proc |-> act[q].user]' = [[q \in Proc |-> act[q].user] EXCEPT ![p] = u]
    BY <1>1, <2>3, MapOf
  <2>10. [q \in Proc |-> Phase(q)][p] = "asked" /\ [q \in Proc |-> act[q].user][p] = 0
    BY <2>5, <2>6
  <2>. QED
    BY <1>1, <1>3, <2>7, <2>8, <2>9, <2>10, SameStore DEF Service!Settle
<1>4. ASSUME Goto(p, "idle"), UNCHANGED act,
             rep' = [rep EXCEPT ![p] = [type |-> "error", word |-> type_invalid, info |-> 0, page |-> {}]]
      PROVE  Service!Fail(p)
  <2>1. /\ rep'[p].type = "error" /\ rep'[p].page = {} /\ pc'[p] = "idle"
        /\ rep'[p].word = type_invalid
    BY <1>4, GotoAt DEF TInv, Typed, ProcTypeOK
  <2>2. OutcomeOf(StatusOf(rep'[p])) = "unclear"
    BY <2>1 DEF StatusOf, OutcomeOf, type_invalid, type_other, bad_request, Success, unauthorized,
                forbidden, not_found, payload_too_large
  <2>3. Service!Answer(p, "unclear", 0, {})
    BY <1>1, <1>4, <2>1, <2>2, Answering DEF Keeps
  <2>. QED
    BY <1>1, <2>3, SameStore DEF Service!Fail, Service!store
<1>5. CASE ByMember(p)
  BY <1>2, <1>3, <1>5 DEF ByMember, Query, ByName
<1>6. CASE ByPro(p)
  BY <1>3, <1>4, <1>6 DEF ByPro, Query, ByName
<1>7. CASE ByEmail(p)
  BY <1>1, <1>7, UnclearImplements DEF ByEmail, Keeps
<1>. QED
  BY <1>5, <1>6, <1>7

\* check_role, for a caller who gave the key and the password: a stub is
\* acknowledged, another action is let in, or the role is not enough.
LEMMA IdentifiedImplements ==
  ASSUME TInv, Control, NEW p \in Proc, Frame(p), pc[p] = "verify", NEW id, NEW role,
         Identified(p, id, role), Keeps(p), UNCHANGED storeVars,
         Service!Admissible(act[p].req),
         role \in Role, role \notin {role_admin, role_pro} => act[p].req.key \in Member
  PROVE  Service!Refuse(p) \/ Service!Acknowledge(p) \/ Service!Admit(p)
<1>. DEFINE r == act[p].req
<1>1. [q \in Proc |-> act[q].req][p] = r /\ [q \in Proc |-> Phase(q)][p] = "asked"
  BY DEF Phase
<1>2. Service!Trusted(p)
  BY <1>1 DEF Service!Trusted
<1>3. rep[p].type = r.do /\ r.do \in Actions
  BY DEF Control, Ctl, Underway, Sending
<1>4. UNCHANGED Service!store
  BY SameStore
<1>5. CASE role \notin AllowedRoles(r.do) /\ Fail(p, forbidden)
  <2>1. Service!Answer(p, "forbidden", 0, {})
    BY <1>5, Failing, Outcomes
  <2>2. r.do \in Service!OfProsOnly /\ r.key \in Member
    BY <1>5 DEF AllowedRoles, Service!OfProsOnly
  <2>. QED
    BY <1>1, <1>2, <1>4, <2>1, <2>2 DEF Service!Refuse
<1>6. CASE r.do \in Stubs /\ Succeed(p, 0, {})
  <2>1. r.do \notin {"send", "rm", "inbox", "whois"}
    BY <1>6 DEF Stubs
  <2>2. Service!Answer(p, "done", 0, {})
    BY <1>3, <1>6, <2>1, Done
  <2>. QED
    BY <1>1, <1>2, <1>4, <2>1, <2>2 DEF Service!Acknowledge
<1>7. CASE Goto(p, NextCommand(r.do)) /\ UNCHANGED rep
  <2>1. pc'[p] \in {"get_user", "dest_role", "inbox", "rm_scan"}
    BY <1>7, GotoAt DEF NextCommand
  <2>2. Phase(p)' = "admitted" /\ AnswerOf(p)' = AnswerOf(p)
    BY <2>1 DEF Phase, AnswerOf
  <2>3. /\ [q \in Proc |-> act[q].req]' = [q \in Proc |-> act[q].req]
        /\ [q \in Proc |-> act[q].user]' = [q \in Proc |-> act[q].user]
    BY DEF Frame, Keeps
  <2>4. [q \in Proc |-> AnswerOf(q)]' = [q \in Proc |-> AnswerOf(q)]
    BY <2>2 DEF Frame, AnswerOf
  <2>. HIDE DEF Phase, AnswerOf
  <2>. QED
    BY <1>1, <1>4, <2>2, <2>3, <2>4, MapOf DEF Service!Admit
<1>. QED
  BY <1>5, <1>6, <1>7 DEF Identified

\* db_verify_user_constr.
LEMMA VerifyImplements ==
  ASSUME TInv, Control, NEW p \in Proc, VerifyRoot(p) \/ VerifyRootNoPassword(p) \/ Verify(p)
  PROVE  \/ Service!Refuse(p) \/ Service!Acknowledge(p) \/ Service!Admit(p)
         \/ Service!Fail(p)
<1>. DEFINE r == act[p].req
<1>1. /\ Frame(p) /\ pc[p] = "verify" /\ UNCHANGED storeVars
      /\ Keeps(p)
  BY Others, KeepsKey
     DEF Frame, Keeps, Step, VerifyRoot, VerifyRootNoPassword, Verify, At, Query, ByMember, ByPro
<1>2. /\ [q \in Proc |-> act[q].req][p] = r /\ [q \in Proc |-> Phase(q)][p] = "asked"
  BY <1>1 DEF Phase
<1>3. Service!Root = 0 /\ Root = 0
  BY DEF Service!Root, Root
<1>4. CASE VerifyRoot(p)
  <2>1. Service!Admissible(r) /\ role_admin \in Role /\ Identified(p, Root, role_admin)
    BY <1>3, <1>4 DEF VerifyRoot, Service!Admissible, Service!Proven, Role
  <2>. QED
    BY <1>1, <2>1, IdentifiedImplements
<1>5. CASE VerifyRootNoPassword(p)
  BY <1>1, <1>5, UnclearImplements DEF VerifyRootNoPassword
<1>6. CASE Verify(p)
  <2>1. ASSUME Fail(p, unauthorized), ~Service!Entitled(r)
        PROVE  Service!Refuse(p)
    BY <1>1, <1>2, <2>1, Failing, Outcomes, SameStore DEF Service!Refuse
  <2>2. ASSUME r.key \in users, ValidRole(UserRole(r.key)), PasswordAccepted(r.key, r.pw),
               Identified(p, r.key, UserRole(r.key))
        PROVE  Service!Refuse(p) \/ Service!Acknowledge(p) \/ Service!Admit(p)
    <3>1. Service!Admissible(r)
      BY <2>2 DEF Service!Admissible, Service!Proven, PasswordAccepted
    <3>2. UserRole(r.key) \in Role
      BY <2>2 DEF ValidRole
    <3>3. UserRole(r.key) \notin {role_admin, role_pro} => r.key \in Member
      <4>1. r.key \in User
        BY <2>2 DEF TInv, Typed, StoreTypeOK
      <4>. QED
        BY <3>2, <4>1 DEF UserRole, User, Role, role_admin, role_member, role_pro
    <3>. QED
      BY <1>1, <2>2, <3>1, <3>2, <3>3, IdentifiedImplements
  <2>3. /\ r.key \notin users /\ (r.key # Root \/ r.pw # "right") => ~Service!Entitled(r)
        /\ PasswordRefused(r.key, r.pw) /\ (r.key # Root \/ r.pw # "right") => ~Service!Entitled(r)
    BY <1>3 DEF Service!Entitled, Service!Admissible, Service!Proven, PasswordRefused
  <2>. QED
    BY <1>1, <1>6, <2>1, <2>2, <2>3, UnclearImplements DEF Verify
<1>. QED
  BY <1>4, <1>5, <1>6

-----------------------------------------------------------------------------
(* The steps of an admitted caller *)

\* What the service knows of an action past verify.
LEMMA Admitted ==
  ASSUME TInv, NEW p \in Proc, pc[p] \notin Unresolved \cup {"verify"}
  PROVE  /\ [q \in Proc |-> act[q].req][p] = act[p].req
         /\ [q \in Proc |-> act[q].user][p] = act[p].user
         /\ Phase(p) = "admitted" /\ Service!Trusted(p)
         /\ act[p] \in Locals
<1>1. Phase(p) = "admitted"
  BY DEF Phase, Unresolved, ByName
<1>. QED
  BY <1>1 DEF Service!Trusted, TInv, Typed, ProcTypeOK

\* A user that was asked for is not there.
LEMMA MissingImplements ==
  ASSUME TInv, NEW p \in Proc, Frame(p), pc[p] \notin Unresolved \cup {"verify"},
         Keeps(p), UNCHANGED storeVars, Fail(p, not_found),
         act[p].user \notin users, act[p].req.do \in {"whois", "send"}
  PROVE  Service!Refuse(p)
<1>1. Service!Answer(p, "not_found", 0, {})
  BY Failing, Outcomes DEF Unresolved
<1>. QED
  BY <1>1, Admitted, SameStore DEF Service!Refuse

LEMMA ReadImplements ==
  ASSUME TInv, Control, Rows, NEW p \in Proc, GetUser(p) \/ GetInbox(p)
  PROVE  Service!Refuse(p) \/ Service!Fail(p) \/ Service!Whois(p) \/ Service!Read(p)
<1>. DEFINE a == act[p]
<1>1. /\ Frame(p) /\ Keeps(p) /\ UNCHANGED <<storeVars, act>> /\ pc[p] \in {"get_user", "inbox"}
      /\ pc[p] \notin Unresolved \cup {"verify"} /\ pc[p] \notin {"idle", "exited"}
  BY Others DEF Frame, Keeps, Step, GetUser, GetInbox, Query, Unresolved, ByName
<1>2. /\ a.req.do = rep[p].type /\ a.req.do \in Actions /\ a.id = a.req.key
      /\ pc[p] = "get_user" => a.req.do = "whois"
      /\ pc[p] = "inbox" => a.req.do = "inbox"
  BY <1>1 DEF Control, Ctl, Underway, Sending, Known
<1>3. CASE GetUser(p)
  <2>1. a.req.do = "whois"
    BY <1>2, <1>3 DEF GetUser, Query
  <2>2. ASSUME Succeed(p, 0, {}), a.user \in users
        PROVE  Service!Whois(p)
    <3>1. Service!Answer(p, "done", 0, {})
      BY <1>1, <1>2, <2>1, <2>2, Done
    <3>. QED
      BY <1>1, <2>1, <2>2, <3>1, Admitted, SameStore DEF Service!Whois
  <2>3. ASSUME Fail(p, not_found), a.user \notin users
        PROVE  Service!Refuse(p)
    BY <1>1, <2>1, <2>3, MissingImplements
  <2>. QED
    BY <1>1, <1>3, <2>2, <2>3, UnclearImplements DEF GetUser
<1>4. CASE GetInbox(p)
  <2>. DEFINE offset == Wrap(PageInbox * (a.req.arg - 1))
              page == {m.id : m \in PageRows(a.id, PageInbox, offset)}
              own == {m.id : m \in {n \in Box : n.recipient = a.req.key}}
  <2>1. a.req.do = "inbox"
    BY <1>2, <1>4 DEF GetInbox, Query
  <2>2. ASSUME offset >= 0, Succeed(p, 0, page)
        PROVE  Service!Read(p)
    <3>1. offset \in Nat /\ PageInbox \in Nat
      <4>1. a \in Locals
        BY DEF TInv, Typed, ProcTypeOK
      <4>. QED
        BY <2>2, <4>1, OffsetType
    <3>2. Cardinality(page) <= PageInbox
      BY <3>1, PageBound
    <3>3. page \subseteq own
      <4>1. ASSUME NEW m \in PageRows(a.id, PageInbox, offset)
            PROVE  m.id \in own
        <5>. DEFINE n == [id |-> m.id, sender |-> m.sender, recipient |-> m.recipient]
        <5>1. m \in Visible /\ m.recipient = a.req.key
          BY <1>2, <4>1 DEF PageRows
        <5>2. n \in Box /\ n.id = m.id /\ n.recipient = a.req.key
          BY <5>1 DEF Box
        <5>. QED
          BY <5>2
      <4>. QED
        BY <4>1
    <3>4. Service!Answer(p, "done", 0, page)
      BY <1>1, <1>2, <2>1, <2>2, Done
    <3>. HIDE DEF page
    <3>5. /\ [q \in Proc |-> act[q].req][p] = a.req /\ Service!Trusted(p)
          /\ [q \in Proc |-> act[q].req][p].do = "inbox"
      BY <1>1, <2>1, Admitted
    <3>6. page \in SUBSET {m.id : m \in {n \in Box : n.recipient = [q \in Proc |-> act[q].req][p].key}}
      BY <3>3, <3>5
    <3>7. UNCHANGED Service!store
      BY <1>1, SameStore
    <3>. HIDE DEF own
    <3>8. Service!Cardinality(page) <= PageInbox
      BY <3>2 DEF Service!Cardinality, Service!IsFiniteSet, Cardinality, IsFiniteSet
    <3>. QED
      BY <3>4, <3>5, <3>6, <3>7, <3>8, Zenon DEF Service!Read
  <2>. QED
    BY <1>1, <1>4, <2>2, UnclearImplements DEF GetInbox
<1>. QED
  BY <1>3, <1>4

\* send up to its insert: refused, failed, or nothing to be seen yet.
LEMMA BeforeInsertImplements ==
  ASSUME TInv, Control, NEW p \in Proc, GetDestRole(p) \/ CheckContacted(p) \/ SendMsg(p)
  PROVE  Service!Refuse(p) \/ Service!Fail(p) \/ UNCHANGED Service!state
<1>. DEFINE a == act[p]
<1>1. /\ Frame(p) /\ UNCHANGED storeVars /\ pc[p] \in {"dest_role", "count", "send_msg"}
      /\ pc[p] \notin Unresolved \cup {"verify"} /\ pc[p] \notin {"idle", "exited"}
      /\ Keeps(p)
  BY Others, KeepsKey
     DEF Frame, Keeps, Step, GetDestRole, CheckContacted, SendMsg, At, Query, Unresolved, ByName, ByMember, ByPro
<1>2. a.req.do = "send" /\ (pc[p] = "send_msg" => a.id = a.req.key)
  BY <1>1 DEF Control, Ctl, Underway, Sending, Known
<1>3. ASSUME NEW label \in Sending, Goto(p, label)
      PROVE  UNCHANGED Service!state
  <2>1. pc'[p] = label
    BY <1>3, GotoAt
  <2>2. Phase(p)' = "admitted" /\ Phase(p) = "admitted"
    BY <1>1, <1>3, <2>1 DEF Phase, Sending
  <2>3. label \notin {"idle", "exited"}
    BY <1>3 DEF Sending
  <2>. HIDE DEF Phase
  <2>. QED
    BY <1>1, <2>1, <2>2, <2>3, Hidden
<1>4. ASSUME Fail(p, payload_too_large), a.req.long
      PROVE  Service!Refuse(p)
  <2>1. Service!Answer(p, "too_long", 0, {})
    BY <1>1, <1>4, Failing, Outcomes
  <2>. QED
    BY <1>1, <1>2, <1>4, <2>1, Admitted, SameStore DEF Service!Refuse
<1>5. ASSUME Fail(p, forbidden), pc[p] = "send_msg", Refuses(a.id, a.user)
      PROVE  Service!Refuse(p)
  <2>1. Service!Answer(p, "forbidden", 0, {})
    BY <1>1, <1>5, Failing, Outcomes
  <2>2. <<a.req.key, a.user>> \in Barred
    <3>1. a.id \in User \cup {Root} /\ a.user \in 0..IntMax
      BY DEF TInv, Typed, ProcTypeOK, Locals
    <3>. QED
      BY <1>2, <1>5, <3>1 DEF Barred
  <2>. QED
    BY <1>1, <1>2, <2>1, <2>2, Admitted, SameStore DEF Service!Refuse
<1>6. CASE GetDestRole(p)
  <2>1. Goto(p, IF a.role = role_pro /\ UserRole(a.user) = role_member THEN "count" ELSE "send_msg")
          => UNCHANGED Service!state
    BY <1>3 DEF Sending
  <2>. QED
    BY <1>1, <1>2, <1>4, <1>6, <2>1, MissingImplements, UnclearImplements DEF GetDestRole
<1>7. CASE CheckContacted(p)
  BY <1>3, <1>7 DEF CheckContacted, Sending
<1>8. CASE SendMsg(p)
  BY <1>3, <1>5, <1>8 DEF SendMsg, Query, Sending
<1>. QED
  BY <1>6, <1>7, <1>8

\* The insert of send is where its message appears.
LEMMA InsertImplements ==
  ASSUME TInv, Control, NEW p \in Proc, InsertOfSend(p)
  PROVE  Service!Send(p) \/ Service!Fail(p)
<1>. DEFINE a == act[p]
            n == [id |-> nextId, sender |-> a.id, recipient |-> a.user,
                  sentAt |-> a.begun, deletedAge |-> Null]
<1>1. /\ Frame(p) /\ pc[p] = "insert_msg" /\ Keeps(p)
      /\ pc[p] \notin Unresolved \cup {"verify"} /\ pc[p] \notin {"idle", "exited"}
      /\ nextId \in Nat \ {0}
  <2>1. pc[p] = "insert_msg" /\ Step(p) /\ ~ByMember(p) /\ ~ByPro(p)
    BY DEF Step, InsertOfSend, Query, ByMember, ByPro
  <2>2. Frame(p) /\ Keeps(p)
    BY <2>1, Others, KeepsKey DEF Frame, Keeps
  <2>3. nextId \in Nat \ {0}
    BY StoreAssumption DEF TInv, Typed, StoreTypeOK
  <2>. QED
    BY <2>1, <2>2, <2>3 DEF Unresolved, ByName
<1>2. /\ a.req.do = "send" /\ a.id = a.req.key /\ ~a.req.long
      /\ \/ rep[p].type = "send" /\ rep[p].info = 0
         \/ rep[p].type = "error" /\ rep[p].info = NamePointer
  BY <1>1 DEF Control, Ctl, Underway, Sending, Known
<1>3. ASSUME Fail(p, internal_error) \/ Exit(p)
      PROVE  Service!Answer(p, "unclear", 0, {}) \/ Service!Vanish(p)
  BY <1>1, <1>3, Failing, Vanishing, Outcomes
<1>4. CASE SequenceExhausted
  <2>1. Fail(p, internal_error) /\ UNCHANGED storeVars
    BY <1>4 DEF InsertOfSend, InsertMsg
  <2>. QED
    BY <1>1, <2>1, UnclearImplements
<1>5. CASE ~InsertAllowed(a.id, a.user) /\ ~SequenceExhausted
  <2>1. /\ Fail(p, internal_error)
        /\ msgs' = msgs /\ nextId' = nextId + 1 /\ UNCHANGED <<users, names, blocks, bans, now>>
    BY <1>5 DEF InsertOfSend, InsertMsg
  <2>2. Box' = Box /\ 1..(nextId - 1) \subseteq 1..(nextId' - 1)
    BY <1>1, <2>1 DEF Box, Visible
  <2>3. UNCHANGED Service!platform
    BY <2>1, SamePlatform
  <2>. QED
    BY <1>3, <2>1, <2>2, <2>3 DEF Service!Fail
<1>6. CASE InsertAllowed(a.id, a.user) /\ ~SequenceExhausted
  <2>1. /\ msgs' = msgs \cup {n} /\ nextId' = nextId + 1 /\ UNCHANGED <<users, names, blocks, bans, now>>
        /\ a.user \in users /\ a.user # a.id
        /\ Succeed(p, nextId, {}) \/ Fail(p, internal_error) \/ Exit(p)
    BY <1>6 DEF InsertOfSend, InsertMsg, InsertAllowed
  <2>2. Box' = Box \cup {[id |-> nextId, sender |-> a.req.key, recipient |-> a.user]}
    <3>1. Visible' = Visible \cup {n}
      BY <2>1 DEF Visible
    <3>2. n.id = nextId /\ n.sender = a.req.key /\ n.recipient = a.user
      BY <1>2
    <3>. HIDE DEF n
    <3>. QED
      BY <3>1, <3>2 DEF Box
  <2>3. /\ 1..(nextId' - 1) = 1..(nextId - 1) \cup {nextId}
        /\ nextId \in 1..(nextId' - 1) \ 1..(nextId - 1)
    BY <1>1, <2>1
  <2>4. \/ Service!Answer(p, "done", nextId, {}) \/ Service!Answer(p, "unclear", 0, {})
        \/ Service!Vanish(p)
    <3>1. CASE Succeed(p, nextId, {}) /\ rep[p].type = "send"
      BY <1>1, <3>1, Done DEF Actions
    <3>2. CASE Succeed(p, nextId, {}) /\ rep[p].type = "error" /\ rep[p].info = NamePointer
      <4>1. /\ pc'[p] = "idle" /\ rep'[p].type = "error" /\ rep'[p].info = NamePointer
            /\ rep'[p].page = {}
        BY <3>2, SucceedAt, SucceedPage
      <4>2. OutcomeOf(StatusOf(rep'[p])) = "unclear"
        <5>1. StatusOf(rep'[p]) \in {bad_request, too_many_requests, NamePointer, Unreachable}
          BY <4>1 DEF StatusOf, type_other
        <5>. QED
          BY <5>1 DEF OutcomeOf, bad_request, too_many_requests, NamePointer, Unreachable, Success,
                      unauthorized, forbidden, not_found, payload_too_large
      <4>. QED
        BY <1>1, <4>1, <4>2, Answering
    <3>. QED
      BY <1>2, <1>3, <2>1, <3>1, <3>2
  <2>5. UNCHANGED Service!platform
    BY <2>1, SamePlatform
  <2>. QED
    BY <1>1, <1>2, <2>1, <2>2, <2>3, <2>4, <2>5, Admitted DEF Service!Send
<1>. QED
  BY <1>4, <1>5, <1>6

\* The update of rm is where its message disappears.
LEMMA RmImplements ==
  ASSUME TInv, Control, NEW p \in Proc, ScanOfRm(p) \/ AssertOfRm(p) \/ UpdateOfRm(p)
  PROVE  \/ Service!Refuse(p) \/ Service!Fail(p) \/ Service!Remove(p)
         \/ UNCHANGED Service!state
<1>. DEFINE i == act[p].req.arg
<1>1. /\ Frame(p) /\ pc[p] \in Removing /\ Keeps(p)
      /\ pc[p] \notin Unresolved \cup {"verify"} /\ pc[p] \notin {"idle", "exited"}
  <2>1. Step(p) /\ pc[p] \in Removing /\ ~ByMember(p) /\ ~ByPro(p)
    BY DEF Step, ScanOfRm, AssertOfRm, UpdateOfRm, Query, Removing, ByMember, ByPro
  <2>2. Frame(p) /\ Keeps(p)
    BY <2>1, Others, KeepsKey DEF Frame, Keeps
  <2>. QED
    BY <2>1, <2>2 DEF Removing, Unresolved, ByName
<1>2. act[p].req.do = "rm" /\ rep[p].type = "rm"
  BY <1>1 DEF Control, Ctl, Underway, Removing, Sending
<1>3. ASSUME NEW label \in {"rm_assert", "rm_update"}, Goto(p, label), UNCHANGED storeVars
      PROVE  UNCHANGED Service!state
  <2>1. pc'[p] = label
    BY <1>3, GotoAt
  <2>2. Phase(p)' = "admitted" /\ Phase(p) = "admitted"
    BY <1>1, <1>3, <2>1 DEF Phase, Removing
  <2>. HIDE DEF Phase
  <2>. QED
    BY <1>1, <1>3, <2>1, <2>2, Hidden
<1>4. CASE ScanOfRm(p)
  <2>1. ASSUME ~NotDeleted(i), Fail(p, not_found), UNCHANGED storeVars
        PROVE  Service!Refuse(p)
    <3>1. Service!Message(i) = {}
      BY <2>1 DEF Service!Message, Box, NotDeleted
    <3>2. Service!Answer(p, "not_found", 0, {})
      BY <1>1, <2>1, Failing, Outcomes
    <3>. QED
      BY <1>1, <1>2, <2>1, <3>1, <3>2, Admitted, SameStore DEF Service!Refuse
  <2>. QED
    BY <1>3, <1>4, <2>1 DEF ScanOfRm
<1>5. CASE AssertOfRm(p)
  BY <1>1, <1>3, <1>5, UnclearImplements DEF AssertOfRm
<1>6. CASE UpdateOfRm(p)
  <2>1. /\ Deletes(p) /\ MarkDeleted(i, act[p].begun)
        /\ Succeed(p, 0, {}) \/ Fail(p, internal_error)
    BY <1>6 DEF UpdateOfRm, Query, Deletes
  <2>2. Visible' = {m \in Visible : m.id # i}
    <3>1. \A m \in msgs : m.id # i => m \in msgs'
      BY <2>1 DEF MarkDeleted
    <3>2. \A n \in msgs' : (n.id # i => n \in msgs) /\ (n.id = i => n.deletedAge # Null)
      BY <2>1, DeletionOf
    <3>. HIDE DEF i
    <3>. QED
      BY <3>1, <3>2 DEF Visible
  <2>3. Box' = Box \ Service!Message(i)
    BY <2>2 DEF Box, Service!Message
  <2>4. Service!Answer(p, "done", 0, {}) \/ Service!Answer(p, "unclear", 0, {})
    BY <1>1, <1>2, <2>1, Done, Failing, Outcomes DEF Actions
  <2>5. UNCHANGED Service!platform /\ nextId' = nextId
    BY <2>1, SamePlatform DEF MarkDeleted
  <2>. QED
    BY <1>1, <1>2, <2>3, <2>4, <2>5, Admitted DEF Service!Remove
<1>. QED
  BY <1>4, <1>5, <1>6

-----------------------------------------------------------------------------
(* The platform, and every step *)

\* Whatever the rest of the platform does, the rows that are left are those
\* whose users are left (tables.sql:42-47), and it leaves the requests alone.
LEMMA PlatformImplements ==
  ASSUME TInv, Rows, Platform
  PROVE  Service!Elsewhere
<1>1. UNCHANGED <<pc, act, rep>>
  BY DEF Platform, procVars
<1>2. /\ [q \in Proc |-> Phase(q)]' = [q \in Proc |-> Phase(q)]
      /\ [q \in Proc |-> act[q].req]' = [q \in Proc |-> act[q].req]
      /\ [q \in Proc |-> act[q].user]' = [q \in Proc |-> act[q].user]
      /\ [q \in Proc |-> AnswerOf(q)]' = [q \in Proc |-> AnswerOf(q)]
  BY <1>1 DEF Phase, AnswerOf
<1>3. \A m \in msgs : m.sender \in users \cup {Root} /\ m.recipient \in users
  BY DEF Rows, ReferentialIntegrity
<1>. DEFINE Kept == /\ nextId' = nextId /\ users' \subseteq User
                    /\ msgs' \subseteq msgs
                    /\ \A m \in msgs : m \in msgs' <=>
                         (m.sender \in users' \cup {Root} /\ m.recipient \in users')
<1>4. Kept
  <2>1. users \subseteq User
    BY DEF TInv, Typed, StoreTypeOK
  <2>2. CASE nextId' = nextId /\ msgs' = msgs /\ users \subseteq users' /\ users' \subseteq User
    BY <1>3, <2>2
  <2>3. ASSUME NEW u \in Leavers, DeleteUser(u)
        PROVE  Kept
    <3>1. /\ users' = users \ {u} /\ nextId' = nextId
          /\ msgs' = {m \in msgs : m.sender # u /\ m.recipient # u}
      BY <2>3 DEF DeleteUser
    <3>2. u # Root
      <4>1. u \in 1..IntMax
        BY StoreAssumption, EvaluateAssumption
      <4>. QED
        BY <4>1 DEF Root
    <3>. QED
      BY <1>3, <2>1, <3>1, <3>2
  <2>4. ASSUME NEW u \in Movers, NEW n \in NewNames, Register(u, n) \/ Rename(u, n)
        PROVE  Kept
    <3>1. u \in User
      BY EvaluateAssumption
    <3>. QED
      BY <2>1, <2>2, <2>4, <3>1 DEF Register, Rename
  <2>. QED
    BY <2>1, <2>2, <2>3, <2>4 DEF Platform, LiftBlock, SetBlock, SetBan, Tick
<1>5. Visible' = {m \in Visible : m.sender \in users' \cup {Root} /\ m.recipient \in users'}
  BY <1>4 DEF Visible
<1>6. Box' = {m \in Box : m.sender \in users' \cup {Root} /\ m.recipient \in users'}
  BY <1>5 DEF Box
<1>. QED
  BY <1>2, <1>4, <1>6 DEF Service!Elsewhere, Service!Root, Root, User

LEMMA StepImplements ==
  ASSUME TInv, Control, Rows, Unnamed, [Next]_vars
  PROVE  Service!Next \/ UNCHANGED Service!state
<1>1. ASSUME NEW p \in Proc, NEW r \in Requests, Parse(p, r)
      PROVE  Service!Next
  BY <1>1, ParseImplements DEF Service!Next
<1>2. ASSUME NEW p \in Proc, Step(p)
      PROVE  Service!Next \/ UNCHANGED Service!state
  <2>1. CASE CommandFails(p)
    <3>1. Frame(p) /\ Keeps(p) /\ pc[p] \notin {"idle", "exited"}
          /\ Fail(p, internal_error) /\ UNCHANGED storeVars
      BY <1>2, <2>1, Others DEF Frame, Keeps, CommandFails
    <3>. QED
      BY <3>1, UnclearImplements DEF Service!Next
  <2>. QED
    BY <1>2, <2>1, ByNameImplements, VerifyImplements, ReadImplements, BeforeInsertImplements,
       InsertImplements, RmImplements DEF Step, Service!Next
<1>3. CASE UNCHANGED <<storeVars, pc, act, rep>>
  <2>1. /\ [q \in Proc |-> Phase(q)]' = [q \in Proc |-> Phase(q)]
        /\ [q \in Proc |-> act[q].req]' = [q \in Proc |-> act[q].req]
        /\ [q \in Proc |-> act[q].user]' = [q \in Proc |-> act[q].user]
        /\ [q \in Proc |-> AnswerOf(q)]' = [q \in Proc |-> AnswerOf(q)]
    BY <1>3 DEF Phase, AnswerOf
  <2>. QED
    BY <1>3, <2>1, SameStore DEF Service!state
<1>4. CASE Platform
  BY <1>4, PlatformImplements DEF Service!Next
<1>. QED
  BY <1>1, <1>2, <1>3, <1>4 DEF Next, LoseConnection, vars, procVars

LEMMA InitImplements == Init => Service!Init
<1> SUFFICES ASSUME Init PROVE Service!Init
  OBVIOUS
<1>1. \A p \in Proc : Phase(p) = "ready" /\ AnswerOf(p) = Service!NoAnswer
  BY DEF Init, Phase, AnswerOf, Service!NoAnswer
<1>2. Box = {} /\ users = Member \cup Pro \cup Admin /\ names = NameOf /\ Barred = {}
  BY DEF Init, StoreInit, Box, Visible, User, Barred, Refuses
<1>3. \A p \in Proc : act[p].req \in Requests /\ act[p].user \in Nat
  <2>1. (CHOOSE r \in Requests : TRUE) \in Requests
    BY EvaluateAssumption
  <2>2. Start(CHOOSE r \in Requests : TRUE) \in Locals
    BY <2>1, StartType
  <2>. QED
    BY <2>2, StoreAssumption DEF Init, Locals
<1>4. 1..(nextId - 1) \subseteq Nat
  BY StoreAssumption DEF Init, StoreInit
<1>. QED
  BY <1>1, <1>2, <1>3, <1>4 DEF Service!Init

\* Several processes with several commands per action do what ChatService
\* says, each action in one step (property ImplementsService).
THEOREM Implements == Spec => ImplementsService
BY TypingInv, ControlInv, RowsInv, UnnamedInv, InitImplements, StepImplements, PTL
   DEF Spec, ImplementsService, Service!Spec
=============================================================================
