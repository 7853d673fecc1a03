---------------------------- MODULE SafetyProofs ----------------------------
(***************************************************************************)
(* Proofs of the safety properties of Evaluate: first what a process knows *)
(* at each of its commands (Control), then what the rows of the store have *)
(* to do with it (Rows).                                                   *)
(***************************************************************************)
EXTENDS EvaluateProofs

\* The commands of send from the recipient's role on, and of rm, and every
\* command that only an identified caller reaches.
Sending == {"count", "send_msg", "insert_msg"}
Removing == {"rm_scan", "rm_assert", "rm_update"}
Known == {"get_user", "dest_role", "inbox"} \cup Sending \cup Removing

Definite == {unauthorized, forbidden, not_found, payload_too_large}

\* A stub that root asks for and that resolves no name.
OfRoot(r) ==
  /\ r.do \in Stubs /\ r.key = Root /\ r.pw = "right"
  /\ ~NamesUser(r.do) \/ (r.user.by = "id" /\ r.user.val # 0)

Proved(r) == r.pw = "right" /\ r.key \in HasPassword \cup {Root}
Authorised(r) ==
  Proved(r) /\ (r.do \notin {"block", "unblock", "ban", "unban"} \/ r.key \in Pro \cup {Root})

\* What holds of a process at label l with locals a and response r.
Underway(l, a, r) ==
  /\ a.stored = 0 /\ a.req.do \in Actions
  /\ \/ r.type = a.req.do /\ r.info = 0
     \/ l \in Sending /\ r.type = "error" /\ r.info = NamePointer
  /\ OfRoot(a.req) => l = "verify"
  /\ l \in Known => a.id = a.req.key /\ Proved(a.req)
  /\ l = "get_user" => a.req.do = "whois"
  /\ l = "inbox" => a.req.do = "inbox"
  /\ l \in Removing => a.req.do = "rm"
  /\ l \in {"dest_role"} \cup Sending => a.req.do = "send"
  /\ l \in Sending => ~a.req.long

Finished(a, r) ==
  /\ r.type \in Actions => Authorised(a.req)
  /\ (r.type \in Actions /\ a.req.do = "send") => (r.word = a.stored /\ a.stored # 0)
  /\ r.info \in Definite => a.stored = 0
  /\ (OfRoot(a.req) /\ r.type # "none") => r.type \in Actions

Ctl(l, a, r) ==
  /\ l \notin {"idle", "exited"} => Underway(l, a, r)
  /\ l = "idle" => Finished(a, r)
  /\ r.type = "error" => (r.info # 0 \/ r.word # type_other)

Control == \A p \in Proc : Ctl(pc[p], act[p], rep[p])

----------------------------------------------------------------------------
(* What the helpers do to the process that uses them *)

\* A failure answers with its status, whatever the action had done before.
LEMMA FailAt ==
  ASSUME TInv, NEW p \in Proc, NEW status, Fail(p, status)
  PROVE  /\ pc'[p] = "idle"
         /\ rep'[p].type = "error" /\ rep'[p].info = status /\ rep'[p].word = type_other
         /\ \A q \in Proc \ {p} : pc'[q] = pc[q] /\ rep'[q] = rep[q]
BY DEF Fail, Goto, TInv, Typed, ProcTypeOK

\* A success sets the word and keeps the type and what follows the word.
LEMMA SucceedAt ==
  ASSUME TInv, NEW p \in Proc, NEW word, NEW page, Succeed(p, word, page)
  PROVE  /\ pc'[p] = "idle"
         /\ rep'[p].type = rep[p].type /\ rep'[p].info = rep[p].info /\ rep'[p].word = word
         /\ \A q \in Proc \ {p} : pc'[q] = pc[q] /\ rep'[q] = rep[q]
<1>1. rep[p] \in Response
  BY DEF TInv, Typed, ProcTypeOK
<1>2. rep' = [rep EXCEPT ![p] = [rep[p] EXCEPT !.word = word, !.page = page]]
  BY <1>1 DEF Succeed, TInv, Typed, ProcTypeOK
<1>3. rep'[p] = [rep[p] EXCEPT !.word = word, !.page = page]
  BY <1>2 DEF TInv, Typed, ProcTypeOK
<1>4. rep'[p].type = rep[p].type /\ rep'[p].info = rep[p].info /\ rep'[p].word = word
  BY <1>1, <1>3 DEF Response
<1>. QED
  BY <1>2, <1>4 DEF Succeed, Goto, TInv, Typed, ProcTypeOK

\* Goto moves one process.
LEMMA GotoAt ==
  ASSUME TInv, NEW p \in Proc, NEW label, Goto(p, label)
  PROVE  pc'[p] = label /\ \A q \in Proc \ {p} : pc'[q] = pc[q]
BY DEF Goto, TInv, Typed, ProcTypeOK

\* The step of one process keeps Control when it keeps it for that process.
LEMMA ControlOf ==
  ASSUME TInv, Control, NEW p \in Proc, Ctl(pc'[p], act'[p], rep'[p]),
         \A q \in Proc \ {p} : pc'[q] = pc[q] /\ act'[q] = act[q] /\ rep'[q] = rep[q]
  PROVE  Control'
<1> SUFFICES ASSUME NEW q \in Proc PROVE Ctl(pc'[q], act'[q], rep'[q])
  BY DEF Control
<1>. QED
  BY DEF Control

\* An action that fails before the insert has stored nothing.
LEMMA FailControl ==
  ASSUME TInv, Control, NEW p \in Proc, NEW status \in Status, Fail(p, status), UNCHANGED act,
         pc[p] \notin {"idle", "exited"}, ~(OfRoot(act[p].req) /\ pc[p] = "verify")
  PROVE  Control'
<1>1. act[p].stored = 0 /\ ~OfRoot(act[p].req)
  BY DEF Control, Ctl, Underway
<1>2. status # 0
  BY DEF Status, bad_request, unauthorized, forbidden, not_found, payload_too_large,
         unprocessable_content, too_many_requests, internal_error
<1>3. pc'[p] = "idle" /\ act'[p] = act[p]
  BY FailAt
<1>4. rep'[p].type = "error" /\ rep'[p].info = status
  BY FailAt
<1>5. "error" \notin Actions
  BY DEF Actions, Stubs
<1>6. Finished(act[p], rep'[p])
  BY <1>1, <1>4, <1>5 DEF Finished
<1>7. Ctl(pc'[p], act'[p], rep'[p])
  BY <1>2, <1>3, <1>4, <1>6 DEF Ctl
<1>. QED
  BY <1>7, FailAt, ControlOf

\* A process that ends has nothing more to say.
LEMMA ExitControl ==
  ASSUME TInv, Control, NEW p \in Proc, Exit(p), UNCHANGED act
  PROVE  Control'
<1>1. Ctl(pc'[p], act'[p], rep'[p])
  BY GotoAt DEF Exit, Control, Ctl
<1>. QED
  BY <1>1, GotoAt, ControlOf DEF Exit

\* An action that goes on to another command with the same locals.
LEMMA GotoControl ==
  ASSUME TInv, Control, NEW p \in Proc, NEW label, Goto(p, label), UNCHANGED <<act, rep>>,
         label \notin {"idle", "exited"}, Underway(label, act[p], rep[p])
  PROVE  Control'
<1>1. Ctl(pc'[p], act'[p], rep'[p])
  BY GotoAt DEF Control, Ctl
<1>. QED
  BY <1>1, GotoAt, ControlOf

\* A caller that proved who it is, with the role that goes with its key, gets
\* no further than its role allows (check_role).
LEMMA IdentifiedControl ==
  ASSUME TInv, Control, NEW p \in Proc, NEW role, pc[p] = "verify",
         Identified(p, act[p].req.key, role), Proved(act[p].req),
         role = role_pro => act[p].req.key \in Pro,
         role = role_admin <=> act[p].req.key = Root,
         role \in Role
  PROVE  Control'
<1>. DEFINE a == act[p]
            do == a.req.do
            b == [a EXCEPT !.id = a.req.key, !.role = role]
<1>1. a \in Locals
  BY DEF TInv, Typed, ProcTypeOK
<1>2. act' = [act EXCEPT ![p] = b]
  BY DEF Identified
<1>3. act'[p] = b /\ \A q \in Proc \ {p} : act'[q] = act[q]
  BY <1>2 DEF TInv, Typed, ProcTypeOK
<1>4. b.id = a.req.key /\ b.req = a.req /\ b.stored = a.stored
  BY <1>1 DEF Locals
<1>5. Underway("verify", a, rep[p]) /\ rep[p].type = do /\ rep[p].info = 0 /\ a.stored = 0 /\ do \in Actions
  BY DEF Control, Ctl, Underway, Sending
<1>6. "error" \notin Actions
  BY DEF Actions, Stubs
<1>7. CASE role \notin AllowedRoles(do) /\ Fail(p, forbidden)
  <2>1. ~OfRoot(b.req)
    BY <1>4, <1>7 DEF AllowedRoles, OfRoot, Role
  <2>2. pc'[p] = "idle" /\ rep'[p].type = "error" /\ rep'[p].info = forbidden
    BY <1>7, FailAt
  <2>3. Finished(b, rep'[p])
    BY <1>4, <1>5, <1>6, <2>1, <2>2 DEF Finished
  <2>4. Ctl(pc'[p], act'[p], rep'[p])
    BY <1>3, <2>2, <2>3 DEF Ctl, forbidden
  <2>. QED
    BY <1>3, <1>7, <2>4, FailAt, ControlOf
<1>8. CASE role \in AllowedRoles(do) /\ do \in Stubs /\ Succeed(p, 0, {})
  <2>1. pc'[p] = "idle" /\ rep'[p].type = do /\ rep'[p].info = 0
    BY <1>5, <1>8, SucceedAt
  <2>2. Authorised(b.req)
    BY <1>4, <1>8 DEF Authorised, AllowedRoles
  <2>3. do # "send" /\ 0 \notin Definite
    BY <1>8 DEF Stubs, Definite, unauthorized, forbidden, not_found, payload_too_large
  <2>4. Finished(b, rep'[p])
    BY <1>4, <1>5, <2>1, <2>2, <2>3 DEF Finished
  <2>5. Ctl(pc'[p], act'[p], rep'[p])
    BY <1>3, <1>5, <1>6, <2>1, <2>4 DEF Ctl
  <2>. QED
    BY <1>3, <1>8, <2>5, SucceedAt, ControlOf
<1>9. CASE do \notin Stubs /\ Goto(p, NextCommand(do)) /\ UNCHANGED rep
  <2>. DEFINE label == NextCommand(do)
  <2>1. label \in {"get_user", "dest_role", "inbox", "rm_scan"}
    BY DEF NextCommand
  <2>2. /\ label = "get_user" => do = "whois"
        /\ label = "dest_role" => do = "send"
        /\ label = "inbox" => do = "inbox"
        /\ label = "rm_scan" => do = "rm"
    BY <1>5, <1>9 DEF NextCommand, Actions
  <2>3. Underway(label, b, rep[p])
    BY <1>4, <1>5, <1>9, <2>1, <2>2 DEF Underway, OfRoot, Known, Sending, Removing
  <2>4. pc'[p] = label /\ rep'[p] = rep[p]
    BY <1>9, GotoAt
  <2>5. Ctl(pc'[p], act'[p], rep'[p])
    BY <1>3, <1>5, <1>6, <2>1, <2>3, <2>4 DEF Ctl
  <2>. QED
    BY <1>3, <1>9, <2>5, GotoAt, ControlOf
<1>. QED
  BY <1>7, <1>8, <1>9 DEF Identified

----------------------------------------------------------------------------
(* Control, step by step *)

\* A request that arrives starts with nothing stored (act, action_parse).
LEMMA ParseControl ==
  ASSUME TInv, Control, NEW p \in Proc, NEW r \in Requests, Parse(p, r)
  PROVE  Control'
<1>1. act' = [act EXCEPT ![p] = Start(r)]
  BY DEF Parse
<1>2. act'[p] = Start(r) /\ \A q \in Proc \ {p} : act'[q] = act[q]
  BY <1>1 DEF TInv, Typed, ProcTypeOK
<1>3. Start(r).stored = 0 /\ Start(r).req = r
  BY DEF Start
<1>4. "error" \notin Actions
  BY DEF Actions, Stubs
<1>5. pc[p] = "idle"
  BY DEF Parse, At
<1>6. CASE /\ r.do = "malformed" \/ (NamesUser(r.do) /\ r.user.by = "id" /\ r.user.val = 0)
           /\ rep' = [rep EXCEPT ![p] =
                [type |-> "error", word |-> type_invalid, info |-> 0, page |-> {}]]
           /\ UNCHANGED pc
  <2>1. ~OfRoot(r)
    BY <1>6 DEF OfRoot, Stubs
  <2>2. /\ rep'[p].type = "error" /\ rep'[p].word = type_invalid /\ rep'[p].info = 0
        /\ \A q \in Proc \ {p} : rep'[q] = rep[q]
    BY <1>6 DEF TInv, Typed, ProcTypeOK
  <2>3. 0 \notin Definite
    BY DEF Definite, unauthorized, forbidden, not_found, payload_too_large
  <2>4. Finished(Start(r), rep'[p])
    BY <1>3, <1>4, <2>1, <2>2, <2>3 DEF Finished
  <2>5. Ctl(pc'[p], act'[p], rep'[p])
    BY <1>2, <1>5, <1>6, <2>2, <2>4 DEF Ctl, type_invalid, type_other
  <2>. QED
    BY <1>2, <1>6, <2>2, <2>5, ControlOf
<1>7. CASE r.do = "unknown" /\ Fail(p, internal_error)
  <2>1. ~OfRoot(r) /\ internal_error # 0
    BY <1>7 DEF OfRoot, Stubs, internal_error
  <2>2. pc'[p] = "idle" /\ rep'[p].type = "error" /\ rep'[p].info = internal_error
    BY <1>7, FailAt
  <2>3. Finished(Start(r), rep'[p])
    BY <1>3, <1>4, <2>1, <2>2 DEF Finished
  <2>4. Ctl(pc'[p], act'[p], rep'[p])
    BY <1>2, <2>1, <2>2, <2>3 DEF Ctl
  <2>. QED
    BY <1>2, <1>7, <2>4, FailAt, ControlOf
<1>8. CASE /\ r.do \in Actions
           /\ ~(NamesUser(r.do) /\ r.user.by = "id" /\ r.user.val = 0)
           /\ rep' = [rep EXCEPT ![p] = [type |-> r.do, word |-> 0, info |-> 0, page |-> {}]]
           /\ Goto(p, FirstCommand(r))
  <2>. DEFINE label == FirstCommand(r)
  <2>1. label \in {"verify", "by_email", "by_member"} /\ (OfRoot(r) => label = "verify")
    BY DEF FirstCommand, OfRoot
  <2>2. /\ rep'[p].type = r.do /\ rep'[p].info = 0
        /\ \A q \in Proc \ {p} : rep'[q] = rep[q]
    BY <1>8 DEF TInv, Typed, ProcTypeOK
  <2>3. Underway(label, Start(r), rep'[p])
    BY <1>3, <1>8, <2>1, <2>2 DEF Underway, Known, Sending, Removing
  <2>4. Ctl(pc'[p], act'[p], rep'[p])
    BY <1>2, <1>4, <1>8, <2>1, <2>2, <2>3, GotoAt DEF Ctl
  <2>. QED
    BY <1>2, <1>8, <2>2, <2>4, GotoAt, ControlOf
<1>. QED
  BY <1>6, <1>7, <1>8 DEF Parse

\* The searches by name resolve the key and go on, or fail with a response
\* that is no action's.
LEMMA ByNameControl ==
  ASSUME TInv, Control, NEW p \in Proc, ByMember(p) \/ ByPro(p)
  PROVE  Control'
<1>1. Underway(pc[p], act[p], rep[p]) /\ pc[p] \in {"by_member", "by_pro"}
  BY DEF Control, Ctl, ByMember, ByPro, Query
<1>2. act[p].stored = 0 /\ rep[p].type = act[p].req.do /\ rep[p].info = 0 /\ ~OfRoot(act[p].req)
      /\ act[p].req.do \in Actions
  BY <1>1 DEF Underway, Sending
<1>3. ASSUME NEW u, Resolved(p, u)
      PROVE  Control'
  <2>. DEFINE b == [act[p] EXCEPT !.user = u]
  <2>1. act' = [act EXCEPT ![p] = b] /\ Goto(p, "verify") /\ rep' = rep
    BY <1>3 DEF Resolved
  <2>2. act'[p] = b /\ (\A q \in Proc \ {p} : act'[q] = act[q]) /\ act[p] \in Locals
    BY <2>1 DEF TInv, Typed, ProcTypeOK
  <2>3. b.req = act[p].req /\ b.stored = act[p].stored
    BY <2>2 DEF Locals
  <2>4. Underway("verify", b, rep[p])
    BY <1>2, <2>3 DEF Underway, Known, Sending, Removing
  <2>5. Ctl(pc'[p], act'[p], rep'[p])
    BY <2>1, <2>2, <2>4, GotoAt DEF Ctl, Control
  <2>. QED
    BY <2>1, <2>2, <2>5, GotoAt, ControlOf
<1>4. CASE Goto(p, "by_pro") /\ UNCHANGED <<act, rep>>
  <2>1. Underway("by_pro", act[p], rep[p])
    BY <1>2 DEF Underway, Known, Sending, Removing
  <2>. QED
    BY <1>4, <2>1, GotoControl
<1>5. CASE /\ Goto(p, "idle") /\ UNCHANGED act
           /\ rep' = [rep EXCEPT ![p] =
                [type |-> "error", word |-> type_invalid, info |-> 0, page |-> {}]]
  <2>1. /\ rep'[p].type = "error" /\ rep'[p].word = type_invalid
        /\ \A q \in Proc \ {p} : rep'[q] = rep[q]
    BY <1>5 DEF TInv, Typed, ProcTypeOK
  <2>2. Finished(act[p], rep'[p])
    BY <1>2, <2>1 DEF Finished, Actions, Stubs
  <2>3. Ctl(pc'[p], act'[p], rep'[p])
    BY <1>5, <2>1, <2>2, GotoAt DEF Ctl, type_invalid, type_other
  <2>. QED
    BY <1>5, <2>1, <2>3, GotoAt, ControlOf
<1>. QED
  BY <1>3, <1>4, <1>5 DEF ByMember, ByPro

\* The caller is identified by its own key and password only
\* (db_verify_user_constr).
LEMMA VerifyControl ==
  ASSUME TInv, Control, NEW p \in Proc,
         ByEmail(p) \/ VerifyRoot(p) \/ VerifyRootNoPassword(p) \/ Verify(p)
  PROVE  Control'
<1>1. CASE ByEmail(p)
  BY <1>1, FailControl DEF ByEmail, At, Status
<1>2. CASE VerifyRoot(p)
  <2>1. pc[p] = "verify" /\ act[p].req.key = Root /\ Proved(act[p].req)
    BY <1>2 DEF VerifyRoot, At, Proved
  <2>2. Identified(p, act[p].req.key, role_admin)
    BY <1>2, <2>1 DEF VerifyRoot
  <2>. QED
    BY <2>1, <2>2, IdentifiedControl DEF Role, role_admin, role_pro
<1>3. CASE VerifyRootNoPassword(p)
  BY <1>3, ExitControl DEF VerifyRootNoPassword
<1>4. CASE Verify(p)
  <2>. DEFINE key == act[p].req.key
  <2>1. pc[p] = "verify" /\ ~OfRoot(act[p].req)
    BY <1>4 DEF Verify, Query, OfRoot
  <2>2. CASE (Fail(p, unauthorized) \/ Fail(p, internal_error)) /\ UNCHANGED act
    BY <2>1, <2>2, FailControl DEF Status
  <2>3. CASE Exit(p) /\ UNCHANGED act
    BY <2>3, ExitControl
  <2>4. CASE /\ key \in users /\ ValidRole(UserRole(key)) /\ PasswordAccepted(key, act[p].req.pw)
             /\ Identified(p, key, UserRole(key))
    <3>1. Proved(act[p].req)
      BY <2>4 DEF PasswordAccepted, Proved
    <3>2. key \in User /\ key # Root
      <4>1. key \in User
        BY <2>4 DEF TInv, Typed, StoreTypeOK
      <4>2. key \in 1..IntMax
        BY <4>1, StoreAssumption
      <4>. QED
        BY <4>1, <4>2 DEF Root
    <3>3. UserRole(key) = role_pro => key \in Pro
      BY <3>2 DEF UserRole, User, role_pro, role_member
    <3>4. UserRole(key) # role_admin
      BY DEF UserRole, role_admin, role_member, role_pro
    <3>. QED
      BY <2>1, <2>4, <3>1, <3>2, <3>3, <3>4, IdentifiedControl DEF ValidRole
  <2>. QED
    BY <1>4, <2>2, <2>3, <2>4 DEF Verify
<1>. QED
  BY <1>1, <1>2, <1>3, <1>4

\* whois and inbox end with what was asked or with a failure.
LEMMA ReadControl ==
  ASSUME TInv, Control, NEW p \in Proc, GetUser(p) \/ GetInbox(p)
  PROVE  Control'
<1>1. Underway(pc[p], act[p], rep[p]) /\ pc[p] \in {"get_user", "inbox"} /\ UNCHANGED act
  BY DEF Control, Ctl, GetUser, GetInbox, Query
<1>2. /\ rep[p].type = act[p].req.do /\ rep[p].info = 0 /\ ~OfRoot(act[p].req)
      /\ act[p].req.do = (IF pc[p] = "get_user" THEN "whois" ELSE "inbox")
      /\ act[p].stored = 0 /\ Proved(act[p].req)
  BY <1>1 DEF Underway, Sending, Known
<1>3. CASE Fail(p, not_found) \/ Fail(p, internal_error)
  BY <1>1, <1>2, <1>3, FailControl DEF Status
<1>4. ASSUME NEW page, Succeed(p, 0, page)
      PROVE  Control'
  <2>1. Authorised(act[p].req)
    BY <1>2 DEF Authorised
  <2>2. 0 \notin Definite
    BY DEF Definite, unauthorized, forbidden, not_found, payload_too_large
  <2>3. pc'[p] = "idle" /\ rep'[p].type = act[p].req.do /\ rep'[p].info = 0
    BY <1>2, <1>4, SucceedAt
  <2>4. Finished(act[p], rep'[p])
    BY <1>1, <1>2, <1>4, <2>1, <2>2, <2>3 DEF Finished
  <2>5. Ctl(pc'[p], act'[p], rep'[p])
    BY <1>1, <1>2, <2>3, <2>4 DEF Ctl
  <2>. QED
    BY <1>1, <1>4, <2>5, SucceedAt, ControlOf
<1>. QED
  BY <1>3, <1>4 DEF GetUser, GetInbox

\* A broken invariant leaves its mark in the response, and nothing else.
LEMMA InvariantAt ==
  ASSUME TInv, NEW p \in Proc, FailInvariant(p)
  PROVE  /\ rep'[p].type = "error" /\ rep'[p].info = NamePointer /\ rep'[p].word = type_invariant
         /\ \A q \in Proc \ {p} : rep'[q] = rep[q]
<1>1. rep[p] \in Response
  BY DEF TInv, Typed, ProcTypeOK
<1>2. rep' = [rep EXCEPT ![p] =
                [rep[p] EXCEPT !.type = "error", !.word = type_invariant, !.info = NamePointer]]
  BY DEF FailInvariant, TInv, Typed, ProcTypeOK
<1>3. rep'[p] = [rep[p] EXCEPT !.type = "error", !.word = type_invariant, !.info = NamePointer]
  BY <1>2 DEF TInv, Typed, ProcTypeOK
<1>4. rep'[p].type = "error" /\ rep'[p].info = NamePointer /\ rep'[p].word = type_invariant
  BY <1>1, <1>3 DEF Response
<1>. QED
  BY <1>2, <1>4 DEF TInv, Typed, ProcTypeOK

\* Up to the insert, send keeps the caller's identity and stores nothing.
LEMMA BeforeInsertControl ==
  ASSUME TInv, Control, NEW p \in Proc, GetDestRole(p) \/ CheckContacted(p) \/ SendMsg(p)
  PROVE  Control'
<1>. DEFINE a == act[p]
<1>1. /\ Underway(pc[p], a, rep[p]) /\ pc[p] \in {"dest_role", "count", "send_msg"}
      /\ a \in Locals
  BY DEF Control, Ctl, GetDestRole, CheckContacted, SendMsg, At, Query, TInv, Typed, ProcTypeOK
<1>2. /\ a.req.do = "send" /\ a.id = a.req.key /\ Proved(a.req) /\ ~OfRoot(a.req)
      /\ a.stored = 0 /\ a.req.do \in Actions
  BY <1>1 DEF Underway, Sending, Known
<1>3. ASSUME NEW b, NEW label \in Sending, b.req = a.req, b.id = a.id, b.stored = a.stored,
             b.user = a.user, act' = [act EXCEPT ![p] = b], Goto(p, label), ~a.req.long,
             FailInvariant(p) \/ UNCHANGED rep
      PROVE  Control'
  <2>1. act'[p] = b /\ \A q \in Proc \ {p} : act'[q] = act[q]
    BY <1>3 DEF TInv, Typed, ProcTypeOK
  <2>2. /\ \/ rep'[p].type = "send" /\ rep'[p].info = 0
           \/ rep'[p].type = "error" /\ rep'[p].info = NamePointer
        /\ \A q \in Proc \ {p} : rep'[q] = rep[q]
    BY <1>1, <1>2, <1>3, InvariantAt DEF Underway
  <2>3. Underway(label, b, rep'[p])
    BY <1>2, <1>3, <2>2 DEF Underway, Known, Sending, Removing
  <2>4. label \notin {"idle", "exited"}
    BY <1>3 DEF Sending
  <2>5. Ctl(pc'[p], act'[p], rep'[p])
    BY <1>3, <2>1, <2>2, <2>3, <2>4, GotoAt DEF Ctl, NamePointer
  <2>. QED
    BY <1>3, <2>1, <2>2, <2>5, GotoAt, ControlOf
<1>4. act = [act EXCEPT ![p] = a]
  BY DEF TInv, Typed, ProcTypeOK
<1>5. CASE GetDestRole(p)
  <2>1. CASE /\ Fail(p, not_found) \/ Fail(p, internal_error) \/ Fail(p, payload_too_large)
             /\ UNCHANGED act
    BY <1>1, <1>2, <2>1, FailControl DEF Status
  <2>2. CASE /\ ~a.req.long /\ ValidRole(UserRole(a.user))
             /\ act' = [act EXCEPT ![p].dest_role = UserRole(a.user)]
             /\ Goto(p, IF a.role = role_pro /\ UserRole(a.user) = role_member
                          THEN "count" ELSE "send_msg")
             /\ IF BreaksInvariant(a, UserRole(a.user)) THEN FailInvariant(p) ELSE UNCHANGED rep
    <3>. DEFINE b == [a EXCEPT !.dest_role = UserRole(a.user)]
    <3>1. b.req = a.req /\ b.id = a.id /\ b.stored = a.stored /\ b.user = a.user
      BY <1>1 DEF Locals
    <3>2. act' = [act EXCEPT ![p] = b]
      BY <2>2
    <3>3. Goto(p, "count") \/ Goto(p, "send_msg")
      BY <2>2
    <3>. QED
      BY <1>3, <2>2, <3>1, <3>2, <3>3 DEF Sending
  <2>. QED
    BY <1>5, <2>1, <2>2 DEF GetDestRole
<1>6. CASE CheckContacted(p)
  <2>1. ~a.req.long
    BY <1>1, <1>6 DEF CheckContacted, At, Underway, Sending
  <2>2. act' = [act EXCEPT ![p] = a] /\ Goto(p, "send_msg") /\ (FailInvariant(p) \/ UNCHANGED rep)
    BY <1>4, <1>6 DEF CheckContacted
  <2>. QED
    BY <1>3, <2>1, <2>2 DEF Sending
<1>7. CASE SendMsg(p)
  <2>. DEFINE b == [a EXCEPT !.begun = now]
  <2>1. ~a.req.long
    BY <1>1, <1>7 DEF SendMsg, Query, Underway, Sending
  <2>2. b.req = a.req /\ b.id = a.id /\ b.stored = a.stored /\ b.user = a.user
    BY <1>1 DEF Locals
  <2>3. CASE act' = [act EXCEPT ![p].begun = now] /\ Goto(p, "insert_msg") /\ UNCHANGED rep
    BY <1>3, <2>1, <2>2, <2>3 DEF Sending
  <2>4. CASE Fail(p, forbidden) /\ UNCHANGED act
    BY <1>1, <1>2, <2>4, FailControl DEF Status
  <2>. QED
    BY <1>7, <2>3, <2>4 DEF SendMsg
<1>. QED
  BY <1>5, <1>6, <1>7

\* The insert answers with the id of its row, with the mark of a broken
\* invariant over it, or with a failure that is no refusal.
LEMMA InsertControl ==
  ASSUME TInv, Control, NEW p \in Proc, InsertOfSend(p)
  PROVE  Control'
<1>. DEFINE a == act[p]
            b == [a EXCEPT !.stored = nextId]
<1>1. /\ Underway("insert_msg", a, rep[p]) /\ pc[p] = "insert_msg" /\ a \in Locals
  BY DEF Control, Ctl, InsertOfSend, Query, TInv, Typed, ProcTypeOK
<1>2. /\ a.req.do = "send" /\ Proved(a.req) /\ ~OfRoot(a.req) /\ a.req.do \in Actions
      /\ (rep[p].type = "send" /\ rep[p].info = 0)
           \/ (rep[p].type = "error" /\ rep[p].info = NamePointer)
  BY <1>1 DEF Underway, Sending, Known
<1>3. b.req = a.req /\ b.stored = nextId /\ b.user = a.user
  BY <1>1 DEF Locals
<1>4. "error" \notin Actions /\ internal_error \notin Definite /\ internal_error # 0
  BY DEF Actions, Stubs, Definite, internal_error, unauthorized, forbidden, not_found,
         payload_too_large
<1>5. NamePointer \notin Definite /\ NamePointer # 0 /\ 0 \notin Definite
  BY DEF NamePointer, Definite, unauthorized, forbidden, not_found, payload_too_large
<1>6. CASE Fail(p, internal_error) /\ UNCHANGED act
  BY <1>1, <1>2, <1>6, FailControl DEF Status
<1>7. CASE act' = [act EXCEPT ![p].stored = nextId]
  <2>1. act'[p] = b /\ \A q \in Proc \ {p} : act'[q] = act[q]
    BY <1>7 DEF TInv, Typed, ProcTypeOK
  <2>2. CASE Fail(p, internal_error)
    <3>1. Finished(b, rep'[p])
      BY <1>2, <1>3, <1>4, <2>2, FailAt DEF Finished
    <3>2. Ctl(pc'[p], act'[p], rep'[p])
      BY <1>4, <2>1, <2>2, <3>1, FailAt DEF Ctl
    <3>. QED
      BY <2>1, <2>2, <3>2, FailAt, ControlOf
  <2>3. CASE Succeed(p, nextId, {})
    <3>1. /\ pc'[p] = "idle" /\ rep'[p].type = rep[p].type /\ rep'[p].info = rep[p].info
          /\ rep'[p].word = nextId
      BY <2>3, SucceedAt
    <3>2. Authorised(b.req)
      BY <1>2, <1>3 DEF Authorised
    <3>3. nextId # 0
      BY DEF TInv, Typed, StoreTypeOK
    <3>4. Finished(b, rep'[p])
      BY <1>2, <1>3, <1>4, <1>5, <3>1, <3>2, <3>3 DEF Finished
    <3>5. Ctl(pc'[p], act'[p], rep'[p])
      BY <1>2, <1>4, <1>5, <2>1, <3>1, <3>4 DEF Ctl
    <3>. QED
      BY <2>1, <2>3, <3>5, SucceedAt, ControlOf
  <2>4. CASE Exit(p)
    <3>1. pc'[p] = "exited" /\ rep' = rep /\ \A q \in Proc \ {p} : pc'[q] = pc[q]
      BY <2>4, GotoAt DEF Exit
    <3>2. Ctl(pc'[p], act'[p], rep'[p])
      BY <3>1 DEF Ctl, Control
    <3>. QED
      BY <2>1, <3>1, <3>2, ControlOf
  <2>. QED
    <3>1. Fail(p, internal_error) \/ Succeed(p, nextId, {}) \/ Exit(p)
      BY DEF InsertOfSend
    <3>. QED
      BY <2>2, <2>3, <2>4, <3>1
<1>. QED
  <2>1. \/ Fail(p, internal_error) /\ UNCHANGED act
        \/ act' = [act EXCEPT ![p].stored = nextId]
    BY DEF InsertOfSend
  <2>. QED
    BY <1>6, <1>7, <2>1

\* rm stores nothing, and neither does a command on a lost connection, which
\* a stub of root's never is.
LEMMA RmControl ==
  ASSUME TInv, Control, NEW p \in Proc,
         ScanOfRm(p) \/ AssertOfRm(p) \/ UpdateOfRm(p) \/ CommandFails(p) \/ LoseConnection(p)
  PROVE  Control'
<1>1. ASSUME NEW label \in Removing, pc[p] \in Removing, Goto(p, label), UNCHANGED <<act, rep>>
      PROVE  Control'
  <2>1. Underway(pc[p], act[p], rep[p])
    BY <1>1 DEF Control, Ctl, Removing
  <2>2. Underway(label, act[p], rep[p])
    BY <1>1, <2>1 DEF Underway, Known, Removing, Sending
  <2>. QED
    BY <1>1, <2>2, GotoControl DEF Removing
<1>2. ASSUME pc[p] \in Removing, NEW status \in Status, Fail(p, status), UNCHANGED act
      PROVE  Control'
  BY <1>2, FailControl DEF Removing
<1>3. CASE ScanOfRm(p)
  <2>. DEFINE b == [act[p] EXCEPT !.begun = now]
  <2>1. Underway("rm_scan", act[p], rep[p]) /\ pc[p] = "rm_scan" /\ act[p] \in Locals
    BY <1>3 DEF ScanOfRm, Query, Control, Ctl, TInv, Typed, ProcTypeOK
  <2>2. b.req = act[p].req /\ b.id = act[p].id /\ b.stored = act[p].stored
    BY <2>1 DEF Locals
  <2>3. Underway("rm_assert", b, rep[p])
    BY <2>1, <2>2 DEF Underway, Known, Removing, Sending
  <2>4. CASE act' = [act EXCEPT ![p] = b] /\ Goto(p, "rm_assert") /\ UNCHANGED rep
    <3>1. act'[p] = b /\ \A q \in Proc \ {p} : act'[q] = act[q]
      BY <2>4 DEF TInv, Typed, ProcTypeOK
    <3>2. Ctl(pc'[p], act'[p], rep'[p])
      BY <2>3, <2>4, <3>1, GotoAt DEF Control, Ctl
    <3>. QED
      BY <2>4, <3>1, <3>2, GotoAt, ControlOf
  <2>5. CASE Fail(p, not_found) /\ UNCHANGED act
    BY <1>2, <2>1, <2>5 DEF Removing, Status
  <2>. QED
    BY <1>3, <2>4, <2>5 DEF ScanOfRm
<1>4. CASE AssertOfRm(p)
  BY <1>1, <1>2, <1>4 DEF AssertOfRm, Query, Removing, Status
<1>5. CASE UpdateOfRm(p)
  <2>1. pc[p] = "rm_update" /\ UNCHANGED act /\ (Fail(p, internal_error) \/ Succeed(p, 0, {}))
    BY <1>5 DEF UpdateOfRm, Query
  <2>2. CASE Fail(p, internal_error)
    BY <1>2, <2>1, <2>2 DEF Removing, Status
  <2>3. CASE Succeed(p, 0, {})
    <3>1. /\ rep[p].type = "rm" /\ rep[p].info = 0 /\ act[p].req.do = "rm"
          /\ Proved(act[p].req) /\ act[p].stored = 0
      BY <2>1 DEF Control, Ctl, Underway, Removing, Known, Sending
    <3>2. 0 \notin Definite /\ ~OfRoot(act[p].req)
      BY <3>1 DEF Definite, unauthorized, forbidden, not_found, payload_too_large, OfRoot, Stubs
    <3>3. pc'[p] = "idle" /\ rep'[p].type = "rm" /\ rep'[p].info = 0
      BY <2>3, <3>1, SucceedAt
    <3>4. Finished(act[p], rep'[p])
      BY <3>1, <3>2, <3>3 DEF Finished, Authorised
    <3>5. Ctl(pc'[p], act'[p], rep'[p])
      BY <2>1, <3>3, <3>4 DEF Ctl
    <3>. QED
      BY <2>1, <2>3, <3>5, SucceedAt, ControlOf
  <2>. QED
    BY <2>1, <2>2, <2>3
<1>6. CASE CommandFails(p)
  BY <1>6, FailControl DEF CommandFails, OfRoot, Status
<1>7. CASE LoseConnection(p)
  BY <1>7 DEF LoseConnection, Control
<1>. QED
  BY <1>3, <1>4, <1>5, <1>6, <1>7

\* Control is kept by every step.
LEMMA ControlNext == TInv /\ Control /\ [Next]_vars => Control'
<1> SUFFICES ASSUME TInv, Control, [Next]_vars PROVE Control'
  OBVIOUS
<1>1. ASSUME NEW p \in Proc, NEW r \in Requests, Parse(p, r)
      PROVE  Control'
  BY <1>1, ParseControl
<1>2. ASSUME NEW p \in Proc, Step(p) \/ LoseConnection(p)
      PROVE  Control'
  BY <1>2, ByNameControl, VerifyControl, ReadControl, BeforeInsertControl, InsertControl, RmControl
     DEF Step
<1>3. CASE Platform \/ UNCHANGED vars
  BY <1>3 DEF Platform, vars, procVars, Control
<1>. QED
  BY <1>1, <1>2, <1>3 DEF Next

\* ... and holds at first.
LEMMA ControlInit == Init => Control
<1> SUFFICES ASSUME Init, NEW p \in Proc PROVE Ctl(pc[p], act[p], rep[p])
  BY DEF Control
<1>1. pc[p] = "idle" /\ act[p].stored = 0 /\ rep[p].type = "none" /\ rep[p].info = 0
  BY DEF Init, Start
<1>2. "none" \notin Actions /\ 0 \notin Definite
  BY DEF Actions, Stubs, Definite, unauthorized, forbidden, not_found, payload_too_large
<1>. QED
  BY <1>1, <1>2 DEF Ctl, Finished

\* What a process knows at each of its commands holds throughout.
LEMMA ControlInv == Spec => []Control
BY TypingInv, ControlInit, ControlNext, PTL DEF Spec

----------------------------------------------------------------------------
(* What is answered *)

\* An answer without an error status is no error, and a refusal's status is
\* the one that was put there by Fail (response_to_json).
LEMMA StatusMeans ==
  ASSUME NEW r \in Response, r.type = "error" => (r.info # 0 \/ r.word # type_other)
  PROVE  /\ StatusOf(r) = Success <=> r.type # "error"
         /\ StatusOf(r) \in Definite => r.info \in Definite
<1>1. r.word \in Nat
  BY StoreAssumption DEF Response
<1>2. CASE r.type # "error"
  BY <1>2 DEF StatusOf, Success, Definite, unauthorized, forbidden, not_found, payload_too_large
<1>3. CASE r.type = "error" /\ r.word \in 0..2
  <2>1. StatusOf(r) = bad_request
    BY <1>3 DEF StatusOf, type_other
  <2>. QED
    BY <1>3, <2>1 DEF bad_request, Success, Definite, unauthorized, forbidden, not_found,
                      payload_too_large
<1>4. CASE r.type = "error" /\ r.word = 3
  <2>1. StatusOf(r) = too_many_requests
    BY <1>4 DEF StatusOf, type_other
  <2>. QED
    BY <1>4, <2>1 DEF too_many_requests, Success, Definite, unauthorized, forbidden, not_found,
                      payload_too_large
<1>5. CASE r.type = "error" /\ r.word = type_other
  <2>1. StatusOf(r) = r.info
    BY <1>5 DEF StatusOf, type_other
  <2>. QED
    BY <1>5, <2>1 DEF Success
<1>6. CASE r.type = "error" /\ r.word \notin 0..2 \cup {3, type_other}
  <2>1. StatusOf(r) = Unreachable
    BY <1>6 DEF StatusOf, type_other
  <2>. QED
    BY <1>6, <2>1 DEF Unreachable, Success, Definite, unauthorized, forbidden, not_found,
                      payload_too_large
<1>. QED
  BY <1>1, <1>2, <1>3, <1>4, <1>5, <1>6 DEF type_other

\* Control and the types say all that Evaluate promises about answers.
LEMMA AnswersOf ==
  TInv /\ Control => ActsIdentified /\ SendAnswersItsRow /\ RefusalStoresNothing /\ RootNeedsNoDatabase
<1> SUFFICES ASSUME TInv, Control
             PROVE  ActsIdentified /\ SendAnswersItsRow /\ RefusalStoresNothing /\ RootNeedsNoDatabase
  OBVIOUS
<1>1. ASSUME NEW p \in Proc, pc[p] = "idle"
      PROVE  /\ Finished(act[p], rep[p]) /\ rep[p] \in Response
             /\ StatusOf(rep[p]) = Success <=> rep[p].type # "error"
             /\ StatusOf(rep[p]) \in Definite => rep[p].info \in Definite
  <2>1. Ctl(pc[p], act[p], rep[p]) /\ rep[p] \in Response
    BY DEF Control, TInv, Typed, ProcTypeOK
  <2>. QED
    BY <1>1, <2>1, StatusMeans DEF Ctl
<1>2. "error" \notin Actions
  BY DEF Actions, Stubs
<1>3. ActsIdentified
  <2> SUFFICES ASSUME NEW p \in Proc, pc[p] = "idle", rep[p].type \in Actions
               PROVE  /\ act[p].req.key \in User \cup {Root} /\ Proven(act[p].req)
                      /\ act[p].req.do \in {"block", "unblock", "ban", "unban"}
                           => act[p].req.key \notin Member
    BY DEF ActsIdentified
  <2>1. Authorised(act[p].req)
    BY <1>1 DEF Finished
  <2>2. Root \notin Member /\ Pro \cap Member = {}
    BY StoreAssumption DEF Root, User
  <2>. QED
    BY <2>1, <2>2, EvaluateAssumption DEF Authorised, Proved, Proven
<1>4. SendAnswersItsRow
  <2> SUFFICES ASSUME NEW p \in Proc, Succeeded(p, "send")
               PROVE  rep[p].word = act[p].stored /\ act[p].stored # 0
    BY DEF SendAnswersItsRow
  <2>1. /\ pc[p] = "idle" /\ rep[p].type # "none" /\ act[p].req.do = "send"
        /\ StatusOf(rep[p]) = Success
    BY DEF Succeeded, Answered
  <2>2. rep[p].type \in Actions
    BY <1>1, <2>1 DEF Response
  <2>. QED
    BY <1>1, <2>1, <2>2 DEF Finished
<1>5. RefusalStoresNothing
  BY <1>1 DEF RefusalStoresNothing, Finished, Definite
<1>6. RootNeedsNoDatabase
  <2> SUFFICES ASSUME NEW p \in Proc, NEW do \in Stubs, Answered(p, do), OfRoot(act[p].req)
               PROVE  StatusOf(rep[p]) = Success
    BY DEF RootNeedsNoDatabase, OfRoot, Answered
  <2>. QED
    BY <1>1, <1>2 DEF Answered, Finished
<1>. QED
  BY <1>3, <1>4, <1>5, <1>6

\* Nobody without a key, its password and the role for the action is answered
\* otherwise than with an error (invariant ActsIdentified).
THEOREM Identification == Spec => []ActsIdentified
BY TypingInv, ControlInv, AnswersOf, PTL

\* A send that is answered with a msg_id stored the row of that id (invariant
\* SendAnswersItsRow).
THEOREM SendAnswers == Spec => []SendAnswersItsRow
BY TypingInv, ControlInv, AnswersOf, PTL

\* A refusal by status 401, 403, 404 or 413 left no row behind (invariant
\* RefusalStoresNothing).
THEOREM Refusals == Spec => []RefusalStoresNothing
BY TypingInv, ControlInv, AnswersOf, PTL

\* The stubs root asks for are answered whatever becomes of the database
\* (invariant RootNeedsNoDatabase).
THEOREM RootServed == Spec => []RootNeedsNoDatabase
BY TypingInv, ControlInv, AnswersOf, PTL

----------------------------------------------------------------------------
(* The rows of the store *)

\* Inductive with TInv and Control: no id is ahead of the sequence.
Rows ==
  /\ ReferentialIntegrity /\ NoSelfMessage /\ UniqueIds /\ SentByWhoAsked
  /\ \A p \in Proc : act[p].stored < nextId

\* What a step does to the store: nothing (and then the locals of an action
\* that stored a row stay as they are), one insert, one deletion, or what the
\* platform does.
Quiet == UNCHANGED storeVars /\ \A p \in Proc : act'[p] = act[p] \/ act'[p].stored = 0
Inserts(p) ==
  /\ pc[p] = "insert_msg" /\ InsertMsg(act[p].id, act[p].user, act[p].begun)
  /\ act' = IF InsertAllowed(act[p].id, act[p].user)
              THEN [act EXCEPT ![p].stored = nextId] ELSE act
Deletes(p) ==
  pc[p] = "rm_update" /\ MarkDeleted(act[p].req.arg, act[p].begun) /\ UNCHANGED act

\* There is no other step.
LEMMA Effect ==
  ASSUME TInv, Control, [Next]_vars
  PROVE  Quiet \/ (\E p \in Proc : Inserts(p) \/ Deletes(p)) \/ (Platform /\ UNCHANGED act)
<1>1. ASSUME NEW p \in Proc, NEW r \in Requests, Parse(p, r)
      PROVE  Quiet
  <2>1. act' = [act EXCEPT ![p] = Start(r)] /\ UNCHANGED storeVars
    BY <1>1 DEF Parse
  <2>. QED
    BY <2>1, StartType DEF Start, TInv, Typed, ProcTypeOK, Quiet
<1>2. ASSUME NEW p \in Proc, UNCHANGED storeVars, UNCHANGED act
      PROVE  Quiet
  BY <1>2 DEF Quiet
<1>3. ASSUME NEW p \in Proc, NEW b, b.stored = act[p].stored, pc[p] \notin {"idle", "exited"},
             act' = [act EXCEPT ![p] = b], UNCHANGED storeVars
      PROVE  Quiet
  <2>1. act[p].stored = 0
    BY <1>3 DEF Control, Ctl, Underway
  <2>. QED
    BY <1>3, <2>1 DEF TInv, Typed, ProcTypeOK, Quiet
<1>4. ASSUME NEW p \in Proc
      PROVE  act[p] \in Locals
  BY DEF TInv, Typed, ProcTypeOK
<1>5. ASSUME NEW p \in Proc, NEW u, Resolved(p, u), pc[p] \notin {"idle", "exited"},
             UNCHANGED storeVars
      PROVE  Quiet
  BY <1>3, <1>4, <1>5 DEF Resolved, Locals
<1>6. ASSUME NEW p \in Proc, NEW id, NEW role, Identified(p, id, role), pc[p] = "verify",
             UNCHANGED storeVars
      PROVE  Quiet
  <2>. DEFINE b == [act[p] EXCEPT !.id = id, !.role = role]
  <2>1. b.stored = act[p].stored
    BY <1>4 DEF Locals
  <2>2. act' = [act EXCEPT ![p] = b]
    BY <1>6 DEF Identified
  <2>. QED
    BY <1>3, <1>6, <2>1, <2>2
<1>7. ASSUME NEW p \in Proc, ByMember(p) \/ ByPro(p)
      PROVE  Quiet
  BY <1>2, <1>5, <1>7 DEF ByMember, ByPro, Query
<1>8. ASSUME NEW p \in Proc, VerifyRoot(p) \/ Verify(p)
      PROVE  Quiet
  BY <1>2, <1>6, <1>8 DEF VerifyRoot, Verify, At, Query
<1>9. ASSUME NEW p \in Proc,
             \/ ByEmail(p) \/ VerifyRootNoPassword(p) \/ GetUser(p) \/ GetInbox(p)
             \/ CheckContacted(p) \/ AssertOfRm(p) \/ CommandFails(p)
             \/ LoseConnection(p)
      PROVE  Quiet
  BY <1>2, <1>9 DEF ByEmail, VerifyRootNoPassword, GetUser, GetInbox, CheckContacted,
                    AssertOfRm, CommandFails, LoseConnection
<1>10. ASSUME NEW p \in Proc, GetDestRole(p)
       PROVE  Quiet
  <2>. DEFINE b == [act[p] EXCEPT !.dest_role = UserRole(act[p].user)]
  <2>1. b.stored = act[p].stored
    BY <1>4 DEF Locals
  <2>2. (act' = [act EXCEPT ![p] = b] \/ UNCHANGED act) /\ pc[p] = "dest_role" /\ UNCHANGED storeVars
    BY <1>10 DEF GetDestRole, Query
  <2>. QED
    BY <1>2, <1>3, <2>1, <2>2
<1>11. ASSUME NEW p \in Proc, SendMsg(p) \/ ScanOfRm(p)
       PROVE  Quiet
  <2>. DEFINE b == [act[p] EXCEPT !.begun = now]
  <2>1. b.stored = act[p].stored
    BY <1>4 DEF Locals
  <2>2. /\ act' = [act EXCEPT ![p] = b] \/ UNCHANGED act
        /\ pc[p] \in {"send_msg", "rm_scan"} /\ UNCHANGED storeVars
    BY <1>11 DEF SendMsg, ScanOfRm, Query
  <2>. QED
    BY <1>2, <1>3, <2>1, <2>2
<1>12. ASSUME NEW p \in Proc, InsertOfSend(p)
       PROVE  Quiet \/ Inserts(p)
  BY <1>2, <1>12 DEF InsertOfSend, Query, Inserts
<1>13. ASSUME NEW p \in Proc, UpdateOfRm(p)
       PROVE  Deletes(p)
  BY <1>13 DEF UpdateOfRm, Query, Deletes
<1>14. CASE Platform
  BY <1>14 DEF Platform, procVars
<1>15. CASE UNCHANGED vars
  BY <1>15 DEF vars, procVars, Quiet
<1>. QED
  BY <1>1, <1>7, <1>8, <1>9, <1>10, <1>11, <1>12, <1>13, <1>14, <1>15 DEF Next, Step

\* The sender, the recipient and the id of a row do not change with its
\* deletion, and the row does not appear or go away.
LEMMA DeletedRows ==
  ASSUME TInv, NEW id, NEW t, MarkDeleted(id, t), NEW n \in msgs'
  PROVE  \E m \in msgs : n.id = m.id /\ n.sender = m.sender /\ n.recipient = m.recipient
                           /\ (n.id # id => n = m)
                           /\ (n.id = id => n = [m EXCEPT !.deletedAge = t - m.sentAt])
<1>1. PICK m \in msgs : n = IF m.id = id THEN [m EXCEPT !.deletedAge = t - m.sentAt] ELSE m
  BY DEF MarkDeleted
<1>2. m \in Msg
  BY DEF TInv, Typed, StoreTypeOK
<1>. QED
  BY <1>1, <1>2 DEF Msg

\* The rows of the store, step by step.
LEMMA QuietRows ==
  ASSUME TInv, Rows, Quiet
  PROVE  Rows'
<1>1. UNCHANGED <<users, msgs, nextId, blocks, bans>>
  BY DEF Quiet, storeVars
<1>2. 0 < nextId /\ \A m \in msgs : m.id # 0
  BY DEF TInv, Typed, StoreTypeOK, Msg, MsgId
<1>3. \A p \in Proc : act'[p] = act[p] \/ act'[p].stored = 0
  BY DEF Quiet
<1>4. ReferentialIntegrity' /\ NoSelfMessage'
  BY <1>1 DEF Rows, ReferentialIntegrity, NoSelfMessage
<1>5. UniqueIds'
  BY <1>1, <1>3 DEF Rows, UniqueIds
<1>6. SentByWhoAsked'
  BY <1>1, <1>2, <1>3 DEF Rows, SentByWhoAsked
<1>7. \A p \in Proc : act'[p].stored < nextId'
  BY <1>1, <1>2, <1>3 DEF Rows
<1>. QED
  BY <1>4, <1>5, <1>6, <1>7 DEF Rows

\* An insert takes an id nobody has, for a sender and a recipient that exist
\* (tables.sql:42-49).
LEMMA InsertRows ==
  ASSUME TInv, Control, Rows, NEW p \in Proc, Inserts(p)
  PROVE  Rows'
<1>. DEFINE a == act[p]
            n == [id |-> nextId, sender |-> a.id, recipient |-> a.user,
                  sentAt |-> a.begun, deletedAge |-> Null]
<1>1. /\ a \in Locals /\ Underway("insert_msg", a, rep[p])
      /\ nextId \in Nat /\ nextId' = nextId + 1
      /\ UNCHANGED <<users, blocks, bans>>
  BY DEF Inserts, InsertMsg, Control, Ctl, TInv, Typed, ProcTypeOK, StoreTypeOK
<1>2. \A m \in msgs : m.id \in Nat
  BY DEF TInv, Typed, StoreTypeOK, Msg, MsgId
<1>3. \A q \in Proc : act[q].stored \in Nat
  BY StoreAssumption DEF TInv, Typed, ProcTypeOK, Locals
<1>4. CASE ~InsertAllowed(a.id, a.user)
  <2>1. msgs' = msgs /\ act' = act
    BY <1>4 DEF Inserts, InsertMsg
  <2>2. ReferentialIntegrity' /\ NoSelfMessage' /\ SentByWhoAsked'
    BY <1>1, <2>1 DEF Rows, ReferentialIntegrity, NoSelfMessage, SentByWhoAsked
  <2>3. UniqueIds' /\ \A q \in Proc : act'[q].stored < nextId'
    BY <1>1, <1>2, <1>3, <2>1 DEF Rows, UniqueIds
  <2>. QED
    BY <2>2, <2>3 DEF Rows
<1>5. CASE InsertAllowed(a.id, a.user)
  <2>. DEFINE b == [a EXCEPT !.stored = nextId]
  <2>1. msgs' = msgs \cup {n}
    BY <1>5 DEF Inserts, InsertMsg
  <2>2. act' = [act EXCEPT ![p] = b]
    BY <1>5 DEF Inserts
  <2>3. act'[p] = b /\ \A q \in Proc \ {p} : act'[q] = act[q]
    BY <2>2 DEF TInv, Typed, ProcTypeOK
  <2>4. act'[p].stored = nextId /\ act'[p].req = a.req /\ act'[p].user = a.user
    BY <1>1, <2>3 DEF Locals
  <2>10. n.id = nextId /\ n.sender = a.id /\ n.recipient = a.user
    OBVIOUS
  <2>. HIDE DEF b, n
  <2>5. ReferentialIntegrity'
    BY <1>1, <1>5, <2>1, <2>10 DEF Rows, ReferentialIntegrity, InsertAllowed
  <2>6. NoSelfMessage'
    BY <1>5, <2>1, <2>10 DEF Rows, NoSelfMessage, InsertAllowed
  <2>7. \A q \in Proc : act'[q].stored < nextId'
    <3> SUFFICES ASSUME NEW q \in Proc PROVE act'[q].stored < nextId'
      OBVIOUS
    <3>1. CASE q = p
      BY <1>1, <2>4, <3>1
    <3>2. CASE q # p
      <4>1. act'[q].stored = act[q].stored /\ act[q].stored < nextId
        BY <2>3, <3>2 DEF Rows
      <4>. QED
        BY <1>1, <1>3, <4>1
    <3>. QED
      BY <3>1, <3>2
  <2>8. UniqueIds'
    <3>1. \A m \in msgs' : m.id < nextId'
      BY <1>1, <1>2, <2>1, <2>10 DEF Rows, UniqueIds
    <3>2. \A m, o \in msgs' : m.id = o.id => m = o
      BY <1>1, <1>2, <2>1, <2>10 DEF Rows, UniqueIds
    <3>3. ASSUME NEW q \in Proc, NEW t \in Proc, q # t, act'[q].stored = act'[t].stored
          PROVE  act'[q].stored = 0
      <4>1. \A x \in Proc \ {p} : act'[x].stored = act[x].stored /\ act'[x].stored < nextId
        BY <2>3 DEF Rows
      <4>2. q # p /\ t # p
        BY <1>1, <2>4, <3>3, <4>1
      <4>. QED
        BY <3>3, <4>1, <4>2 DEF Rows, UniqueIds
    <3>. QED
      BY <3>1, <3>2, <3>3 DEF UniqueIds
  <2>9. SentByWhoAsked'
    <3> SUFFICES ASSUME NEW q \in Proc, NEW m \in msgs', m.id = act'[q].stored
                 PROVE  /\ m.sender = act'[q].req.key /\ Proven(act'[q].req)
                        /\ m.recipient = act'[q].user
                        /\ act'[q].req.do = "send" /\ ~act'[q].req.long
      BY DEF SentByWhoAsked
    <3>1. CASE q = p
      <4>1. m = n
        BY <1>1, <1>2, <2>1, <2>4, <3>1 DEF Rows, UniqueIds
      <4>2. a.id = a.req.key /\ Proven(a.req) /\ a.req.do = "send" /\ ~a.req.long
        BY <1>1 DEF Underway, Known, Sending, Proved, Proven
      <4>. QED
        BY <2>4, <2>10, <3>1, <4>1, <4>2
    <3>2. CASE q # p
      <4>1. m \in msgs
        BY <1>1, <1>3, <2>1, <2>3, <2>10, <3>2 DEF Rows
      <4>. QED
        BY <2>3, <3>2, <4>1 DEF Rows, SentByWhoAsked
    <3>. QED
      BY <3>1, <3>2
  <2>. QED
    BY <2>5, <2>6, <2>7, <2>8, <2>9 DEF Rows
<1>. QED
  BY <1>4, <1>5

\* A deletion touches no key (msg.sql:40-52).
LEMMA DeleteRows ==
  ASSUME TInv, Rows, NEW p \in Proc, Deletes(p)
  PROVE  Rows'
<1>. DEFINE id == act[p].req.arg
            t == act[p].begun
<1>1. MarkDeleted(id, t) /\ UNCHANGED <<users, nextId, blocks, bans, act>>
  BY DEF Deletes, MarkDeleted
<1>2. \A n \in msgs' : \E m \in msgs :
        /\ n.id = m.id /\ n.sender = m.sender /\ n.recipient = m.recipient
        /\ n.id # id => n = m
        /\ n.id = id => n = [m EXCEPT !.deletedAge = t - m.sentAt]
  BY <1>1, DeletedRows
<1>3. ReferentialIntegrity'
  BY <1>1, <1>2 DEF Rows, ReferentialIntegrity
<1>4. NoSelfMessage'
  BY <1>2 DEF Rows, NoSelfMessage
<1>5. UniqueIds'
  <2>1. \A m \in msgs' : m.id < nextId'
    BY <1>1, <1>2 DEF Rows, UniqueIds
  <2>2. \A m, o \in msgs' : m.id = o.id => m = o
    <3> SUFFICES ASSUME NEW m \in msgs', NEW o \in msgs', m.id = o.id PROVE m = o
      OBVIOUS
    <3>. HIDE DEF id, t
    <3>1. PICK x \in msgs : /\ m.id = x.id
                            /\ m.id # id => m = x
                            /\ m.id = id => m = [x EXCEPT !.deletedAge = t - x.sentAt]
      BY <1>2
    <3>2. PICK y \in msgs : /\ o.id = y.id
                            /\ o.id # id => o = y
                            /\ o.id = id => o = [y EXCEPT !.deletedAge = t - y.sentAt]
      BY <1>2
    <3>3. x.id = y.id
      BY <3>1, <3>2
    <3>4. x = y
      BY <3>3 DEF Rows, UniqueIds
    <3>5. CASE m.id = id
      <4>1. o.id = id
        BY <3>5
      <4>. QED
        BY <3>1, <3>2, <3>4, <3>5, <4>1
    <3>6. CASE m.id # id
      <4>1. o.id # id
        BY <3>6
      <4>. QED
        BY <3>1, <3>2, <3>4, <3>6, <4>1
    <3>. QED
      BY <3>5, <3>6
  <2>. QED
    BY <1>1, <2>1, <2>2 DEF Rows, UniqueIds
<1>6. SentByWhoAsked'
  BY <1>1, <1>2 DEF Rows, SentByWhoAsked
<1>. QED
  BY <1>1, <1>3, <1>4, <1>5, <1>6 DEF Rows

\* The platform deletes a user with everything that refers to it, and blocks
\* and bans only users that exist.
LEMMA PlatformRows ==
  ASSUME TInv, Rows, Platform, UNCHANGED act
  PROVE  Rows'
<1>1. msgs' \subseteq msgs /\ nextId' = nextId
  BY DEF Platform, DeleteUser, Register, Rename, LiftBlock, SetBlock, SetBan, Tick
<1>2. NoSelfMessage' /\ UniqueIds' /\ SentByWhoAsked'
  BY <1>1 DEF Rows, NoSelfMessage, UniqueIds, SentByWhoAsked
<1>3. ReferentialIntegrity'
  <2>1. ASSUME NEW u \in User, DeleteUser(u)
        PROVE  ReferentialIntegrity'
    <3>1. \A m \in msgs' : m.sender \in users' \cup {Root} /\ m.recipient \in users'
      BY <2>1 DEF DeleteUser, Rows, ReferentialIntegrity
    <3>2. /\ \A b \in blocks' : b.member \in users' /\ b.pro \in users'
          /\ \A b \in bans' : b.member \in users'
      BY <2>1 DEF DeleteUser, Rows, ReferentialIntegrity
    <3>. QED
      BY <3>1, <3>2 DEF ReferentialIntegrity
  <2>2. ASSUME NEW m \in Member, NEW q \in Pro,
               LiftBlock(m, q) \/ \E t \in BlockTimes : SetBlock(m, q, t)
        PROVE  ReferentialIntegrity'
    BY <2>2 DEF LiftBlock, SetBlock, Rows, ReferentialIntegrity
  <2>3. ASSUME NEW m \in Member, NEW t, SetBan(m, t)
        PROVE  ReferentialIntegrity'
    BY <2>3 DEF SetBan, Rows, ReferentialIntegrity
  <2>4. CASE Tick
    BY <2>4 DEF Tick, Rows, ReferentialIntegrity
  <2>5. ASSUME NEW u, NEW n, Register(u, n) \/ Rename(u, n)
        PROVE  ReferentialIntegrity'
    BY <2>5 DEF Register, Rename, Rows, ReferentialIntegrity
  <2>6. /\ Leavers \subseteq User /\ Bannable \subseteq Member
        /\ \A b \in Blockable : b[1] \in Member /\ b[2] \in Pro
    BY EvaluateAssumption
  <2>. QED
    BY <2>1, <2>2, <2>3, <2>4, <2>5, <2>6 DEF Platform
<1>. QED
  BY <1>1, <1>2, <1>3 DEF Rows

\* Rows is kept by every step.
LEMMA RowsNext == TInv /\ Control /\ Rows /\ [Next]_vars => Rows'
BY Effect, QuietRows, InsertRows, DeleteRows, PlatformRows

\* The empty store has no row that could break it.
LEMMA RowsInit == Init => Rows
<1> SUFFICES ASSUME Init PROVE Rows
  OBVIOUS
<1>1. msgs = {} /\ blocks = {} /\ bans = {} /\ nextId > 0
  BY StoreAssumption DEF Init, StoreInit
<1>2. \A p \in Proc : act[p].stored = 0
  BY DEF Init, Start
<1>. QED
  BY <1>1, <1>2 DEF Rows, ReferentialIntegrity, NoSelfMessage, UniqueIds, SentByWhoAsked

\* Rows holds throughout.
LEMMA RowsInv == Spec => []Rows
BY TypingInv, ControlInv, RowsInit, RowsNext, PTL DEF Spec

\* The foreign keys hold with the sender's and the recipient's look-ups, the
\* insert and the deletions of users in any order (invariant
\* ReferentialIntegrity).
THEOREM Integrity == Spec => []ReferentialIntegrity
<1>1. Rows => ReferentialIntegrity
  BY DEF Rows
<1>. QED
  BY <1>1, RowsInv, PTL

\* No message to oneself is stored, although no_send_self does not end the
\* action (invariant NoSelfMessage).
THEOREM NoSelf == Spec => []NoSelfMessage
<1>1. Rows => NoSelfMessage
  BY DEF Rows
<1>. QED
  BY <1>1, RowsInv, PTL

\* An id names one row for ever, for any number of processes that insert
\* (invariant UniqueIds).
THEOREM Identifiers == Spec => []UniqueIds
<1>1. Rows => UniqueIds
  BY DEF Rows
<1>. QED
  BY <1>1, RowsInv, PTL

\* The row an action stored has the sender who proved its identity in it, and
\* the recipient it asked for (invariant SentByWhoAsked).
THEOREM Senders == Spec => []SentByWhoAsked
<1>1. Rows => SentByWhoAsked
  BY DEF Rows
<1>. QED
  BY <1>1, RowsInv, PTL

\* A row that stays keeps its contents, and its deletion is for good.
LEMMA FadeStep ==
  ASSUME TInv, Control, [Next]_vars, NEW m \in msgs
  PROVE  \/ \E n \in msgs' : /\ n = [m EXCEPT !.deletedAge = n.deletedAge]
                             /\ (n.deletedAge = Null => m.deletedAge = Null)
         \/ m.sender \notin users' \cup {Root} \/ m.recipient \notin users'
<1>1. m \in Msg
  BY DEF TInv, Typed, StoreTypeOK
<1>2. m = [m EXCEPT !.deletedAge = m.deletedAge]
  BY <1>1 DEF Msg
<1>3. CASE m \in msgs'
  BY <1>2, <1>3
<1>4. ASSUME NEW p \in Proc, Deletes(p), m.id = act[p].req.arg
      PROVE  \E n \in msgs' : n = [m EXCEPT !.deletedAge = n.deletedAge] /\ n.deletedAge # Null
  <2>. DEFINE n == [m EXCEPT !.deletedAge = act[p].begun - m.sentAt]
  <2>1. n \in msgs'
    BY <1>4 DEF Deletes, MarkDeleted
  <2>2. n.deletedAge = act[p].begun - m.sentAt
    BY <1>1 DEF Msg
  <2>3. act[p].begun \in Nat /\ m.sentAt \in Nat /\ m.sentAt <= act[p].begun
    <3>1. act[p].begun \in Nat /\ m.sentAt \in Nat
      BY <1>1, StoreAssumption DEF TInv, Typed, ProcTypeOK, Locals, Msg, Time
    <3>2. m.sentAt <= act[p].begun
      BY <1>4 DEF TInv, Ages, Deleting, Deletes
    <3>. QED
      BY <3>1, <3>2
  <2>4. n.deletedAge # Null
    BY <2>2, <2>3 DEF Null
  <2>5. n = [m EXCEPT !.deletedAge = n.deletedAge]
    BY <2>2
  <2>. QED
    BY <2>1, <2>4, <2>5
<1>5. ASSUME NEW p \in Proc, Deletes(p), m.id # act[p].req.arg
      PROVE  m \in msgs'
  BY <1>5 DEF Deletes, MarkDeleted
<1>6. ASSUME NEW p \in Proc, Inserts(p)
      PROVE  m \in msgs'
  BY <1>6 DEF Inserts, InsertMsg
<1>7. CASE Quiet
  BY <1>3, <1>7 DEF Quiet, storeVars
<1>8. CASE Platform
  <2>1. ASSUME NEW u \in User, DeleteUser(u), m \notin msgs'
        PROVE  m.sender \notin users' \cup {Root} \/ m.recipient \notin users'
    <3>1. u # Root
      <4>1. u \in 1..IntMax
        BY StoreAssumption
      <4>. QED
        BY <4>1 DEF Root
    <3>. QED
      BY <2>1, <3>1 DEF DeleteUser
  <2>2. CASE \E u \in Leavers : DeleteUser(u)
    BY <1>3, <2>1, <2>2, EvaluateAssumption
  <2>3. CASE msgs' = msgs
    BY <1>3, <2>3
  <2>. QED
    BY <1>8, <2>2, <2>3 DEF Platform, Register, Rename, LiftBlock, SetBlock, SetBan, Tick
<1>. QED
  BY <1>3, <1>4, <1>5, <1>6, <1>7, <1>8, Effect

\* Rows only fade: whatever the order of the statements of rm, send and the
\* platform, no row is overwritten, comes back or goes away by itself
\* (property RowsOnlyFade).
THEOREM Fading == Spec => RowsOnlyFade
<1>1. TInv /\ Control /\ [Next]_vars =>
        \A m \in msgs :
          \/ \E n \in msgs' : /\ n = [m EXCEPT !.deletedAge = n.deletedAge]
                              /\ (n.deletedAge = Null => m.deletedAge = Null)
          \/ m.sender \notin users' \cup {Root} \/ m.recipient \notin users'
  BY FadeStep
<1>. QED
  BY <1>1, TypingInv, ControlInv, PTL DEF Spec, RowsOnlyFade
=============================================================================
