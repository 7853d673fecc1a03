------------------------------ MODULE Evaluate ------------------------------
(***************************************************************************)
(* The processes of tchatator-server that answer requests over one         *)
(* database: the socket server and every run with -i.  A process parses,   *)
(* evaluates and answers one action at a time (act, tchatator413.c); every *)
(* SQL command of that path is one step here, so that the commands of two  *)
(* processes, of the platform that owns the users, and the loss of a       *)
(* connection fall between any two of them.                                *)
(***************************************************************************)
EXTENDS Store

CONSTANTS
  Proc,          \* the server processes
  HasPassword,   \* the users with a password_hash
  PageInbox,     \* cfg page_inbox
  Leavers,       \* the users the platform may delete
  Movers,        \* the users it may register anew or rename
  NewNames,      \* the names it may give them
  Blockable,     \* the pairs of a member and a pro that may block it
  Bannable,      \* the members the platform may ban
  BlockTimes,    \* the expiry times it gives to blocks and bans
  Requests       \* the actions the clients ask for

Stubs == {"motd", "outbox", "edit", "block", "unblock", "ban", "unban"}
Actions == Stubs \cup {"whois", "send", "inbox", "rm"}

\* A user key of a request: an ID, a name, or an e-mail address.
UserKey == [by : {"id"}, val : 0..IntMax] \cup [by : {"name"}, val : Names]
             \cup [by : {"email"}, val : {0}]

\* A request: what to do, the API key (by its owner: 0 is root's, IntMax + 1
\* nobody's), the password given with it, the user key of whois, send and the
\* block family, the page of inbox or the msg_id of rm, and whether a
\* send's content is longer than max_msg_length.
Request ==
  [do : Actions \cup {"malformed", "unknown"}, key : 0..(IntMax + 1),
   pw : {"right", "wrong", "none"}, user : UserKey, arg : 1..IntMax, long : BOOLEAN]

ASSUME EvaluateAssumption ==
  /\ Requests \subseteq Request /\ Requests # {}
  /\ HasPassword \subseteq User
  /\ PageInbox \in 1..IntMax
  /\ Leavers \subseteq User /\ Movers \subseteq User
  /\ Blockable \subseteq Member \X Pro /\ Bannable \subseteq Member
  /\ NewNames \subseteq Names
  /\ BlockTimes \subseteq Time \cup {Infinity}

NamesUser(do) == do \in {"whois", "send", "block", "unblock", "ban", "unban"}

----------------------------------------------------------------------------
(* Responses *)

\* action_error_type_t; the missing key and the JSON type error render as
\* 400 like the invalid value does.
type_invalid == 2
type_invariant == 4
type_other == 5

\* status_t, and two values of the same field that are none: the low half of
\* the pointer to an invariant's name, and what follows unreachable().
bad_request == 400
unauthorized == 401
forbidden == 403
not_found == 404
payload_too_large == 413
unprocessable_content == 422
too_many_requests == 429
internal_error == 500
Status == {bad_request, unauthorized, forbidden, not_found, payload_too_large,
           unprocessable_content, too_many_requests, internal_error}
NamePointer == 1
Unreachable == -1
Success == 0

\* response_t.  The union body has one word at offset 0, which is
\* body.error.type and body.send.msg_id alike.
Response ==
  [type : Actions \cup {"error", "none"}, word : 0..(IntMax + 5),
   info : Status \cup {0, NamePointer}, page : SUBSET MsgId]

\* The status response_to_json puts in the answer.
StatusOf(r) ==
  IF r.type # "error" THEN Success
  ELSE CASE r.word \in 0..2 -> bad_request
         [] r.word = 3 -> too_many_requests
         [] r.word = type_other -> r.info
         [] OTHER -> Unreachable

----------------------------------------------------------------------------

VARIABLES
  pc,     \* pc[p]: the SQL command p runs next, "idle" or "exited"
  act,    \* act[p]: the locals of the action p evaluates
  rep,    \* rep[p]: the response of p's action, complete when p is idle
  conn    \* conn[p]: whether p's connection to the database is up

procVars == <<pc, act, rep, conn>>
vars == <<storeVars, procVars>>

Labels == {"idle", "exited", "by_member", "by_pro", "by_email", "verify", "get_user",
           "dest_role", "count", "send_msg", "insert_msg", "inbox", "rm_scan",
           "rm_assert", "rm_update"}

\* req: the request; user: the resolved user key; id and role: user_identity_t;
\* dest_role; begun: the localtimestamp of the send_msg or the delete command;
\* stored: the id of the row this action inserted (0 if none; a history variable).
Locals == [req : Requests, user : 0..IntMax, id : User \cup {Root}, role : Role \cup {0},
           dest_role : Role \cup {0}, begun : Time, stored : 0..IntMax]

Goto(p, label) == pc' = [pc EXCEPT ![p] = label]

\* Mutant of Fail: whatever failed is reported as forbidden.
FailForbidden(p, status) ==
  /\ Goto(p, "idle")
  /\ rep' = [rep EXCEPT ![p] =
       [type |-> "error", word |-> type_other, info |-> forbidden, page |-> {}]]

\* The macro fail of action_evaluate.
Fail(p, status) ==
  /\ Goto(p, "idle")
  /\ rep' = [rep EXCEPT ![p] =
       [type |-> "error", word |-> type_other, info |-> status, page |-> {}]]

\* Mutant of Succeed: the body is left as it was.
SucceedUnassigned(p, word, page) == Goto(p, "idle") /\ UNCHANGED rep

\* break, with the word of the body that the action sets (0 when it sets none).
Succeed(p, word, page) ==
  /\ Goto(p, "idle")
  /\ rep' = [rep EXCEPT ![p].word = word, ![p].page = page]

\* errno_exit
Exit(p) == Goto(p, "exited") /\ UNCHANGED rep

At(p, label) == pc[p] = label
Query(p, label) == pc[p] = label /\ conn[p]

----------------------------------------------------------------------------
(* action_parse *)

Start(r) == [req |-> r, user |-> IF r.user.by = "id" THEN r.user.val ELSE 0, id |-> Root,
             role |-> 0, dest_role |-> 0, begun |-> 0, stored |-> 0]

\* The command that resolves the user key, or verify when none is needed.
FirstCommand(r) ==
  IF ~NamesUser(r.do) \/ r.user.by = "id" THEN "verify"
  ELSE IF r.user.by = "email" THEN "by_email" ELSE "by_member"

\* A request arrives; action_parse either fails without the database or goes
\* on to its first command.
Parse(p, r) ==
  /\ At(p, "idle")
  /\ act' = [act EXCEPT ![p] = Start(r)]
  /\ UNCHANGED <<storeVars, conn>>
  /\ \/ /\ r.do = "malformed" \/ (NamesUser(r.do) /\ r.user.by = "id" /\ r.user.val = 0)
        /\ rep' = [rep EXCEPT ![p] =
             [type |-> "error", word |-> type_invalid, info |-> 0, page |-> {}]]
        /\ UNCHANGED pc
     \/ r.do = "unknown" /\ Fail(p, internal_error)
     \/ /\ r.do \in Actions
        /\ ~(NamesUser(r.do) /\ r.user.by = "id" /\ r.user.val = 0)
        /\ Goto(p, FirstCommand(r))
        /\ rep' = [rep EXCEPT ![p] = [type |-> r.do, word |-> 0, info |-> 0, page |-> {}]]

Resolved(p, u) ==
  /\ act' = [act EXCEPT ![p].user = u]
  /\ Goto(p, "verify")
  /\ UNCHANGED rep

\* db_get_user_id_by_name, the search among members: user_name is unique.
ByMember(p) ==
  /\ Query(p, "by_member")
  /\ LET found == {u \in users \cap Member : names[u] = act[p].req.user.val}
     IN  \/ \E u \in found : Resolved(p, u)
         \/ found = {} /\ Goto(p, "by_pro") /\ UNCHANGED <<act, rep>>
  /\ UNCHANGED <<storeVars, conn>>

\* Mutant of ByPro: the first of several pros will do.
ByAnyPro(p) ==
  /\ Query(p, "by_pro")
  /\ LET found == {u \in users \cap Pro : names[u] = act[p].req.user.val}
     IN  \/ \E u \in found : Resolved(p, u)
         \/ /\ found = {}
            /\ Goto(p, "idle")
            /\ rep' = [rep EXCEPT ![p] =
                 [type |-> "error", word |-> type_invalid, info |-> 0, page |-> {}]]
            /\ UNCHANGED act
  /\ UNCHANGED <<storeVars, conn>>

\* The fallback to business_name, which must name one pro.
ByPro(p) ==
  /\ Query(p, "by_pro")
  /\ LET found == {u \in users \cap Pro : names[u] = act[p].req.user.val}
     IN  \/ \E u \in found : found = {u} /\ Resolved(p, u)
         \/ /\ Cardinality(found) # 1
            /\ Goto(p, "idle")
            /\ rep' = [rep EXCEPT ![p] =
                 [type |-> "error", word |-> type_invalid, info |-> 0, page |-> {}]]
            /\ UNCHANGED act
  /\ UNCHANGED <<storeVars, conn>>

\* db_get_user_id_by_email: view "user" has no column email, so the command
\* fails whether or not the database is there.
ByEmail(p) ==
  /\ At(p, "by_email")
  /\ Fail(p, internal_error)
  /\ UNCHANGED <<storeVars, act, conn>>

----------------------------------------------------------------------------
(* db_verify_user_constr, and check_role after it *)

AllowedRoles(do) == IF do \in {"block", "unblock", "ban", "unban"}
                      THEN {role_admin, role_pro} ELSE Role

NextCommand(do) ==
  CASE do = "whois" -> "get_user"
    [] do = "send" -> "dest_role"
    [] do = "inbox" -> "inbox"
    [] OTHER -> "rm_scan"

\* Mutant of Identified: user.id is not assigned.
IdentifiedRoleOnly(p, id, role) ==
  LET do == act[p].req.do
  IN  /\ act' = [act EXCEPT ![p].role = role]
      /\ \/ role \notin AllowedRoles(do) /\ Fail(p, forbidden)
         \/ role \in AllowedRoles(do) /\ do \in Stubs /\ Succeed(p, 0, {})
         \/ /\ role \in AllowedRoles(do) /\ do \notin Stubs
            /\ Goto(p, NextCommand(do))
            /\ UNCHANGED rep

\* The caller is known: check its role, then go on (a stub has nothing to do).
Identified(p, id, role) ==
  LET do == act[p].req.do
  IN  /\ act' = [act EXCEPT ![p].id = id, ![p].role = role]
      /\ \/ role \notin AllowedRoles(do) /\ Fail(p, forbidden)
         \/ role \in AllowedRoles(do) /\ do \in Stubs /\ Succeed(p, 0, {})
         \/ /\ role \in AllowedRoles(do) /\ do \notin Stubs
            /\ Goto(p, NextCommand(do))
            /\ UNCHANGED rep

\* Mutant of VerifyRoot: root is looked for in the database.
VerifyRootOnline(p) ==
  /\ Query(p, "verify") /\ act[p].req.key = Root /\ act[p].req.pw = "right"
  /\ Identified(p, Root, role_admin)
  /\ UNCHANGED <<storeVars, conn>>

\* The root key with root's password: no database needed.
VerifyRoot(p) ==
  /\ At(p, "verify") /\ act[p].req.key = Root /\ act[p].req.pw = "right"
  /\ Identified(p, Root, role_admin)
  /\ UNCHANGED <<storeVars, conn>>

\* The root key without a password: bcrypt_checkpw is handed NULL.
VerifyRootNoPassword(p) ==
  /\ At(p, "verify") /\ act[p].req.key = Root /\ act[p].req.pw = "none"
  /\ Exit(p)
  /\ UNCHANGED <<storeVars, act, conn>>

\* check_password for a user: PQgetvalue never returns NULL, so a missing
\* password is wrong even for a user with no hash, and a password for a user
\* with none is checked against "": bcrypt either fails, which ends the
\* process, or finds it different.
PasswordRefused(u, pw) == pw = "none" \/ (pw = "wrong" /\ u \in HasPassword) \/ u \notin HasPassword
PasswordExits(u, pw) == pw # "none" /\ u \notin HasPassword

\* Mutant of PasswordAccepted: no password passes.
PasswordAcceptedIfNone(u, pw) == (pw = "right" /\ u \in HasPassword) \/ pw = "none"

PasswordAccepted(u, pw) == pw = "right" /\ u \in HasPassword

\* validate_db_role
ValidRole(role) == role \in Role

\* The lookup of the API key in view "user".  The view gives an admin role
\* 0, which validate_db_role refuses.
Verify(p) ==
  /\ Query(p, "verify")
  /\ LET key == act[p].req.key
         pw == act[p].req.pw
     IN  /\ key # Root \/ pw # "right"
         /\ \/ key \notin users /\ Fail(p, unauthorized) /\ UNCHANGED act
            \/ /\ key \in users /\ ~ValidRole(UserRole(key))
               /\ Fail(p, internal_error) /\ UNCHANGED act
            \/ /\ key \in users /\ ValidRole(UserRole(key))
               /\ \/ PasswordRefused(key, pw) /\ Fail(p, unauthorized) /\ UNCHANGED act
                  \/ PasswordExits(key, pw) /\ Exit(p) /\ UNCHANGED act
                  \/ PasswordAccepted(key, pw) /\ Identified(p, key, UserRole(key))
  /\ UNCHANGED <<storeVars, conn>>

----------------------------------------------------------------------------
(* whois, inbox *)

\* Mutant of GetUser: a user whose role is none is reported as missing.
GetUserWithRole(p) ==
  /\ Query(p, "get_user")
  /\ LET u == act[p].user
     IN  \/ (u \notin users \/ ~ValidRole(UserRole(u))) /\ Fail(p, not_found)
         \/ u \in users /\ ValidRole(UserRole(u)) /\ Succeed(p, 0, {})
  /\ UNCHANGED <<storeVars, act, conn>>

\* db_get_user
GetUser(p) ==
  /\ Query(p, "get_user")
  /\ LET u == act[p].user
     IN  \/ u \notin users /\ Fail(p, not_found)
         \/ u \in users /\ ~ValidRole(UserRole(u)) /\ Fail(p, internal_error)
         \/ u \in users /\ ValidRole(UserRole(u)) /\ Succeed(p, 0, {})
  /\ UNCHANGED <<storeVars, act, conn>>

\* The arithmetic of int: page_inbox * (page - 1) wraps around.
Wrap(n) == ((n + IntMax + 1) % (2 * (IntMax + 1))) - (IntMax + 1)

\* Mutant of GetInbox: each page leaves out what precedes it once more.
GetInboxSkipping(p) ==
  /\ Query(p, "inbox")
  /\ LET offset == Wrap((PageInbox + 1) * (act[p].req.arg - 1))
     IN  \/ offset < 0 /\ Fail(p, internal_error)
         \/ offset >= 0 /\ Succeed(p, 0, {m.id : m \in PageRows(act[p].id, PageInbox, offset)})
  /\ UNCHANGED <<storeVars, act, conn>>

\* db_get_inbox: PostgreSQL refuses a negative offset.
GetInbox(p) ==
  /\ Query(p, "inbox")
  /\ LET offset == Wrap(PageInbox * (act[p].req.arg - 1))
     IN  \/ offset < 0 /\ Fail(p, internal_error)
         \/ /\ offset >= 0
            /\ Succeed(p, 0, {m.id : m \in PageRows(act[p].id, PageInbox, offset)})
  /\ UNCHANGED <<storeVars, act, conn>>

----------------------------------------------------------------------------
(* send *)

\* The word of the body is written over by whichever member is assigned last.
FailInvariant(p) ==
  rep' = [rep EXCEPT ![p].type = "error", ![p].word = type_invariant, ![p].info = NamePointer]

\* The invariants that are checked before the count of messages; the macro
\* fail_invariant does not return, so the action goes on.
BreaksInvariant(a, dest_role) ==
  \/ a.id = a.user                                              \* no_send_self
  \/ a.role = role_member /\ dest_role # role_pro               \* client_send_pro
  \/ a.role = role_pro /\ dest_role # role_member               \* pro_responds_client

\* db_get_user_role of the recipient, then the length and the invariants.
GetDestRole(p) ==
  /\ Query(p, "dest_role")
  /\ LET a == act[p]
         role == UserRole(a.user)
     IN  \/ a.user \notin users /\ Fail(p, not_found) /\ UNCHANGED act
         \/ a.user \in users /\ ~ValidRole(role) /\ Fail(p, internal_error) /\ UNCHANGED act
         \/ /\ a.user \in users /\ ValidRole(role) /\ a.req.long
            /\ Fail(p, payload_too_large) /\ UNCHANGED act
         \/ /\ a.user \in users /\ ValidRole(role) /\ ~a.req.long
            /\ act' = [act EXCEPT ![p].dest_role = role]
            /\ Goto(p, IF a.role = role_pro /\ role = role_member THEN "count" ELSE "send_msg")
            /\ IF BreaksInvariant(a, role) THEN FailInvariant(p) ELSE UNCHANGED rep
  /\ UNCHANGED <<storeVars, conn>>

\* db_count_msg: the number of rows of a select count(*), -1 when it fails.
CountMsg(p) == IF conn[p] THEN 1 ELSE -1

\* pro_responds_client: the member wrote to the pro first.
CheckContacted(p) ==
  /\ At(p, "count")
  /\ IF CountMsg(p) = 0 THEN FailInvariant(p) ELSE UNCHANGED rep
  /\ Goto(p, "send_msg")
  /\ UNCHANGED <<storeVars, act, conn>>

\* The start of select send_msg(...): its transaction's time and the blocks.
SendMsg(p) ==
  /\ Query(p, "send_msg")
  /\ \/ Refuses(act[p].id, act[p].user) /\ Fail(p, forbidden) /\ UNCHANGED act
     \/ /\ ~Refuses(act[p].id, act[p].user)
        /\ act' = [act EXCEPT ![p].begun = now]
        /\ Goto(p, "insert_msg")
        /\ UNCHANGED rep
  /\ UNCHANGED <<storeVars, conn>>

\* The answer runs into unreachable(): the process may end there, or answer anything.
RendersUndefined(p, id) == StatusOf([rep[p] EXCEPT !.word = id]) = Unreachable

\* Mutant of InsertOfSend: an answer that is lost makes it try again.
InsertOfSendRetried(p) ==
  LET a == act[p]
  IN  /\ Query(p, "insert_msg")
      /\ InsertMsg(a.id, a.user, a.begun)
      /\ IF InsertAllowed(a.id, a.user)
           THEN /\ act' = [act EXCEPT ![p].stored = nextId]
                /\ Succeed(p, nextId, {}) \/ (Goto(p, "send_msg") /\ UNCHANGED rep)
           ELSE Fail(p, internal_error) /\ UNCHANGED act
      /\ UNCHANGED conn

\* The insert of send_msg.  An id that the sequence cannot give, or a row that
\* a constraint refuses, fails the command; so does the loss of the
\* connection before the answer arrives, whether or not the insert committed.
InsertOfSend(p) ==
  LET a == act[p]
  IN  /\ Query(p, "insert_msg")
      /\ \/ /\ SequenceExhausted
            /\ Fail(p, internal_error)
            /\ UNCHANGED <<storeVars, act, conn>>
         \/ /\ InsertMsg(a.id, a.user, a.begun)
            /\ IF InsertAllowed(a.id, a.user)
                 THEN /\ act' = [act EXCEPT ![p].stored = nextId]
                      /\ \/ Succeed(p, nextId, {}) /\ UNCHANGED conn
                         \/ RendersUndefined(p, nextId) /\ Exit(p) /\ UNCHANGED conn
                         \/ Fail(p, internal_error) /\ conn' = [conn EXCEPT ![p] = FALSE]
                 ELSE Fail(p, internal_error) /\ UNCHANGED <<act, conn>>

----------------------------------------------------------------------------
(* rm *)

\* delete from msg where msg_id = $1: the start of its transaction, and the
\* rows of the view.
ScanOfRm(p) ==
  /\ Query(p, "rm_scan")
  /\ \/ ~NotDeleted(act[p].req.arg) /\ Fail(p, not_found) /\ UNCHANGED act
     \/ /\ NotDeleted(act[p].req.arg)
        /\ act' = [act EXCEPT ![p].begun = now]
        /\ Goto(p, "rm_assert")
        /\ UNCHANGED rep
  /\ UNCHANGED <<storeVars, conn>>

\* ftg_msg_delete's assertion, on a newer snapshot than the scan's.
AssertOfRm(p) ==
  /\ Query(p, "rm_assert")
  /\ \/ ~NotDeleted(act[p].req.arg) /\ Fail(p, internal_error)
     \/ NotDeleted(act[p].req.arg) /\ Goto(p, "rm_update") /\ UNCHANGED rep
  /\ UNCHANGED <<storeVars, act, conn>>

\* ftg_msg_delete's update, with the delete's localtimestamp; "return old"
\* counts the row as deleted whatever the update found.
UpdateOfRm(p) ==
  /\ Query(p, "rm_update")
  /\ MarkDeleted(act[p].req.arg, act[p].begun)
  /\ \/ Succeed(p, 0, {}) /\ UNCHANGED conn
     \/ Fail(p, internal_error) /\ conn' = [conn EXCEPT ![p] = FALSE]
  /\ UNCHANGED act

----------------------------------------------------------------------------
(* The connection *)

\* Mutant of CommandFails: root's verification needs the connection, too.
CommandFailsForRoot(p) ==
  /\ ~conn[p]
  /\ pc[p] \notin {"idle", "exited", "count", "by_email"}
  /\ Fail(p, internal_error)
  /\ UNCHANGED <<storeVars, act, conn>>

\* Every command on a lost connection fails, and nothing reconnects.  The
\* count's failure is not noticed, and by_email fails anyway.
CommandFails(p) ==
  /\ ~conn[p]
  /\ pc[p] \notin {"idle", "exited", "count", "by_email"}
  /\ ~(pc[p] = "verify" /\ act[p].req.key = Root /\ act[p].req.pw = "right")
  /\ Fail(p, internal_error)
  /\ UNCHANGED <<storeVars, act, conn>>

LoseConnection(p) ==
  /\ conn[p] /\ pc[p] # "exited"
  /\ conn' = [conn EXCEPT ![p] = FALSE]
  /\ UNCHANGED <<storeVars, pc, act, rep>>

----------------------------------------------------------------------------

Init ==
  /\ StoreInit
  /\ pc = [p \in Proc |-> "idle"]
  /\ act = [p \in Proc |-> Start(CHOOSE r \in Requests : TRUE)]
  /\ rep = [p \in Proc |-> [type |-> "none", word |-> 0, info |-> 0, page |-> {}]]
  /\ conn = [p \in Proc |-> TRUE]

\* The continuation of an action: every step of a process but taking a request.
Step(p) ==
  \/ ByMember(p) \/ ByPro(p) \/ ByEmail(p)
  \/ VerifyRoot(p) \/ VerifyRootNoPassword(p) \/ Verify(p)
  \/ GetUser(p) \/ GetInbox(p)
  \/ GetDestRole(p) \/ CheckContacted(p) \/ SendMsg(p) \/ InsertOfSend(p)
  \/ ScanOfRm(p) \/ AssertOfRm(p) \/ UpdateOfRm(p)
  \/ CommandFails(p)

\* The rest of the platform and the clock.
Platform ==
  /\ \/ \E u \in Leavers : DeleteUser(u)
     \/ \E u \in Movers, n \in NewNames : Register(u, n) \/ Rename(u, n)
     \/ \E b \in Blockable :
          LiftBlock(b[1], b[2]) \/ \E t \in BlockTimes : SetBlock(b[1], b[2], t)
     \/ \E m \in Bannable, t \in BlockTimes \cup {Null} : SetBan(m, t)
     \/ Tick
  /\ UNCHANGED procVars

Next ==
  \/ \E p \in Proc : (\E r \in Requests : Parse(p, r)) \/ Step(p) \/ LoseConnection(p)
  \/ Platform

Spec == Init /\ [][Next]_vars

FairSpec == Spec /\ \A p \in Proc : WF_vars(Step(p))

-----------------------------------------------------------------------------
(* Properties *)

TypeOK ==
  /\ StoreTypeOK
  /\ pc \in [Proc -> Labels]
  /\ act \in [Proc -> Locals]
  /\ rep \in [Proc -> Response]
  /\ conn \in [Proc -> BOOLEAN]

Answered(p, do) == pc[p] = "idle" /\ rep[p].type # "none" /\ act[p].req.do = do
Succeeded(p, do) == Answered(p, do) /\ StatusOf(rep[p]) = Success

\* The foreign keys hold although send authenticates the sender, looks the
\* recipient up and inserts in separate commands, with the platform deleting
\* either user in between (action.c:70-94, tables.sql:42-47).
ReferentialIntegrity ==
  /\ \A m \in msgs : m.sender \in users \cup {Root} /\ m.recipient \in users
  /\ \A b \in blocks : b.member \in users /\ b.pro \in users
  /\ \A b \in bans : b.member \in users

\* No message to oneself is ever stored: fail_invariant("no_send_self") does
\* not stop the action (action.c:87), only the constraint of the table does.
NoSelfMessage == \A m \in msgs : m.sender # m.recipient

\* A msg_id names one row, and no two processes were ever given the same one,
\* even when rows went away in between (functions.sql:8-15, tables.sql:29).
UniqueIds ==
  /\ \A m \in msgs : m.id < nextId
  /\ \A m, n \in msgs : m.id = n.id => m = n
  /\ \A p, q \in Proc : (p # q /\ act[p].stored = act[q].stored) => act[p].stored = 0

\* The right password, or none from a user who has none (Protocole
\* Tchatator413.md:123, db.c:92-95).
Proven(r) == r.pw = (IF r.key \in HasPassword \cup {Root} THEN "right" ELSE "none")

\* A row a process stored carries the sender that proved its identity in the
\* same request and the recipient that request resolved to, however long the
\* commands in between took (action.c:69-101).
SentByWhoAsked ==
  \A p \in Proc : \A m \in msgs : m.id = act[p].stored =>
    /\ m.sender = act[p].req.key /\ Proven(act[p].req)
    /\ m.recipient = act[p].user
    /\ act[p].req.do = "send" /\ ~act[p].req.long

\* A send answered with a msg_id stored the row with that id (action.c:94).
SendAnswersItsRow ==
  \A p \in Proc :
    Succeeded(p, "send") => (rep[p].word = act[p].stored /\ act[p].stored # 0)

\* A definite refusal leaves nothing behind: no path that reached the insert
\* answers 401, 403, 404 or 413 (action.c:69-101).
RefusalStoresNothing ==
  \A p \in Proc :
    (pc[p] = "idle" /\ StatusOf(rep[p]) \in {unauthorized, forbidden, not_found, payload_too_large})
      => act[p].stored = 0

\* A successful rm means nobody sees the message any more, although scan,
\* assertion and update are apart (action.c:154-158, msg.sql:40-52).
RmAnswersTruth == \A p \in Proc : Succeeded(p, "rm") => ~NotDeleted(act[p].req.arg)

\* A page of an inbox holds at most page_inbox messages, all of them addressed to the
\* user who proved its identity with the request (action.c:114-124, db.c:301-337).
InboxIsOwn ==
  \A p \in Proc : Succeeded(p, "inbox") =>
    /\ Cardinality(rep[p].page) <= PageInbox
    /\ \A m \in msgs : m.id \in rep[p].page =>
         (m.recipient = act[p].req.key /\ Proven(act[p].req))

\* Root's own commands are answered with the database gone (Protocole
\* Tchatator413.md:121; db.c:115-119).
RootNeedsNoDatabase ==
  \A p \in Proc : \A do \in Stubs :
    (/\ Answered(p, do) /\ act[p].req.key = Root /\ act[p].req.pw = "right"
     /\ ~NamesUser(do) \/ (act[p].req.user.by = "id" /\ act[p].req.user.val # 0))
      => StatusOf(rep[p]) = Success

\* Only a caller who gave a known key and proved its identity is answered
\* otherwise than with an error, and only one with the role for it
\* (action.c:40-41, 162-200; db.c:114-146).  Whether a user without a password
\* is let in at all is not for this property: see PasswordOptional.
ActsIdentified ==
  \A p \in Proc : (pc[p] = "idle" /\ rep[p].type \in Actions) =>
    /\ act[p].req.key \in User \cup {Root} /\ Proven(act[p].req)
    /\ act[p].req.do \in {"block", "unblock", "ban", "unban"} => act[p].req.key \notin Member

\* A row never changes but for its deletion, is never shown again once
\* deleted, and goes away only with its sender or recipient (msg.sql:40-52,
\* tables.sql:42-47).
RowsOnlyFade ==
  [][\A m \in msgs :
       \/ \E n \in msgs' : /\ n = [m EXCEPT !.deletedAge = n.deletedAge]
                           /\ (n.deletedAge = Null => m.deletedAge = Null)
       \/ m.sender \notin users' \cup {Root} \/ m.recipient \notin users']_vars

\* Every action is answered, or the process ends (action.c:22-204).
EveryActionEnds == \A p \in Proc : pc[p] # "idle" ~> pc[p] \in {"idle", "exited"}

\* Protocole Tchatator413.md:221, client_send_pro: what a member sends goes
\* to a pro (action.c:89).
ClientSendPro == \A m \in msgs : m.sender \in Member => m.recipient \in Pro

\* Protocole Tchatator413.md:222, pro_responds_client: a pro writes to a member
\* only after the member wrote to it (action.c:91-92, db.c:272).
ProRespondsClient ==
  \A m \in msgs : (m.sender \in Pro /\ m.recipient \in Member) =>
    \E n \in msgs : n.sender = m.recipient /\ n.recipient = m.sender /\ n.id < m.id

\* Of these two conditions of send at least one is kept: the document wants
\* both, and a state without either shows how each of them is missed.
SendKeepsOne == ClientSendPro \/ ProRespondsClient

\* Protocole Tchatator413.md:131-135: an administrator may do everything, and
\* motd is for all roles.  It is asked of a database that is there.
AdminsServed ==
  \A p \in Proc :
    (Answered(p, "motd") /\ conn[p] /\ act[p].req.key \in users \cap Admin /\ Proven(act[p].req))
      => StatusOf(rep[p]) = Success

\* Protocole Tchatator413.md:123: a password is not obligatory, and who has none
\* gives none (db.c:93).
PasswordOptional ==
  \A p \in Proc :
    (/\ Answered(p, "motd") /\ conn[p] /\ Proven(act[p].req)
     /\ act[p].req.key \in (users \ Admin) \ HasPassword)
      => StatusOf(rep[p]) = Success

\* Of these two kinds of callers at least one is let in: the document wants
\* both, and a state where neither was shows how each of them is turned away.
LetsInOne == AdminsServed \/ PasswordOptional

\* db.h:141: send is refused for a sender blocked globally or by the recipient
\* (functions.sql:19-41).
BlockDecides ==
  [][\A p \in Proc : (pc[p] = "send_msg" /\ pc'[p] = "insert_msg" /\ act[p].id # act[p].user)
       => ~BlockInForce(act[p].id, act[p].user)]_vars

\* msg.sql:42-44: a deleted message is not deleted again.
DeletedOnce ==
  [][\A m \in msgs, n \in msgs' :
       (m.id = n.id /\ m.deletedAge # Null) => n.deletedAge = m.deletedAge]_vars
=============================================================================
