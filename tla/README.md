# Tchatator413: a TLA+ model of the server

Tchatator413 is a chat service between the clients ("members") and the
professionals ("pros") of a tourism platform.  A C server reads JSON lists of
actions, authenticates each one, runs it as SQL commands over a PostgreSQL
schema it shares with the platform, and writes a JSON list of answers.  This
directory models the part of it where the difficulty is: actions made of several
autocommit commands, run by several server processes over one database, while
the platform registers, renames, deletes and blocks users, connections fail, and the code's
own error handling does not always stop what it meant to stop.  An abstract
service says what this looks like to the callers.  Around it are the program
from its start to its end (environment, command line, memory lists, interactive
runs), its socket server (one process, one client at a time, and clients that
stall, leave or come too often), the interactive client that talks to it, and
the transactions of the database layer.

All paths below are relative to the repository (`src/...` is the server's code,
`lib/own/...` its headers, `doc/...` the protocol).

## 1. Inventory

### Database schema — `src/server/sql/*.sql`
*State*: the users (`_user` with `_member`, `_pro`, `_admin`) and their names, the messages
(`_msg`, its serial `msg_id`, `sent_at`, `deleted_age`), the blocks of a member
by a pro (`_single_block`) and the ban of a member (`full_block_expires_at`).
*Operations*: the views `msg` (rows not deleted), `msg_ordered` and `user`; the
functions `send_msg` and `_insert_msg`; the delete trigger of `msg`, which marks
the row; the triggers that register users; cascading deletes of users.
*Interactions*: every server process, and the platform's own application, read
and write it; each command is its own transaction at READ COMMITTED.
*Hard*: foreign keys against concurrent deletions; the trigger's
assertion-then-update; comparison of expiry times with nulls and infinities; the
serial's end; names that come and go between two look-ups; views whose values the C code does not
accept (the role of an admin).
*Correct when*: no dangling reference; an id names one row for ever; a row is
never changed but for its deletion, and a deletion is final; a block in force
stops the sends it covers.

### Actions: parsing, evaluation, answers — `action-json.c`, `action.c`, `db.c`, `tchatator413.c`
*State*: per action, the parsed action, the caller's identity and role, the
resolved user key, the response (a union whose `error.type` and `send.msg_id`
share their storage), a memory list; per process, the connection.
*Operations*: `whois`, `send`, `inbox`, `rm`, and stubs (`motd`, `outbox`, `edit`,
`block`, `unblock`, `ban`, `unban`) that authenticate, check the role and do nothing.
*Interactions*: from one to five SQL commands per action, in order: resolving
the user key (while parsing, before authentication), authentication, then the
action's own commands.
*Hard*: what changes between two commands; `fail_invariant`, which records an
error and goes on; a command that commits and whose answer is lost; a connection
that nothing reopens; `errno_exit` in the middle of an action.
*Correct when*: only authenticated callers with the right role get anything; a
stored message has the sender that authenticated and the recipient it asked for;
a name in a request leads to nobody else than who bears it; an answer with a `msg_id` is true; a definite
refusal has no effect; a successful `rm` hides the message; every action ends; whom the document lets in is let
in, and its `=invariants=` of an action hold (they do not, see section 5).

### Socket server — `tchatator413-server.c`
*State*: the listening socket, the current client, the rate-limit table, the
time of the next accepted request. *Operations*: accept, read once, answer, refuse
(429), close on a signal. *Hard*: one client at a time with blocking reads, a
client that leaves before its answer, a signal handler that closes the socket
under `accept`, a table passed by value. *Correct when*: every client is answered
or refused, a client over the limit is refused and no other is, a signal ends the
server between two requests.

### Start-up and configuration — `server.c`, `cfg.c`
*State*: the configuration, root's API key and password hash, the database
connection, the options, the exit status. *Operations*: `require_env`, defaults, root
credentials, the loop over the options, `db_connect`, then the interactive run or the
socket server. *Hard*: each step may fail with some of the objects allocated, and
`CLEAN_RETURN` evaluates what it returns after it has cleaned up. *Correct when*: the
program ends or serves; what a list took over is destroyed once, and not used afterwards.

### Memory list — `common/memlst.c`
*State*: owned pointers with destructors, on one list for `main`, one for an interactive
run, one for each action. *Operations*: add, collect, destroy. *Hard*: who still uses what
is destroyed; `act`, which never destroys its list. *Correct when*: each object is destroyed
once on every path that cleans up, and none while a response is rendered from it.

### Transactions — `db_transaction` in `db.c`
*State*: the session's transaction at the database, the body's status. *Operations*: begin,
the body's commands, commit or rollback. Used by the tests, whose bodies load the same
test data, ignore failed commands, and return a status of their own. *Hard*: a failed command aborts the
transaction, and the commit of an aborted one reports success; the connection, and the answer
of a commit, may be lost; inserts of the same keys wait for other processes.
*Correct when*: all or nothing of what the body did is stored, only on the body's `ok`, and
no transaction is left open.

### Interactive client — `client.c`
*State*: the menu's `choix`, the login state, the socket of the request.
*Operations*: one turn of the menu, `send_request` for each choice. *Interactions*: one
connection to the socket server per request, read until the server closes it. *Hard*: input that
is no number, or ends; an answer that is missing, or no array; no timeouts on either side.
*Correct when*: it makes the requests it is asked for and accounts for any other, returns to the menu or
ends, and closes each socket.

### Helpers — `json-helpers.c`, `util.c`, `uuid.c`, `slice.c`
They convert text and keep no state. Not modelled.

## 2. Modules

| module | models | proved about |
|---|---|---|
| `Store` | the schema: tables as sets of rows, views, `send_msg`, the delete trigger, the platform's writes, the clock | yes |
| `Evaluate` (extends `Store`) | processes that parse, evaluate and answer actions; all properties | yes |
| `EvaluateProofs` | type correctness of `Evaluate` | |
| `SafetyProofs` | its safety properties: who is answered what, and the rows | |
| `AnswerProofs` | its safety properties: what an answer says stays true; and those of `Naming` and `Paging` | |
| `ChatService` | the abstract service: whom a request is about is settled, a caller is admitted, its request takes effect in one step or not at all | |
| `Implementation` (extends `Evaluate`) | the refinement mapping from `Evaluate` to `ChatService` | yes |
| `ImplementationProofs` | that `Evaluate` implements `ChatService` | |
| `Naming` (extends `Implementation`) | who has borne the name of a request while it was looked for | yes |
| `Paging` (extends `Implementation`) | a reader that goes through its inbox page by page | yes |
| `SocketServer` | the accept loop, the turnstile, reads, writes, signals, and the clients | yes |
| `SocketProofs` | the safety properties of `SocketServer` | |
| `Program` (extends `SocketServer`) | `main`, the memory lists, the interactive run; the socket server once it listens | yes |
| `ProgramProofs` | the safety properties of `Program` | |
| `Chat` (extends `SocketServer`) | the interactive client against the socket server | yes |
| `ChatProofs` | the safety properties of `Chat`, and that it implements the clients of `SocketServer` | |
| `Transaction` | `db_transaction` in several processes, and what PostgreSQL makes of it | yes |
| `TransactionProofs` | the safety properties of `Transaction` | |
| `MCSend`, `MCRm`, `MCIdentity`, `MCSocket`, `MCChat`, `MCTransaction` | instances for TLC | |

`Evaluate` and `SocketServer` meet in one call, `tchatator413_interpret`: several
server processes (interactive or socket) run `Evaluate`'s actions over one database;
each socket server makes that call between a read and a write. To the accept loop all
that matters of it is that it answers or ends the process, so `SocketServer` has it as
one step, `Interpret` or `InterpretExits`. `Program` puts the start of the program before
the socket server and shares its variables; `Chat` puts a client next to it, which drives
its own connections through `Connect`, `SendPacket` and `Leave`.

### `Store` and `Evaluate`

**How state corresponds.** `users`, `names`, `msgs`, `nextId`, `blocks`, `bans` are the
tables and the serial; `now` is `localtimestamp`. For a process p, `pc[p]` is the
next SQL command it issues ("idle" between two actions, "exited" after
`errno_exit`), `act[p]` the locals of `action_evaluate` (request, `user`,
`dest_role`, and `begun`, the `localtimestamp` of a `send_msg` or a delete), `rep[p]` the `response_t`,
`conn[p]` whether libpq's connection is up. `act[p].stored` is a history
variable: the id of the row this action inserted.

**How actions correspond.** `Parse` is `action_parse` up to its first command.
`ByMember`, `ByPro`, `ByEmail` are the commands of `db_get_user_id_by_*`,
`VerifyRoot`, `VerifyRootNoPassword` and `Verify` those of
`db_verify_user_constr` with the `check_role` that follows, `GetUser` and
`GetInbox` of `whois` and `inbox`. `send` is `GetDestRole`, `CheckContacted`,
`SendMsg`, `InsertOfSend`: the last two are the function `send_msg` cut between
its select on the blocks and its insert, because in READ COMMITTED each
statement of a volatile function has its own snapshot. `rm` is `ScanOfRm`,
`AssertOfRm`, `UpdateOfRm` for the same reason; the age that the update writes is that at the start of the
delete, which `ScanOfRm` keeps in `begun`. `CommandFails` and
`LoseConnection` are the failures; `Platform` is what other users of the schema do.

**Choices worth knowing.**
- Text is abstracted. A name is a model value; an API key is the user that owns
  it (0 is root's, `IntMax + 1` nobody's); a password is right, wrong or absent;
  a content is short or too long. `malformed` stands for every request that
  `action_parse` refuses with 400 before any command.
- `StatusOf` follows `response_to_json` through the union: after
  `fail_invariant` the number of the new message is read as an error type, so
  message 1 or 2 is a 400, 3 a 429, 5 a status made of half of a pointer
  (`NamePointer`), and any other reaches `unreachable()`, where the
  process may end or answer anything (`RendersUndefined`).
- A user without a password: `PQgetvalue` gives `""`, never NULL, so an
  absent password is refused and a present one is handed to bcrypt with an empty
  hash, which either fails (the process ends) or finds it different.
- Root without a password hands NULL to bcrypt: the process ends.
- An admin of the database has role 0 in view `user`, which `validate_db_role`
  refuses: 500. View `user` has no column `email`: a search by e-mail is a 500.
- One constant, `IntMax`, is both the largest serial and the largest C `int`:
  both are 32 bits wide in the program, and TLC runs with 3 to 6.
- `Platform` is any other writer of the schema: it registers users (the insert triggers of `member`, `pro`
  and `admin`), renames, deletes, blocks, unblocks and bans them, at any step. `_member.user_name` is
  unique among those who exist, `_pro.business_name` is not (`NameIsFree`). A user may be registered under an
  id that was used before, since `_insert_user` takes the id from the writer, but nobody ever changes between member,
  pro and admin. The update triggers call `tchatator.update_user`, which no script defines (the procedure is
  `_update_user`), so a renaming is a direct write to the table. API keys are unique, and they and passwords do not
  change.
- The platform itself, the clock and libpq are not in `src/`; what has no SQL of its own there is marked external.
- In `UpdateOfRm` and `InsertOfSend` the command and its commit are one step.

### `SocketServer`

**How state corresponds.** `srv` is where `tchatator413_run_socket` is: in `accept`,
in `interpret_request`'s `read` or `interpret`, in `json_object_write`, at `close`, or
dead. `listening` is `gs_sock # -1`, `queue` the kernel's queue of connections, `cur`
the client behind `fd`, `buf` the buffer (whose packets, how many), `turnstile` the map
as `run_socket` holds it, `now` is `time(NULL)`. Of each client: its end of the
connection (`net`, `left`), what it has sent, and the history of what it was given
(`answer`, `written`, `acceptedAt`). A request is a number of packets, an answer
a number of pieces.

**How actions correspond.** `Accept` is `accept` with the turnstile and its two
branches; `Read` the single `read`, which takes what has arrived, as much as fits, or
nothing from a client that has left; `Interpret` is `json_tokener_parse` and
`tchatator413_interpret`, for which a part of a request, or a request longer than the
buffer, is no JSON, and is answered as such; `Write` one turn of the loop
of `json_object_write`; `Close` the end of the loop's body; `CloseSock` the handler of
SIGINT and SIGTERM, possible between any two steps; `AcceptFails`, `WriteFails`,
`InterpretExits` the ends of the process. `Connect`, `SendPacket`, `Leave` and `Tick` are the
clients, the kernel and the clock.

**Choices worth knowing.**
- `turnstile_rate_limit` gets the map by value. `hmput` on the NULL map allocates one
  into the callee's copy of the pointer, and the caller's stays NULL. `TurnstileAfter`
  says so: a new address leaves the map as it was. `NextRequestAt` and `Count`
  follow the rest of the function, which no address ever reaches.
- The makefile compiles with `-std=gnu2x`, where glibc's `signal` sets SA_RESTART.
  An interrupted `accept` is restarted by the kernel on the descriptor that the
  handler closed, or is called with -1: `EBADF`, so `errno_exit`. The branch of
  `EINTR`, with its `break`, is not taken, and `AcceptFails` ends the process instead.
- A write to a client that has left may still succeed (the kernel takes the bytes) or
  end the process, by SIGPIPE, which nothing ignores, or by `errno_exit`.
- Not modelled: `accept` failing by itself (too many descriptors); TCP discarding
  an answer because the client's last packets were never read. The failures of `socket`,
  `bind` and `listen` are `Bind` in `Program`.

### `ChatService`, `Implementation` and `Paging`

`ChatService` knows registered users with their names, who may not write to whom (`barred`), the messages that
can be read, the ids that were drawn, and for each caller a request, whom it is about (`meant`), whether it was
admitted, and the answer. Its
actions are what a caller may rely on: a request is refused only for a reason that is true
in that step (`Refuse`: a send with 403 only if the pair is barred at that moment), or takes effect in the step that answers it (`Send`, `Remove`,
`Read`), or fails without effect (`Fail`). An *unclear* answer, a 500 or what the union
makes of a broken invariant, may come with an effect: the code promises no more. A name is
settled once, on a user who bears it in that step (`Settle`). `Admissible` are callers with a known key and the right
password, or none if they have none; `Entitled` are those who must not be told to be unauthorized, and
leave out users without a password, whom the code turns away. The
documented conditions on who may write to whom are not in it, and `barred` is what `send_msg` makes of blocks,
because the code does not keep what is documented (section 5). `Implementation` maps `Evaluate`'s state to it: the box is view
`msg`, a caller is admitted when it is past `verify`, the pairs that are barred are those that `send_msg` refuses,
and the answer is what `response_to_json` renders. `send`'s effect is `InsertOfSend`, `rm`'s is `UpdateOfRm`, and
the commands before them are steps of nobody.

`Naming` follows `Evaluate` and keeps, for each process, who has borne the name of its request ever since the
request came (`lasting`). Somebody who takes a name, or leaves it, during the search may be found or missed:
the search is two commands, and the action uses its result in later ones. Who had the name all along must not be passed over.

`Paging` follows `Evaluate` with a reader that asks for page 1 and then for each next one.
`due` are the messages in its inbox at page 1, `shown` what the pages had, `gone` how many
messages left the inbox since. The pages are offsets into a list that changes, so a message can
be missed; `MissedOnlyForGone` says that no more are missed than were removed.

### `Program`

`stage` is where `main` or `tchatator413_run_interactive` is (at the end `returned`, by a `return` of `main`, or
`exited`, by `exit` or a signal), `flags` its booleans,
`list` the memory lists, `heap` what became of each allocated object: live, freed, freed again
or lost. `Defaults` to `Run` are `main` from top to bottom, with every `CLEAN_RETURN`,
`exit` and `errno_exit` on the way; `ReadInput` to `PrintOutput` the interactive run, `Act` and
`Render` the two halves of `act`; `Bind` the start of the socket server, whose steps run at
stage `socket`. `Run` destroys the list of `main` before the server starts, as the macro's
expansion does. From then on every step uses freed memory: a use may end the process
(`Crash`) or have no effect, which is how the rest of the model can go on; other outcomes of
undefined behaviour are not modelled. `Evaluate` describes an action with the configuration and
the connection it is given, as the tests' `main` runs it. `-c` is refused whatever comes
before it, because `cfg` is never NULL (`server.c:103`).

### `Chat`

`stdin` is what is left to read and `feof`; `Scanned`, `CharTaken` and `LineTaken` are what
`scanf("%d")`, `getchar` and `fgets` do to it, one character per token except for numbers.
`Turn` is one turn of the loop of `main`: `choix` keeps its value when there is no number,
and at first it is anything. `numbers` and `strays` count what was typed at the menu: numbers, and
characters that are none. `Dial`, `Transmit` and `Receive` are `send_request`: connect,
send, read until the server closes. A request is an action name and the keys of its `with`:
the client sends a `token` where the server asks for a `constr`, `login` and `logout` are
unknown to it, and `rm` and `logout` have no `with`. So every answer is an error
(`Understood` is false for each), the client stays unconnected, and the code that prints
inboxes is not reached. `modif_message`, `ban` and `unban` are called by nobody. `SocketsReturned`
holds for that reason only: a request the server understood would leave its socket open.
The assertion of json-c on an answer that is no array is taken to end the client.

### `Transaction`

`call[p]` is the call of `db_transaction` at hand in process p: where it is, its session
at the database, the keys its transaction inserted and the one it waits for, what the body was
told and returned, and what the call left in the tables. `Begin`, `BeginFails`, `Ends` and
`Commit` are the function; `Command`, `CommandFails`, `CommandWaits` and `Resume` a command of
the body, such as `db_use_test_data`; `BreakDeadlock` and `LoseConnection` PostgreSQL and
libpq. A failed command aborts the transaction and releases its keys at once.

## 3. Runs

| run | expectation | what it shows |
|---|---|---|
| `send` (MCSend) | pass | two processes send and remove while users come and go, blocks expire, connections drop and the serial runs out |
| `rm_and_inbox` (MCRm) | pass | two processes send, remove the same rows and read page after page; each step is one of the service |
| `identity` (MCIdentity) | pass | every kind of caller, password and user key, while names change hands; each action ends, and is one of the service |
| `send_invariants`, `send_blocked` (MCSend) | violation | documented conditions of `send` the code does not enforce |
| `admission` (MCIdentity) | violation | callers the document lets in, and the code does not |
| `rm_once` (MCRm) | violation | the trigger's assertion, which two removals pass |
| `socket` (MCSocket) | pass | every way through `main`; interactive runs; three clients send, stall or leave, a signal or an action ends the server |
| `chat` (MCChat) | pass | a client that is typed any short input, next to another connection |
| `transaction` (MCTransaction) | pass | two processes insert the same keys in transactions that fail, wait and deadlock |
| `socket_rate` (MCSocket) | violation | the documented rate limit, which the code never applies |
| `program_uaf` (MCSocket) | violation | the configuration and the connection used after their list is destroyed |

**Bounds.** `send`: one member, who may be deleted and come back, one pro, root, five
sends (either way, to oneself, root's, too long), and a removal and other requests of root's next to them; two processes are enough for
two inserts, or an insert and a deletion, to interleave at every command. The serial
starts at 3 of `IntMax` = 4, so two inserts reach its end and a third finds it
exhausted; ids 3 and 4 render differently after a broken invariant (429,
`unreachable()`). The clock has two instants and blocks expire at 0, so that `send_msg` lets a sender pass at the first and
refuses it at the second; bans are in `identity`, and in `send_blocked` and `send_invariants` both also expire at 2,
after the end of time. `rm_and_inbox`: serials
from 1 to 3, pages of 2 (two pages), one sender that may be deleted; the reader is the pro,
either process may answer it, and a message does move from a page to come to one that was read.
`identity`: one process, 50 requests:
11 callers (root with each password, a member with each, a member without a
password, a pro, an admin, nobody), 7 user keys, two pros of one name, pages 1 and 5, whose offset
does not fit into an int, and a message that is sent and removed by its sender or recipient. A member and a
pro may leave, come back and take the name of the other two; the other pro may block the member, who may be banned.
`rm_and_inbox` has no page that overflows, and neither names that change nor blocks: its subject is two processes.
`admission` asks for `motd` twice at a time, because its property wants both callers turned away at once.

`socket`: three clients, two from one address, with requests of two packets
(may be read in part), three (longer than the buffer of 2) and one; answers in up to
two pieces; before that every command line of up to two of the eight options, and interactive
runs of up to two actions (`MaxActions`), which is what destroying one list twice, or one
action's list after another's, takes; a backlog of 1, which `Connect` finds full when two clients wait. The clock
has two instants, both within a minute (2) of each other, which is what `socket_rate`
needs; no other property reads it.

`chat`: every input of up to three of two choices (one with two lines of arguments, one with a
number), a letter and an end of line, and each choice alone on a line; `choix` starts as 1
or as no choice. Each turn of the menu takes something, so four connections are enough, and
`ChatAssumption` has TLC check it. The other connection has a request of two packets, and a
backlog of 0 makes one of the two wait or be refused. `transaction`: two processes, two
keys and two commands in a body, the least for a deadlock; two transactions per process, so that
each one finds what the one before left.

**Symmetry** over `Proc` is used in `send` and `rm_and_inbox`: the processes are
interchangeable (no constant or action tells them apart) and neither run checks liveness.
**Deadlock** is checked in `rm_and_inbox`. It is not in `send` and `identity`:
there processes may end (`errno_exit`), and a state where all have ended stops; nor in
`socket` and `chat`, where the programs may end and each connection is made once, nor in
`transaction`, where the calls of a process are numbered (`MaxCalls`).

**Fairness.** `EveryActionEnds` assumes `WF_vars(Step(p))` for each process: a
process that is inside an action continues by itself. The code justifies it: from
`act` to the answer nothing waits for another process or a client, every loop is
over a result, and a command on a lost connection returns an error. Nothing
is assumed of requests, the platform, the clock or the connection. It does not say that
a client gets to be served: that is the socket server's.

`EveryClientEnds` and `SignalEnds` assume `WF_vars(Serve)`: unless it waits for its
client or for a connection, the server goes on by itself. They also assume
`WF_vars(SendPacket(c))`: a connected client sends its request or leaves. The code does
not ensure the latter, it depends on it: `read` has no timeout, and a single client that stays
silent keeps all the others, and the end of the server after a signal, waiting. So the
two properties say what the loop owes to clients that behave, and their assumption is
what a timeout would make unnecessary. Signals, departures and the clock are under no fairness, and neither is `main` before it serves. `ProgramFairSpec`
is their specification.

`EndsWithInput` (`ChatFairSpec`) has the same two assumptions, for the other connection, and
that the client goes on when it can. Of its own request the client's `send` needs no
assumption: that it is sent before the answer is waited for is what the property is about.
`EveryCallReturns` (`Transaction!FairSpec`) assumes that a process in a transaction goes on, and that the
database answers commands whose keys are free and breaks deadlocks, which PostgreSQL does. It
needs the bound on calls in one point only: without it another process could win the same key again and again.

## 4. Properties

| property | hazard |
|---|---|
| `ReferentialIntegrity` | users deleted between the look-ups of `send` and its insert |
| `NoSelfMessage` | the check that does not stop `send` |
| `UniqueIds` | serial drawn by refused inserts, rows that go away |
| `SentByWhoAsked` | the identity, the recipient and the insert are in separate commands |
| `SendAnswersItsRow` | commands that fail, or whose answer is lost, around the insert |
| `RefusalStoresNothing` | errors reported after the row was stored |
| `RmAnswersTruth`, `RowsOnlyFade` | scan, assertion and update of two removals interleaved |
| `InboxIsOwn` | pages read while rows go |
| `MissedOnlyForGone` | pages are offsets into a list that loses rows between two requests |
| `ImplementsService` | an action is several commands, and its answer one claim about all of them; users and blocks change meanwhile; offsets that wrap |
| `RootNeedsNoDatabase` | the connection lost at any command |
| `ActsIdentified` | users with no password, deleted users, roles |
| `NoNamesakePassedOver` | two searches for one name while users register, leave and rename themselves |
| `EveryActionEnds` | failures at every command |
| `AnsweredInFull` | partial writes, clients that leave in the middle |
| `AnswerIsOwn` | a buffer that outlives a request, a read that gets nothing |
| `NoConnectionForgotten` | paths of the loop that skip `close`, signals in the middle |
| `EveryClientEnds` | one client at a time: each one's turn depends on the one before |
| `SignalEnds` | the handler closing the socket at any step |
| `ReturnsClean` | a start-up that fails half-way, options that end it |
| `RendersLive` | a response that shares what its action allocated |
| `RequestsAccounted` | a choice that is taken again at the end of the input and wherever no number is read |
| `EndsWithInput` | client and server that wait for each other |
| `LostOnlyWithServer` | answers that are missing or no array, for any reason but the server's end |
| `SocketsReturned` | none by itself: every answer this client can get is of the branch of `send_request` that closes |
| `AllOrNothing`, `OkIsStored` | failed commands and lost connections at every point of a transaction |
| `StoredIfApproved` | bodies whose status is neither ok nor an error |
| `EveryCallReturns`, `TypeOK` of `Transaction` | keys held by others, transactions left open |

`SendAnswersItsRow` and `RefusalStoresNothing` are as strong as the code allows: a 500 or 422-like answer says
nothing about the row, which may be there, and no property speaks of the status that the id of a stored message makes
of a broken invariant. `ActsIdentified` says who gets nothing; that some who should get something do not is
`LetsInOne` (section 5). `ReturnsClean` is about every `return` of `main`, the usage errors included, and excuses
one object by name, the results that `act` leaks; ends by `exit` clean up nothing. `RequestsAccounted` allows
a repetition for each stray character, because the code repeats the last choice there, and one at the end of the
input: what it excludes is any other, such as a menu that goes on after the end. `OkIsStored` speaks of calls
without failed commands only. `LostOnlyWithServer` depends on a defect: with a turnstile that
remembers addresses, its refusal, an object and no array, would end the client.

## 5. What the code does otherwise

Six runs find a state that a document, header or assertion of the repository excludes; two of them show
two defects each, in one state.

1. `send_invariants`: `fail_invariant` (`action.c:33`) does not return, so `client_send_pro` and the like are
   reported, if at all, after the message is stored; and `db_count_msg` (`db.c:272`), for `pro_responds_client`, counts
   the rows of `select count(*)`. In the state that is found neither condition was kept (`SendKeepsOne`).
2. `admission`: view `user` gives an admin of the database the role 0 (`views.sql:35`), which the server refuses;
   and a user without a password, who gives none, is refused because `PQgetvalue` (`db.c:137`) never returns NULL,
   although `check_password` means to accept it. In the state that is found both were turned away (`LetsInOne`).
3. `send_blocked`: `send_msg` (`functions.sql:24,33`) refuses for expired blocks.
4. `rm_once`: the trigger's assertion (`msg.sql:42`) does not lock the row: two deletions that began at
   different times both pass it, and the second overwrites the age.
5. `socket_rate`: the turnstile (`tchatator413-server.c:88`) never remembers an address.
6. `program_uaf`: `CLEAN_RETURN` at the end of `main` (`server.c:134`) destroys the configuration and
   the connection, and then runs the server with them.

Seen while modelling, and visible in the definitions without a run: `rm` does not check
`owns_msg` (`doc/Protocole Tchatator413.md:432`; `NextCommand` of `rm` is `ScanOfRm`); `-c` is
always refused (`TakeOption`); a client that leaves before its answer may end the server
(`WriteFails`); at the end of its input, and at each
character that is no number, the client repeats the last request (`Turn`); the status after a broken invariant depends
on the id of the message that was stored (`StatusOf`); `act` releases nothing (`Render`); the update triggers of the
user views call a procedure that does not exist (`Rename`).

## 6. Proofs

All theorems hold for any sets of processes, users, names and requests and any
bounds, under `StoreAssumption` (ids are in the serial's range, a user has one
role, `user_name` is unique at first) and `EvaluateAssumption` (requests are typed, the platform writes
about users and pairs that there can be, and its expiry times are times).

*Type correctness* (`EvaluateProofs!Typing`). `TypeOK` alone is not inductive: the age that a deletion stores is
the delete's start minus `sentAt`, a time only if the message was sent before the delete began. `TInv` adds two
things to the types: `Clock`, that rows and locals were stamped in the past, and `Ages`, that the id of a delete under
way was given out before it began, so that no row of that id is younger than it. One lemma per group of
commands, then `TInit`, `TNext` and a temporal step.

*What a process knows* (`SafetyProofs!Control`). `Ctl(label, locals, response)`
says of each command what the earlier ones established: from the authentication on
the identity is the key's and its password was right; a response is of the action's type
or marked with a broken invariant; nothing is stored before the insert; and of a
finished action, what its answer means. It is inductive with `TInv`, and gives

- `Identification` (`ActsIdentified`), `SendAnswers` (`SendAnswersItsRow`),
  `Refusals` (`RefusalStoresNothing`), `RootServed` (`RootNeedsNoDatabase`).

*The rows* (`SafetyProofs!Rows`). `Effect` shows that a step does one of four
things to the store: nothing, one insert, one deletion, or the platform's. `Rows`, that
no id is ahead of the sequence, with the properties themselves, is inductive over
those, using `Control` at the insert only:

- `Integrity`, `NoSelf`, `Identifiers` (`UniqueIds`), `Senders` (`SentByWhoAsked`);
- `Fading`: `RowsOnlyFade`, an action property, from the same case distinction.

*What an answer says* (`AnswerProofs!Settled`). `RmAnswersTruth` is not inductive: nothing in it
keeps a later send from drawing the id again, and `InboxIsOwn` fails the same way. `Settled` adds
that such ids were given out. `Onward` says in which direction the store goes (ids are not given out again, rows
neither reappear nor change their recipient; users may come back), so that `Settled` of the processes that do not move
follows once (`Truer`). `PageBound` maps the rows of a page one to one to their places, because no
two rows of an inbox have equally many newer ones before them. Together with `Control` and `Rows`:

- `Removal` (`RmAnswersTruth`), `Reading` (`InboxIsOwn`).

*Names* (`AnswerProofs!Borne`, for `NamingSpec`). `Borne` adds to `NoNamesakePassedOver` that the members who exist have
different names, which registrations and renamings keep, and that whoever is in `lasting` bears the name now. At
`by_member` a member of `lasting` is therefore the only row; at `by_pro` the single row must be the one pro
of `lasting`, and its members are none because the first search found none; later steps keep the user
and can only shrink `lasting` (`FoundStep`):

- `NameKept` (`NoNamesakePassedOver`).

*Reading page after page* (`AnswerProofs!Reads`, for `PagingSpec`, under `PagingAssumption`).
`MissedOnlyForGone` is not inductive: a row with an id of `due` that is sent only now could be missed
at once. `Reads` adds that all of `due` was given out, so that a row of the inbox with such an id was
in it before (`InboxStays`). When a step takes k rows out of the inbox, what is missed afterwards was
missed before or lies on one of the k places behind the last page read, because no rank falls by more
than k; `PageBound` says that at most k rows lie there, and `CountOfRows` that k rows have k ids, which
is what `gone` counts (`NoTurnReads`). A page that is read closes the gap up to the next one; where
its offset does not fit into an int, no row of an inbox, which has `IntMax` at most, lies behind the
pages before it (`TurnReads`):

- `Skipping` (`MissedOnlyForGone`).

*Refinement* (`ImplementationProofs!Implements`, which states `ImplementsService`). `Unnamed` says
that a name that is still being looked for has settled on nobody. Then one lemma per group of
commands shows which step of `ChatService` it is: the searches settle a name or fail, `verify`
admits, acknowledges or refuses, the insert is `Send`, the update of rm is `Remove`, the select of
inbox is `Read`, and every command in between is a stutter. A refusal with 404 or 403 is true at
that moment because of `Control` and of what `Barred` maps; that a user takes the messages along
(`Elsewhere`) is `ReferentialIntegrity`.

*The socket server* (`SocketProofs`, under `SocketAssumption`: sizes and limits are
naturals, a minute is less than an hour, the two tags of answers that are nobody's are not clients). None of the properties is inductive alone:
that the answer is the client's own depends on what `buf` holds at `interpret`, and that it
is whole on `written` at `close`. `Progress` says what each step of the loop has done
for `cur`, and that a client that waits has been given nothing; `Distinct`, that nobody waits
twice, is what `Accept` needs for the client it takes to be in the queue no more. With
`TypeOK` and the properties they make `SInv`, which every action preserves:

- `FullAnswers` (`AnsweredInFull`), `OwnAnswers` (`AnswerIsOwn`),
  `NoLeak` (`NoConnectionForgotten`), `ServerTyping` (`TypeOK`, with the empty map).

*Transactions* (`TransactionProofs`, under `TransactionAssumption`: some commands, some calls).
`AllOrNothing` is not inductive: while the body runs nothing is stored yet, and what will be is
what PostgreSQL holds, not what the body was told. `Known` relates the two: with the session open
nothing has failed and the pending keys are those the body was told are inserted; in any other
state of the session nothing is pending. One lemma per kind of step of one call, then `StepKeeps`
for the two forms a step takes:

- `SessionsEnd` (`TypeOK`), `Atomicity` (`AllOrNothing`), `Approval` (`StoredIfApproved`),
  `Durability` (`OkIsStored`).

*The program* (`ProgramProofs`, under `ProgramAssumption` and `SocketAssumption`). `ReturnsClean` speaks
of the returns only, and `RendersLive` of one stage. `PInv` says at every stage which objects each memory
list owns (`Lists`: a function of the stage, but for the response at hand), and that an object is live
exactly when it is on a list (`Live`). So lists have nothing in common, a destructor meets no object
that is gone, and a `CLEAN_RETURN` that destroys its list leaves nothing live (`CleanReturnStep`,
`GotoStep`). `DestroyStep` is the one lemma on what destroying a list does to the heap; the rest is one
case per stage of `main`. Once the server listens, its steps leave memory alone and preserve `SInv`:

- `CleanReturns` (`ReturnsClean`), `LiveRenders` (`RendersLive`);
- `ServerOfProgram`: the properties of the socket server, of the program around it.

*The interactive client* (`ChatProofs`, under `ChatAssumption`). Two of its assumptions matter: there
are more connections than things to type, or the model would stop the client where the code does not;
and a request of the client is one packet, so that the one `read` of the server takes all of it. The
second is needed: TLC finds `LostOnlyWithServer` violated when the client's own request comes in two
packets, for the server then answers and closes in between. The code's request is two strings of 1023
and 255 bytes at most, written by one `send`. `CInv` relates the client to its input and to the server:
- `Asked`: requests are at most as many as numbers and stray characters met at the menu, plus one when the end of the
  input has been met, because `choix` then keeps its value; and for what is not read yet there are connections left. The lemmas `CharTakenReads`, `LineTakenReads`,
  `ScannedReads` and `ArgumentsReads` say that every read either takes something or meets the end.
- `AtHand`: the socket that is open is the one of the request at hand.
- `Expected` and `Undisturbed`: while the server listens, a client that is about to send is queued or
  is being read from, no connection is reset and none refused. Without them nothing keeps the
  send from failing, and the answer from being none.

`ReceiveStep` uses `NoneUnderstood` (no action the client sends passes the server's parser), so that an
answer never opens the branch that keeps a socket:

- `Accounted` (`RequestsAccounted`), `AnsweredWhileUp` (`LostOnlyWithServer`), `NoSocketLeft` (`SocketsReturned`);
- `ChatIsServed`: `ChatSpec` implements `SocketServer`'s `Spec`, so the client is one of the clients that
  the theorems on the server are about.

*What stays with TLC.* Every safety property of a passing run is a theorem. `EveryActionEnds`,
`EveryClientEnds`, `SignalEnds`, `EndsWithInput` and `EveryCallReturns` are checked only:
the prover has neither fairness nor ENABLED.

## 7. Not modelled, and what is next

Not modelled: the text of requests, answers and logs; `cfg_load_from_file`, which nothing
reaches; changes of passwords and API keys; `db_get_msg`, which one test reads with; the helpers on text; the tests' own code.

`ProgramSpec` is not shown to implement `SocketServer`, and does not: a `Crash` may end the server at
any step, where `SocketServer` has it end only in an action, a write or a failed `accept`. So
`ServerOfProgram` repeats the safety properties instead.

The counters of the turnstile (`Count`, `NextRequestAt`) are translated, but no reachable state of the program
uses them, because the map stays empty; no property is about them.

Next: action properties of `SocketServer` and `Transaction` that have no run yet.
