----------------------------- MODULE Transaction -----------------------------
(***************************************************************************)
(* db_transaction (db.c), which runs a function between begin and commit   *)
(* or rollback on the one connection of its process.  The processes (test  *)
(* programs, whose functions load the same test data) insert rows under    *)
(* unique keys: an insert waits for another transaction that has inserted  *)
(* the same key, fails when that one commits and goes on when it rolls     *)
(* back.  PostgreSQL drops what an aborted transaction did at once, keeps  *)
(* refusing commands, and reports success for both ways of ending it.      *)
(***************************************************************************)
EXTENDS Integers

CONSTANTS
  Proc,         \* processes, one connection each
  Row,          \* unique keys
  MaxCommands,  \* bound on the commands of a body
  MaxCalls,     \* the transactions of a process
  NoRow         \* no row

ASSUME TransactionAssumption ==
  NoRow \notin Row /\ MaxCommands \in Nat \ {0} /\ MaxCalls \in Nat \ {0}

VARIABLES
  stored,  \* the keys in the tables
  call     \* call[p]: the transaction at hand in p, or the last one

vars == <<stored, call>>

\* errstatus_handled, errstatus_error, errstatus_ok, and errstatus_tested of
\* the tests, which is none of them.
Result == {"handled", "error", "ok", "tested"}

Call == [
  at       : {"out", "body", "end", "gone"},            \* where p is in db_transaction
  session  : {"idle", "open", "aborted", "lost"},       \* its connection, at the database
  pending  : SUBSET Row,                                \* the keys its transaction inserted
  wants    : Row \cup {NoRow},                          \* the key it waits for
  done     : SUBSET Row,                                \* what the body was told is inserted
  failed   : BOOLEAN,                                   \* the body was told of a failure
  commands : 0..MaxCommands,
  calls    : 0..MaxCalls,
  verdict  : Result \cup {"none"},                      \* what the body returned
  result   : Result \cup {"none"},                      \* what db_transaction returned
  effect   : SUBSET Row]                                \* the keys it left in the tables

Set(p, c) == call' = [call EXCEPT ![p] = c]
HeldByOther(p, r) == \E q \in Proc \ {p} : r \in call[q].pending

----------------------------------------------------------------------------
(* What a command does at the database *)

Failed(c) == [c EXCEPT !.failed = TRUE, !.wants = NoRow]
Aborted(c) == [Failed(c) EXCEPT !.session = "aborted", !.pending = {}]

\* A circle of waits, which no commit or rollback will end.
WaitsFor(p, q) == call[p].wants \in call[q].pending
Deadlocked(p) ==
  \E S \in SUBSET Proc :
    /\ p \in S
    /\ \A q \in S : (\E h \in S : WaitsFor(q, h)) /\ (\E w \in S : WaitsFor(w, q))

----------------------------------------------------------------------------
(* db_transaction *)

\* Called with nothing left over from the call before.
Fresh(c) == [c EXCEPT !.calls = @ + 1, !.commands = 0, !.done = {}, !.failed = FALSE,
                      !.verdict = "none", !.result = "none", !.effect = {}]
Callable(p) == call[p].at = "out" /\ call[p].calls < MaxCalls

\* Mutant of BeginFails: the status of begin is not looked at.
BeginFailsUnnoticed(p) ==
  /\ Callable(p)
  /\ Set(p, [Fresh(call[p]) EXCEPT !.at = "body"])
  /\ UNCHANGED stored

Begin(p) ==
  /\ Callable(p) /\ call[p].session = "idle"
  /\ Set(p, [Fresh(call[p]) EXCEPT !.at = "body", !.session = "open"])
  /\ UNCHANGED stored

BeginFails(p) ==
  /\ Callable(p)
  /\ Set(p, [Fresh(call[p]) EXCEPT !.result = "handled"])
  /\ UNCHANGED stored

\* A command of the body.  Only an open transaction can wait for another.
Running(p) == call[p].at = "body" /\ call[p].wants = NoRow
OneMore(p) == Running(p) /\ call[p].commands < MaxCommands
Counted(p) == [call[p] EXCEPT !.commands = @ + 1]

CommandFails(p) ==
  /\ OneMore(p)
  /\ Set(p, IF call[p].session = "open" THEN Aborted(Counted(p)) ELSE Failed(Counted(p)))
  /\ UNCHANGED stored

CommandWaits(p, r) ==
  /\ OneMore(p) /\ call[p].session = "open" /\ HeldByOther(p, r)
  /\ Set(p, [Counted(p) EXCEPT !.wants = r])
  /\ UNCHANGED stored

Command(p, r) ==
  /\ OneMore(p) /\ call[p].session \in {"idle", "open"}
  /\ ~HeldByOther(p, r) /\ r \notin stored \cup call[p].pending
  /\ LET c == [Counted(p) EXCEPT !.done = @ \cup {r}]
     IN  IF c.session = "idle"
           THEN stored' = stored \cup {r} /\ Set(p, [c EXCEPT !.effect = @ \cup {r}])
           ELSE stored' = stored /\ Set(p, [c EXCEPT !.pending = @ \cup {r}])

\* The wait is over: the key is free, or taken for good.
Resume(p) ==
  LET r == call[p].wants
  IN  /\ call[p].at = "body" /\ r # NoRow /\ ~HeldByOther(p, r)
      /\ Set(p, IF r \in stored THEN Aborted(call[p])
                ELSE [call[p] EXCEPT !.done = @ \cup {r}, !.pending = @ \cup {r}, !.wants = NoRow])
      /\ UNCHANGED stored

\* The database breaks a deadlock by failing one of the commands.
BreakDeadlock(p) ==
  /\ call[p].wants # NoRow /\ Deadlocked(p)
  /\ Set(p, Aborted(call[p]))
  /\ UNCHANGED stored

\* The body returns what it likes: the tests ignore failed commands.
BodyReturns(p) ==
  /\ Running(p)
  /\ \E res \in Result : Set(p, [call[p] EXCEPT !.at = "end", !.verdict = res])
  /\ UNCHANGED stored

\* Commit or rollback.  The transaction is over, unless the connection is lost.
Over(c, res) ==
  [c EXCEPT !.at = "out", !.result = res, !.pending = {},
            !.session = IF @ = "lost" THEN "lost" ELSE "idle"]

Commits(p) == call[p].at = "end" /\ call[p].verdict = "ok" /\ call[p].session = "open"

\* Mutant of Ends: whatever is not zero is taken for success.
EndsTruthy(p) ==
  /\ call[p].at = "end" /\ ~Commits(p)
  /\ LET c == call[p]
     IN  IF c.session = "open" /\ c.verdict # "error"
           THEN /\ stored' = stored \cup c.pending
                /\ Set(p, [Over(c, c.verdict) EXCEPT !.effect = @ \cup c.pending])
           ELSE /\ Set(p, Over(c, IF c.session = "lost" THEN "handled" ELSE c.verdict))
                /\ UNCHANGED stored
\* Mutant of Ends: the status of commit and rollback is not looked at.
EndsUnnoticed(p) ==
  /\ call[p].at = "end" /\ ~Commits(p)
  /\ Set(p, Over(call[p], call[p].verdict))
  /\ UNCHANGED stored
\* Mutant of Ends: there is nothing to roll back when the body has failed.
EndsWithoutRollback(p) ==
  /\ call[p].at = "end" /\ ~Commits(p)
  /\ Set(p, [call[p] EXCEPT !.at = "out", !.result = call[p].verdict])
  /\ UNCHANGED stored

\* A rollback, or the commit of what is aborted, which rolls back and reports
\* success, or either on a connection that is lost.
Ends(p) ==
  /\ call[p].at = "end" /\ ~Commits(p)
  /\ Set(p, Over(call[p], IF call[p].session = "lost" THEN "handled" ELSE call[p].verdict))
  /\ UNCHANGED stored

\* A commit, whose answer may be lost with the connection.
Commit(p) ==
  /\ Commits(p)
  /\ stored' = stored \cup call[p].pending
  /\ LET c == [call[p] EXCEPT !.effect = @ \cup call[p].pending]
     IN  Set(p, Over(c, "ok")) \/ Set(p, [Over(c, "handled") EXCEPT !.session = "lost"])

----------------------------------------------------------------------------
(* Failures *)

LoseConnection(p) ==
  /\ call[p].session # "lost"
  /\ Set(p, [call[p] EXCEPT !.session = "lost", !.pending = {}, !.wants = NoRow,
                            !.failed = @ \/ call[p].wants # NoRow])
  /\ UNCHANGED stored

\* errno_exit in what the body calls, or a signal.
ProcessEnds(p) ==
  /\ call[p].at \in {"body", "end"}
  /\ Set(p, [call[p] EXCEPT !.at = "gone", !.session = "lost", !.pending = {}, !.wants = NoRow])
  /\ UNCHANGED stored

----------------------------------------------------------------------------

Init ==
  /\ stored \in SUBSET Row
  /\ call = [p \in Proc |->
       [at |-> "out", session |-> "idle", pending |-> {}, wants |-> NoRow, done |-> {},
        failed |-> FALSE, commands |-> 0, calls |-> 0,
        verdict |-> "none", result |-> "none", effect |-> {}]]

\* What goes on by itself once a transaction has begun.
Step(p) ==
  \/ CommandFails(p) \/ Resume(p) \/ BreakDeadlock(p)
  \/ \E r \in Row : CommandWaits(p, r) \/ Command(p, r)
  \/ BodyReturns(p) \/ Ends(p) \/ Commit(p)

Next ==
  \E p \in Proc : Begin(p) \/ BeginFails(p) \/ Step(p) \/ LoseConnection(p) \/ ProcessEnds(p)

Spec == Init /\ [][Next]_vars

\* A body does not wait for anything but the database, which answers every
\* command whose locks are free and breaks deadlocks.
FairSpec == Spec /\ \A p \in Proc : WF_vars(Step(p))

-----------------------------------------------------------------------------
(* Properties *)

\* A transaction is open, and keys are held, only inside a call: the connection
\* is handed back as it was, or lost (db.c:405-416).
TypeOK ==
  /\ stored \subseteq Row /\ call \in [Proc -> Call]
  /\ \A p \in Proc : call[p].session \in {"open", "aborted"} => call[p].at \in {"body", "end"}
  /\ \A p \in Proc : call[p].pending # {} => call[p].session = "open"

Returned(p) == call[p].at = "out" /\ call[p].result # "none"

\* A call leaves something in the tables only when it leaves everything: all the
\* body was told is inserted, and it was told of no failure (db.c:389-417).
AllOrNothing ==
  \A p \in Proc : call[p].effect # {} => call[p].effect = call[p].done /\ ~call[p].failed

\* Only errstatus_ok commits: not the status of the tests, and not a body that
\* has handled its error (db.c:405, lib/own/tchatator413/db.h:172).
StoredIfApproved == \A p \in Proc : call[p].effect # {} => call[p].verdict = "ok"

\* When no command of the body failed and ok is returned, what the body did is
\* in the tables (db.c:408-411).  After a failed command ok says nothing.
OkIsStored ==
  \A p \in Proc :
    (Returned(p) /\ call[p].result = "ok" /\ ~call[p].failed) => call[p].effect = call[p].done

\* Every call returns, or its process ends: no transaction is left open that
\* another one waits for (db.c:405-414).
EveryCallReturns == \A p \in Proc : call[p].at = "body" ~> call[p].at \in {"out", "gone"}
=============================================================================
