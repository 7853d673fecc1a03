-------------------------- MODULE TransactionProofs --------------------------
(***************************************************************************)
(* db_transaction keeps its promises, for any number of processes, keys,   *)
(* commands and calls.  What a call has done is known from its own state:  *)
(* while the session is open nothing has failed and the pending keys are   *)
(* what the body was told; without it, nothing is pending.                 *)
(***************************************************************************)
EXTENDS Transaction, TLAPS

\* What is known of a call at any time.
Known(c) ==
  /\ c \in Call
  /\ c.session \in {"open", "aborted"} => c.at \in {"body", "end"}
  /\ c.at \in {"body", "end"} => c.session # "idle" /\ c.effect = {}
  /\ c.pending # {} => c.session = "open"
  /\ c.session = "open" => c.pending = c.done /\ ~c.failed
  /\ c.session = "aborted" => c.failed
  /\ c.wants # NoRow => c.at = "body" /\ c.session = "open"
  /\ c.effect # {} => c.effect = c.done /\ ~c.failed /\ c.verdict = "ok"
  /\ (c.at = "out" /\ c.result = "ok" /\ ~c.failed) => c.effect = c.done

TransactionInv ==
  /\ stored \subseteq Row
  /\ call \in [Proc -> Call]
  /\ \A p \in Proc : Known(call[p])

-----------------------------------------------------------------------------
(* Steps of one call *)

LEMMA FreshTyped ==
  ASSUME NEW c \in Call, c.calls < MaxCalls
  PROVE  /\ Fresh(c) \in Call
         /\ Fresh(c).at = c.at /\ Fresh(c).session = c.session
         /\ Fresh(c).pending = c.pending /\ Fresh(c).wants = c.wants
         /\ Fresh(c).done = {} /\ Fresh(c).effect = {} /\ Fresh(c).failed = FALSE
<1>1. c.calls + 1 \in 0..MaxCalls /\ 0 \in 0..MaxCommands
  <2>1. c.calls \in 0..MaxCalls
    BY DEF Call
  <2> QED BY <2>1, TransactionAssumption
<1>2. Fresh(c) \in Call
  BY <1>1 DEF Call, Fresh, Result
<1>3. /\ Fresh(c).at = c.at /\ Fresh(c).session = c.session
      /\ Fresh(c).pending = c.pending /\ Fresh(c).wants = c.wants
      /\ Fresh(c).done = {} /\ Fresh(c).effect = {} /\ Fresh(c).failed = FALSE
  BY DEF Call, Fresh
<1> QED BY <1>2, <1>3

LEMMA FreshKnown ==
  ASSUME NEW c \in Call, Known(c), c.at = "out", c.calls < MaxCalls
  PROVE  /\ c.session = "idle" => Known([Fresh(c) EXCEPT !.at = "body", !.session = "open"])
         /\ Known([Fresh(c) EXCEPT !.result = "handled"])
<1>1. /\ Fresh(c) \in Call
      /\ Fresh(c).at = "out" /\ Fresh(c).session = c.session
      /\ Fresh(c).pending = {} /\ Fresh(c).wants = NoRow
      /\ Fresh(c).done = {} /\ Fresh(c).effect = {} /\ Fresh(c).failed = FALSE
  BY FreshTyped DEF Known
<1>2. c.session = "idle" => Known([Fresh(c) EXCEPT !.at = "body", !.session = "open"])
  BY <1>1 DEF Known, Call, Result
<1>3. Known([Fresh(c) EXCEPT !.result = "handled"])
  <2>1. c.session \in {"idle", "lost"}
    BY DEF Known, Call
  <2> QED BY <1>1, <2>1 DEF Known, Call, Result
<1> QED BY <1>2, <1>3

LEMMA AbortedKnown ==
  ASSUME NEW c \in Call, Known(c), c.at = "body", c.session = "open"
  PROVE  Known(Aborted(c))
  BY DEF Known, Call, Aborted, Failed, Result

LEMMA CountedKnown ==
  ASSUME NEW c \in Call, Known(c), c.at = "body", c.commands < MaxCommands
  PROVE  LET d == [c EXCEPT !.commands = @ + 1]
         IN  /\ Known(d)
             /\ d.at = c.at /\ d.session = c.session /\ d.pending = c.pending
             /\ d.wants = c.wants /\ d.effect = c.effect
  BY TransactionAssumption DEF Known, Call, Result

LEMMA FailedKnown ==
  ASSUME NEW c \in Call, Known(c), c.at = "body", c.session # "open"
  PROVE  Known(Failed(c))
  BY DEF Known, Call, Failed, Result

LEMMA InsertedKnown ==
  ASSUME NEW c \in Call, Known(c), c.at = "body", c.session = "open", NEW r \in Row
  PROVE  /\ Known([c EXCEPT !.done = @ \cup {r}, !.pending = @ \cup {r}, !.wants = NoRow])
         /\ c.wants = NoRow => Known([c EXCEPT !.done = @ \cup {r}, !.pending = @ \cup {r}])
         /\ Known([c EXCEPT !.wants = r])
  BY TransactionAssumption DEF Known, Call, Result

\* The end of a call: what a commit leaves is all the body did.
LEMMA OverKnown ==
  ASSUME NEW c \in Call, Known(c), c.at = "end"
  PROVE  /\ ~(c.verdict = "ok" /\ c.session = "open")
              => Known(Over(c, IF c.session = "lost" THEN "handled" ELSE c.verdict))
         /\ LET d == [c EXCEPT !.effect = @ \cup c.pending]
            IN  c.verdict = "ok" /\ c.session = "open"
                  => /\ Known(Over(d, "ok"))
                     /\ Known([Over(d, "handled") EXCEPT !.session = "lost"])
<1>1. CASE c.verdict = "ok" /\ c.session = "open"
  BY <1>1 DEF Known, Call, Over, Result
<1>2. CASE ~(c.verdict = "ok" /\ c.session = "open")
  BY <1>2 DEF Known, Call, Over, Result
<1> QED BY <1>1, <1>2

-----------------------------------------------------------------------------
(* Steps of a process *)

\* A step that leaves one call known keeps the invariant.
LEMMA SetKeeps ==
  ASSUME TransactionInv, NEW p \in Proc, NEW c, Known(c), Set(p, c), stored' \subseteq Row
  PROVE  TransactionInv'
<1>1. call' = [call EXCEPT ![p] = c] /\ c \in Call
  BY DEF Set, Known
<1>2. call' \in [Proc -> Call] /\ \A q \in Proc : call'[q] = IF q = p THEN c ELSE call[q]
  BY <1>1 DEF TransactionInv
<1> QED BY <1>2 DEF TransactionInv, Known

LEMMA StepKeeps ==
  ASSUME TransactionInv, NEW p \in Proc, Step(p)
  PROVE  TransactionInv'
<1> DEFINE c == call[p]
<1>0. c \in Call /\ Known(c) /\ stored \subseteq Row
  BY DEF TransactionInv
<1> HIDE DEF c
<1>1. CASE CommandFails(p)
  <2>1. Set(p, IF c.session = "open" THEN Aborted(Counted(p)) ELSE Failed(Counted(p)))
        /\ stored' = stored /\ c.at = "body" /\ c.commands < MaxCommands
    BY <1>1 DEF CommandFails, OneMore, Running, c
  <2>2. Counted(p) \in Call /\ Known(Counted(p)) /\ Counted(p).at = "body"
        /\ Counted(p).session = c.session
    BY <1>0, <2>1, CountedKnown DEF Counted, Known, c
  <2>3. c.session = "open" => Known(Aborted(Counted(p)))
    BY <2>2, AbortedKnown
  <2>4. c.session # "open" => Known(Failed(Counted(p)))
    BY <2>2, FailedKnown
  <2> QED BY <1>0, <2>1, <2>3, <2>4, SetKeeps
<1>2. CASE Resume(p)
  <2>1. /\ stored' = stored /\ c.at = "body" /\ c.wants # NoRow
        /\ Set(p, IF c.wants \in stored THEN Aborted(c)
                  ELSE [c EXCEPT !.done = @ \cup {c.wants}, !.pending = @ \cup {c.wants}, !.wants = NoRow])
    BY <1>2 DEF Resume, c
  <2>2. c.wants \in Row /\ c.session = "open"
    BY <1>0, <2>1 DEF Known, Call
  <2>3. Known(Aborted(c))
    BY <1>0, <2>1, <2>2, AbortedKnown
  <2>4. Known([c EXCEPT !.done = @ \cup {c.wants}, !.pending = @ \cup {c.wants}, !.wants = NoRow])
    BY <1>0, <2>1, <2>2, InsertedKnown
  <2> QED BY <1>0, <2>1, <2>3, <2>4, SetKeeps
<1>3. CASE BreakDeadlock(p)
  <2>1. stored' = stored /\ Set(p, Aborted(c)) /\ c.wants # NoRow
    BY <1>3 DEF BreakDeadlock, c
  <2>2. Known(Aborted(c))
    BY <1>0, <2>1, AbortedKnown DEF Known
  <2> QED BY <1>0, <2>1, <2>2, SetKeeps
<1>4. ASSUME NEW r \in Row, CommandWaits(p, r)
      PROVE  TransactionInv'
  <2>1. /\ stored' = stored /\ c.at = "body" /\ c.commands < MaxCommands /\ c.session = "open"
        /\ Set(p, [Counted(p) EXCEPT !.wants = r])
    BY <1>4 DEF CommandWaits, OneMore, Running, c
  <2>2. Counted(p) \in Call /\ Known(Counted(p)) /\ Counted(p).at = "body"
        /\ Counted(p).session = "open"
    BY <1>0, <2>1, CountedKnown DEF Counted, Known, c
  <2>3. Known([Counted(p) EXCEPT !.wants = r])
    BY <2>2, InsertedKnown
  <2> QED BY <1>0, <2>1, <2>3, SetKeeps
<1>5. ASSUME NEW r \in Row, Command(p, r)
      PROVE  TransactionInv'
  <2>1. c.at = "body" /\ c.commands < MaxCommands /\ c.wants = NoRow
    BY <1>5 DEF Command, OneMore, Running, c
  <2>2. c.session = "open"
    BY <1>0, <1>5, <2>1 DEF Command, Known, c
  <2>3. Counted(p) \in Call /\ Known(Counted(p)) /\ Counted(p).at = "body"
        /\ Counted(p).session = "open" /\ Counted(p).wants = NoRow
    BY <1>0, <2>1, <2>2, CountedKnown DEF Counted, Known, c
  <2>4. Known([Counted(p) EXCEPT !.done = @ \cup {r}, !.pending = @ \cup {r}])
    BY <2>3, InsertedKnown
  <2>5. stored' = stored /\ Set(p, [Counted(p) EXCEPT !.done = @ \cup {r}, !.pending = @ \cup {r}])
    BY <1>5, <2>3 DEF Command, Call
  <2> QED BY <1>0, <2>4, <2>5, SetKeeps
<1>6. CASE BodyReturns(p)
  <2>1. PICK res \in Result : Set(p, [c EXCEPT !.at = "end", !.verdict = res])
    BY <1>6 DEF BodyReturns, c
  <2>2. stored' = stored /\ c.at = "body" /\ c.wants = NoRow
    BY <1>6 DEF BodyReturns, Running, c
  <2>3. Known([c EXCEPT !.at = "end", !.verdict = res])
    BY <1>0, <2>2 DEF Known, Call
  <2> QED BY <1>0, <2>1, <2>2, <2>3, SetKeeps
<1>7. CASE Ends(p)
  <2>1. /\ stored' = stored /\ c.at = "end" /\ ~(c.verdict = "ok" /\ c.session = "open")
        /\ Set(p, Over(c, IF c.session = "lost" THEN "handled" ELSE c.verdict))
    BY <1>7 DEF Ends, Commits, c
  <2>2. Known(Over(c, IF c.session = "lost" THEN "handled" ELSE c.verdict))
    BY <1>0, <2>1, OverKnown
  <2> QED BY <1>0, <2>1, <2>2, SetKeeps
<1>8. CASE Commit(p)
  <2> DEFINE d == [c EXCEPT !.effect = @ \cup c.pending]
  <2>1. c.at = "end" /\ c.verdict = "ok" /\ c.session = "open"
    BY <1>8 DEF Commit, Commits, c
  <2>2. Known(Over(d, "ok")) /\ Known([Over(d, "handled") EXCEPT !.session = "lost"])
    BY <1>0, <2>1, OverKnown
  <2>3. stored' \subseteq Row
    BY <1>0, <1>8 DEF Commit, Call, c
  <2>4. Set(p, Over(d, "ok")) \/ Set(p, [Over(d, "handled") EXCEPT !.session = "lost"])
    BY <1>8 DEF Commit, c
  <2> QED BY <2>2, <2>3, <2>4, SetKeeps
<1> QED BY <1>1, <1>2, <1>3, <1>4, <1>5, <1>6, <1>7, <1>8 DEF Step

LEMMA NextKeeps == TransactionInv /\ [Next]_vars => TransactionInv'
<1> SUFFICES ASSUME TransactionInv, [Next]_vars PROVE TransactionInv'
  OBVIOUS
<1>1. CASE UNCHANGED vars
  BY <1>1 DEF TransactionInv, vars, Known
<1>2. ASSUME NEW p \in Proc, Begin(p) \/ BeginFails(p) \/ LoseConnection(p) \/ ProcessEnds(p)
      PROVE  TransactionInv'
  <2> DEFINE c == call[p]
  <2>0. c \in Call /\ Known(c) /\ stored \subseteq Row
    BY DEF TransactionInv
  <2> HIDE DEF c
  <2>1. CASE Begin(p)
    <3>1. /\ stored' = stored /\ c.at = "out" /\ c.calls < MaxCalls /\ c.session = "idle"
          /\ Set(p, [Fresh(c) EXCEPT !.at = "body", !.session = "open"])
      BY <2>1 DEF Begin, Callable, c
    <3> QED BY <2>0, <3>1, FreshKnown, SetKeeps
  <2>2. CASE BeginFails(p)
    <3>1. /\ stored' = stored /\ c.at = "out" /\ c.calls < MaxCalls
          /\ Set(p, [Fresh(c) EXCEPT !.result = "handled"])
      BY <2>2 DEF BeginFails, Callable, c
    <3> QED BY <2>0, <3>1, FreshKnown, SetKeeps
  <2>3. CASE LoseConnection(p)
    <3> DEFINE d == [c EXCEPT !.session = "lost", !.pending = {}, !.wants = NoRow,
                              !.failed = @ \/ c.wants # NoRow]
    <3>1. stored' = stored /\ Set(p, d)
      BY <2>3 DEF LoseConnection, c
    <3>2. Known(d)
      <4>1. CASE c.wants = NoRow
        <5>1. d = [c EXCEPT !.session = "lost", !.pending = {}, !.wants = NoRow]
          BY <2>0, <4>1 DEF Call
        <5> QED BY <2>0, <5>1 DEF Known, Call
      <4>2. CASE c.wants # NoRow
        <5>1. d = [c EXCEPT !.session = "lost", !.pending = {}, !.wants = NoRow, !.failed = TRUE]
          BY <2>0, <4>2 DEF Call
        <5> QED BY <2>0, <4>2, <5>1 DEF Known, Call
      <4> QED BY <4>1, <4>2
    <3> QED BY <2>0, <3>1, <3>2, SetKeeps
  <2>4. CASE ProcessEnds(p)
    <3> DEFINE d == [c EXCEPT !.at = "gone", !.session = "lost", !.pending = {}, !.wants = NoRow]
    <3>1. stored' = stored /\ Set(p, d) /\ c.at \in {"body", "end"}
      BY <2>4 DEF ProcessEnds, c
    <3>2. Known(d)
      BY <2>0, <3>1 DEF Known, Call
    <3> QED BY <2>0, <3>1, <3>2, SetKeeps
  <2> QED BY <1>2, <2>1, <2>2, <2>3, <2>4
<1> QED BY <1>1, <1>2, StepKeeps DEF Next

LEMMA InitKnown == Init => TransactionInv
  BY TransactionAssumption DEF Init, TransactionInv, Known, Call, Result

-----------------------------------------------------------------------------
(* Theorems *)

LEMMA Invariance == Spec => []TransactionInv
  BY InitKnown, NextKeeps, PTL DEF Spec

\* The connection of a process is handed back without a transaction, or lost:
\* db.c:404-416 for any bodies.
THEOREM SessionsEnd == Spec => []TypeOK
<1>1. TransactionInv => TypeOK
  BY DEF TransactionInv, Known, TypeOK
<1> QED BY <1>1, Invariance, PTL

\* A call that leaves something leaves all of it: db.c:389-417.
THEOREM Atomicity == Spec => []AllOrNothing
<1>1. TransactionInv => AllOrNothing
  BY DEF TransactionInv, Known, AllOrNothing
<1> QED BY <1>1, Invariance, PTL

\* Only a body that returned errstatus_ok leaves something: db.c:405.
THEOREM Approval == Spec => []StoredIfApproved
<1>1. TransactionInv => StoredIfApproved
  BY DEF TransactionInv, Known, StoredIfApproved
<1> QED BY <1>1, Invariance, PTL

\* What db_transaction reports as done is done, unless a command failed:
\* db.c:402-411.
THEOREM Durability == Spec => []OkIsStored
<1>1. TransactionInv => OkIsStored
  BY DEF TransactionInv, Known, OkIsStored, Returned
<1> QED BY <1>1, Invariance, PTL
=============================================================================
