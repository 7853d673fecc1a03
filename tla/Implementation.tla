--------------------------- MODULE Implementation ---------------------------
(***************************************************************************)
(* The processes of module Evaluate implement the service of ChatService:  *)
(* several autocommit commands per action look like one step to clients.   *)
(***************************************************************************)
EXTENDS Evaluate

\* Only what view msg shows is there.
Box == {[id |-> m.id, sender |-> m.sender, recipient |-> m.recipient] : m \in Visible}

\* Past verify the caller has been admitted.
Phase(p) ==
  CASE pc[p] = "idle" -> "ready"
    [] pc[p] = "exited" -> "gone"
    [] pc[p] \in {"by_member", "by_pro", "by_email", "verify"} -> "asked"
    [] OTHER -> "admitted"

OutcomeOf(status) ==
  CASE status = Success -> "done"
    [] status = unauthorized -> "unauthorized"
    [] status = forbidden -> "forbidden"
    [] status = not_found -> "not_found"
    [] status = payload_too_large -> "too_long"
    [] OTHER -> "unclear"

\* The answer of a finished action, as response_to_json writes it.
AnswerOf(p) ==
  IF pc[p] # "idle" \/ rep[p].type = "none" THEN [outcome |-> "none", id |-> 0, page |-> {}]
  ELSE [outcome |-> OutcomeOf(StatusOf(rep[p])),
        id |-> IF rep[p].type = "send" THEN rep[p].word ELSE 0,
        page |-> rep[p].page]

\* Whom send refuses to serve, and for whom.
Barred == {b \in (User \cup {Root}) \X (0..IntMax) : Refuses(b[1], b[2])}

Service == INSTANCE ChatService WITH
  barred <- Barred,
  box <- Box,
  used <- 1..(nextId - 1),
  phase <- [p \in Proc |-> Phase(p)],
  asked <- [p \in Proc |-> act[p].req],
  meant <- [p \in Proc |-> act[p].user],
  answer <- [p \in Proc |-> AnswerOf(p)]

----------------------------------------------------------------------------

\* Every step of the commands of an action, of the platform or of a failing
\* connection is a step of the service or none: an action takes effect once,
\* with its answer, and a refusal was justified when it was given, although
\* other processes and the platform go on between any two commands
\* (action.c:22-204, tchatator413.c:36-66).
ImplementsService == Service!Spec
=============================================================================
