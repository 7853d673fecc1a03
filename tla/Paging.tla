------------------------------- MODULE Paging -------------------------------
(***************************************************************************)
(* A reader that goes through its inbox page by page: page 1 first, then   *)
(* each next page, through whichever process answers.  A page is an offset *)
(* into a list that others add to and remove from between two pages, so    *)
(* this module follows module Evaluate and remembers what was due and what *)
(* was shown.                                                              *)
(***************************************************************************)
EXTENDS Implementation

CONSTANT Reader     \* whose inbox is read

ASSUME PagingAssumption == Reader \in User

VARIABLES
  pages,    \* the pages read since page 1, without a gap
  due,      \* the ids in the inbox when page 1 was read
  shown,    \* the ids on the pages read since
  gone      \* how many messages left the inbox since

readerVars == <<pages, due, shown, gone>>

Inbox == {m \in Visible : m.recipient = Reader}

\* How many messages the whole inbox lists before m.
Rank(m) == Cardinality({n \in Inbox : Newer(n, m)})

\* A process answers the reader's request of page 1 or of the next page.
TakesTurn(p) ==
  /\ pc[p] = "inbox" /\ pc'[p] = "idle" /\ act[p].id = Reader
  /\ StatusOf(rep'[p]) = Success
  /\ act[p].req.arg \in {1, pages + 1}

Turn(p) ==
  /\ TakesTurn(p)
  /\ pages' = act[p].req.arg
  /\ IF pages' = 1
       THEN due' = {m.id : m \in Inbox} /\ shown' = rep'[p].page /\ gone' = 0
       ELSE shown' = shown \cup rep'[p].page /\ UNCHANGED <<due, gone>>

\* Any other step: the inbox may lose messages.
NoTurn ==
  /\ \A p \in Proc : ~TakesTurn(p)
  /\ gone' = gone + (IF pages = 0 THEN 0 ELSE Cardinality({m.id : m \in Inbox} \ {m.id : m \in Inbox'}))
  /\ UNCHANGED <<pages, due, shown>>

PagingInit == Init /\ pages = 0 /\ due = {} /\ shown = {} /\ gone = 0

PagingNext == Next /\ ((\E p \in Proc : Turn(p)) \/ NoTurn)

PagingSpec == PagingInit /\ [][PagingNext]_<<vars, readerVars>>

----------------------------------------------------------------------------

\* What was due and is still there, but on a page that was read before it came there.
Missed == {m \in Inbox : m.id \in due \ shown /\ Rank(m) < pages * PageInbox}

\* Reading the pages one after the other skips a message only for a message
\* that went away meanwhile, each at most one: additions shift messages to
\* pages that are still to come, and the order of a page's rows is that of
\* the offsets (action.c:113-124, db.c:301-337, views.sql:18-26).
MissedOnlyForGone == Cardinality(Missed) <= gone
=============================================================================
