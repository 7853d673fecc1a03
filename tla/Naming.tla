------------------------------- MODULE Naming -------------------------------
(***************************************************************************)
(* What a name in a request stands for.  A name is looked for among the    *)
(* members, then among the pros, in two commands, and the user it led to   *)
(* is used by later ones, while the platform registers, renames and        *)
(* deletes users between any two of them.  This module follows module      *)
(* Evaluate and remembers who has borne the name all the time.             *)
(***************************************************************************)
EXTENDS Implementation

VARIABLE lasting   \* lasting[p]: who has borne the name asked for ever since p's request came

\* The members and pros that bear the name of request r.
Bearers(r) ==
  {u \in users \cap (Member \cup Pro) : r.user.by = "name" /\ names[u] = r.user.val}

Follow ==
  lasting' = [p \in Proc |-> IF pc[p] = "idle" THEN Bearers(act[p].req)'
                               ELSE lasting[p] \cap Bearers(act[p].req)']

NamingInit == Init /\ lasting = [p \in Proc |-> Bearers(act[p].req)]

NamingNext == Next /\ Follow

NamingSpec == NamingInit /\ [][NamingNext]_<<vars, lasting>>

FairNamingSpec == NamingSpec /\ \A p \in Proc : WF_vars(Step(p))

----------------------------------------------------------------------------

\* The search is over, and the action not yet.
Found(p) == pc[p] \notin {"idle", "exited", "by_member", "by_pro", "by_email"}

\* Nobody who bore the name from the request's arrival on is passed over,
\* whoever comes, goes or takes the name meanwhile: not a member for a pro, and
\* not one of several members or pros for another (db.c:191-222,
\* action-json.c:14-30).  Who got the name only in between may be.
NoNamesakePassedOver ==
  \A p \in Proc : act[p].req.user.by = "name" =>
    /\ pc[p] = "by_pro" => lasting[p] \cap Member = {}
    /\ (Found(p) /\ NamesUser(act[p].req.do)) =>
         \A u \in lasting[p] \ {act[p].user} : act[p].user \in Member /\ u \in Pro
=============================================================================
