-------------------------------- MODULE MCRm --------------------------------
(* Two processes that send, remove and read: the member 1 writes to the    *)
(* pro 2, either process removes a message the other may be removing, and  *)
(* both inboxes are read, the pro's page after page.                       *)
EXTENDS Paging, TLC

Ask(do, key, u, arg) ==
  [do |-> do, key |-> key, pw |-> "right", user |-> [by |-> "id", val |-> u],
   arg |-> arg, long |-> FALSE]

RmRequests ==
  {Ask("send", 1, 2, 1), Ask("rm", 2, 0, 2), Ask("inbox", 1, 0, 1), Ask("inbox", 2, 0, 1), Ask("inbox", 2, 0, 2)}
UserNames == [u \in {1, 2} |-> IF u = 1 THEN "a" ELSE "b"]
Symmetry == Permutations(Proc)
=============================================================================
