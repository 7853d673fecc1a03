------------------------------- MODULE MCSend -------------------------------
(* Two processes that send: the member 1 to the pro 2 and back, to itself, *)
(* too much, and root to the member, while root removes a message and      *)
(* asks the rest of what there is.  PeerRequests: another member, 3.       *)
EXTENDS Evaluate, TLC

Ask(do, key, by, val) ==
  [do |-> do, key |-> key, pw |-> "right", user |-> [by |-> by, val |-> val],
   arg |-> 3, long |-> FALSE]
Send(key, u) == Ask("send", key, "id", u)

Sends == {Send(1, 2), Send(2, 1), Send(1, 1), Send(Root, 1), [Send(1, 2) EXCEPT !.long = TRUE]}
Others ==
  {Ask("rm", Root, "id", 0), [Ask("inbox", Root, "id", 0) EXCEPT !.arg = 1],
   [Ask("motd", Root, "id", 0) EXCEPT !.pw = "none"],
   Ask("whois", Root, "name", "b"), Ask("whois", Root, "email", 0)}
SendRequests == Sends \cup Others
PeerRequests == {Send(1, 3), Send(2, 1)}
UserNames == [u \in User |-> CASE u = 1 -> "a" [] u = 2 -> "b" [] u = 3 -> "c"]
Blocked == {<<1, 2>>}
Symmetry == Permutations(Proc)
=============================================================================
