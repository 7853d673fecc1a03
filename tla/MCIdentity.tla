----------------------------- MODULE MCIdentity -----------------------------
(* One process and every kind of caller and user key: members 1 and 2 (2   *)
(* has no password), pros 3 and 4 of the same name, the admin 5, root and  *)
(* a key nobody has.  1 and 3 come, go and change their names; the member  *)
(* 1 also sends to a name and removes what it sent; it may be blocked by 4 *)
(* and banned.                                                             *)
EXTENDS Naming

Ask(do, key, pw, by, val) ==
  [do |-> do, key |-> key, pw |-> pw, user |-> [by |-> by, val |-> val], arg |-> 1, long |-> FALSE]

Keys == {<<"id", 0>>, <<"id", 5>>, <<"id", 6>>, <<"name", "a">>, <<"name", "c">>, <<"email", 0>>}
Callers == {<<0, "right">>, <<0, "none">>, <<0, "wrong">>, <<1, "right">>, <<1, "wrong">>, <<1, "none">>,
            <<2, "right">>, <<2, "none">>, <<3, "right">>, <<5, "right">>, <<7, "right">>}

IdentityRequests ==
  {Ask(do, c[1], c[2], "id", 1) : do \in {"whois", "ban", "motd"}, c \in Callers}
    \cup {Ask("whois", 0, "right", k[1], k[2]) : k \in Keys}
    \cup {Ask(do, 3, "right", "name", "a") : do \in {"ban", "malformed", "unknown"}}
    \cup {Ask("send", c[1], "right", c[2], c[3]) : c \in {<<0, "id", 5>>, <<1, "id", 5>>, <<1, "name", "c">>}}
    \cup {[Ask("rm", c[1], c[2], "id", 0) EXCEPT !.arg = 6] : c \in {<<1, "right">>, <<3, "right">>, <<3, "wrong">>}}
    \cup {[Ask("inbox", 1, "right", "id", 0) EXCEPT !.arg = page] : page \in {1, 5}}
AdmissionRequests == {Ask("motd", 5, "right", "id", 0), Ask("motd", 2, "none", "id", 0)}
Blocked == {<<1, 4>>}
UserNames == [u \in User |-> CASE u = 1 -> "a" [] u = 2 -> "b" [] OTHER -> "c"]
=============================================================================
