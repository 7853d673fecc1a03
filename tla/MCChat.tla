------------------------------- MODULE MCChat -------------------------------
(* A client that types up to three numbers, words or ends of lines, for up  *)
(* to four requests, and one other connection to the server.                *)
EXTENDS Chat

CONSTANTS m1, m2, m3, m4, other, here, there

Requests == <<m1, m2, m3, m4>>
Addresses == [c \in Client |-> IF c = other THEN there ELSE here]
Sizes == [c \in Client |-> IF c = other THEN 2 ELSE 1]

\* A number follows another only on a line of its own.
Typeable(s) == \A i \in 1..(Len(s) - 1) : s[i] > 0 => s[i + 1] \in {Word, Eol}

\* Anything made of some choices, and every choice alone on its line.
Typed ==
  {s \in UNION {[1..k -> {3, 5, Word, Eol}] : k \in 0..3} : Typeable(s)}
    \cup {<<c, Eol>> : c \in Choice}
=============================================================================
