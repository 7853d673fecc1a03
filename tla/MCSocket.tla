------------------------------ MODULE MCSocket ------------------------------
(* Three connections, two of them from one address: a request of two       *)
(* packets, one that is too long for the buffer, and one of one packet.    *)
EXTENDS Program

CONSTANTS c1, c2, c3, a1, a2

Addresses == [c \in Client |-> IF c = c3 THEN a2 ELSE a1]
Sizes == [c \in Client |-> CASE c = c1 -> 2 [] c = c2 -> 3 [] c = c3 -> 1]

\* Up to two options.
Lines == {<<>>} \cup [1..1 -> Option] \cup [1..2 -> Option]
=============================================================================
