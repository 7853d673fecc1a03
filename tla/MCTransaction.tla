---------------------------- MODULE MCTransaction ----------------------------
(* Two processes of two transactions each over two keys, in any order: each *)
(* can be made to wait for the other.                                       *)
EXTENDS Transaction, TLC

CONSTANTS p1, p2, r1, r2
=============================================================================
