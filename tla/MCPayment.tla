----------------------------- MODULE MCPayment ------------------------------
(* The instance of Payment for TLC: one customer with two linked accounts,  *)
(* and one with a linked account and another.                               *)
EXTENDS Payment
CONSTANTS a1, a2, a3, x1, c1, c2
CustomersOfFour == [a \in {a1, a2, a3, x1} |-> IF a \in {a1, a2} THEN c1 ELSE c2]
=============================================================================
