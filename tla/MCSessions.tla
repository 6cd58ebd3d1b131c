------------------------------ MODULE MCSessions ------------------------------
(* Constants of the run of Sessions.                                       *)
EXTENDS Sessions

CONSTANTS p1, p2, r1, r2, r3

Pair == {p1, p2}
Trio == {r1, r2, r3}
OneTwoFour == {1, 2, 4}
===============================================================================
