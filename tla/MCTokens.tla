------------------------------ MODULE MCTokens ------------------------------
(* Constants of the runs of Tokens.                                        *)
EXTENDS Tokens

CONSTANTS r1, r2, r3, w1, w2

OneHome  == [r \in Requests |-> w1]
(* r1 and r3 share a worker.                                               *)
TwoHomes == [r \in Requests |-> IF r = r2 THEN w2 ELSE w1]

OneOrTwo == {OneHome, TwoHomes}
Two      == {TwoHomes}
===============================================================================
