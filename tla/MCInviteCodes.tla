--------------------------- MODULE MCInviteCodes ---------------------------
(* Constants of the run of InviteCodes.                                    *)
EXTENDS InviteCodes

CONSTANTS r1, r2, r3, w1, w2, w3

OneHome    == [r \in Requests |-> w1]
ThreeHomes == [r \in Requests |-> CASE r = r1 -> w1 [] r = r2 -> w2 [] r = r3 -> w3]

OneOrThree == {OneHome, ThreeHomes}
===============================================================================
