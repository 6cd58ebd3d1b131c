-------------------------------- MODULE MCGroups --------------------------------
(* Constants of the runs of Groups.                                        *)
EXTENDS Groups

CONSTANTS c1, c2, c3, w1, w2, tak, bl

Two == <<tak, bl>>

(* c3 has a worker of its own.                                             *)
TwoHomes == [c \in Requests |-> IF c = c3 THEN w2 ELSE w1]

Shared == {TwoHomes}
===============================================================================
