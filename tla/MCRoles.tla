-------------------------------- MODULE MCRoles --------------------------------
(* Constants of the run of Roles.                                          *)
EXTENDS Roles

CONSTANTS r1, r2, t1, t2, w1, w2

OneHome  == [s \in Requests |-> w1]
(* Each worker has a handler and a task.                                   *)
TwoHomes == [s \in Requests |-> IF s \in {r2, t2} THEN w2 ELSE w1]

OneOrTwo == {OneHome, TwoHomes}
===============================================================================
