------------------------------ MODULE MCFirstUser ------------------------------
(* Instances of FirstUser.                                                 *)
EXTENDS FirstUser

CONSTANTS c1, c2, q1, r1, r2, w1, w2

OneOrTwo ==
  {[r \in Requests |-> w1], [r \in Requests |-> IF r = r1 THEN w1 ELSE w2]}
===============================================================================
