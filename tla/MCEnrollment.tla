----------------------------- MODULE MCEnrollment -----------------------------
(* Constants of the runs of Enrollment.                                    *)
EXTENDS Enrollment

CONSTANTS c1, c2, c3, r1, r2, r3, w1, w2

(* c1 and c2 are two spellings of one callsign.                            *)
Variants == [c \in Callsigns |-> IF c = c2 THEN c1 ELSE c]
(* Every callsign has one spelling.                                        *)
Distinct == [c \in Callsigns |-> c]

OneHome  == [r \in Requests |-> w1]
(* r2 has a worker of its own.                                             *)
TwoHomes == [r \in Requests |-> IF r = r2 THEN w2 ELSE w1]

OneOrTwo == {OneHome, TwoHomes}
Two      == {TwoHomes}
===============================================================================
