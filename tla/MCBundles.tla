------------------------------ MODULE MCBundles ------------------------------
(* Constants of the run of Bundles.                                        *)
EXTENDS Bundles

CONSTANTS c1, r1, r2, r3, t1, t2, w1, w2

One   == {c1}
Three == {r1, r2, r3}
Two   == {t1, t2}
Both  == {w1, w2}
Shell == {w2}

HomeOf == [s \in Three \cup Two |-> IF s \in {r3, t2} THEN w2 ELSE w1]
===============================================================================
