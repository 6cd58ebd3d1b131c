------------------------------- MODULE MCBackend -------------------------------
(* Instances of Backend.                                                   *)
EXTENDS Backend

CONSTANTS alice, tak, cn1, cn2, slug

(* Names that look alike in a slug.                                        *)
AlikeSlugs == [c \in CNs |-> slug]
===============================================================================
