------------------------------- MODULE MCStartup -------------------------------
(* Constants of the runs of Startup.                                       *)
EXTENDS Startup

CONSTANTS w1, w2, w3

Trio == {w1, w2, w3}

Both == {"tilauspalvelu", "kraftwerk"}
===============================================================================
