--------------------------- MODULE MCLocalStores ---------------------------
(* One service process with two worker threads and a command-line process  *)
(* on the same files, from the first start.                                *)
EXTENDS LocalStores

CONSTANTS service, cli, w1, w2, w3

MCFold == [p \in {Marketing, Blank} |-> p]

MCHome == [w \in Worker |-> IF w = w3 THEN cli ELSE service]
=============================================================================
