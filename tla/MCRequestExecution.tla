------------------------- MODULE MCRequestExecution -------------------------
(* RequestExecution for model checking: two concurrent requests are enough *)
(* for a late result to meet the other's probe.                            *)
EXTENDS RequestExecution
=============================================================================
