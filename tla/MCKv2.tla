-------------------------------- MODULE MCKv2 --------------------------------
(* Kv2 for model checking.                                                  *)
EXTENDS Kv2, TLC

Symmetry == Permutations(Calls) \cup Permutations(Fields)
=============================================================================
