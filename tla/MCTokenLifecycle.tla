-------------------------- MODULE MCTokenLifecycle --------------------------
(* TokenLifecycle for model checking.                                       *)
EXTENDS TokenLifecycle
=============================================================================
