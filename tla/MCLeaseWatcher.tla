--------------------------- MODULE MCLeaseWatcher ---------------------------
(* LeaseWatcher for model checking.                                         *)
EXTENDS LeaseWatcher
=============================================================================
