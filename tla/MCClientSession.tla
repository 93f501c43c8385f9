--------------------------- MODULE MCClientSession ---------------------------
(* ClientSession for model checking: the AuthMethod of the user's own looks *)
(* a token up, reads a secret, or logs in.                                  *)
EXTENDS ClientSession

MCCustomCalls ==
  {o \in TokenAuth \cup Kv2Data \cup AppRoleAuth : o.op \in {"lookup", "read", "login"}}
=============================================================================
