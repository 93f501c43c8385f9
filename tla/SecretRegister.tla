---------------------------- MODULE SecretRegister ----------------------------
(***************************************************************************)
(* What the callers of the KV v2 handler may rely on, without requests,    *)
(* retries and answers: each call makes versions of the secret in single   *)
(* steps, a check-and-set call at most one per life of the secret however  *)
(* often it is sent, any other writing call at most one per attempt; and   *)
(* a call that reports success took effect.                                *)
(***************************************************************************)
EXTENDS Naturals, Sequences, FiniteSets

CONSTANTS Calls, Attempts

VARIABLES kind,     \* "none" until the call begins; "cas", "write" or "other"
          owners,   \* the calls that made versions 1, 2, ... of the secret
          took,     \* the call took effect
          outcome   \* "open", "ok" or "failed"

vars == <<kind, owners, took, outcome>>

Limit(c) == CASE kind[c] = "cas" -> 1
              [] kind[c] = "write" -> Attempts
              [] OTHER -> 0

Made(c) == Cardinality({v \in DOMAIN owners : owners[v] = c})

Init ==
  /\ kind = [c \in Calls |-> "none"]
  /\ owners = <<>>
  /\ took = [c \in Calls |-> FALSE]
  /\ outcome = [c \in Calls |-> "open"]

Begin(c) ==
  /\ kind[c] = "none"
  /\ \E k \in {"cas", "write", "other"} : kind' = [kind EXCEPT ![c] = k]
  /\ UNCHANGED <<owners, took, outcome>>

(* A call makes a version, also after it reported failure *)
Make(c) ==
  /\ Made(c) < Limit(c)
  /\ owners' = Append(owners, c)
  /\ took' = [took EXCEPT ![c] = TRUE]
  /\ UNCHANGED <<kind, outcome>>

(* Deletions, restorations and destructions of versions; only that of the  *)
(* whole secret takes its versions away                                    *)
Affect(c) ==
  /\ kind[c] = "other"
  /\ owners' \in {owners, <<>>}
  /\ took' = [took EXCEPT ![c] = TRUE]
  /\ UNCHANGED <<kind, outcome>>

Settle(c) ==
  /\ kind[c] # "none"
  /\ outcome[c] = "open"
  /\ \E r \in {"ok", "failed"} :
       /\ r = "ok" => took[c]
       /\ outcome' = [outcome EXCEPT ![c] = r]
  /\ UNCHANGED <<kind, owners, took>>

Next == \E c \in Calls : Begin(c) \/ Make(c) \/ Affect(c) \/ Settle(c)

Spec == Init /\ [][Next]_vars
=============================================================================
