---------------------------- MODULE TokenService ----------------------------
(***************************************************************************)
(* What the token lifecycle promises the rest of the client, without locks *)
(* or requests: a caller asks for a token and, if the one in use was due   *)
(* when it asked, is needy until some task has installed another; only     *)
(* then is it served, or it leaves with an error.  It may also keep the    *)
(* token there is on Vault's word that it is renewed: it is trusted then,  *)
(* which is not the same as served.  Every token a task installs is owed   *)
(* to the application until it has been announced; the tokens the          *)
(* application installs itself are not.                                    *)
(*                                                                         *)
(* The module specifies; it translates no code.  TokenLifecycle implements *)
(* it (TokenLifecycle!ImplementsService).                                  *)
(***************************************************************************)
EXTENDS Naturals

CONSTANTS Callers,   \* tasks that ask for a token
          Values     \* the tokens

VARIABLES current,     \* the token in use, or 0
          owed,        \* tokens installed and yet to be announced
          announced,   \* tokens that have been announced
          phase        \* where each caller is

vars == <<current, owed, announced, phase>>

Phases == {"away", "asking", "needy", "served", "trusted"}

Init ==
  /\ current \in Values \cup {0}
  /\ owed = {}
  /\ announced = {}
  /\ phase = [c \in Callers |-> "away"]

Move(c, from, to) ==
  /\ phase[c] = from
  /\ phase' = [phase EXCEPT ![c] = to]

Ask(c) ==
  /\ Move(c, "away", "asking") \/ Move(c, "away", "needy")
  /\ UNCHANGED <<current, owed, announced>>

(* The token is good, there is no way to a better one, or the call is a    *)
(* login and needs none.                                                   *)
Pass(c) ==
  /\ Move(c, "away", "served")
  /\ UNCHANGED <<current, owed, announced>>

Serves(c) == Move(c, "asking", "served")

Leaves(c) == \E from \in Phases \ {"away"} : Move(c, from, "away")

Serve(c) == Serves(c) /\ UNCHANGED <<current, owed, announced>>

(* Vault has answered the caller's renewal with success and no token. *)
Trust(c) ==
  /\ Move(c, "asking", "trusted") \/ Move(c, "needy", "trusted")
  /\ UNCHANGED <<current, owed, announced>>

Leave(c) == Leaves(c) /\ UNCHANGED <<current, owed, announced>>

(* A new token satisfies everybody who asked before. *)
Replace(v) ==
  /\ current' = v
  /\ phase' = [c \in Callers |-> IF phase[c] = "needy" THEN "asking" ELSE phase[c]]
  /\ UNCHANGED announced

Install(v) == Replace(v) /\ owed' = owed \cup {v}
Override(v) == Replace(v) /\ UNCHANGED owed

(* Another task may owe the same token still, and the task that announces  *)
(* may be a caller on its way to its request or home.                      *)
Announce(v) ==
  /\ v \in owed
  /\ announced' = announced \cup {v}
  /\ owed' = owed \/ owed' = owed \ {v}
  /\ UNCHANGED phase \/ \E c \in Callers : Serves(c) \/ Leaves(c)
  /\ UNCHANGED current

Next ==
  \/ \E c \in Callers : Ask(c) \/ Pass(c) \/ Serve(c) \/ Trust(c) \/ Leave(c)
  \/ \E v \in Values : Install(v) \/ Override(v) \/ Announce(v)

Spec == Init /\ [][Next]_vars
=============================================================================
