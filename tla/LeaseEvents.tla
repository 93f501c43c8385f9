---------------------------- MODULE LeaseEvents ----------------------------
(***************************************************************************)
(* What the owner of a LeaseWatcher may rely on, without saying how the    *)
(* lease is watched: events come one at a time, in the order they were     *)
(* sent, and read (Renewed* Error Rotated)* -- every Error is resolved by  *)
(* one Rotated or one Expired before anything else is said, and nothing    *)
(* follows Expired.  At most Capacity events are unread.  Closing the      *)
(* stream loses them and silences it.                                      *)
(*                                                                         *)
(* The module specifies; it translates no code.  LeaseWatcher implements   *)
(* it (LeaseWatcher!ImplementsStream).                                     *)
(***************************************************************************)
EXTENDS Naturals, Sequences

CONSTANT Capacity   \* how many unread events the stream holds

VARIABLES stream,   \* the unread events
          last,     \* the last event sent, or "none"
          open      \* does the owner still have the stream?

vars == <<stream, last, open>>

Init ==
  /\ stream = <<>>
  /\ last = "none"
  /\ open = TRUE

Healthy == last \in {"none", "Renewed", "Rotated"}

Say(event) ==
  /\ open
  /\ Len(stream) < Capacity
  /\ stream' = Append(stream, event)
  /\ last' = event
  /\ UNCHANGED open

Continue == Healthy /\ Say("Renewed")
Fail == Healthy /\ Say("Error")
Resolve == last = "Error" /\ (Say("Rotated") \/ Say("Expired"))

Read ==
  /\ open
  /\ stream # <<>>
  /\ stream' = Tail(stream)
  /\ UNCHANGED <<last, open>>

Close ==
  /\ open
  /\ open' = FALSE
  /\ stream' = <<>>
  /\ UNCHANGED last

Next == Continue \/ Fail \/ Resolve \/ Read \/ Close

Spec == Init /\ [][Next]_vars
=============================================================================
