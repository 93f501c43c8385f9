--------------------------- MODULE AdmissionGate ---------------------------
(***************************************************************************)
(* What the circuit breaker promises its callers, without saying how: a    *)
(* gate that is either shut or not.  While it is shut it lets at most one  *)
(* request through per ResetTimeout; only a success opens it, only a       *)
(* failure shuts it, and one makes a shut gate wait a full ResetTimeout    *)
(* again only after it has let a request through: failures of requests     *)
(* from before it shut do not hold it shut.                                *)
(*                                                                         *)
(* The module specifies; it translates no code.  CircuitBreaker implements *)
(* it (CircuitBreaker!ImplementsGate).                                     *)
(***************************************************************************)
EXTENDS Naturals

CONSTANTS Requests,      \* the requests that may be under way at one time
          ResetTimeout   \* CircuitBreakerConfig::reset_timeout, in ticks

VARIABLES shut,   \* is the gate shut?
          wait,   \* ticks until a shut gate lets one more request through
          probed, \* has it let a request through since it shut?
          call    \* where each request is

vars == <<shut, wait, probed, call>>

Init ==
  /\ shut = FALSE
  /\ wait = 0
  /\ probed = FALSE
  /\ call = [r \in Requests |-> "idle"]

Move(r, from, to) ==
  /\ call[r] = from
  /\ call' = [call EXCEPT ![r] = to]

Pass(r) ==
  /\ ~shut
  /\ Move(r, "idle", "in_flight")
  /\ UNCHANGED <<shut, wait, probed>>

PassOne(r) ==
  /\ shut
  /\ wait = 0
  /\ Move(r, "idle", "in_flight")
  /\ wait' = ResetTimeout
  /\ probed' = TRUE
  /\ UNCHANGED shut

Refuse(r) ==
  /\ shut
  /\ wait > 0
  /\ Move(r, "idle", "rejected")
  /\ UNCHANGED <<shut, wait, probed>>

Success(r) ==
  /\ Move(r, "in_flight", "idle")
  /\ shut' = FALSE
  /\ wait' = 0
  /\ probed' = FALSE

Failure(r) ==
  /\ Move(r, "in_flight", "idle")
  /\ \/ UNCHANGED <<shut, wait, probed>>
     \/ /\ shut => probed
        /\ shut' = TRUE
        /\ wait' = ResetTimeout
        /\ probed' = FALSE

Leave(r) ==
  /\ \/ Move(r, "in_flight", "idle")
     \/ Move(r, "rejected", "idle")
  /\ UNCHANGED <<shut, wait, probed>>

Tick ==
  /\ wait > 0
  /\ wait' = wait - 1
  /\ UNCHANGED <<shut, probed, call>>

Next ==
  \/ Tick
  \/ \E r \in Requests :
       Pass(r) \/ PassOne(r) \/ Refuse(r) \/ Success(r) \/ Failure(r) \/ Leave(r)

Spec == Init /\ [][Next]_vars
=============================================================================
