--------------------------- MODULE CircuitBreaker ---------------------------
(***************************************************************************)
(* circuit_breaker.rs and the calls that go through it                     *)
(* (VaultClient::execute_raw): any number of concurrent requests share one *)
(* breaker; each asks check() once, may be refused, and otherwise records  *)
(* one result when it ends, unless its future is dropped first.            *)
(*                                                                         *)
(* Every method takes the breaker's mutex for its whole body, so a method  *)
(* is one action.  The code compares since.elapsed() with reset_timeout    *)
(* and with nothing else, so time is the variable elapsed, which stops     *)
(* growing at ResetTimeout: no horizon bounds a behaviour.  The mutex is   *)
(* never poisoned: no body can panic (see CountsEveryFailure).             *)
(***************************************************************************)
EXTENDS Naturals

CONSTANTS Requests,          \* the requests that may be under way at one time
          FailureThreshold,  \* CircuitBreakerConfig::failure_threshold
          ResetTimeout       \* CircuitBreakerConfig::reset_timeout, in ticks

ASSUME ThresholdAssumption == FailureThreshold \in Nat
ASSUME TimeoutAssumption == ResetTimeout \in Nat

VARIABLES
  state,                 \* the variant of State
  consecutive_failures,  \* Closed's field; 0 in the other variants
  elapsed,               \* since.elapsed() of Open and HalfOpen; 0 when Closed
  call                   \* where each request is in execute_raw

VARIABLES              \* history: read by no action, only by properties
  streak,       \* failures recorded since the last success, up to TripCount
  sinceProbe    \* ticks since a request was last let through a tripped
                \* circuit, up to ResetTimeout

breaker == <<state, consecutive_failures, elapsed>>
history == <<streak, sinceProbe>>
vars == <<state, consecutive_failures, elapsed, call, streak, sinceProbe>>

(* Failures that trip a closed circuit: new_count >= failure_threshold is   *)
(* tested after counting one, so a threshold of 0 acts as 1.                *)
TripCount == IF FailureThreshold = 0 THEN 1 ELSE FailureThreshold

AtMost(n, limit) == IF n < limit THEN n ELSE limit
-----------------------------------------------------------------------------
(* The breaker.                                                             *)

Init ==
  /\ state = "Closed"
  /\ consecutive_failures = 0
  /\ elapsed = 0
  /\ call = [r \in Requests |-> "idle"]
  /\ streak = 0
  /\ sinceProbe = ResetTimeout

Move(r, from, to) ==
  /\ call[r] = from
  /\ call' = [call EXCEPT ![r] = to]

(* check() on a closed circuit *)
AdmitClosed(r) ==
  /\ state = "Closed"
  /\ Move(r, "idle", "in_flight")
  /\ UNCHANGED <<breaker, history>>

(* Variants of AdmitProbe that the code avoids; they show which property   *)
(* would notice.  A half-open circuit keeps the since of its first probe:  *)
AdmitProbeKeepingSince(r) ==
  /\ state \in {"Open", "HalfOpen"}
  /\ elapsed >= ResetTimeout
  /\ Move(r, "idle", "in_flight")
  /\ state' = "HalfOpen"
  /\ elapsed' = IF state = "HalfOpen" THEN elapsed ELSE 0
  /\ sinceProbe' = 0
  /\ UNCHANGED <<consecutive_failures, streak>>

(* a half-open circuit waits for its probe's result, however long: *)
AdmitProbeOnlyWhenOpen(r) ==
  /\ state = "Open"
  /\ elapsed >= ResetTimeout
  /\ Move(r, "idle", "in_flight")
  /\ state' = "HalfOpen"
  /\ elapsed' = 0
  /\ sinceProbe' = 0
  /\ UNCHANGED <<consecutive_failures, streak>>

(* check() on an open or half-open circuit whose reset_timeout is over *)
AdmitProbe(r) ==
  /\ state \in {"Open", "HalfOpen"}
  /\ elapsed >= ResetTimeout
  /\ Move(r, "idle", "in_flight")
  /\ state' = "HalfOpen"
  /\ elapsed' = 0
  /\ sinceProbe' = 0
  /\ UNCHANGED <<consecutive_failures, streak>>

(* check() returns CircuitOpen *)
Reject(r) ==
  /\ state \in {"Open", "HalfOpen"}
  /\ elapsed < ResetTimeout
  /\ Move(r, "idle", "rejected")
  /\ UNCHANGED <<breaker, history>>

Check(r) == AdmitClosed(r) \/ AdmitProbe(r) \/ Reject(r)

(* A variant of Succeed: the circuit closes but its counter stays.         *)
SucceedKeepingCount(r) ==
  /\ Move(r, "in_flight", "idle")
  /\ state' = "Closed"
  /\ elapsed' = 0
  /\ streak' = 0
  /\ UNCHANGED <<consecutive_failures, sinceProbe>>

(* send_with_retry returned Ok: record_success *)
Succeed(r) ==
  /\ Move(r, "in_flight", "idle")
  /\ state' = "Closed"
  /\ consecutive_failures' = 0
  /\ elapsed' = 0
  /\ streak' = 0
  /\ UNCHANGED sinceProbe

(* A variant of CountFailure: the counter outlives the Closed variant.     *)
CountFailureAlways ==
  /\ state = "Closed"
  /\ state' = IF consecutive_failures + 1 >= FailureThreshold THEN "Open" ELSE "Closed"
  /\ consecutive_failures' = consecutive_failures + 1
  /\ elapsed' = 0

(* record_failure, one operator per variant *)
CountFailure ==
  /\ state = "Closed"
  /\ IF consecutive_failures + 1 >= FailureThreshold
     THEN state' = "Open" /\ consecutive_failures' = 0
     ELSE state' = "Closed" /\ consecutive_failures' = consecutive_failures + 1
  /\ elapsed' = 0

ReopenHalfOpen ==
  /\ state = "HalfOpen"
  /\ state' = "Open"
  /\ elapsed' = 0
  /\ UNCHANGED consecutive_failures

(* A variant of IgnoreWhenOpen: a late failure starts the wait again.      *)
RestartWhenOpen ==
  /\ state = "Open"
  /\ elapsed' = 0
  /\ UNCHANGED <<state, consecutive_failures>>

IgnoreWhenOpen ==
  /\ state = "Open"
  /\ UNCHANGED breaker

record_failure == CountFailure \/ ReopenHalfOpen \/ IgnoreWhenOpen

(* send_with_retry returned Err, whatever the error: record_failure *)
Fail(r) ==
  /\ Move(r, "in_flight", "idle")
  /\ record_failure
  /\ streak' = AtMost(streak + 1, TripCount)
  /\ UNCHANGED sinceProbe

(* An admitted request that ends with nothing recorded: its future is      *)
(* dropped (a cancelled task, an elapsed timeout, the losing branch of a   *)
(* select), or execute_raw returns through `?` before the first send.      *)
Abandon(r) ==
  /\ Move(r, "in_flight", "idle")
  /\ UNCHANGED <<breaker, history>>

(* The caller of a refused request has its Err(CircuitOpen) *)
Return(r) ==
  /\ Move(r, "rejected", "idle")
  /\ UNCHANGED <<breaker, history>>

(* A tick of the clock, saturating *)
Age ==
  /\ elapsed' = IF state = "Closed" THEN 0 ELSE AtMost(elapsed + 1, ResetTimeout)
  /\ sinceProbe' = AtMost(sinceProbe + 1, ResetTimeout)
  /\ UNCHANGED <<state, consecutive_failures, call, streak>>

Tick ==
  /\ \/ state # "Closed" /\ elapsed < ResetTimeout
     \/ sinceProbe < ResetTimeout
  /\ Age

Finish(r) == Succeed(r) \/ Fail(r) \/ Abandon(r)

Next ==
  \/ Tick
  \/ \E r \in Requests : Check(r) \/ Finish(r) \/ Return(r)

Spec == Init /\ [][Next]_vars

(* Time passes; the application keeps calling; a sent request ends, because *)
(* every attempt has a timeout and the attempts are counted.                *)
Fairness ==
  /\ WF_vars(Tick)
  /\ \A r \in Requests :
       WF_vars(Check(r)) /\ WF_vars(Finish(r)) /\ WF_vars(Return(r))

FairSpec == Spec /\ Fairness
-----------------------------------------------------------------------------
(* Properties.                                                              *)

Calls == {"idle", "in_flight", "rejected"}

(* Every variable has its type, and a variant has only its own fields.      *)
TypeOK ==
  /\ state \in {"Closed", "Open", "HalfOpen"}
  /\ consecutive_failures \in Nat
  /\ elapsed \in 0..ResetTimeout
  /\ call \in [Requests -> Calls]
  /\ streak \in 0..TripCount
  /\ sinceProbe \in 0..ResetTimeout
  /\ state = "Closed" => elapsed = 0
  /\ state # "Closed" => consecutive_failures = 0

(* The circuit is closed exactly while fewer failures than the threshold   *)
(* have been recorded since the last success, whichever requests recorded  *)
(* them and in whatever order they ended: no failure is lost or counted    *)
(* twice, and the counter of a closed circuit is that number (so the u32   *)
(* increment of record_failure cannot overflow and poison the mutex).      *)
CountsEveryFailure ==
  /\ (state = "Closed") <=> (streak < TripCount)
  /\ state = "Closed" => consecutive_failures = streak

(* Two requests let through a tripped circuit are at least reset_timeout   *)
(* apart, over the whole life of the breaker: neither an abandoned probe   *)
(* nor a late result of an older request, nor tripping again, brings the   *)
(* next one forward ("reducing load on an unreachable server").            *)
ProbesAreSpaced ==
  [][\A r \in Requests :
       (state # "Closed" /\ call[r] = "idle" /\ call'[r] = "in_flight")
          => sinceProbe = ResetTimeout]_vars

(* When from some time on no request fails, and none is abandoned while    *)
(* the circuit is tripped, the circuit closes for good: no abandoned       *)
(* probe, late failure or lost race before that time leaves it refusing    *)
(* requests for ever ("instead of staying stuck").                         *)
Recovers ==
  <>[][~ \E r \in Requests : Fail(r) \/ (state # "Closed" /\ Abandon(r))]_vars
    => <>[](state = "Closed")

(* The breaker implements the gate: Open and HalfOpen are both a shut gate, *)
(* HalfOpen one that has let a request through.  So the failures of         *)
(* requests from before the circuit tripped do not restart its wait.        *)
Gate == INSTANCE AdmissionGate WITH
  shut <- state # "Closed",
  wait <- IF state = "Closed" THEN 0 ELSE ResetTimeout - elapsed,
  probed <- state = "HalfOpen"

ImplementsGate == Gate!Spec
=============================================================================
