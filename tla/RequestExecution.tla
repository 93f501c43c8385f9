-------------------------- MODULE RequestExecution --------------------------
(***************************************************************************)
(* VaultClient::execute_raw and send_with_retry: concurrent requests, each *)
(* asking the shared circuit breaker once and then sending up to           *)
(* 1 + max_retries attempts, waiting before each retry for a jittered      *)
(* backoff or for what Retry-After asks.  The breaker's part of a step is  *)
(* the action of CircuitBreaker the code calls there.                      *)
(*                                                                         *)
(* The loop awaits only in send() and sleep(), so a step runs from one of  *)
(* them to the next.  What Vault or the network does to an attempt is a    *)
(* member of Responses, chosen freely.                                     *)
(***************************************************************************)
EXTENDS Naturals

CONSTANTS Requests,          \* the requests that may be under way at one time
          FailureThreshold,  \* CircuitBreakerConfig
          ResetTimeout,
          MaxRetries,        \* ClientConfig::max_retries
          RetryOnSealed,     \* ClientConfig::retry_on_sealed
          InitialDelays,     \* ClientConfig::initial_retry_delay, in ticks; 0
                             \* stands for whatever is shorter than a tick
          MaxBackoff,        \* MAX_BACKOFF, in ticks
          MaxRetryAfter      \* bound: the longest Retry-After a server sends

ASSUME RetryAssumption ==
  /\ FailureThreshold \in Nat
  /\ ResetTimeout \in Nat
  /\ MaxRetries \in Nat
  /\ RetryOnSealed \in BOOLEAN
  /\ InitialDelays \subseteq Nat
  /\ MaxBackoff \in Nat
  /\ MaxRetryAfter \in Nat

VARIABLES state, consecutive_failures, elapsed,   \* the breaker
          initial_delay,  \* the configured one of InitialDelays
          pc,        \* "idle", "rejected", "sent" or "sleeping"
          attempt,   \* send_with_retry's loop variable
          sleep,     \* ticks left of tokio::time::sleep
          result     \* what the request's last call returned

VARIABLES streak, sinceProbe,  \* CircuitBreaker's history
          sends,     \* history: attempts sent by the request's current call
          outage     \* history: a failure of the current streak says that Vault
                     \* cannot be reached or cannot serve

breaker == <<state, consecutive_failures, elapsed, streak, sinceProbe>>
vars == <<breaker, initial_delay, pc, attempt, sleep, result, sends, outage>>

Breaker == INSTANCE CircuitBreaker WITH
  call <- [r \in Requests |-> IF pc[r] \in {"sent", "sleeping"} THEN "in_flight" ELSE pc[r]]

(* What becomes of one attempt: a response by the VaultError it stands     *)
(* for, or the failure of send() itself.                                   *)
Delivered == {"Ok", "NotFound"}                        \* 2xx, 404
Answered == {"AuthRequired", "PermissionDenied",       \* 401, 403
             "RateLimited", "ConsistencyRetry",        \* 429, 412
             "ApiRefused"}                             \* any other status
Down == {"Sealed", "ApiServer",                        \* 503; 500, 502, 504
         "Timeout", "Broken"}    \* no response in time or no connection; else
Errors == Answered \cup Down
Responses == Delivered \cup Errors

(* VaultError::is_retryable, what callers are told is worth retrying       *)
is_retryable(e) ==
  e \in {"Timeout", "Sealed", "RateLimited", "ConsistencyRetry", "ApiServer"}

(* A variant of Retries: throttled requests are not retried.               *)
RetriesUnlessThrottled(e) ==
  \/ e \in {"ConsistencyRetry", "Timeout"}
  \/ e = "Sealed" /\ RetryOnSealed
  \/ e \in {"ApiServer", "ApiRefused"} /\ is_retryable(e)

(* The arms of send_with_retry that go round the loop once more            *)
Retries(e) ==
  \/ e \in {"RateLimited", "ConsistencyRetry", "Timeout"}
  \/ e = "Sealed" /\ RetryOnSealed
  \/ e \in {"ApiServer", "ApiRefused"} /\ is_retryable(e)

Min2(a, b) == IF a < b THEN a ELSE b
Max2(a, b) == IF a < b THEN b ELSE a

(* 2u32.saturating_pow(k): the cap below comes long before it saturates    *)
pow2[k \in Nat] == IF k = 0 THEN 1 ELSE 2 * pow2[k - 1]

(* A variant of Backoff that draws from 0..<capped however small capped is.*)
BackoffUnguarded(n) ==
  LET capped == Min2(initial_delay * pow2[n - 1], MaxBackoff)
  IN  {d \in 0..MaxBackoff : d < capped}

(* The random backoff before attempt n: initial doubled n-1 times, capped, *)
(* and at least one tick, for random_range panics on an empty range        *)
Backoff(n) ==
  LET capped == Max2(Min2(initial_delay * pow2[n - 1], MaxBackoff), 1)
  IN  {d \in 0..MaxBackoff : d < capped}
-----------------------------------------------------------------------------
Init ==
  /\ initial_delay \in InitialDelays
  /\ pc = [r \in Requests |-> "idle"]
  /\ Breaker!Init
  /\ attempt = [r \in Requests |-> 0]
  /\ sleep = [r \in Requests |-> 0]
  /\ result = [r \in Requests |-> "none"]
  /\ sends = [r \in Requests |-> 0]
  /\ outage = FALSE

(* execute_raw: check(), then the first attempt *)
Start(r) ==
  /\ pc' = [pc EXCEPT ![r] = "sent"]
  /\ Breaker!AdmitClosed(r) \/ Breaker!AdmitProbe(r)
  /\ sends' = [sends EXCEPT ![r] = 1]
  /\ result' = [result EXCEPT ![r] = "none"]
  /\ UNCHANGED <<initial_delay, attempt, sleep, outage>>

(* execute_raw: check()? returned CircuitOpen *)
ShortCircuit(r) ==
  /\ pc' = [pc EXCEPT ![r] = "rejected"]
  /\ Breaker!Reject(r)
  /\ UNCHANGED <<initial_delay, attempt, sleep, result, sends, outage>>

Return(r) ==
  /\ pc' = [pc EXCEPT ![r] = "idle"]
  /\ Breaker!Return(r)
  /\ result' = [result EXCEPT ![r] = "CircuitOpen"]
  /\ UNCHANGED <<initial_delay, attempt, sleep, sends, outage>>

(* The request's call is over and returned res *)
End(r, res) ==
  /\ pc[r] = "sent"
  /\ pc' = [pc EXCEPT ![r] = "idle"]
  /\ attempt' = [attempt EXCEPT ![r] = 0]
  /\ result' = [result EXCEPT ![r] = res]
  /\ sends' = [sends EXCEPT ![r] = 0]
  /\ UNCHANGED <<initial_delay, sleep>>

Deliver(r) ==
  \E resp \in Delivered :
    /\ End(r, resp)
    /\ Breaker!Succeed(r)
    /\ outage' = FALSE

(* A variant of LastAttempt: the loop `for attempt in 0..=max` run once    *)
(* more than the retries allow.                                            *)
LastAttemptLate(r) == attempt[r] > MaxRetries

LastAttempt(r) == attempt[r] >= MaxRetries

(* An error that is not retried, or no attempt left: send_with_retry       *)
(* returns it and execute_raw records the failure.                         *)
GiveUp(r) ==
  \E e \in Errors :
    /\ ~ Retries(e) \/ LastAttempt(r)
    /\ End(r, e)
    /\ Breaker!Fail(r)
    /\ outage' = (outage \/ e \in Down)

(* A variant of GoRound: every failed attempt is recorded.                 *)
GoRoundRecording(r, e, pause) ==
  /\ pc[r] = "sent"
  /\ Retries(e) /\ ~ LastAttempt(r)
  /\ pc' = [pc EXCEPT ![r] = "sleeping"]
  /\ attempt' = [attempt EXCEPT ![r] = @ + 1]
  /\ sleep' = [sleep EXCEPT ![r] = pause]
  /\ Breaker!record_failure
  /\ streak' = Breaker!AtMost(streak + 1, Breaker!TripCount)
  /\ UNCHANGED <<initial_delay, sinceProbe, result, sends, outage>>

(* `continue`: the next attempt follows after a pause *)
GoRound(r, e, pause) ==
  /\ pc[r] = "sent"
  /\ Retries(e) /\ ~ LastAttempt(r)
  /\ pc' = [pc EXCEPT ![r] = "sleeping"]
  /\ attempt' = [attempt EXCEPT ![r] = @ + 1]
  /\ sleep' = [sleep EXCEPT ![r] = pause]
  /\ UNCHANGED <<initial_delay, breaker, result, sends, outage>>

Retry(r) ==
  \E e \in Errors : \E pause \in Backoff(attempt[r] + 1) : GoRound(r, e, pause)

(* A variant of RetryAfter without the cap.                                *)
RetryAfterUncapped(r) ==
  \E secs \in 0..MaxRetryAfter : GoRound(r, "RateLimited", secs)

(* 429 with Retry-After: that pause, capped, replaces the backoff *)
RetryAfter(r) ==
  \E secs \in 0..MaxRetryAfter : GoRound(r, "RateLimited", Min2(secs, MaxBackoff))

(* A variant of Resend: `for attempt in 0..max` never makes the last       *)
(* attempt, and panics in unreachable! with the call unfinished.           *)
ResendExclusive(r) ==
  /\ pc[r] = "sleeping"
  /\ sleep[r] = 0
  /\ attempt[r] < MaxRetries
  /\ pc' = [pc EXCEPT ![r] = "sent"]
  /\ sends' = [sends EXCEPT ![r] = @ + 1]
  /\ UNCHANGED <<initial_delay, breaker, attempt, sleep, result, outage>>

(* The pause is over: the next attempt                                     *)
Resend(r) ==
  /\ pc[r] = "sleeping"
  /\ sleep[r] = 0
  /\ pc' = [pc EXCEPT ![r] = "sent"]
  /\ sends' = [sends EXCEPT ![r] = @ + 1]
  /\ UNCHANGED <<initial_delay, breaker, attempt, sleep, result, outage>>

(* The caller drops the future while it awaits a response or sleeps *)
Drop(r) ==
  /\ pc[r] \in {"sent", "sleeping"}
  /\ pc' = [pc EXCEPT ![r] = "idle"]
  /\ Breaker!Abandon(r)
  /\ attempt' = [attempt EXCEPT ![r] = 0]
  /\ sleep' = [sleep EXCEPT ![r] = 0]
  /\ result' = [result EXCEPT ![r] = "none"]
  /\ sends' = [sends EXCEPT ![r] = 0]
  /\ UNCHANGED <<initial_delay, outage>>

Tick ==
  /\ sleep' = [r \in Requests |-> IF sleep[r] > 0 THEN sleep[r] - 1 ELSE 0]
  /\ UNCHANGED pc
  /\ Breaker!Age
  /\ sleep' # sleep \/ elapsed' # elapsed \/ sinceProbe' # sinceProbe
  /\ UNCHANGED <<initial_delay, attempt, result, sends, outage>>

Respond(r) == Deliver(r) \/ GiveUp(r) \/ Retry(r) \/ RetryAfter(r)

Next ==
  \/ Tick
  \/ \E r \in Requests :
       \/ Start(r) \/ ShortCircuit(r) \/ Return(r)
       \/ Respond(r) \/ Resend(r) \/ Drop(r)

(* Time passes, an attempt ends (reqwest's timeout sees to that), and      *)
(* tokio resumes a task whose sleep is over.  Nobody has to call again.    *)
Fairness ==
  /\ WF_vars(Tick)
  /\ \A r \in Requests :
       WF_vars(Respond(r)) /\ WF_vars(Resend(r)) /\ WF_vars(Return(r))

Spec == Init /\ [][Next]_vars /\ Fairness
-----------------------------------------------------------------------------
(* Properties.                                                             *)

(* Every variable has its type; a request between calls holds no attempt.  *)
TypeOK ==
  /\ Breaker!TypeOK
  /\ initial_delay \in InitialDelays
  /\ pc \in [Requests -> {"idle", "rejected", "sent", "sleeping"}]
  /\ attempt \in [Requests -> 0..MaxRetries]
  /\ sleep \in [Requests -> 0..MaxBackoff]
  /\ result \in [Requests -> Responses \cup {"none", "CircuitOpen"}]
  /\ sends \in [Requests -> Nat]
  /\ outage \in BOOLEAN
  /\ \A r \in Requests :
       pc[r] \in {"idle", "rejected"} => attempt[r] = 0 /\ sleep[r] = 0

(* A call sends at most 1 + max_retries attempts, whatever mixture of      *)
(* errors, Retry-After headers and timeouts it meets.                      *)
RetryBudget == \A r \in Requests : sends[r] <= MaxRetries + 1

(* A call that has retries left never meets an empty range of pauses, on   *)
(* which random_range would panic: not for an initial_retry_delay of 0 or  *)
(* below a millisecond either, nor after the cap.                          *)
AlwaysHasAPause ==
  \A r \in Requests :
    (pc[r] = "sent" /\ ~ LastAttempt(r)) => Backoff(attempt[r] + 1) # {}

(* The retry loop and VaultError::is_retryable agree: a call that returns  *)
(* an error the library calls retryable has used all its attempts, except  *)
(* that sealed Vaults are not retried when retry_on_sealed is off.         *)
GivesUpLate ==
  [][\A r \in Requests :
       (pc[r] = "sent" /\ pc'[r] = "idle" /\ is_retryable(result'[r]))
         => \/ sends[r] = MaxRetries + 1
            \/ result'[r] = "Sealed" /\ ~ RetryOnSealed]_vars

(* Every call ends: a server that always answers 429, 412 or 503, pauses   *)
(* that follow each other and repeated timeouts cannot keep a caller       *)
(* waiting.                                                                *)
CallsEnd == \A r \in Requests : (pc[r] # "idle") ~> (pc[r] = "idle")

(* The breaker sees calls, not attempts: every step is a step of           *)
(* CircuitBreaker in which one call is admitted, refused or ended, so a    *)
(* call records one result however often it was retried.                   *)
RecordsCalls == Breaker!Spec

(* "Circuit breaker is open -- Vault appears unreachable" (the message of  *)
(* CircuitOpen): a tripped circuit means that at least one of the failures *)
(* that tripped it was an unreachable, sealed or failing Vault.            *)
TripsOnOutage == state # "Closed" => outage
=============================================================================
