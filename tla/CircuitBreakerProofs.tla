------------------------ MODULE CircuitBreakerProofs ------------------------
(***************************************************************************)
(* What holds of the circuit breaker for every set of requests, threshold  *)
(* and timeout.  IInv is the inductive invariant: the type invariant, the  *)
(* exactness of the counter, and that the clock of a tripped circuit never *)
(* runs ahead of the time since its last probe.                            *)
(***************************************************************************)
EXTENDS CircuitBreaker, TLAPS

(* A tripped circuit started its wait no earlier than it let its last      *)
(* request through: check and record_failure both restart since.           *)
WaitsSinceProbe == state # "Closed" => elapsed <= sinceProbe

IInv == TypeOK /\ CountsEveryFailure /\ WaitsSinceProbe

USE DEF Calls

(* TripCount is a positive number, and the test of record_failure,         *)
(* consecutive_failures + 1 >= FailureThreshold, is the test against it.   *)
LEMMA TripCountFacts ==
  /\ TripCount \in Nat
  /\ TripCount > 0
  /\ \A n \in Nat : (n + 1 >= FailureThreshold) <=> (n + 1 >= TripCount)
BY ThresholdAssumption DEF TripCount

(* Move changes the place of one request and of no other.                  *)
LEMMA MoveFacts ==
  ASSUME NEW r \in Requests, NEW from, NEW to \in Calls,
         call \in [Requests -> Calls], Move(r, from, to)
  PROVE  /\ call' \in [Requests -> Calls]
         /\ call[r] = from
         /\ \A q \in Requests : call'[q] = IF q = r THEN to ELSE call[q]
BY DEF Move

(* The initial state satisfies the invariant.                              *)
LEMMA InitIInv == Init => IInv
BY TripCountFacts, TimeoutAssumption
   DEF Init, IInv, TypeOK, CountsEveryFailure, WaitsSinceProbe

(* Every method of the breaker, and the passing of time, keeps it.         *)
LEMMA NextIInv == IInv /\ [Next]_vars => IInv'
<1> SUFFICES ASSUME IInv, [Next]_vars PROVE IInv'
  OBVIOUS
<1> USE TripCountFacts, TimeoutAssumption
        DEF IInv, TypeOK, CountsEveryFailure, WaitsSinceProbe
<1>1. CASE Tick
  BY <1>1 DEF Tick, Age, AtMost
<1>2. ASSUME NEW r \in Requests, Check(r) PROVE IInv'
  <2>1. CASE AdmitClosed(r)
    BY <2>1, MoveFacts DEF AdmitClosed, breaker, history
  <2>2. CASE AdmitProbe(r)
    BY <2>2, MoveFacts DEF AdmitProbe
  <2>3. CASE Reject(r)
    BY <2>3, MoveFacts DEF Reject, breaker, history
  <2>4. QED BY <1>2, <2>1, <2>2, <2>3 DEF Check
<1>3. ASSUME NEW r \in Requests, Succeed(r) PROVE IInv'
  BY <1>3, MoveFacts DEF Succeed
<1>4. ASSUME NEW r \in Requests, Fail(r) PROVE IInv'
  <2>1. call' \in [Requests -> Calls]
    BY <1>4, MoveFacts DEF Fail
  <2>2. streak' = AtMost(streak + 1, TripCount) /\ UNCHANGED sinceProbe
    BY <1>4 DEF Fail
  <2>3. CASE CountFailure
    BY <2>1, <2>2, <2>3 DEF CountFailure, AtMost
  <2>4. CASE ReopenHalfOpen
    BY <2>1, <2>2, <2>4 DEF ReopenHalfOpen, AtMost
  <2>5. CASE IgnoreWhenOpen
    BY <2>1, <2>2, <2>5 DEF IgnoreWhenOpen, AtMost, breaker
  <2>6. QED BY <1>4, <2>3, <2>4, <2>5 DEF Fail, record_failure
<1>5. ASSUME NEW r \in Requests, Abandon(r) \/ Return(r) PROVE IInv'
  BY <1>5, MoveFacts DEF Abandon, Return, breaker, history
<1>6. CASE UNCHANGED vars
  BY <1>6 DEF vars
<1>7. QED BY <1>1, <1>2, <1>3, <1>4, <1>5, <1>6 DEF Next, Finish

(* So it holds in every reachable state.                                   *)
LEMMA InvariantHolds == Spec => []IInv
BY InitIInv, NextIInv, PTL DEF Spec

(* The variables keep their types, and each variant only its own fields.   *)
THEOREM TypeCorrect == Spec => []TypeOK
<1>1. IInv => TypeOK
  BY DEF IInv
<1>2. QED BY <1>1, InvariantHolds, PTL

(* The circuit is closed exactly while fewer failures than the threshold   *)
(* were recorded since the last success, in every interleaving.            *)
THEOREM CountingCorrect == Spec => []CountsEveryFailure
<1>1. IInv => CountsEveryFailure
  BY DEF IInv
<1>2. QED BY <1>1, InvariantHolds, PTL

(* Requests let through a tripped circuit are a reset_timeout apart.       *)
THEOREM SpacingCorrect == Spec => ProbesAreSpaced
<1> DEFINE Spaced ==
      \A r \in Requests :
        (state # "Closed" /\ call[r] = "idle" /\ call'[r] = "in_flight")
          => sinceProbe = ResetTimeout
<1>1. IInv /\ [Next]_vars => [Spaced]_vars
  <2> SUFFICES ASSUME IInv, Next, NEW r \in Requests, state # "Closed",
                      call[r] = "idle", call'[r] = "in_flight"
               PROVE  sinceProbe = ResetTimeout
    OBVIOUS
  <2> USE TimeoutAssumption DEF IInv, TypeOK, WaitsSinceProbe
  <2>1. AdmitProbe(r)
    <3>1. ~ Tick
      BY DEF Tick, Age
    <3>2. PICK q \in Requests : Check(q) \/ Finish(q) \/ Return(q)
      BY <3>1 DEF Next
    <3>3. AdmitProbe(q)
      BY <3>2, MoveFacts
         DEF Check, Finish, Return, AdmitClosed, Reject, Succeed, Fail, Abandon
    <3>4. q = r
      BY <3>3, MoveFacts DEF AdmitProbe
    <3>5. QED BY <3>3, <3>4
  <2>2. elapsed >= ResetTimeout
    BY <2>1 DEF AdmitProbe
  <2>3. QED BY <2>2
<1>2. QED BY <1>1, InvariantHolds, PTL DEF Spec, ProbesAreSpaced

(* The three-state breaker implements the gate: every step of every method *)
(* is a step of the gate or changes nothing the gate has.                  *)
THEOREM Refinement == Spec => ImplementsGate
<1>1. Init => Gate!Init
  BY DEF Init, Gate!Init
<1>2. IInv /\ [Next]_vars => [Gate!Next]_(Gate!vars)
  <2> SUFFICES ASSUME IInv, [Next]_vars PROVE [Gate!Next]_(Gate!vars)
    OBVIOUS
  <2> USE TimeoutAssumption DEF IInv, TypeOK, Move, Gate!Move
  <2>1. CASE Tick
    <3>1. CASE state # "Closed" /\ elapsed < ResetTimeout
      <4>1. Gate!Tick
        BY <2>1, <3>1 DEF Tick, Age, AtMost, Gate!Tick
      <4>2. QED BY <4>1 DEF Gate!Next
    <3>2. CASE state = "Closed" \/ elapsed = ResetTimeout
      BY <2>1, <3>2 DEF Tick, Age, AtMost, Gate!vars
    <3>3. QED BY <3>1, <3>2
  <2>2. ASSUME NEW r \in Requests, Check(r) PROVE Gate!Next
    <3>1. CASE AdmitClosed(r)
      <4>1. Gate!Pass(r)
        BY <3>1 DEF AdmitClosed, Gate!Pass, breaker
      <4>2. QED BY <4>1 DEF Gate!Next
    <3>2. CASE AdmitProbe(r)
      <4>1. Gate!PassOne(r)
        BY <3>2 DEF AdmitProbe, Gate!PassOne
      <4>2. QED BY <4>1 DEF Gate!Next
    <3>3. CASE Reject(r)
      <4>1. Gate!Refuse(r)
        BY <3>3 DEF Reject, Gate!Refuse, breaker
      <4>2. QED BY <4>1 DEF Gate!Next
    <3>4. QED BY <2>2, <3>1, <3>2, <3>3 DEF Check
  <2>3. ASSUME NEW r \in Requests, Succeed(r) PROVE Gate!Next
    <3>1. Gate!Success(r)
      BY <2>3 DEF Succeed, Gate!Success
    <3>2. QED BY <3>1 DEF Gate!Next
  <2>4. ASSUME NEW r \in Requests, Fail(r) PROVE Gate!Next
    <3>1. Gate!Failure(r)
      BY <2>4 DEF Fail, record_failure, CountFailure, ReopenHalfOpen,
                  IgnoreWhenOpen, Gate!Failure, breaker
    <3>2. QED BY <3>1 DEF Gate!Next
  <2>5. ASSUME NEW r \in Requests, Abandon(r) \/ Return(r) PROVE Gate!Next
    <3>1. Gate!Leave(r)
      BY <2>5 DEF Abandon, Return, Gate!Leave, breaker
    <3>2. QED BY <3>1 DEF Gate!Next
  <2>6. CASE UNCHANGED vars
    BY <2>6 DEF vars, Gate!vars
  <2>7. QED BY <2>1, <2>2, <2>3, <2>4, <2>5, <2>6 DEF Next, Finish
<1>3. QED BY <1>1, <1>2, InvariantHolds, PTL DEF Spec, ImplementsGate, Gate!Spec

(* A step after which a tripped circuit may have further to go: a request  *)
(* fails, or is dropped with nothing recorded.                             *)
SetsBack == \E r \in Requests : Fail(r) \/ (state # "Closed" /\ Abandon(r))

Admits(r) == call[r] = "idle" /\ call'[r] = "in_flight"
Refuses(r) == call[r] = "idle" /\ call'[r] = "rejected"

(* What makes Recovers true, and it only adds the fairness to.  As long as *)
(* nothing sets the circuit back, a closed one stays closed and a tripped  *)
(* one comes nearer to closing: a request that ends closes it, so none is  *)
(* lost that could; the clock starts again only for a request that is now  *)
(* on its way; and none is refused once the clock has run out.             *)
RecoveryAdvances ==
  [][~ SetsBack =>
       /\ state = "Closed" => state' = "Closed"
       /\ \A r \in Requests :
            call[r] = "in_flight" => call'[r] = "in_flight" \/ state' = "Closed"
       /\ state' # "Closed" =>
            /\ elapsed' < elapsed => \E r \in Requests : Admits(r)
            /\ \A r \in Requests : Refuses(r) => elapsed < ResetTimeout]_vars

(* A tripped circuit finds its way back whatever came before: late results *)
(* of older requests, abandoned probes, races for the probe.               *)
THEOREM RecoveryNeverStops == Spec => RecoveryAdvances
<1> DEFINE Nearer ==
      ~ SetsBack =>
        /\ state = "Closed" => state' = "Closed"
        /\ \A r \in Requests :
             call[r] = "in_flight" => call'[r] = "in_flight" \/ state' = "Closed"
        /\ state' # "Closed" =>
             /\ elapsed' < elapsed => \E r \in Requests : Admits(r)
             /\ \A r \in Requests : Refuses(r) => elapsed < ResetTimeout
<1>1. IInv /\ Next => Nearer
  <2> SUFFICES ASSUME IInv, Next, ~ SetsBack PROVE Nearer
    OBVIOUS
  <2> USE TimeoutAssumption DEF IInv, TypeOK
  <2>1. CASE Tick
    BY <2>1 DEF Tick, Age, AtMost, Admits, Refuses
  <2>2. ASSUME NEW r \in Requests, AdmitClosed(r) PROVE Nearer
    <3>1. \A q \in Requests : call'[q] = IF q = r THEN "in_flight" ELSE call[q]
      BY <2>2, MoveFacts DEF AdmitClosed
    <3>2. state = "Closed" /\ state' = "Closed"
      BY <2>2 DEF AdmitClosed, breaker
    <3>3. QED BY <3>1, <3>2
  <2>3. ASSUME NEW r \in Requests, AdmitProbe(r) PROVE Nearer
    <3>1. call[r] = "idle" /\ \A q \in Requests : call'[q] = IF q = r THEN "in_flight" ELSE call[q]
      BY <2>3, MoveFacts DEF AdmitProbe
    <3>2. Admits(r) /\ \A q \in Requests : ~ Refuses(q)
      BY <3>1 DEF Admits, Refuses
    <3>3. state # "Closed"
      BY <2>3 DEF AdmitProbe
    <3>4. QED BY <3>1, <3>2, <3>3
  <2>4. ASSUME NEW r \in Requests, Reject(r) PROVE Nearer
    <3>1. call[r] = "idle" /\ \A q \in Requests : call'[q] = IF q = r THEN "rejected" ELSE call[q]
      BY <2>4, MoveFacts DEF Reject
    <3>2. state # "Closed" /\ elapsed' = elapsed /\ elapsed < ResetTimeout
      BY <2>4 DEF Reject, breaker
    <3>3. QED BY <3>1, <3>2
  <2>5. ASSUME NEW r \in Requests, Finish(r) PROVE Nearer
    <3>1. CASE Succeed(r)
      BY <3>1 DEF Succeed
    <3>2. CASE Abandon(r)
      BY <3>2 DEF SetsBack, Abandon, breaker
    <3>3. ~ Fail(r)
      BY DEF SetsBack
    <3>4. QED BY <2>5, <3>1, <3>2, <3>3 DEF Finish
  <2>6. ASSUME NEW r \in Requests, Return(r) PROVE Nearer
    <3>1. call[r] = "rejected" /\ \A q \in Requests : call'[q] = IF q = r THEN "idle" ELSE call[q]
      BY <2>6, MoveFacts DEF Return
    <3>2. \A q \in Requests : ~ Refuses(q)
      BY <3>1 DEF Refuses
    <3>3. UNCHANGED breaker
      BY <2>6 DEF Return
    <3>4. QED BY <3>1, <3>2, <3>3 DEF breaker
  <2>7. QED BY <2>1, <2>2, <2>3, <2>4, <2>5, <2>6 DEF Next, Check
<1>2. IInv /\ [Next]_vars => [Nearer]_vars
  BY <1>1
<1>3. QED BY <1>2, InvariantHolds, PTL DEF Spec, RecoveryAdvances
=============================================================================
