----------------------- MODULE RequestExecutionProofs -----------------------
(***************************************************************************)
(* What holds of send_with_retry for every set of requests, number of      *)
(* retries, delay and threshold.  IInv adds to the type invariant that the *)
(* loop variable and the attempts really sent go in step, which is what    *)
(* bounds the latter: neither is bounded by a guard of its own.            *)
(***************************************************************************)
EXTENDS RequestExecution, Integers, WellFoundedInduction, TLAPS

(* A request that waits for an answer is awake and has sent one attempt    *)
(* more than the loop variable counts; one that sleeps has gone round.     *)
SentInStep ==
  \A r \in Requests :
    /\ pc[r] = "sent" => sends[r] = attempt[r] + 1 /\ sleep[r] = 0
    /\ pc[r] = "sleeping" => sends[r] = attempt[r]
    /\ pc[r] \in {"idle", "rejected"} => sends[r] = 0

IInv == TypeOK /\ SentInStep

(* The part of the type invariant that is the breaker's.                   *)
BreakerTypes ==
  /\ state \in {"Closed", "Open", "HalfOpen"}
  /\ consecutive_failures \in Nat
  /\ elapsed \in 0..ResetTimeout
  /\ streak \in 0..Breaker!TripCount
  /\ sinceProbe \in 0..ResetTimeout
  /\ state = "Closed" => elapsed = 0
  /\ state # "Closed" => consecutive_failures = 0

Places == {"idle", "rejected", "sent", "sleeping"}

LEMMA BreakerTypeFacts == pc \in [Requests -> Places] => (Breaker!TypeOK <=> BreakerTypes)
BY DEF Places, Breaker!TypeOK, BreakerTypes, Breaker!Calls

LEMMA TripCountFacts == Breaker!TripCount \in Nat /\ Breaker!TripCount > 0
BY RetryAssumption DEF Breaker!TripCount

(* What the methods of the breaker do to its variables keeps their types.  *)
LEMMA BreakerMethods ==
  ASSUME BreakerTypes, NEW r \in Requests,
         \/ Breaker!AdmitClosed(r) \/ Breaker!AdmitProbe(r) \/ Breaker!Reject(r)
         \/ Breaker!Return(r) \/ Breaker!Succeed(r) \/ Breaker!Fail(r) \/ Breaker!Abandon(r)
         \/ Breaker!Age
  PROVE  BreakerTypes'
<1> USE TripCountFacts, RetryAssumption DEF BreakerTypes, Breaker!breaker, Breaker!history
<1>1. CASE \/ Breaker!AdmitClosed(r) \/ Breaker!Reject(r)
           \/ Breaker!Return(r) \/ Breaker!Abandon(r)
  BY <1>1 DEF Breaker!AdmitClosed, Breaker!Reject, Breaker!Return, Breaker!Abandon
<1>2. CASE Breaker!AdmitProbe(r)
  BY <1>2 DEF Breaker!AdmitProbe
<1>3. CASE Breaker!Succeed(r)
  BY <1>3 DEF Breaker!Succeed
<1>4. CASE Breaker!Fail(r)
  <2>1. streak' \in 0..Breaker!TripCount /\ sinceProbe' = sinceProbe
    BY <1>4 DEF Breaker!Fail, Breaker!AtMost
  <2>2. CASE Breaker!CountFailure
    BY <2>1, <2>2 DEF Breaker!CountFailure
  <2>3. CASE Breaker!ReopenHalfOpen
    BY <2>1, <2>3 DEF Breaker!ReopenHalfOpen
  <2>4. CASE Breaker!IgnoreWhenOpen
    BY <2>1, <2>4 DEF Breaker!IgnoreWhenOpen
  <2>5. QED BY <1>4, <2>2, <2>3, <2>4 DEF Breaker!Fail, Breaker!record_failure
<1>5. CASE Breaker!Age
  BY <1>5 DEF Breaker!Age, Breaker!AtMost
<1>6. QED BY <1>1, <1>2, <1>3, <1>4, <1>5

(* A pause drawn before a retry is no longer than MAX_BACKOFF.             *)
LEMMA PauseFacts ==
  /\ \A n : Backoff(n) \subseteq 0..MaxBackoff
  /\ \A secs \in 0..MaxRetryAfter : Min2(secs, MaxBackoff) \in 0..MaxBackoff
BY RetryAssumption DEF Backoff, Min2

(* A set of naturals that holds 0 and the successor of each of its members *)
(* holds them all.                                                         *)
LEMMA Induction ==
  ASSUME NEW S, S \subseteq Nat, 0 \in S, \A n \in S : n + 1 \in S
  PROVE  S = Nat
<1> DEFINE Less == {p \in Nat \X Nat : p[1] < p[2]}
           Missing == Nat \ S
<1> SUFFICES ASSUME Missing # {} PROVE FALSE
  OBVIOUS
<1>1. IsWellFoundedOn(Less, Nat)
  BY NatLessThanWellFounded DEF OpToRel
<1>2. PICK x \in Missing : \A y \in Missing : ~ (<<y, x>> \in Less)
  <2> HIDE DEF Less
  <2> QED BY <1>1, WFMin
<1>3. x \in Nat /\ x # 0 /\ x - 1 \in Nat
  OBVIOUS
<1>4. <<x - 1, x>> \in Less
  BY <1>3
<1>5. x - 1 \in S
  BY <1>2, <1>3, <1>4
<1> QED BY <1>3, <1>5

(* The recursive definition of pow2 has a solution: the equation that     *)
(* defines it holds.                                                       *)
LEMMA Pow2Def ==
  pow2 = [n \in Nat |-> IF n = 0 THEN 1 ELSE 2 * pow2[n - 1]]
<1> DEFINE Table(n) == {g \in [0..n -> Nat] :
                          g[0] = 1 /\ \A i \in 1..n : g[i] = 2 * g[i - 1]}
<1>1. \A n \in Nat : Table(n) # {}
  <2> DEFINE S == {n \in Nat : Table(n) # {}}
  <2>1. 0 \in S
    <3>1. [i \in 0..0 |-> 1] \in Table(0)
      OBVIOUS
    <3> QED BY <3>1
  <2>2. ASSUME NEW n \in S PROVE n + 1 \in S
    <3>1. PICK g \in Table(n) : TRUE
      OBVIOUS
    <3> DEFINE h == [i \in 0..(n + 1) |-> IF i = n + 1 THEN 2 * g[n] ELSE g[i]]
    <3>2. h \in [0..(n + 1) -> Nat] /\ h[0] = 1
      BY <3>1
    <3>3. ASSUME NEW i \in 1..(n + 1) PROVE h[i] = 2 * h[i - 1]
      BY <3>1, <3>3
    <3>4. h \in Table(n + 1)
      <4> HIDE DEF h
      <4> QED BY <3>2, <3>3
    <3> HIDE DEF h, Table
    <3> QED BY <3>4
  <2>3. S = Nat
    <3> HIDE DEF S
    <3>1. S \subseteq Nat
      BY DEF S
    <3> QED BY <2>1, <2>2, <3>1, Induction
  <2> QED BY <2>3
<1>2. ASSUME NEW n \in Nat, NEW m \in Nat, NEW g \in Table(n), NEW h \in Table(m)
      PROVE  \A i \in Nat : i <= n /\ i <= m => g[i] = h[i]
  <2> DEFINE S == {i \in Nat : i <= n /\ i <= m => g[i] = h[i]}
  <2>1. 0 \in S
    OBVIOUS
  <2>2. ASSUME NEW i \in S PROVE i + 1 \in S
    <3>1. CASE i + 1 <= n /\ i + 1 <= m
      <4>1. i + 1 \in 1..n /\ i + 1 \in 1..m /\ (i + 1) - 1 = i
        BY <3>1
      <4>2. g[i + 1] = 2 * g[i] /\ h[i + 1] = 2 * h[i]
        BY <4>1
      <4> QED BY <3>1, <4>2
    <3> QED BY <3>1
  <2>3. S = Nat
    <3> HIDE DEF S
    <3>1. S \subseteq Nat
      BY DEF S
    <3> QED BY <2>1, <2>2, <3>1, Induction
  <2> QED BY <2>3
<1> DEFINE tab(n) == CHOOSE g : g \in Table(n)
           F == [n \in Nat |-> tab(n)[n]]
<1>3. \A n \in Nat : tab(n) \in Table(n)
  <2> HIDE DEF Table
  <2> QED BY <1>1
<1>4. F[0] = 1
  BY <1>3
<1>5. ASSUME NEW n \in Nat, n # 0 PROVE F[n] = 2 * F[n - 1]
  <2>1. n - 1 \in Nat /\ n - 1 <= n /\ n \in 1..n
    BY <1>5
  <2>2. tab(n)[n] = 2 * tab(n)[n - 1]
    <3> HIDE DEF tab
    <3> QED BY <1>3, <2>1
  <2>3. tab(n)[n - 1] = tab(n - 1)[n - 1]
    <3> HIDE DEF tab, Table
    <3> QED BY <1>2, <1>3, <2>1
  <2> HIDE DEF tab, Table
  <2> QED BY <2>1, <2>2, <2>3
<1>6. F = [n \in Nat |-> IF n = 0 THEN 1 ELSE 2 * F[n - 1]]
  <2>1. ASSUME NEW n \in Nat PROVE F[n] = (IF n = 0 THEN 1 ELSE 2 * F[n - 1])
    <3> HIDE DEF F
    <3> QED BY <1>4, <1>5
  <2>2. F = [n \in Nat |-> F[n]]
    OBVIOUS
  <2> HIDE DEF F
  <2> QED BY <2>1, <2>2
<1>7. \E f : f = [n \in Nat |-> IF n = 0 THEN 1 ELSE 2 * f[n - 1]]
  <2> HIDE DEF F
  <2> QED BY <1>6
<1> QED BY <1>7 DEF pow2

(* Doubling k times outgrows k.                                            *)
LEMMA Pow2Facts ==
  /\ \A k \in Nat : pow2[k] \in Nat /\ pow2[k] > k
  /\ \A k \in Nat : pow2[k + 1] = 2 * pow2[k]
<1>1. \A k \in Nat : pow2[k + 1] = 2 * pow2[k]
  BY Pow2Def
<1> DEFINE S == {k \in Nat : pow2[k] \in Nat /\ pow2[k] > k}
<1>2. 0 \in S
  <2>1. pow2[0] = 1
    BY Pow2Def
  <2> QED BY <2>1
<1>3. ASSUME NEW k \in S PROVE k + 1 \in S
  BY <1>1
<1>4. S = Nat
  <2> HIDE DEF S
  <2>1. S \subseteq Nat
    BY DEF S
  <2> QED BY <1>2, <1>3, <2>1, Induction
<1> QED BY <1>1, <1>4

(* The initial states satisfy the invariant.                               *)
LEMMA InitIInv == Init => IInv
<1> SUFFICES ASSUME Init PROVE IInv
  OBVIOUS
<1>1. pc \in [Requests -> Places]
  BY DEF Init, Places
<1>2. BreakerTypes
  BY TripCountFacts, RetryAssumption DEF Init, Breaker!Init, BreakerTypes
<1>3. Breaker!TypeOK
  BY <1>1, <1>2, BreakerTypeFacts
<1>4. result \in [Requests -> Responses \cup {"none", "CircuitOpen"}]
  BY DEF Init
<1>5. /\ initial_delay \in InitialDelays /\ outage \in BOOLEAN
      /\ attempt \in [Requests -> 0..MaxRetries] /\ sleep \in [Requests -> 0..MaxBackoff]
      /\ sends \in [Requests -> Nat]
      /\ \A r \in Requests : attempt[r] = 0 /\ sleep[r] = 0 /\ sends[r] = 0 /\ pc[r] = "idle"
  <2>1. 0 \in 0..MaxRetries /\ 0 \in 0..MaxBackoff
    BY RetryAssumption
  <2>2. /\ attempt = [r \in Requests |-> 0] /\ sleep = [r \in Requests |-> 0]
        /\ sends = [r \in Requests |-> 0] /\ pc = [r \in Requests |-> "idle"]
        /\ initial_delay \in InitialDelays /\ outage = FALSE
    BY DEF Init
  <2>3. QED BY <2>1, <2>2
<1>6. QED BY <1>1, <1>3, <1>4, <1>5 DEF IInv, TypeOK, SentInStep, Places

(* Every step keeps it: the steps of one request first.                    *)
LEMMA RequestStepIInv ==
  ASSUME IInv, NEW r \in Requests,
         Start(r) \/ ShortCircuit(r) \/ Return(r) \/ Respond(r) \/ Resend(r) \/ Drop(r)
  PROVE  IInv'
<1>1. pc \in [Requests -> Places] /\ BreakerTypes
  BY BreakerTypeFacts DEF IInv, TypeOK, Places
<1> USE RetryAssumption DEF IInv, TypeOK, SentInStep
<1>2. ASSUME pc' \in [Requests -> Places], BreakerTypes' PROVE Breaker!TypeOK'
  BY <1>2 DEF BreakerTypes, Breaker!TypeOK, Breaker!Calls, Places
<1>3. CASE Start(r)
  <2>1. pc[r] = "idle" /\ pc' \in [Requests -> Places]
    BY <1>3, <1>1 DEF Start, Breaker!AdmitClosed, Breaker!AdmitProbe, Breaker!Move, Places
  <2>2. Breaker!TypeOK'
    BY <1>1, <1>2, <1>3, <2>1, BreakerMethods DEF Start
  <2>3. QED BY <1>3, <2>1, <2>2 DEF Start, Places
<1>4. CASE ShortCircuit(r)
  <2>1. pc[r] = "idle" /\ pc' \in [Requests -> Places]
    BY <1>4, <1>1 DEF ShortCircuit, Breaker!Reject, Breaker!Move, Places
  <2>2. Breaker!TypeOK'
    BY <1>1, <1>2, <1>4, <2>1, BreakerMethods DEF ShortCircuit
  <2>3. QED BY <1>4, <2>1, <2>2 DEF ShortCircuit, Places
<1>5. CASE Return(r)
  <2>1. pc[r] = "rejected" /\ pc' \in [Requests -> Places]
    BY <1>5, <1>1 DEF Return, Breaker!Return, Breaker!Move, Places
  <2>2. Breaker!TypeOK'
    BY <1>1, <1>2, <1>5, <2>1, BreakerMethods DEF Return
  <2>3. QED BY <1>5, <2>1, <2>2 DEF Return, Places
<1>6. CASE Deliver(r) \/ GiveUp(r)
  <2>1. PICK res \in Responses : End(r, res)
    BY <1>6 DEF Deliver, GiveUp, Responses, Errors
  <2>2. pc' \in [Requests -> Places]
    BY <2>1, <1>1 DEF End, Places
  <2>3. Breaker!TypeOK'
    BY <1>1, <1>2, <1>6, <2>2, BreakerMethods DEF Deliver, GiveUp
  <2>4. outage' \in BOOLEAN
    BY <1>6 DEF Deliver, GiveUp
  <2>5. /\ attempt' \in [Requests -> 0..MaxRetries] /\ sends' \in [Requests -> Nat]
        /\ result' \in [Requests -> Responses \cup {"none", "CircuitOpen"}]
        /\ UNCHANGED <<initial_delay, sleep>>
    BY <2>1 DEF End
  <2>6. sleep[r] = 0
    BY <2>1 DEF End
  <2>7. QED BY <2>1, <2>2, <2>3, <2>4, <2>5, <2>6 DEF End, Places
<1>7. CASE Retry(r) \/ RetryAfter(r)
  <2>1. PICK e \in Errors, pause \in 0..MaxBackoff : GoRound(r, e, pause)
    BY <1>7, PauseFacts DEF Retry, RetryAfter, Errors, Answered
  <2>2. pc' \in [Requests -> Places] /\ attempt[r] < MaxRetries
    BY <2>1, <1>1 DEF GoRound, Places, LastAttempt
  <2>3. BreakerTypes'
    BY <1>1, <2>1 DEF GoRound, breaker, BreakerTypes
  <2>4. Breaker!TypeOK'
    BY <1>2, <2>2, <2>3
  <2>5. QED BY <2>1, <2>2, <2>4 DEF GoRound, Places
<1>8. CASE Resend(r)
  <2>1. pc' \in [Requests -> Places]
    BY <1>8, <1>1 DEF Resend, Places
  <2>2. BreakerTypes'
    BY <1>1, <1>8 DEF Resend, breaker, BreakerTypes
  <2>3. Breaker!TypeOK'
    BY <1>2, <2>1, <2>2
  <2>4. QED BY <1>8, <2>1, <2>3 DEF Resend, Places
<1>9. CASE Drop(r)
  <2>1. pc' \in [Requests -> Places]
    BY <1>9, <1>1 DEF Drop, Places
  <2>2. Breaker!TypeOK'
    BY <1>1, <1>2, <1>9, <2>1, BreakerMethods DEF Drop
  <2>3. QED BY <1>9, <2>1, <2>2 DEF Drop, Places
<1>10. QED BY <1>3, <1>4, <1>5, <1>6, <1>7, <1>8, <1>9 DEF Respond

LEMMA NextIInv == IInv /\ [Next]_vars => IInv'
<1> SUFFICES ASSUME IInv, [Next]_vars PROVE IInv'
  OBVIOUS
<1>1. pc \in [Requests -> Places] /\ BreakerTypes
  BY BreakerTypeFacts DEF IInv, TypeOK, Places
<1>2. ASSUME pc' = pc, BreakerTypes' PROVE Breaker!TypeOK'
  BY <1>1, <1>2 DEF BreakerTypes, Breaker!TypeOK, Breaker!Calls, Places
<1>3. CASE Tick
  <2>1. pc' = pc /\ BreakerTypes'
    <3>1. CASE Requests = {}
      BY <1>1, <1>3, RetryAssumption
         DEF Tick, Breaker!Age, Breaker!AtMost, BreakerTypes
    <3>2. CASE Requests # {}
      BY <1>1, <1>3, <3>2, BreakerMethods DEF Tick
    <3>3. QED BY <3>1, <3>2
  <2>2. Breaker!TypeOK'
    BY <1>2, <2>1
  <2>3. QED BY <1>3, <2>1, <2>2, RetryAssumption DEF Tick, IInv, TypeOK, SentInStep
<1>4. CASE UNCHANGED vars
  <2>1. pc' = pc /\ BreakerTypes'
    BY <1>1, <1>4 DEF vars, breaker, BreakerTypes
  <2>2. Breaker!TypeOK'
    BY <1>2, <2>1
  <2>3. QED BY <1>4, <2>2 DEF vars, IInv, TypeOK, SentInStep
<1>5. QED BY <1>3, <1>4, RequestStepIInv DEF Next

(* Spec implies that the invariant always holds.                           *)
THEOREM Invariance == Spec => []IInv
BY InitIInv, NextIInv, PTL DEF Spec

(* Type correctness: whatever order the requests' steps come in, pauses    *)
(* keep to MAX_BACKOFF and the loop variable to the retries allowed.       *)
THEOREM TypeCorrect == Spec => []TypeOK
<1>1. IInv => TypeOK
  BY DEF IInv
<1>2. QED BY <1>1, Invariance, PTL

(* No call ever sends more than 1 + max_retries attempts.                  *)
THEOREM SendsAreBounded == Spec => []RetryBudget
<1>1. IInv => RetryBudget
  <2> SUFFICES ASSUME IInv, NEW r \in Requests PROVE sends[r] <= MaxRetries + 1
    BY DEF RetryBudget
  <2> USE RetryAssumption DEF IInv, TypeOK, SentInStep
  <2>1. attempt[r] \in 0..MaxRetries /\ pc[r] \in Places
    BY DEF Places
  <2>2. sends[r] \in {0, attempt[r], attempt[r] + 1}
    BY <2>1 DEF Places
  <2>3. QED BY <2>1, <2>2
<1>2. QED BY <1>1, Invariance, PTL

(* The range a pause before retry n is drawn from: it always holds a pause, *)
(* and none above MAX_BACKOFF; retrying never makes it smaller; unless the  *)
(* initial delay is zero it holds every pause below n and MAX_BACKOFF, so   *)
(* that the backoff really grows with the attempts until the cap bounds it. *)
THEOREM BackoffGrows ==
  ASSUME initial_delay \in Nat, NEW n \in Nat \ {0}
  PROVE  /\ Backoff(n) # {}
         /\ Backoff(n) \subseteq 0..MaxBackoff
         /\ Backoff(n) \subseteq Backoff(n + 1)
         /\ initial_delay > 0
              => \A d \in Nat : d < n /\ d < MaxBackoff => d \in Backoff(n)
         /\ initial_delay > 0 /\ n > MaxBackoff
              => Backoff(n) = {d \in 0..MaxBackoff : d < Max2(MaxBackoff, 1)}
<1> DEFINE base == initial_delay * pow2[n - 1]
<1>1. n - 1 \in Nat /\ (n - 1) + 1 = n /\ (n + 1) - 1 = n
  OBVIOUS
<1>2. pow2[n - 1] \in Nat /\ pow2[n - 1] > n - 1 /\ pow2[n] = 2 * pow2[n - 1]
  BY <1>1, Pow2Facts
<1>3. base \in Nat /\ initial_delay * pow2[n] = 2 * base
  <2> HIDE DEF base
  <2>1. \A a, b \in Nat : a * b \in Nat /\ a * (2 * b) = 2 * (a * b)
    OBVIOUS
  <2> QED BY <1>2, <2>1 DEF base
<1>4. Backoff(n) = {d \in 0..MaxBackoff : d < Max2(Min2(base, MaxBackoff), 1)}
  BY DEF Backoff
<1>5. Backoff(n + 1) = {d \in 0..MaxBackoff : d < Max2(Min2(2 * base, MaxBackoff), 1)}
  BY <1>1, <1>3 DEF Backoff
<1>6. ASSUME initial_delay > 0 PROVE base >= n
  <2>1. \A a, b \in Nat : a > 0 => a * b >= b
    OBVIOUS
  <2> QED BY <1>2, <1>6, <2>1
<1> HIDE DEF base
<1>7. 0 \in Backoff(n)
  BY <1>3, <1>4, RetryAssumption DEF Min2, Max2
<1>8. Backoff(n) \subseteq Backoff(n + 1)
  BY <1>3, <1>4, <1>5, RetryAssumption DEF Min2, Max2
<1>9. ASSUME initial_delay > 0, n > MaxBackoff
      PROVE  Backoff(n) = {d \in 0..MaxBackoff : d < Max2(MaxBackoff, 1)}
  BY <1>3, <1>4, <1>6, <1>9, RetryAssumption DEF Min2
<1>10. ASSUME initial_delay > 0, NEW d \in Nat, d < n, d < MaxBackoff PROVE d \in Backoff(n)
  BY <1>3, <1>4, <1>6, <1>10, RetryAssumption DEF Min2, Max2
<1>11. Backoff(n) \subseteq 0..MaxBackoff
  BY <1>4
<1> QED BY <1>7, <1>8, <1>9, <1>10, <1>11

(* A call with retries left always has a pause to draw, whatever the       *)
(* initial delay: random_range is never asked for an empty range.          *)
THEOREM PausesExist == Spec => []AlwaysHasAPause
<1>1. IInv => AlwaysHasAPause
  <2> SUFFICES ASSUME IInv, NEW r \in Requests PROVE Backoff(attempt[r] + 1) # {}
    BY DEF AlwaysHasAPause
  <2>1. initial_delay \in Nat /\ attempt[r] + 1 \in Nat \ {0}
    BY RetryAssumption DEF IInv, TypeOK
  <2> QED BY <2>1, BackoffGrows
<1> QED BY <1>1, Invariance, PTL

(* The steps a call under way may still take.                              *)
Rank(r) == (MaxRetries - attempt[r]) * (MaxBackoff + 2)
             + (IF pc[r] = "sleeping" THEN sleep[r] + 1 ELSE 0)

(* What makes calls end, and CallsEnd only adds the fairness to: the rank  *)
(* of a call under way is a natural number; each step of the call that     *)
(* does not end it and each tick of its pause lowers the rank, and no step *)
(* of anything else touches it.                                            *)
Under(r) == pc[r] \in {"sent", "sleeping"}

Lowers(r) == \/ pc'[r] = "idle"
             \/ Rank(r)' < Rank(r)
             \/ UNCHANGED <<pc[r], attempt[r], sleep[r]>>

CallProgresses ==
  [][\A r \in Requests : Under(r) => Rank(r) \in Nat /\ Lowers(r)]_vars

(* A call under way comes closer to its end with every step it takes.      *)
THEOREM CallsProgress == Spec => CallProgresses
<1>1. ASSUME IInv, NEW r \in Requests
      PROVE  /\ attempt[r] \in Nat /\ attempt[r] <= MaxRetries
             /\ sleep[r] \in Nat /\ sleep[r] <= MaxBackoff
             /\ Rank(r) \in Nat
  <2>1. /\ attempt[r] \in Nat /\ attempt[r] <= MaxRetries
        /\ sleep[r] \in Nat /\ sleep[r] <= MaxBackoff
    BY <1>1, RetryAssumption DEF IInv, TypeOK
  <2>2. (MaxRetries - attempt[r]) * (MaxBackoff + 2) \in Nat
    <3>1. \A a, b \in Nat : a * b \in Nat
      OBVIOUS
    <3>2. MaxRetries - attempt[r] \in Nat /\ MaxBackoff + 2 \in Nat
      BY <2>1, RetryAssumption
    <3> QED BY <3>1, <3>2
  <2> QED BY <2>1, <2>2 DEF Rank
<1>2. ASSUME IInv, NEW r \in Requests, NEW q \in Requests, Under(r),
             \/ Start(q) \/ ShortCircuit(q) \/ Return(q)
             \/ Respond(q) \/ Resend(q) \/ Drop(q)
      PROVE  Lowers(r)
  <2> USE <1>2 DEF IInv, TypeOK, Under, Lowers
  <2>1. CASE q # r
    BY <2>1 DEF Start, ShortCircuit, Return, Respond, Deliver, GiveUp, End, Retry, RetryAfter,
                GoRound, Resend, Drop, Breaker!AdmitClosed, Breaker!AdmitProbe
  <2>2. CASE q = r
    <3>1. ~ Start(r) /\ ~ ShortCircuit(r) /\ ~ Return(r)
      BY <2>2 DEF Start, ShortCircuit, Return, Breaker!AdmitClosed, Breaker!AdmitProbe,
                  Breaker!Reject, Breaker!Return, Breaker!Move
    <3>2. CASE Deliver(r) \/ GiveUp(r) \/ Drop(r)
      BY <3>2 DEF Deliver, GiveUp, End, Drop
    <3>3. CASE Retry(r) \/ RetryAfter(r)
      <4>1. PICK e \in Errors, pause \in 0..MaxBackoff : GoRound(r, e, pause)
        BY <3>3, PauseFacts DEF Retry, RetryAfter, Errors, Answered
      <4>2. /\ pc[r] = "sent" /\ pc'[r] = "sleeping" /\ sleep'[r] = pause
            /\ attempt'[r] = attempt[r] + 1
        BY <4>1 DEF GoRound
      <4>3. (MaxRetries - attempt[r]) * (MaxBackoff + 2)
              = (MaxRetries - (attempt[r] + 1)) * (MaxBackoff + 2) + (MaxBackoff + 2)
        <5>1. \A a, b \in Int : a * b = (a - 1) * b + b
          OBVIOUS
        <5>2. /\ MaxRetries - attempt[r] \in Int /\ MaxBackoff + 2 \in Int
              /\ (MaxRetries - attempt[r]) - 1 = MaxRetries - (attempt[r] + 1)
          BY <1>1, RetryAssumption
        <5> QED BY <5>1, <5>2
      <4>4. (MaxRetries - (attempt[r] + 1)) * (MaxBackoff + 2) \in Int
        BY <1>1, RetryAssumption
      <4> QED BY <4>2, <4>3, <4>4, RetryAssumption DEF Rank
    <3>4. CASE Resend(r)
      <4>1. /\ pc[r] = "sleeping" /\ pc'[r] = "sent" /\ sleep[r] = 0
            /\ attempt'[r] = attempt[r]
        BY <3>4 DEF Resend
      <4>2. (MaxRetries - attempt[r]) * (MaxBackoff + 2) \in Int
        BY <1>1, RetryAssumption
      <4> QED BY <4>1, <4>2 DEF Rank
    <3> QED BY <2>2, <3>1, <3>2, <3>3, <3>4 DEF Respond
  <2> QED BY <2>1, <2>2
<1>3. ASSUME IInv, NEW r \in Requests, Under(r), Tick PROVE Lowers(r)
  <2> USE DEF Under, Lowers
  <2>1. /\ pc'[r] = pc[r] /\ attempt'[r] = attempt[r]
        /\ sleep'[r] = IF sleep[r] > 0 THEN sleep[r] - 1 ELSE 0
    BY <1>3 DEF Tick
  <2>2. CASE sleep[r] = 0
    BY <2>1, <2>2
  <2>3. CASE sleep[r] > 0
    <3>1. pc[r] = "sleeping"
      BY <1>3, <2>3 DEF IInv, SentInStep
    <3>2. (MaxRetries - attempt[r]) * (MaxBackoff + 2) \in Int
      BY <1>1, <1>3, RetryAssumption
    <3> QED BY <1>1, <1>3, <2>1, <2>3, <3>1, <3>2 DEF Rank
  <2> QED BY <1>1, <1>3, <2>2, <2>3
<1>4. IInv /\ [Next]_vars
        => [\A r \in Requests : Under(r) => Rank(r) \in Nat /\ Lowers(r)]_vars
  BY <1>1, <1>2, <1>3 DEF Next
<1> QED BY <1>4, Invariance, PTL DEF Spec, CallProgresses

(* A call that ends with an error is_retryable calls retryable sent all    *)
(* the attempts it had, or met a sealed Vault it was told not to wait for. *)
THEOREM RetriesAreUsedUp == Spec => GivesUpLate
<1> DEFINE Late(r) ==
      (pc[r] = "sent" /\ pc'[r] = "idle" /\ is_retryable(result'[r]))
        => \/ sends[r] = MaxRetries + 1
           \/ result'[r] = "Sealed" /\ ~ RetryOnSealed
<1>1. ASSUME IInv, Next, NEW r \in Requests, pc[r] = "sent", pc'[r] = "idle",
             is_retryable(result'[r])
      PROVE  sends[r] = MaxRetries + 1 \/ (result'[r] = "Sealed" /\ ~ RetryOnSealed)
  <2> USE DEF IInv, TypeOK, SentInStep
  <2>1. ~ Tick
    BY <1>1 DEF Tick
  <2>2. PICK q \in Requests :
          Start(q) \/ ShortCircuit(q) \/ Return(q) \/ Respond(q) \/ Resend(q) \/ Drop(q)
    BY <1>1, <2>1 DEF Next
  <2>3. q = r
    BY <1>1, <2>2 DEF Start, ShortCircuit, Return, Respond, Deliver, GiveUp, End, Retry,
                      RetryAfter, GoRound, Resend, Drop
  <2>4. ~ Start(r) /\ ~ ShortCircuit(r) /\ ~ Resend(r) /\ ~ Retry(r) /\ ~ RetryAfter(r)
    BY <1>1 DEF Start, ShortCircuit, Resend, Retry, RetryAfter, GoRound
  <2>5. CASE Return(r) \/ Drop(r)
    <3>1. result'[r] \in {"CircuitOpen", "none"}
      BY <1>1, <2>5 DEF Return, Drop
    <3>2. QED BY <1>1, <3>1 DEF is_retryable
  <2>6. CASE Deliver(r)
    <3>1. result'[r] \in {"Ok", "NotFound"}
      BY <1>1, <2>6 DEF Deliver, End, Delivered
    <3>2. QED BY <1>1, <3>1 DEF is_retryable
  <2>7. CASE GiveUp(r)
    <3>1. PICK e \in Errors : (~ Retries(e) \/ LastAttempt(r)) /\ End(r, e)
      BY <2>7 DEF GiveUp
    <3>2. result'[r] = e
      BY <1>1, <3>1 DEF End
    <3>3. CASE LastAttempt(r)
      BY <1>1, <3>3, RetryAssumption DEF LastAttempt
    <3>4. CASE ~ Retries(e)
      BY <1>1, <3>2, <3>4 DEF Retries, is_retryable
    <3>5. QED BY <3>1, <3>3, <3>4
  <2>8. QED BY <2>2, <2>3, <2>4, <2>5, <2>6, <2>7 DEF Respond
<1>2. IInv /\ [Next]_vars => [\A r \in Requests : Late(r)]_vars
  BY <1>1
<1>3. QED BY <1>2, Invariance, PTL DEF Spec, GivesUpLate

(* Retried or not, a call is one call to the breaker: every step is a step *)
(* of CircuitBreaker, or one it does not see.                              *)
THEOREM CallsAreRecorded == Spec => RecordsCalls
<1>1. Init => Breaker!Init
  BY DEF Init
<1>2. IInv /\ [Next]_vars => [Breaker!Next]_(Breaker!vars)
  <2> SUFFICES ASSUME IInv, [Next]_vars PROVE [Breaker!Next]_(Breaker!vars)
    OBVIOUS
  <2>1. pc \in [Requests -> Places] /\ BreakerTypes
    BY BreakerTypeFacts DEF IInv, TypeOK, Places
  <2>2. CASE Tick
    <3>1. Breaker!Age /\ pc' = pc
      BY <2>2 DEF Tick
    <3>2. CASE (state # "Closed" /\ elapsed < ResetTimeout) \/ sinceProbe < ResetTimeout
      BY <3>1, <3>2 DEF Breaker!Next, Breaker!Tick
    <3>3. CASE ~ ((state # "Closed" /\ elapsed < ResetTimeout) \/ sinceProbe < ResetTimeout)
      <4>1. elapsed' = elapsed /\ sinceProbe' = sinceProbe
        BY <2>1, <3>1, <3>3, RetryAssumption DEF BreakerTypes, Breaker!Age, Breaker!AtMost
      <4>2. QED BY <3>1, <4>1 DEF Breaker!Age, Breaker!vars
    <3>4. QED BY <3>2, <3>3
  <2>3. ASSUME NEW r \in Requests,
               Start(r) \/ ShortCircuit(r) \/ Return(r) \/ Deliver(r) \/ GiveUp(r) \/ Drop(r)
        PROVE  Breaker!Next
    <3>1. \/ Breaker!Check(r) \/ Breaker!Finish(r) \/ Breaker!Return(r)
      BY <2>3 DEF Start, ShortCircuit, Return, Deliver, GiveUp, Drop, Breaker!Check, Breaker!Finish
    <3>2. QED BY <3>1 DEF Breaker!Next
  <2>4. ASSUME NEW r \in Requests, Retry(r) \/ RetryAfter(r) \/ Resend(r)
        PROVE  UNCHANGED Breaker!vars
    <3>1. /\ UNCHANGED breaker
          /\ pc[r] \in {"sent", "sleeping"}
          /\ \E to \in {"sent", "sleeping"} : pc' = [pc EXCEPT ![r] = to]
      BY <2>4 DEF Retry, RetryAfter, GoRound, Resend
    <3>2. \A q \in Requests :
            (IF pc'[q] \in {"sent", "sleeping"} THEN "in_flight" ELSE pc'[q])
              = (IF pc[q] \in {"sent", "sleeping"} THEN "in_flight" ELSE pc[q])
      BY <2>1, <3>1
    <3>3. QED BY <3>1, <3>2 DEF breaker, Breaker!vars
  <2>5. CASE UNCHANGED vars
    BY <2>5 DEF vars, breaker, Breaker!vars
  <2>6. QED BY <2>2, <2>3, <2>4, <2>5 DEF Next, Respond
<1>3. QED BY <1>1, <1>2, Invariance, PTL DEF Spec, RecordsCalls, Breaker!Spec
=============================================================================
