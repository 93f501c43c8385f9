-------------------------- MODULE LeaseWatcherProofs --------------------------
(***************************************************************************)
(* What holds of the background tasks of renewal.rs for every set of lease *)
(* durations, jitter, poll and channel size.  IInv adds to the type        *)
(* invariant how many rotate_fn calls each place of the task stands for,   *)
(* and which event was the last when the task is about to give up.         *)
(***************************************************************************)
EXTENDS LeaseWatcher, TLAPS

(* Outside a rotation none is counted; in it the count follows the loop's  *)
(* own attempt variable.                                                   *)
CountedByAttempt ==
  /\ pc \in {"sleeping", "renewing", "logging_in", "send_renewed", "send_error",
             "send_rotated"} => rotations = 0
  /\ pc \in {"sleeping", "renewing", "logging_in", "send_error"} => attempt = 0
  /\ pc = "rotating" => rotations = attempt + 1 /\ attempt < RotationAttempts
  /\ pc = "backing_off" => rotations = attempt /\ attempt \in {1, 2}

(* Only watch_lease_events and watch_lease_rotate report errors.           *)
ErrorsHaveAReceiver == pc = "send_error" => mode \in {"events", "rotate"}

(* Expired was sent only by a task that is done, and a task about to send  *)
(* it has reported the error, unless nobody can hear it.                   *)
ExpiredEnds == last = "Expired" => pc = "done"

ErrorComesFirst ==
  pc \in {"rotating", "backing_off", "send_rotated", "send_expired"}
    => last = "Error" \/ owner = "gone"

(* No error is unresolved when the task sleeps, renews or has a renewal or *)
(* a failure to report, unless nobody can hear it.                         *)
NothingPending ==
  pc \in {"sleeping", "renewing", "logging_in", "send_renewed", "send_error"}
    => Stream!Healthy \/ owner = "gone"

IInv ==
  /\ TypeOK
  /\ RotationBudget
  /\ CountedByAttempt
  /\ ErrorsHaveAReceiver
  /\ ExpiredEnds
  /\ ErrorComesFirst
  /\ NothingPending

(* Every sleep of the four loops is a natural number of seconds.           *)
LEMMA SleepFacts ==
  ASSUME NEW m, NEW t \in Nat, NEW s \in Sleeps(m, t)
  PROVE  s \in Nat
<1>1. (66 * t) \div 100 \in Nat
  OBVIOUS
<1>2. \A jitter \in 0..MaxJitter : (66 * t) \div 100 + jitter \in Nat
  BY <1>1, LeaseAssumption
<1>3. CASE m = "token"
  <2>1. CASE t = 0
    BY <1>3, <2>1, LeaseAssumption DEF Sleeps, DaemonSleeps
  <2>2. CASE t # 0
    <3>1. PICK jitter \in 0..MaxJitter : s = (66 * t) \div 100 + jitter
      BY <1>3, <2>2 DEF Sleeps, DaemonSleeps
    <3>2. QED BY <3>1, <1>2
  <2>3. QED BY <2>1, <2>2
<1>4. CASE m # "token"
  <2>1. PICK jitter \in 0..MaxJitter :
          s = AtLeast((66 * t) \div 100 + jitter, MIN_RENEWAL_SLEEP)
    BY <1>4 DEF Sleeps, RenewalSleeps
  <2>2. (66 * t) \div 100 + jitter \in Nat
    BY <1>2
  <2>3. QED BY <2>1, <2>2 DEF AtLeast, MIN_RENEWAL_SLEEP
<1>5. QED BY <1>3, <1>4

(* A task that goes back to sleep has a natural number of seconds to sleep *)
(* and forgets its attempts.                                               *)
LEMMA SleepForFacts ==
  ASSUME NEW t \in Nat, SleepFor(t)
  PROVE  sleep' \in Nat /\ attempt' = 0
BY SleepFacts DEF SleepFor

(* An event goes into a channel with room for it, or is lost with the      *)
(* receiver.                                                               *)
LEMMA EmitFacts ==
  ASSUME queue \in Seq(Events), Len(queue) <= Capacity, last \in Events \cup {"none"},
         NEW event \in Events, Emit(event)
  PROVE  /\ queue' \in Seq(Events)
         /\ Len(queue') <= Capacity
         /\ last' \in Events \cup {"none"}
         /\ owner # "gone" => last' = event
         /\ last' # last => last' = event /\ owner # "gone"
<1>1. Capacity \in Nat
  BY LeaseAssumption
<1>2. CASE owner # "gone"
  <2>1. queue' = Append(queue, event) /\ last' = event /\ Len(queue) < Capacity
    BY <1>2 DEF Emit
  <2>2. queue' \in Seq(Events) /\ Len(queue') = Len(queue) + 1
    BY <2>1
  <2>3. QED BY <1>1, <1>2, <2>1, <2>2
<1>3. CASE owner = "gone"
  BY <1>3 DEF Emit
<1>4. QED BY <1>2, <1>3

(* The initial states satisfy the invariant.                               *)
LEMMA InitIInv == Init => IInv
<1> SUFFICES ASSUME Init PROVE IInv
  OBVIOUS
<1>1. ttl \in Nat /\ Capacity \in Nat /\ mode \in {"token", "watch", "events", "rotate"}
  BY LeaseAssumption DEF Init
<1>2. sleep \in Nat
  BY <1>1, SleepFacts DEF Init
<1>3. queue \in Seq(Events) /\ Len(queue) <= Capacity
  BY <1>1 DEF Init
<1>4. /\ pc = "sleeping" /\ ttl \in Ttls /\ attempt = 0 /\ cancelled = FALSE
      /\ owner = "holding" /\ life = ttl /\ last = "none" /\ rotations = 0
  BY DEF Init
<1>5. TypeOK
  <2>1. attempt \in 0..RotationAttempts
    BY <1>4 DEF RotationAttempts
  <2>2. last \in Events \cup {"none"}
    BY <1>4
  <2>3. QED BY <1>1, <1>2, <1>3, <1>4, <2>1, <2>2 DEF TypeOK
<1>6. QED
  BY <1>4, <1>5 DEF IInv, RotationBudget, CountedByAttempt, ErrorsHaveAReceiver, ExpiredEnds,
              ErrorComesFirst, NothingPending, Stream!Healthy, RotationAttempts

(* Every step keeps it.                                                    *)
LEMMA NextIInv == IInv /\ [Next]_vars => IInv'
<1> SUFFICES ASSUME IInv, [Next]_vars PROVE IInv'
  OBVIOUS
<1> USE DEF IInv, TypeOK, RotationBudget, CountedByAttempt, ErrorsHaveAReceiver, ExpiredEnds,
            ErrorComesFirst, NothingPending, Stream!Healthy, RotationAttempts, Goes, history,
            handle, task
<1>a. ttl \in Nat /\ Ttls \subseteq Nat
  BY LeaseAssumption
<1>1. CASE Wake
  BY <1>1 DEF Wake
<1>2. CASE RotateAgain
  BY <1>2 DEF RotateAgain
<1>3. CASE Stop
  BY <1>3 DEF Stop, Racing
<1>4. CASE StopLogin
  BY <1>4, <1>a, SleepForFacts DEF StopLogin
<1>5. CASE RenewOk
  <2>1. ttl' \in Ttls /\ ttl' \in Nat
    BY <1>5, <1>a DEF RenewOk
  <2>2. sleep' \in Nat /\ attempt' = 0
    BY <1>5, <2>1, SleepForFacts DEF RenewOk
  <2>3. pc' \in {"sleeping", "send_renewed"}
    BY <1>5 DEF RenewOk
  <2>4. QED BY <1>5, <2>1, <2>2, <2>3 DEF RenewOk
<1>6. CASE RenewedNothing
  BY <1>6, <1>a, SleepForFacts DEF RenewedNothing
<1>7. CASE RenewErr
  <2>1. pc' = AfterFailure(mode)
    BY <1>7 DEF RenewErr
  <2>2. /\ pc' \in {"logging_in", "done", "send_error"}
        /\ pc' = "send_error" => mode \in {"events", "rotate"}
    BY <2>1 DEF AfterFailure
  <2>3. QED BY <1>7, <2>2 DEF RenewErr
<1>8. CASE LoginOk
  <2>1. ttl' \in Ttls /\ ttl' \in Nat
    BY <1>8, <1>a DEF LoginOk
  <2>2. sleep' \in Nat /\ attempt' = 0
    BY <1>8, <2>1, SleepForFacts DEF LoginOk
  <2>3. QED BY <1>8, <2>1, <2>2 DEF LoginOk
<1>9. CASE LoginErr
  BY <1>9, <1>a, SleepForFacts DEF LoginErr
<1>10. CASE RotateOk
  BY <1>10, <1>a DEF RotateOk
<1>11. CASE RotateErr
  <2>1. attempt \in {0, 1, 2} /\ attempt' = attempt + 1 /\ pc = "rotating"
    BY <1>11 DEF RotateErr
  <2>2. CASE attempt' < RotationAttempts
    <3>1. attempt' \in {1, 2} /\ pc' = "backing_off" /\ sleep' = RotationBackoff(attempt')
      BY <1>11, <2>1, <2>2 DEF RotateErr
    <3>2. 2^(1 - 1) \in Nat /\ 2^(2 - 1) \in Nat
      OBVIOUS
    <3>3. sleep' \in Nat
      <4>1. CASE attempt' = 1
        BY <3>1, <3>2, <4>1 DEF RotationBackoff
      <4>2. CASE attempt' = 2
        BY <3>1, <3>2, <4>2 DEF RotationBackoff
      <4>3. QED BY <3>1, <4>1, <4>2
    <3>4. QED BY <1>11, <2>1, <3>1, <3>3 DEF RotateErr
  <2>3. CASE ~ (attempt' < RotationAttempts)
    BY <1>11, <2>1, <2>3 DEF RotateErr
  <2>4. QED BY <2>2, <2>3
<1>12. CASE SendRenewed
  <2>1. /\ queue' \in Seq(Events) /\ Len(queue') <= Capacity /\ last' \in Events \cup {"none"}
        /\ last' # last => last' = "Renewed"
        /\ owner # "gone" => last' = "Renewed"
    BY <1>12, EmitFacts DEF SendRenewed, Events
  <2>2. QED BY <1>12, <2>1, <1>a, SleepForFacts DEF SendRenewed
<1>13. CASE SendError
  <2>1. /\ queue' \in Seq(Events) /\ Len(queue') <= Capacity /\ last' \in Events \cup {"none"}
        /\ owner # "gone" => last' = "Error"
        /\ last' # last => last' = "Error"
    BY <1>13, EmitFacts DEF SendError, Events
  <2>2. QED BY <1>13, <2>1 DEF SendError
<1>14. CASE SendRotated
  <2>1. /\ queue' \in Seq(Events) /\ Len(queue') <= Capacity /\ last' \in Events \cup {"none"}
        /\ last' # last => last' = "Rotated"
        /\ owner # "gone" => last' = "Rotated"
    BY <1>14, EmitFacts DEF SendRotated, Events
  <2>2. QED BY <1>14, <2>1, <1>a, SleepForFacts DEF SendRotated
<1>15. CASE SendExpired
  <2>1. /\ queue' \in Seq(Events) /\ Len(queue') <= Capacity /\ last' \in Events \cup {"none"}
    BY <1>15, EmitFacts DEF SendExpired, Events
  <2>2. QED BY <1>15, <2>1 DEF SendExpired
<1>16. CASE Recv
  <2>1. queue # <<>> /\ queue' = Tail(queue)
    BY <1>16 DEF Recv
  <2>2. queue' \in Seq(Events) /\ Len(queue') <= Capacity
    BY <2>1, LeaseAssumption
  <2>3. QED BY <1>16, <2>2 DEF Recv
<1>17. CASE Shutdown
  BY <1>17 DEF Shutdown
<1>18. CASE Joined
  BY <1>18, LeaseAssumption DEF Joined
<1>19. CASE DropHandle
  BY <1>19, LeaseAssumption DEF DropHandle
<1>20. CASE ReplaceToken
  BY <1>20, <1>a DEF ReplaceToken
<1>21. CASE Tick
  BY <1>21 DEF Tick
<1>22. CASE UNCHANGED vars
  BY <1>22 DEF vars
<1>23. QED
  BY <1>1, <1>2, <1>3, <1>4, <1>5, <1>6, <1>7, <1>8, <1>9, <1>10, <1>11, <1>12, <1>13,
     <1>14, <1>15, <1>16, <1>17, <1>18, <1>19, <1>20, <1>21, <1>22
     DEF Next, Answer, Send

(* Spec implies that the invariant always holds.                           *)
THEOREM Invariance == Spec => []IInv
BY InitIInv, NextIInv, PTL DEF Spec

(* Type correctness, and that the channel keeps to its size, for every     *)
(* lease duration, jitter and capacity.                                    *)
THEOREM TypeCorrect == Spec => []TypeOK
<1>1. IInv => TypeOK
  BY DEF IInv
<1>2. QED BY <1>1, Invariance, PTL

(* A failed renewal costs at most three rotate_fn calls, whatever fails,   *)
(* however long the task waits for room in between.                        *)
THEOREM RotationsAreBounded == Spec => []RotationBudget
<1>1. IInv => RotationBudget
  BY DEF IInv
<1>2. QED BY <1>1, Invariance, PTL

(* Expired follows an Error directly and is the last event of a watcher.   *)
THEOREM ExpiredIsLast == Spec => ExpiredIsFinal
<1> DEFINE Step == /\ last = "Expired" => last' = last
                   /\ (last # "Expired" /\ last' = "Expired") => last = "Error"
<1>1. IInv /\ [Next]_vars => [Step]_vars
  <2> SUFFICES ASSUME IInv, Next PROVE Step
    BY DEF vars
  <2> USE DEF IInv, TypeOK, ExpiredEnds, ErrorComesFirst, Goes, history
  <2>1. CASE SendRenewed \/ SendError \/ SendRotated
    <3>1. pc # "done" /\ (last' # last => last' \in {"Renewed", "Error", "Rotated"})
      BY <2>1, EmitFacts DEF SendRenewed, SendError, SendRotated, Events
    <3>2. QED BY <3>1
  <2>2. CASE SendExpired
    <3>1. pc = "send_expired" /\ (last' # last => owner # "gone")
      BY <2>2, EmitFacts DEF SendExpired, Events
    <3>2. QED BY <3>1
  <2>3. CASE ~ Send
    <3>1. last' = last
      BY <2>3 DEF Next, Answer, Send, Wake, RotateAgain, Stop, StopLogin, RenewOk,
                  RenewedNothing, RenewErr, LoginOk, LoginErr, RotateOk, RotateErr, Recv,
                  Shutdown, Joined, DropHandle, ReplaceToken, Tick
    <3>2. QED BY <3>1
  <2>4. QED BY <2>1, <2>2, <2>3 DEF Send
<1>2. QED BY <1>1, Invariance, PTL DEF Spec, ExpiredIsFinal

(* The events an owner hears are those of the abstract stream: each step   *)
(* of the task or the owner says, reads or closes as LeaseEvents allows,   *)
(* or is not seen there.                                                   *)
THEOREM StreamIsImplemented == Spec => ImplementsStream
<1>1. Init => Stream!Init
  BY DEF Init, Stream!Init
<1>2. IInv /\ [Next]_vars => [Stream!Next]_(Stream!vars)
  <2> SUFFICES ASSUME IInv, [Next]_vars PROVE [Stream!Next]_(Stream!vars)
    OBVIOUS
  <2> USE DEF IInv, TypeOK, Goes, handle, history
  <2>1. ASSUME NEW event \in Events, Emit(event), UNCHANGED owner
        PROVE  \/ owner # "gone" /\ Stream!Say(event)
               \/ owner = "gone" /\ UNCHANGED Stream!vars
    BY <2>1 DEF Emit, Stream!Say, Stream!vars
  <2>2. CASE SendRenewed
    <3>1. Stream!Healthy \/ owner = "gone"
      BY <2>2 DEF SendRenewed, NothingPending
    <3> QED BY <2>1, <2>2, <3>1 DEF SendRenewed, Events, Stream!Next, Stream!Continue
  <2>3. CASE SendError
    <3>1. Stream!Healthy \/ owner = "gone"
      BY <2>3 DEF SendError, NothingPending
    <3> QED BY <2>1, <2>3, <3>1 DEF SendError, Events, Stream!Next, Stream!Fail
  <2>4. CASE SendRotated
    <3>1. last = "Error" \/ owner = "gone"
      BY <2>4 DEF SendRotated, ErrorComesFirst
    <3> QED BY <2>1, <2>4, <3>1 DEF SendRotated, Events, Stream!Next, Stream!Resolve
  <2>5. CASE SendExpired
    <3>1. last = "Error" \/ owner = "gone"
      BY <2>5 DEF SendExpired, ErrorComesFirst
    <3> QED BY <2>1, <2>5, <3>1 DEF SendExpired, Events, Stream!Next, Stream!Resolve
  <2>6. CASE Recv
    BY <2>6 DEF Recv, Stream!Next, Stream!Read
  <2>7. CASE Joined \/ DropHandle
    BY <2>7 DEF Joined, DropHandle, Stream!Next, Stream!Close
  <2>8. CASE Shutdown
    BY <2>8 DEF Shutdown, Stream!vars
  <2>9. CASE \/ Wake \/ RotateAgain \/ Stop \/ StopLogin \/ Answer \/ ReplaceToken \/ Tick
    BY <2>9 DEF Wake, RotateAgain, Stop, StopLogin, Answer, RenewOk, RenewedNothing, RenewErr,
                LoginOk, LoginErr, RotateOk, RotateErr, ReplaceToken, Tick, Stream!vars
  <2>10. CASE UNCHANGED vars
    BY <2>10 DEF vars, Stream!vars
  <2> QED BY <2>2, <2>3, <2>4, <2>5, <2>6, <2>7, <2>8, <2>9, <2>10 DEF Next, Send
<1> QED BY <1>1, <1>2, Invariance, PTL DEF Spec, ImplementsStream, Stream!Spec

(* How many awaits a cancelled task may still get through: no more than    *)
(* eleven, in the worst case a rotation that fails three times.            *)
AwaitsLeft ==
  CASE pc = "done" -> 0
    [] pc \in {"sleeping", "send_expired"} -> 1
    [] pc \in {"logging_in", "send_renewed", "send_rotated"} -> 2
    [] pc = "rotating" -> 3 + 2 * (RotationAttempts - attempt)
    [] pc = "backing_off" -> 4 + 2 * (RotationAttempts - attempt)
    [] pc = "send_error" -> 10
    [] pc = "renewing" -> 11

WindsDown ==
  [][cancelled => /\ cancelled'
                  /\ AwaitsLeft \in 0..11
                  /\ pc' # pc => AwaitsLeft' < AwaitsLeft]_vars

(* What makes DropStopsTask and ShutdownEndsUnlessFull true, and they only *)
(* add the fairness to: the cancellation is never taken back, and each     *)
(* step of a cancelled task brings it closer to its end, wherever it is,   *)
(* whichever branch select! takes and whatever Vault and rotate_fn answer. *)
THEOREM CancelledTaskWindsDown == Spec => WindsDown
<1> DEFINE Down == cancelled => /\ cancelled'
                                /\ AwaitsLeft \in 0..11
                                /\ pc' # pc => AwaitsLeft' < AwaitsLeft
<1>1. IInv /\ Next => Down
  <2> SUFFICES ASSUME IInv, Next, cancelled
               PROVE  /\ cancelled' /\ AwaitsLeft \in 0..11
                      /\ pc' # pc => AwaitsLeft' < AwaitsLeft
    OBVIOUS
  <2> USE DEF IInv, TypeOK, CountedByAttempt, RotationAttempts, Goes, handle, history, task
  <2>1. cancelled'
    BY DEF Next, Wake, RotateAgain, Stop, StopLogin, Answer, RenewOk, RenewedNothing, RenewErr,
           LoginOk, LoginErr, RotateOk, RotateErr, Send, SendRenewed, SendError, SendRotated,
           SendExpired, Recv, Shutdown, Joined, DropHandle, ReplaceToken, Tick
  <2>2. AwaitsLeft \in 0..11
    BY DEF AwaitsLeft
  <2>3. CASE Stop
    BY <2>3 DEF Stop, Racing, AwaitsLeft
  <2>4. CASE StopLogin \/ LoginOk \/ LoginErr
    BY <2>1, <2>2, <2>4 DEF StopLogin, LoginOk, LoginErr, AwaitsLeft
  <2>5. CASE RenewOk \/ RenewedNothing
    BY <2>1, <2>2, <2>5 DEF RenewOk, RenewedNothing, AwaitsLeft
  <2>6. CASE RenewErr
    <3>1. pc = "renewing" /\ pc' \in {"logging_in", "done", "send_error"}
      BY <2>6 DEF RenewErr, AfterFailure
    <3> QED BY <2>1, <2>2, <3>1 DEF AwaitsLeft
  <2>7. CASE RotateOk
    BY <2>1, <2>2, <2>7 DEF RotateOk, AwaitsLeft
  <2>8. CASE RotateErr
    BY <2>1, <2>2, <2>8 DEF RotateErr, AwaitsLeft
  <2>9. CASE RotateAgain
    BY <2>1, <2>2, <2>9 DEF RotateAgain, AwaitsLeft
  <2>10. CASE SendRenewed \/ SendRotated \/ SendExpired
    BY <2>1, <2>2, <2>10 DEF SendRenewed, SendRotated, SendExpired, AwaitsLeft
  <2>11. CASE SendError
    BY <2>1, <2>2, <2>11 DEF SendError, AwaitsLeft
  <2>12. CASE Wake
    BY <2>12 DEF Wake
  <2>13. CASE Recv \/ Shutdown \/ Joined \/ DropHandle \/ ReplaceToken \/ Tick
    BY <2>1, <2>2, <2>13 DEF Recv, Shutdown, Joined, DropHandle, ReplaceToken, Tick
  <2> QED BY <2>1, <2>2, <2>3, <2>4, <2>5, <2>6, <2>7, <2>8, <2>9, <2>10, <2>11, <2>12, <2>13
          DEF Next, Answer, Send
<1>2. IInv /\ [Next]_vars => [Down]_vars
  BY <1>1
<1> QED BY <1>2, Invariance, PTL DEF Spec, WindsDown

(* RenewsBeforeExpiry for the task of watch_lease.                         *)
WatchRenewsInTime ==
  [][(mode = "watch" /\ pc = "sleeping" /\ pc' = "renewing") => life > 0]_vars

(* A lease longer than three times the jitter: the sleep ends before it.   *)
LEMMA SleepIsShorter ==
  ASSUME NEW t \in Nat, t > 1, t > 3 * MaxJitter, NEW s \in Sleeps("watch", t)
  PROVE  s \in Nat /\ s < t
<1>1. PICK jitter \in 0..MaxJitter :
        s = AtLeast((66 * t) \div 100 + jitter, MIN_RENEWAL_SLEEP)
  BY DEF Sleeps, RenewalSleeps
<1>2. 100 * ((66 * t) \div 100) <= 66 * t /\ (66 * t) \div 100 \in Nat
  OBVIOUS
<1>3. jitter \in Nat /\ 3 * jitter < t
  BY LeaseAssumption
<1>4. (66 * t) \div 100 + jitter < t
  <2> DEFINE q == (66 * t) \div 100
  <2>1. q \in Nat /\ 100 * q <= 66 * t
    BY <1>2
  <2> HIDE DEF q
  <2>2. q + jitter < t
    BY <2>1, <1>3
  <2> QED BY <2>2 DEF q
<1> QED BY <1>1, <1>2, <1>3, <1>4 DEF AtLeast, MIN_RENEWAL_SLEEP

(* "renews it before expiry" (watch_lease) is true of every lease of more  *)
(* than a second and more than three times the jitter (rounded up, 15 s in *)
(* the code): the task always wakes while the lease is there.  Shorter     *)
(* leases are what refutes RenewsBeforeExpiry; a task that reports events  *)
(* may wait for room in the channel before it sleeps, so nothing of the    *)
(* kind holds for it.                                                      *)
THEOREM LongLeasesAreRenewedInTime ==
  ASSUME \A t \in Ttls : t > 1 /\ t > 3 * MaxJitter
  PROVE  Spec => WatchRenewsInTime
<1> DEFINE InTime == mode = "watch" => /\ pc \in {"sleeping", "renewing", "done"}
                                       /\ pc = "sleeping" => sleep < life
           Renews == (mode = "watch" /\ pc = "sleeping" /\ pc' = "renewing") => life > 0
<1>1. Init => InTime
  BY SleepIsShorter, LeaseAssumption DEF Init
<1>2. IInv /\ InTime /\ [Next]_vars => InTime'
  <2> SUFFICES ASSUME IInv, InTime, [Next]_vars, mode' = "watch"
               PROVE  /\ pc' \in {"sleeping", "renewing", "done"}
                      /\ pc' = "sleeping" => sleep' < life'
    OBVIOUS
  <2> USE DEF IInv, TypeOK, Goes, handle, history, task
  <2>1. mode = "watch"
    BY DEF Next, Wake, RotateAgain, Stop, StopLogin, Answer, RenewOk, RenewedNothing, RenewErr,
           LoginOk, LoginErr, RotateOk, RotateErr, Send, SendRenewed, SendError, SendRotated,
           SendExpired, Recv, Shutdown, Joined, DropHandle, ReplaceToken, Tick, vars
  <2>2. CASE RenewOk
    <3>1. /\ ttl' \in Ttls /\ life' = ttl' /\ sleep' \in Sleeps("watch", ttl')
          /\ pc' = "sleeping"
      BY <2>1, <2>2 DEF RenewOk, SleepFor
    <3>2. ttl' \in Nat /\ ttl' > 1 /\ ttl' > 3 * MaxJitter
      BY <3>1, LeaseAssumption
    <3> QED BY <3>1, <3>2, SleepIsShorter
  <2>3. CASE Tick
    BY <2>1, <2>3 DEF Tick
  <2>4. CASE UNCHANGED vars
    BY <2>1, <2>4 DEF vars
  <2>5. CASE Recv \/ Shutdown \/ Joined \/ DropHandle
    BY <2>1, <2>5 DEF Recv, Shutdown, Joined, DropHandle
  <2>6. CASE Wake \/ Stop \/ RenewErr
    BY <2>1, <2>6 DEF Wake, Stop, RenewErr, AfterFailure
  <2>7. CASE \/ RotateAgain \/ StopLogin \/ RenewedNothing \/ LoginOk \/ LoginErr \/ RotateOk
             \/ RotateErr \/ Send \/ ReplaceToken
    BY <2>1, <2>7 DEF RotateAgain, StopLogin, RenewedNothing, LoginOk, LoginErr, RotateOk,
                      RotateErr, Send, SendRenewed, SendError, SendRotated, SendExpired,
                      ReplaceToken
  <2> QED BY <2>2, <2>3, <2>4, <2>5, <2>6, <2>7 DEF Next, Answer
<1>3. IInv /\ InTime /\ [Next]_vars => [Renews]_vars
  <2> SUFFICES ASSUME IInv, InTime, Next, mode = "watch", pc = "sleeping", pc' = "renewing"
               PROVE  life > 0
    OBVIOUS
  <2>1. sleep \in Nat /\ life \in Nat /\ sleep < life
    BY DEF IInv, TypeOK
  <2> QED BY <2>1
<1> HIDE DEF InTime
<1> QED BY <1>1, <1>2, <1>3, Invariance, PTL DEF Spec, WatchRenewsInTime
=============================================================================
