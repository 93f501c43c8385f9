---------------------------- MODULE LeaseWatcher ----------------------------
(***************************************************************************)
(* renewal.rs: the background task of start_token_renewal, watch_lease,    *)
(* watch_lease_events and watch_lease_rotate, the handle its owner keeps,  *)
(* and the bounded channel of LeaseEvents between them.  The four loops    *)
(* are one module: mode says which one runs ("token" renews the client's   *)
(* token, the others a lease), and the guards say where they differ.       *)
(*                                                                         *)
(* A tick is a second, the code's MIN_RENEWAL_SLEEP.  A step of the task   *)
(* runs from one await to the next; tokio polls a task at once when its    *)
(* timer fires or it is cancelled, so the clock waits for such a task.     *)
(* Vault and rotate_fn answer when and what they like; Vault forgets a     *)
(* lease when its time is up.  A token without a renewable lease has ttl 0.*)
(* The exit of the token loop on a poisoned lock is left out: no holder of *)
(* that lock panics.                                                       *)
(***************************************************************************)
EXTENDS Naturals, Sequences

CONSTANTS Modes,      \* subset of {"token", "watch", "events", "rotate"}
          Ttls,       \* bound: the lease durations Vault grants, in seconds
          MaxJitter,  \* the jitter is below 5 s
          IdlePoll,   \* 60 s: the daemon's sleep without a renewable lease
          Capacity    \* mpsc::channel(16)

ASSUME LeaseAssumption ==
  /\ Modes \subseteq {"token", "watch", "events", "rotate"}
  /\ Ttls \subseteq Nat
  /\ MaxJitter \in Nat
  /\ IdlePoll \in Nat \ {0}
  /\ Capacity \in Nat \ {0}

VARIABLES
  mode,       \* which watch function was called
  pc,         \* where the task is
  sleep,      \* seconds left of the sleep it is in
  ttl,        \* current_ttl
  attempt,    \* rotation attempts made for the renewal that failed
  queue,      \* the channel
  cancelled,  \* CancellationToken
  owner,      \* what the owner does: "holding", "shutdown" or "gone"
  life        \* Vault: seconds the current lease has left

VARIABLES     \* history
  last,       \* the last event sent
  rotations   \* rotate_fn calls since the last renewal or rotation

task == <<mode, pc, sleep, ttl, attempt>>
handle == <<cancelled, owner>>
history == <<last, rotations>>
vars == <<mode, pc, sleep, ttl, attempt, queue, cancelled, owner, life, last, rotations>>

MIN_RENEWAL_SLEEP == 1
RotationAttempts == 3

AtLeast(n, limit) == IF n < limit THEN limit ELSE n

(* Two thirds of the ttl plus jitter, but never less than a second.  The   *)
(* code's 0.66 and its milliseconds are rounded down to whole seconds.     *)
RenewalSleeps(t) ==
  {AtLeast((66 * t) \div 100 + jitter, MIN_RENEWAL_SLEEP) : jitter \in 0..MaxJitter}

(* start_token_renewal has no such minimum, and a fixed sleep for a token  *)
(* that is missing, not renewable or does not expire                       *)
DaemonSleeps(t) ==
  IF t = 0 THEN {IdlePoll} ELSE {(66 * t) \div 100 + jitter : jitter \in 0..MaxJitter}

Sleeps(m, t) == IF m = "token" THEN DaemonSleeps(t) ELSE RenewalSleeps(t)

(* 500 ms * 2^attempt: one second before the second attempt, two before    *)
(* the third                                                               *)
RotationBackoff(n) == 2^(n - 1)

Goes(from, to) ==
  /\ pc = from
  /\ pc' = to

(* The top of the loop: sleep before the next renewal of a lease of t      *)
SleepFor(t) ==
  /\ sleep' \in Sleeps(mode, t)
  /\ attempt' = 0
-----------------------------------------------------------------------------
(* The task.                                                               *)

Init ==
  /\ mode \in Modes
  /\ pc = "sleeping"
  /\ ttl \in Ttls
  /\ sleep \in Sleeps(mode, ttl)
  /\ attempt = 0
  /\ queue = <<>>
  /\ cancelled = FALSE
  /\ owner = "holding"
  /\ life = ttl
  /\ last = "none"
  /\ rotations = 0

(* The sleep ends and renew_lease goes out; with the token cancelled by    *)
(* then, race_cancel drops it unanswered (see Stop)                        *)
Wake ==
  /\ sleep = 0
  /\ ~ cancelled
  /\ Goes("sleeping", "renewing")
  /\ UNCHANGED <<mode, sleep, ttl, attempt, queue, handle, life, history>>

(* Vault renewed the lease, or the daemon's token, which need not have had *)
(* one; watch_lease and the daemon only log it                             *)
RenewOk ==
  /\ pc = "renewing"
  /\ life > 0 \/ (mode = "token" /\ ttl = 0)
  /\ ttl' \in Ttls
  /\ life' = ttl'
  /\ rotations' = 0
  /\ IF mode \in {"token", "watch"}
     THEN pc' = "sleeping" /\ SleepFor(ttl')
     ELSE pc' = "send_renewed" /\ UNCHANGED <<sleep, attempt>>
  /\ UNCHANGED <<mode, queue, handle, last>>

(* renew_token_via_api takes an answer without an auth block for a success *)
RenewedNothing ==
  /\ mode = "token"
  /\ Goes("renewing", "sleeping")
  /\ SleepFor(ttl)
  /\ UNCHANGED <<mode, ttl, queue, handle, life, history>>

(* Where a failed renewal takes each task *)
AfterFailure(m) ==
  CASE m = "token" -> "logging_in" [] m = "watch" -> "done" [] OTHER -> "send_error"

(* A variant of RenewErr: every task but watch_lease just tries again.     *)
RenewErrIgnored ==
  /\ Goes("renewing", IF mode = "watch" THEN "done" ELSE "sleeping")
  /\ SleepFor(ttl)
  /\ UNCHANGED <<mode, ttl, queue, handle, life, history>>

(* The renewal failed: the lease is gone, or anything else went wrong *)
RenewErr ==
  /\ Goes("renewing", AfterFailure(mode))
  /\ UNCHANGED <<mode, sleep, ttl, attempt, queue, handle, life, history>>

(* try_re_authenticate as the daemon's fallback: a new token ... *)
LoginOk ==
  /\ Goes("logging_in", "sleeping")
  /\ ttl' \in Ttls
  /\ life' = ttl'
  /\ SleepFor(ttl')
  /\ UNCHANGED <<mode, queue, handle, history>>

(* A variant of LoginErr: the daemon breaks out of its loop.               *)
LoginErrBreaks ==
  /\ Goes("logging_in", "done")
  /\ UNCHANGED <<mode, sleep, ttl, attempt, queue, handle, life, history>>

(* ... or an error, also for want of an auth method: sleep and try again   *)
LoginErr ==
  /\ Goes("logging_in", "sleeping")
  /\ SleepFor(ttl)
  /\ UNCHANGED <<mode, ttl, queue, handle, life, history>>

(* A variant of Emit with an unbounded channel.                            *)
EmitUnbounded(event) ==
  \/ /\ owner # "gone"
     /\ queue' = Append(queue, event)
     /\ last' = event
  \/ /\ owner = "gone"
     /\ UNCHANGED <<queue, last>>

(* tx.send(event).await: it waits for room in the channel, and returns at  *)
(* once, with an error the task ignores, when the receiver is gone         *)
Emit(event) ==
  \/ /\ owner # "gone"
     /\ Len(queue) < Capacity
     /\ queue' = Append(queue, event)
     /\ last' = event
  \/ /\ owner = "gone"
     /\ UNCHANGED <<queue, last>>

SendRenewed ==
  /\ Goes("send_renewed", "sleeping")
  /\ Emit("Renewed")
  /\ SleepFor(ttl)
  /\ UNCHANGED <<mode, ttl, handle, life, rotations>>

(* Then watch_lease_events gives up and watch_lease_rotate rotates *)
SendError ==
  /\ Goes("send_error", IF mode = "events" THEN "send_expired" ELSE "rotating")
  /\ Emit("Error")
  /\ rotations' = IF mode = "rotate" THEN rotations + 1 ELSE rotations
  /\ UNCHANGED <<mode, sleep, ttl, attempt, handle, life>>

(* A variant of RotateOk: the loop goes on without the event.              *)
RotateOkSilent ==
  /\ Goes("rotating", "sleeping")
  /\ ttl' \in Ttls
  /\ life' = ttl'
  /\ rotations' = 0
  /\ SleepFor(ttl')
  /\ UNCHANGED <<mode, queue, handle, last>>

(* rotate_fn obtained a new lease *)
RotateOk ==
  /\ Goes("rotating", "send_rotated")
  /\ ttl' \in Ttls
  /\ life' = ttl'
  /\ rotations' = 0
  /\ UNCHANGED <<mode, sleep, attempt, queue, handle, last>>

SendRotated ==
  /\ Goes("send_rotated", "sleeping")
  /\ Emit("Rotated")
  /\ SleepFor(ttl)
  /\ UNCHANGED <<mode, ttl, handle, life, rotations>>

(* A variant of RotateErr: `for attempt in 0..=3`.                         *)
RotateErrInclusive ==
  /\ attempt' = attempt + 1
  /\ IF attempt' <= RotationAttempts
     THEN Goes("rotating", "backing_off") /\ sleep' = RotationBackoff(attempt')
     ELSE Goes("rotating", "send_expired") /\ UNCHANGED sleep
  /\ UNCHANGED <<mode, ttl, queue, handle, life, history>>

(* rotate_fn failed: back off, or give up after the last attempt *)
RotateErr ==
  /\ attempt' = attempt + 1
  /\ IF attempt' < RotationAttempts
     THEN Goes("rotating", "backing_off") /\ sleep' = RotationBackoff(attempt')
     ELSE Goes("rotating", "send_expired") /\ UNCHANGED sleep
  /\ UNCHANGED <<mode, ttl, queue, handle, life, history>>

RotateAgain ==
  /\ sleep = 0
  /\ Goes("backing_off", "rotating")
  /\ rotations' = rotations + 1
  /\ UNCHANGED <<mode, sleep, ttl, attempt, queue, handle, life, last>>

(* A variant of SendExpired: the loop goes on after the event.             *)
SendExpiredAndLoop ==
  /\ Goes("send_expired", "sleeping")
  /\ Emit("Expired")
  /\ SleepFor(ttl)
  /\ UNCHANGED <<mode, ttl, handle, life, rotations>>

SendExpired ==
  /\ Goes("send_expired", "done")
  /\ Emit("Expired")
  /\ UNCHANGED <<mode, sleep, ttl, attempt, handle, life, rotations>>

(* Where the task races its future against the cancellation *)
Racing == {"sleeping", "renewing", "rotating", "backing_off"}

(* A variant of Stop that sees the cancellation between sleeps only.       *)
StopWhenSleeping ==
  /\ cancelled
  /\ Goes("sleeping", "done")
  /\ UNCHANGED <<mode, sleep, ttl, attempt, queue, handle, life, history>>

(* select! and race_cancel: sleeps, renew_lease and rotate_fn race the     *)
(* cancellation; tx.send does not                                          *)
Stop ==
  /\ cancelled
  /\ pc \in Racing
  /\ pc' = "done"
  /\ UNCHANGED <<mode, sleep, ttl, attempt, queue, handle, life, history>>

(* `if let Some(Err(..))` takes a cancelled login for a done one: the loop *)
(* goes round, and the next sleep is cancelled                             *)
StopLogin ==
  /\ cancelled
  /\ Goes("logging_in", "sleeping")
  /\ SleepFor(ttl)
  /\ UNCHANGED <<mode, ttl, queue, handle, life, history>>

(* A caller renewed the token, logged in or called set_token: the daemon   *)
(* sleeps on for the token it read before                                  *)
ReplaceToken ==
  /\ mode = "token"
  /\ pc # "done"
  /\ ttl' \in Ttls
  /\ life' = ttl'
  /\ UNCHANGED <<mode, pc, sleep, attempt, queue, handle, history>>
-----------------------------------------------------------------------------
(* The owner of the handle.                                                *)

(* recv or try_recv, while the owner still has the watcher *)
Recv ==
  /\ owner = "holding"
  /\ queue # <<>>
  /\ queue' = Tail(queue)
  /\ UNCHANGED <<task, handle, life, history>>

(* shutdown(self): cancels, then awaits the task; the receiver lives on in *)
(* self, and nobody reads it                                               *)
Shutdown ==
  /\ owner = "holding"
  /\ owner' = "shutdown"
  /\ cancelled' = TRUE
  /\ UNCHANGED <<task, queue, life, history>>

(* handle.await returns and self is dropped *)
Joined ==
  /\ owner = "shutdown"
  /\ pc = "done"
  /\ owner' = "gone"
  /\ queue' = <<>>
  /\ UNCHANGED <<task, cancelled, life, history>>

(* A variant of DropHandle without `impl Drop`: the task is detached.      *)
DropDetached ==
  /\ owner = "holding"
  /\ owner' = "gone"
  /\ queue' = <<>>
  /\ UNCHANGED <<task, cancelled, life, history>>

(* impl Drop: cancels, and the receiver goes with the handle *)
DropHandle ==
  /\ owner = "holding"
  /\ owner' = "gone"
  /\ cancelled' = TRUE
  /\ queue' = <<>>
  /\ UNCHANGED <<task, life, history>>

Tick ==
  /\ sleep > 0 \/ life > 0
  /\ ~ (pc \in {"sleeping", "backing_off"} /\ sleep = 0)
  /\ ~ (pc \in Racing \cup {"logging_in"} /\ cancelled)
  /\ sleep' = IF pc \in {"sleeping", "backing_off"} THEN sleep - 1 ELSE sleep
  /\ life' = IF life > 0 THEN life - 1 ELSE 0
  /\ UNCHANGED <<mode, pc, ttl, attempt, queue, handle, history>>

Answer ==
  RenewOk \/ RenewedNothing \/ RenewErr \/ LoginOk \/ LoginErr \/ RotateOk \/ RotateErr
Send == SendRenewed \/ SendError \/ SendRotated \/ SendExpired

Next ==
  \/ Wake \/ RotateAgain \/ Stop \/ StopLogin
  \/ Answer \/ Send
  \/ Recv \/ Shutdown \/ Joined \/ DropHandle
  \/ ReplaceToken
  \/ Tick

Spec == Init /\ [][Next]_vars

(* Time passes, a ready task is polled, a call to Vault or rotate_fn ends, *)
(* and an owner that keeps the watcher keeps receiving.                    *)
Fairness ==
  /\ WF_vars(Tick)
  /\ WF_vars(Wake \/ RotateAgain)
  /\ WF_vars(Stop \/ StopLogin)
  /\ WF_vars(Answer)
  /\ WF_vars(Send)
  /\ WF_vars(Recv)
  /\ WF_vars(Joined)

FairSpec == Spec /\ Fairness
-----------------------------------------------------------------------------
(* Properties.                                                             *)

Events == {"Renewed", "Error", "Expired", "Rotated"}

(* Every variable has its type, and the channel never exceeds its size.    *)
TypeOK ==
  /\ mode \in {"token", "watch", "events", "rotate"}
  /\ pc \in {"sleeping", "renewing", "logging_in", "rotating", "backing_off", "send_renewed",
             "send_error", "send_rotated", "send_expired", "done"}
  /\ sleep \in Nat
  /\ ttl \in Ttls
  /\ attempt \in 0..RotationAttempts
  /\ queue \in Seq(Events)
  /\ Len(queue) <= Capacity
  /\ cancelled \in BOOLEAN
  /\ owner \in {"holding", "shutdown", "gone"}
  /\ life \in Nat
  /\ last \in Events \cup {"none"}
  /\ rotations \in Nat
  /\ owner # "holding" => cancelled

(* A failed renewal costs at most three rotate_fn calls, counted over the  *)
(* whole episode and not by the loop's own counter.                        *)
RotationBudget == rotations <= RotationAttempts

(* Expired is the last event and follows an Error: after it the task       *)
(* stops, and it never comes out of the blue or after a rotation that      *)
(* succeeded.                                                              *)
ExpiredIsFinal ==
  [][/\ last = "Expired" => last' = last
     /\ (last # "Expired" /\ last' = "Expired") => last = "Error"]_vars

(* Whoever matches on the events may rely on their order: an Error is      *)
(* resolved by one Rotated or one Expired before anything else is sent,    *)
(* whatever fails and however long the channel is full.                    *)
Stream == INSTANCE LeaseEvents WITH stream <- queue, open <- (owner # "gone")

ImplementsStream == Stream!Spec

(* A lease that lapses while its owner listens does not lapse silently: it *)
(* is renewed or rotated, or the task reports an error or ends, or the     *)
(* owner lets go.                                                          *)
LapseIsNoticed ==
  (mode # "token" /\ life = 0 /\ owner = "holding")
    ~> (life > 0 \/ last \in {"Error", "Expired"} \/ pc = "done" \/ owner # "holding")

(* start_token_renewal never gives up: whatever failed, and whoever        *)
(* replaced the token meanwhile, it renews again until it is cancelled.    *)
DaemonKeepsTrying ==
  (mode = "token" /\ pc # "renewing") ~> (pc = "renewing" \/ cancelled)

(* "The background task is cancelled when this handle is dropped": it ends *)
(* wherever it is, also when it waits for room in the channel.             *)
DropStopsTask == (owner = "gone") ~> (pc = "done")

(* shutdown() returns, unless the task is left waiting for room in a full  *)
(* channel that nobody reads any more: the cancellation reaches every      *)
(* other await of the three loops.                                         *)
ShutdownEndsUnlessFull ==
  (owner = "shutdown") ~> (owner = "gone" \/ Len(queue) = Capacity)

(* "Cancel the background task and wait for it to finish" (shutdown): the  *)
(* wait ends.                                                              *)
ShutdownEnds == (owner = "shutdown") ~> (owner = "gone")

(* "watches a specific lease and renews it before expiry" (watch_lease):   *)
(* when the task wakes to renew, the lease is still there.                 *)
RenewsBeforeExpiry == [][(pc = "sleeping" /\ pc' = "renewing") => life > 0]_vars

(* "The lease could not be renewed or rotated and has expired"             *)
(* (LeaseEvent::Expired).                                                  *)
ExpiredMeansExpired == [][(last # "Expired" /\ last' = "Expired") => life = 0]_vars
=============================================================================
