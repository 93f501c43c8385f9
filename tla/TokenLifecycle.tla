--------------------------- MODULE TokenLifecycle ---------------------------
(***************************************************************************)
(* The client's token and everything that replaces it (async_client.rs):   *)
(* ensure_valid_token in front of every call but a login, the renewal_lock *)
(* that callers queue on, renew_token_via_api, try_re_authenticate,        *)
(* set_token, the on_token_changed callback, and the background daemon,    *)
(* which renews without the lock.                                          *)
(*                                                                         *)
(* Tasks run on several threads.  A step runs from one await, or one       *)
(* access to the shared token, to the next; the callback runs after the    *)
(* token's RwLock is released, in a step of its own.  A call to Vault      *)
(* (execute_raw with its retries) is two steps, the sending and the reply, *)
(* and Vault is external: it grants a new token at each login, extends the *)
(* one a renew-self carries, or answers with an error.                     *)
(***************************************************************************)
EXTENDS Integers, FiniteSets

CONSTANTS Callers,        \* tasks that use the client
          Daemon,         \* the task of start_token_renewal
          Wrapped,        \* the tasks whose client or view has a wrap TTL: Vault
                          \* wraps their responses, which then have no auth block
          HasAuthMethod,  \* ClientBuilder::auth_method was called
          Leases,         \* bound: the lease durations Vault grants, in ticks;
                          \* 0: the token does not expire
          MaxTokens       \* bound: how many tokens there are

ASSUME TaskAssumption ==
  /\ Daemon \notin Callers
  /\ "free" \notin Callers
  /\ Wrapped \subseteq Callers \cup {Daemon}
  /\ HasAuthMethod \in BOOLEAN
ASSUME GrantAssumption ==
  /\ Leases \subseteq Nat
  /\ MaxTokens \in Nat \ {0}

VARIABLES
  token,          \* VaultClientInner::token
  renewal_lock,   \* the task that holds the mutex, or "free"
  pc,             \* where each task is
  sent,           \* the token in the header of the request under way; 0: none
  auth,           \* the AuthInfo the task is applying
  issued          \* tokens there have been so far

VARIABLES       \* history
  announced,    \* the tokens on_token_changed was called with
  unrefreshed,  \* the callers whose call began with a token due for renewal
                \* (or none) that no task has replaced since
  confirmed,    \* the callers whose own renew-self, in their present call, was
                \* answered with success but without a token
  shared        \* the last renewal by a caller brought a token, and none has
                \* been due since

history == <<announced, unrefreshed, confirmed, shared>>
vars == <<token, renewal_lock, pc, sent, auth, issued, announced, unrefreshed,
          confirmed, shared>>

Tasks == Callers \cup {Daemon}
Values == 1..MaxTokens
NoToken == [value |-> 0, lease |-> 0, left |-> 0, renewable |-> FALSE]

(* TokenState: left is expires_at - now; a token without an expiry has     *)
(* lease 0.                                                                *)
TokenStates ==
  [value : 0..MaxTokens, lease : Leases \cup {0}, left : Nat, renewable : BOOLEAN]

(* The auth block of a response.                                           *)
AuthInfos == [value : Values, lease : Leases, renewable : BOOLEAN]
NoAuth == [value |-> 0, lease |-> 0, renewable |-> FALSE]

(* now + 20% of the lease >= expires_at; never, without an expiry          *)
token_needs_renewal(t) == t.lease > 0 /\ 5 * t.left <= t.lease

Due == token = NoToken \/ token_needs_renewal(token)

(* The task's request is over, and what it held of it *)
Forget(c) ==
  /\ sent' = [sent EXCEPT ![c] = 0]
  /\ auth' = [auth EXCEPT ![c] = NoAuth]

Goes(c, from, to) ==
  /\ pc[c] = from
  /\ pc' = [pc EXCEPT ![c] = to]
-----------------------------------------------------------------------------
(* Writing the token.                                                      *)

(* update_token_from_auth, up to its drop(guard)                           *)
Write(a) ==
  /\ token' = [value |-> a.value, lease |-> a.lease, left |-> a.lease,
               renewable |-> a.renewable]
  /\ unrefreshed' = {}

(* A variant of Announce that reads the token back from the shared state.  *)
AnnounceCurrent(c) == announced' = announced \cup {token.value}

(* update_token_from_auth, the callback                                    *)
Announce(c) == announced' = announced \cup {auth[c].value}

(* VaultClient::set_token, called by the application                       *)
set_token ==
  /\ issued < MaxTokens
  /\ issued' = issued + 1
  /\ token' = [value |-> issued + 1, lease |-> 0, left |-> 0, renewable |-> FALSE]
  /\ unrefreshed' = {}
  /\ UNCHANGED <<renewal_lock, pc, sent, auth, announced, confirmed, shared>>

Tick ==
  /\ token.left > 0
  /\ token' = [token EXCEPT !.left = @ - 1]
  /\ shared' = (shared /\ ~ Due')
  /\ UNCHANGED <<renewal_lock, pc, sent, auth, issued, announced, unrefreshed, confirmed>>
-----------------------------------------------------------------------------
(* ensure_valid_token.                                                     *)

Release(c) == renewal_lock' = IF renewal_lock = c THEN "free" ELSE renewal_lock

(* Where a task goes when its token is as good as it gets: a caller sends  *)
(* its request, the daemon sleeps again.                                   *)
Proceed(c) == IF c = Daemon THEN "idle" ELSE "ready"

(* A call begins: execute reads the token and decides *)
BeginCall(c, next) ==
  /\ Goes(c, "idle", next)
  /\ unrefreshed' = IF Due /\ HasAuthMethod
                    THEN unrefreshed \cup {c} ELSE unrefreshed \ {c}
  /\ confirmed' = confirmed \ {c}
  /\ UNCHANGED <<token, renewal_lock, sent, auth, issued, announced, shared>>

(* Action::Renew *)
BeginRenew(c) ==
  /\ token_needs_renewal(token) /\ token.renewable
  /\ BeginCall(c, "waiting")

(* Action::ReAuth *)
BeginReAuth(c) ==
  /\ Due /\ ~ token.renewable
  /\ HasAuthMethod
  /\ BeginCall(c, "reauth")

(* Action::Ok: a good token, or nothing to get one with *)
BeginReady(c) ==
  /\ ~ Due \/ (~ token.renewable /\ ~ HasAuthMethod)
  /\ BeginCall(c, "ready")

(* A login endpoint skips the token lifecycle *)
BeginLogin(c) ==
  /\ Goes(c, "idle", "login_sent")
  /\ confirmed' = confirmed \ {c}
  /\ UNCHANGED <<token, renewal_lock, sent, auth, issued, announced, unrefreshed, shared>>

(* A variant of TakeLock that does not look again.                         *)
TakeLockUnchecked(c) ==
  /\ renewal_lock = "free"
  /\ Goes(c, "waiting", "renew")
  /\ renewal_lock' = c
  /\ UNCHANGED <<token, sent, auth, issued, history>>

(* A variant of TakeLock without the mutex.                                *)
TakeNoLock(c) ==
  /\ IF token # NoToken /\ token_needs_renewal(token)
     THEN Goes(c, "waiting", "renew")
     ELSE Goes(c, "waiting", "ready")
  /\ UNCHANGED <<token, renewal_lock, sent, auth, issued, history>>

(* renewal_lock.lock().await, then the second look at the token *)
TakeLock(c) ==
  /\ renewal_lock = "free"
  /\ IF token # NoToken /\ token_needs_renewal(token)
     THEN Goes(c, "waiting", "renew") /\ renewal_lock' = c
     ELSE Goes(c, "waiting", "ready") /\ UNCHANGED renewal_lock
  /\ UNCHANGED <<token, sent, auth, issued, history>>

(* The daemon's sleep is over: renew_token_now, without the lock *)
Wake ==
  /\ Goes(Daemon, "idle", "renew")
  /\ UNCHANGED <<token, renewal_lock, sent, auth, issued, history>>

(* renew_token_via_api: inject_headers reads the token again *)
SendRenew(c) ==
  /\ Goes(c, "renew", "renewing")
  /\ sent' = [sent EXCEPT ![c] = token.value]
  /\ UNCHANGED <<token, renewal_lock, auth, issued, history>>

(* The reply extends the token the request carried *)
Renewed(c) ==
  /\ c \notin Wrapped
  /\ sent[c] > 0
  /\ Goes(c, "renewing", "renewed")
  /\ \E lease \in Leases, renewable \in BOOLEAN :
       LET a == [value |-> sent[c], lease |-> lease, renewable |-> renewable]
       IN  auth' = [auth EXCEPT ![c] = a] /\ Write(a)
  /\ shared' = (shared \/ c \in Callers)
  /\ UNCHANGED <<renewal_lock, sent, issued, announced, confirmed>>

(* A reply without an auth block, as every wrapped one and the body of a   *)
(* 404 are: Ok for whoever asked, nothing written                          *)
RenewedNothing(c) ==
  /\ Goes(c, "renewing", Proceed(c))
  /\ confirmed' = confirmed \cup (Callers \cap {c})
  /\ Release(c)
  /\ Forget(c)
  /\ UNCHANGED <<token, issued, announced, unrefreshed, shared>>

(* A variant of AnnounceRenewal: renewals are not announced.               *)
SkipAnnouncement(c) ==
  /\ Goes(c, "renewed", Proceed(c))
  /\ Release(c)
  /\ Forget(c)
  /\ UNCHANGED <<token, issued, history>>

(* The callback after a renewal, still under the renewal lock *)
AnnounceRenewal(c) ==
  /\ Goes(c, "renewed", Proceed(c))
  /\ Announce(c)
  /\ Release(c)
  /\ Forget(c)
  /\ UNCHANGED <<token, issued, unrefreshed, confirmed, shared>>

(* A variant of RenewFailed: the error goes straight to the caller.        *)
RenewFailedPlain(c) ==
  /\ Goes(c, "renewing", Proceed(c))
  /\ Release(c)
  /\ Forget(c)
  /\ UNCHANGED <<token, issued, history>>

(* A failed renewal falls back to re-authentication, still under the lock; *)
(* without an auth method the error ends the call.                         *)
RenewFailed(c) ==
  /\ IF HasAuthMethod
     THEN Goes(c, "renewing", "reauth") /\ UNCHANGED renewal_lock
     ELSE Goes(c, "renewing", "idle") /\ Release(c)
  /\ Forget(c)
  /\ UNCHANGED <<token, issued, history>>
-----------------------------------------------------------------------------
(* try_re_authenticate: the login handler applies the response, and        *)
(* try_re_authenticate applies what the handler returned once more.        *)

LoggedIn(c) ==
  /\ c \notin Wrapped
  /\ issued < MaxTokens
  /\ issued' = issued + 1
  /\ Goes(c, "reauth", "login_handler")
  /\ \E lease \in Leases, renewable \in BOOLEAN :
       LET a == [value |-> issued + 1, lease |-> lease, renewable |-> renewable]
       IN  auth' = [auth EXCEPT ![c] = a] /\ Write(a)
  /\ UNCHANGED <<renewal_lock, sent, announced, confirmed, shared>>

AnnounceLogin(c) ==
  /\ Goes(c, "login_handler", "logged_in")
  /\ Announce(c)
  /\ UNCHANGED <<token, renewal_lock, sent, auth, issued, unrefreshed, confirmed, shared>>

ApplyAgain(c) ==
  /\ Goes(c, "logged_in", "applied_again")
  /\ Write(auth[c])
  /\ UNCHANGED <<renewal_lock, sent, auth, issued, announced, confirmed, shared>>

AnnounceAgain(c) ==
  /\ Goes(c, "applied_again", Proceed(c))
  /\ Announce(c)
  /\ Release(c)
  /\ Forget(c)
  /\ UNCHANGED <<token, issued, unrefreshed, confirmed, shared>>

(* A variant of LoginFailed: the lock outlives the failed call.            *)
LoginFailedHolding(c) ==
  /\ Goes(c, "reauth", "idle")
  /\ Forget(c)
  /\ UNCHANGED <<token, renewal_lock, issued, history>>

(* An error, or a wrapped response (EmptyResponse): the call ends with it *)
LoginFailed(c) ==
  /\ Goes(c, "reauth", "idle")
  /\ Release(c)
  /\ Forget(c)
  /\ UNCHANGED <<token, issued, history>>
-----------------------------------------------------------------------------
(* The call itself.                                                        *)

(* execute_raw, with the token of this moment in the header *)
Send(c) ==
  /\ Goes(c, "ready", "sent")
  /\ sent' = [sent EXCEPT ![c] = token.value]
  /\ UNCHANGED <<token, renewal_lock, auth, issued, history>>

(* The reply, or the error, of a call that leaves the token alone; also    *)
(* the errors of renew_self and login                                      *)
Answer(c) ==
  /\ Goes(c, "sent", "idle") \/ Goes(c, "login_sent", "idle")
  /\ Forget(c)
  /\ UNCHANGED <<token, renewal_lock, issued, history>>

(* renew_self, and the application's own login, apply the auth block *)
AnswerWithAuth(c) ==
  /\ c \notin Wrapped
  /\ \E value \in Values, lease \in Leases, renewable \in BOOLEAN :
       LET a == [value |-> value, lease |-> lease, renewable |-> renewable]
       IN  /\ \/ Goes(c, "sent", "answered") /\ value = sent[c] /\ issued' = issued
              \/ Goes(c, "login_sent", "answered") /\ value = issued + 1 /\ issued' = value
           /\ auth' = [auth EXCEPT ![c] = a]
           /\ Write(a)
  /\ UNCHANGED <<renewal_lock, sent, announced, confirmed, shared>>

AnnounceAnswer(c) ==
  /\ Goes(c, "answered", "idle")
  /\ Announce(c)
  /\ Forget(c)
  /\ UNCHANGED <<token, renewal_lock, issued, unrefreshed, confirmed, shared>>

(* A variant of Cancel: the mutex stays with the dropped future.           *)
CancelHolding(c) ==
  /\ pc[c] \in {"waiting", "renewing", "reauth", "sent", "login_sent"}
  /\ pc' = [pc EXCEPT ![c] = "idle"]
  /\ Forget(c)
  /\ UNCHANGED <<token, renewal_lock, issued, history>>

(* The task's future is dropped at one of its awaits; the mutex guard goes *)
(* with it.  The daemon is stopped in the same way, and may be started     *)
(* again.                                                                  *)
Cancel(c) ==
  /\ pc[c] \in {"waiting", "renewing", "reauth", "sent", "login_sent"}
  /\ pc' = [pc EXCEPT ![c] = "idle"]
  /\ Release(c)
  /\ Forget(c)
  /\ UNCHANGED <<token, issued, history>>
-----------------------------------------------------------------------------
Init ==
  /\ \/ token = NoToken
     \/ token = [value |-> 1, lease |-> 0, left |-> 0, renewable |-> FALSE]
  /\ renewal_lock = "free"
  /\ pc = [c \in Tasks |-> "idle"]
  /\ sent = [c \in Tasks |-> 0]
  /\ auth = [c \in Tasks |-> NoAuth]
  /\ issued = token.value
  /\ announced = {}
  /\ unrefreshed = {}
  /\ confirmed = {}
  /\ shared = FALSE

Begin(c) == BeginRenew(c) \/ BeginReAuth(c) \/ BeginReady(c) \/ BeginLogin(c)

RenewReply(c) == Renewed(c) \/ RenewedNothing(c) \/ RenewFailed(c)
LoginReply(c) == LoggedIn(c) \/ LoginFailed(c)
Reply(c) == Answer(c) \/ AnswerWithAuth(c)

(* What a task does by itself, between the replies of Vault *)
Run(c) ==
  \/ SendRenew(c) \/ AnnounceRenewal(c)
  \/ AnnounceLogin(c) \/ ApplyAgain(c) \/ AnnounceAgain(c)

Next ==
  \/ Tick \/ set_token \/ Wake
  \/ \E c \in Callers :
       Begin(c) \/ TakeLock(c) \/ Send(c) \/ Reply(c) \/ AnnounceAnswer(c)
  \/ \E c \in Tasks : RenewReply(c) \/ LoginReply(c) \/ Run(c) \/ Cancel(c)

(* Tasks are scheduled, Vault answers or the request times out, and the    *)
(* mutex is fair: tokio::sync::Mutex serves its waiters in order, so one   *)
(* that waits while the lock is free again and again gets it.              *)
Fairness ==
  \A c \in Tasks :
    /\ WF_vars(Run(c) \/ RenewReply(c) \/ LoginReply(c))
    /\ c \in Callers => SF_vars(TakeLock(c)) /\ WF_vars(Send(c) \/ Reply(c) \/ AnnounceAnswer(c))

Spec == Init /\ [][Next]_vars

FairSpec == Spec /\ Fairness
-----------------------------------------------------------------------------
(* Properties.                                                             *)

Renewing == {"renew", "renewing", "renewed"}
LoggingIn == {"reauth", "login_handler", "logged_in", "applied_again"}
Places == {"idle", "waiting", "ready", "sent", "login_sent", "answered"}
            \cup Renewing \cup LoggingIn

(* Every variable has its type, and the renewal lock belongs to a caller   *)
(* inside ensure_valid_token: a call that failed or was dropped has left   *)
(* it.                                                                     *)
TypeOK ==
  /\ token \in TokenStates
  /\ token.left <= token.lease
  /\ renewal_lock \in Callers \cup {"free"}
  /\ pc \in [Tasks -> Places]
  /\ sent \in [Tasks -> 0..MaxTokens]
  /\ auth \in [Tasks -> AuthInfos \cup {NoAuth}]
  /\ issued \in 0..MaxTokens
  /\ announced \subseteq Values
  /\ unrefreshed \subseteq Callers
  /\ confirmed \subseteq Callers
  /\ shared \in BOOLEAN
  /\ renewal_lock # "free" => pc[renewal_lock] \in Renewing \cup LoggingIn

(* Callers that renew hold the renewal lock, so at most one of them has a  *)
(* renew-self under way, whatever failed or was cancelled before.          *)
OneRenewalAtATime ==
  \A c \in Callers : pc[c] \in Renewing => renewal_lock = c

(* "Concurrent callers near expiry share a single renew-self call"         *)
(* (ensure_valid_token): once a caller's renewal has brought a token,      *)
(* nobody who waited behind it, or begins after it, renews again until the *)
(* token is due again.                                                     *)
SharesRenewal ==
  shared => \A c \in Callers : pc[c] \notin {"renew", "renewing"}

(* With an auth method, a call that began with a due token (or none) gets  *)
(* to its request only after some task has replaced the token, or after    *)
(* Vault has answered its own renewal with success, which the code takes   *)
(* for one whether or not there is a token in it; else it fails.           *)
RefreshedBeforeUse ==
  [][\A c \in Callers :
       (pc[c] # "ready" /\ pc'[c] = "ready")
         => c \notin unrefreshed' \/ c \in confirmed']_vars

(* The same without that trust: "the client will automatically             *)
(* re-authenticate when the token nears expiry or is missing"              *)
(* (ClientBuilder::auth_method).                                           *)
AlwaysRefreshed ==
  [][\A c \in Callers :
       (pc[c] # "ready" /\ pc'[c] = "ready") => c \notin unrefreshed']_vars

(* Where a task is about to call on_token_changed, at least once           *)
Announcing == {"renewed", "login_handler", "logged_in", "applied_again", "answered"}

(* on_token_changed misses no token: the one in use, if a renewal or a     *)
(* login wrote it, was announced, or a task is about to announce it.       *)
TokenIsAnnounced ==
  token.lease > 0 =>
    \/ token.value \in announced
    \/ \E c \in Tasks :
         /\ pc[c] \in Announcing
         /\ auth[c].value = token.value

(* What the rest of the client sees of all this: whoever asks for a token  *)
(* is served by whichever task replaces it first, or keeps what it has on  *)
(* Vault's word, and every token that a task installs is handed to         *)
(* on_token_changed, whoever has overwritten it meanwhile.                 *)
Phase(c) ==
  CASE pc[c] = "idle" -> "away"
    [] pc[c] \in {"ready", "sent", "login_sent", "answered"} ->
         IF c \in confirmed THEN "trusted" ELSE "served"
    [] OTHER -> IF c \in unrefreshed THEN "needy" ELSE "asking"

Owed == {auth[c].value : c \in {d \in Tasks : pc[d] \in Announcing}}

Service == INSTANCE TokenService WITH
  current <- token.value,
  owed <- Owed,
  phase <- [c \in Callers |-> Phase(c)]

ImplementsService == Service!Spec

(* Every call ends, although callers queue on one mutex while its holder   *)
(* waits for Vault, fails, logs in again or is cancelled.                  *)
CallsEnd == \A c \in Callers : (pc[c] # "idle") ~> (pc[c] = "idle")

(* "Replace the current token at runtime" (set_token): a token that the    *)
(* application installed (it has no lease) is not replaced by the late     *)
(* reply to the renewal of an older token.                                 *)
SetTokenSticks ==
  [][\A c \in Tasks :
       (pc[c] = "renewing" /\ pc'[c] = "renewed" /\ token.lease = 0)
         => token'.value = token.value]_vars
=============================================================================
