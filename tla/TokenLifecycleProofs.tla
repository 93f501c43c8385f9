------------------------ MODULE TokenLifecycleProofs ------------------------
(***************************************************************************)
(* What holds of the token lifecycle for every set of callers, auth        *)
(* method, lease and number of tokens.  IInv adds to the type invariant    *)
(* what the lock and the double check rely on: who renews holds the lock,  *)
(* who waits has seen a token, who announces has an auth block, a caller   *)
(* is unrefreshed only while the token is due and it has written none      *)
(* itself, a renewal is shared only while the token is not due, and only a *)
(* caller past ensure_valid_token has had its renewal confirmed.           *)
(***************************************************************************)
EXTENDS TokenLifecycle, TLAPS

UnrefreshedIsDue ==
  /\ unrefreshed # {} => Due
  /\ \A c \in unrefreshed : pc[c] \notin Announcing

WaitersHaveToken == \A c \in Callers : pc[c] = "waiting" => token # NoToken

AppliersHaveAuth == \A c \in Tasks : pc[c] \in Announcing => auth[c] \in AuthInfos

SharedIsGood == shared => ~ Due

ConfirmedArePast == \A c \in confirmed : pc[c] \in {"idle", "ready", "sent", "answered"}

IInv ==
  /\ TypeOK
  /\ OneRenewalAtATime
  /\ SharesRenewal
  /\ SharedIsGood
  /\ ConfirmedArePast
  /\ UnrefreshedIsDue
  /\ WaitersHaveToken
  /\ AppliersHaveAuth

(* What the assumption on the grants means for one of them.                *)
LEMMA GrantFacts ==
  /\ \A lease \in Leases : lease \in Nat
  /\ MaxTokens \in Nat
  /\ MaxTokens > 0
<1>1. Leases \subseteq Nat /\ MaxTokens \in Nat \ {0}
  BY GrantAssumption
<1>2. QED BY <1>1

(* Writing an AuthInfo leaves a token that is not NoToken, well typed and  *)
(* not due, and nobody unrefreshed.                                        *)
LEMMA WriteFacts ==
  ASSUME NEW a \in AuthInfos, Write(a)
  PROVE  /\ token' \in TokenStates
         /\ token'.left <= token'.lease
         /\ token' # NoToken
         /\ ~ Due'
         /\ unrefreshed' = {}
<1>1. a.value \in Values /\ a.lease \in Leases /\ a.renewable \in BOOLEAN
  BY DEF AuthInfos
<1>2. a.lease \in Nat /\ a.value \in 0..MaxTokens /\ a.value > 0
  BY <1>1, GrantFacts DEF Values
<1>3. /\ token' = [value |-> a.value, lease |-> a.lease, left |-> a.lease,
                   renewable |-> a.renewable]
      /\ unrefreshed' = {}
  BY DEF Write
<1>4. token' \in TokenStates
  BY <1>1, <1>2, <1>3 DEF TokenStates
<1>5. token'.left = a.lease /\ token'.lease = a.lease /\ token'.value = a.value
  BY <1>3
<1>6. token' # NoToken
  BY <1>2, <1>5 DEF NoToken
<1>7. ~ Due'
  BY <1>2, <1>5, <1>6 DEF Due, token_needs_renewal
<1>8. QED BY <1>2, <1>3, <1>4, <1>5, <1>6, <1>7

(* Time makes no due token good again.                                     *)
LEMMA TickFacts ==
  ASSUME token \in TokenStates, token.left <= token.lease, Tick
  PROVE  /\ token' \in TokenStates
         /\ token'.left <= token'.lease
         /\ token # NoToken
         /\ token' # NoToken
         /\ Due => Due'
<1>1. /\ token.value \in 0..MaxTokens /\ token.lease \in Leases \cup {0}
      /\ token.left \in Nat /\ token.renewable \in BOOLEAN
  BY DEF TokenStates
<1>2. token.lease \in Nat
  BY <1>1, GrantFacts
<1>3. token' = [value |-> token.value, lease |-> token.lease, left |-> token.left - 1,
               renewable |-> token.renewable]
      /\ token.left > 0
  BY DEF Tick, TokenStates
<1>4. token' \in TokenStates
  BY <1>1, <1>2, <1>3 DEF TokenStates
<1>5. token'.left = token.left - 1 /\ token'.lease = token.lease
  BY <1>3
<1>6. token # NoToken /\ token'.lease # 0
  BY <1>1, <1>2, <1>3, <1>5 DEF NoToken
<1>7. token' # NoToken
  BY <1>6 DEF NoToken
<1>8. Due => Due'
  BY <1>1, <1>2, <1>3, <1>5, <1>6 DEF Due, token_needs_renewal
<1>9. QED BY <1>2, <1>3, <1>4, <1>5, <1>6, <1>7, <1>8, <1>1
(* One task moves, and where it goes is a place.                           *)
LEMMA GoesFacts ==
  ASSUME pc \in [Tasks -> Places], NEW c \in Tasks, NEW from, NEW to \in Places,
         Goes(c, from, to)
  PROVE  /\ pc' \in [Tasks -> Places]
         /\ pc[c] = from
         /\ \A d \in Tasks : pc'[d] = IF d = c THEN to ELSE pc[d]
BY DEF Goes

(* Forgetting touches one task's request, and nothing an applier needs.    *)
LEMMA ForgetFacts ==
  ASSUME sent \in [Tasks -> 0..MaxTokens], auth \in [Tasks -> AuthInfos \cup {NoAuth}],
         NEW c \in Tasks, Forget(c)
  PROVE  /\ sent' \in [Tasks -> 0..MaxTokens]
         /\ auth' \in [Tasks -> AuthInfos \cup {NoAuth}]
         /\ \A d \in Tasks \ {c} : auth'[d] = auth[d]
BY GrantFacts DEF Forget

(* Renewing callers hold the lock before and after somebody lets go of it, *)
(* and whoever holds it afterwards held it before and is another task.     *)
LEMMA ReleaseFacts ==
  ASSUME renewal_lock \in Callers \cup {"free"}, NEW c \in Tasks, Release(c)
  PROVE  /\ renewal_lock' \in Callers \cup {"free"}
         /\ renewal_lock' # "free" => renewal_lock' = renewal_lock /\ renewal_lock' # c
         /\ \A d \in Callers \ {c} : renewal_lock = d => renewal_lock' = d
BY TaskAssumption DEF Release

(* The initial states satisfy the invariant.                               *)
LEMMA InitIInv == Init => IInv
<1> SUFFICES ASSUME Init PROVE IInv
  OBVIOUS
<1>1. token \in TokenStates /\ token.left <= token.lease /\ token.value \in 0..MaxTokens
  <2>1. PICK value \in {0, 1} :
          token = [value |-> value, lease |-> 0, left |-> 0, renewable |-> FALSE]
    BY DEF Init, NoToken
  <2>2. value \in 0..MaxTokens
    BY <2>1, GrantFacts
  <2>3. token \in TokenStates
    BY <2>1, <2>2 DEF TokenStates
  <2>4. token.left = 0 /\ token.lease = 0 /\ token.value = value
    BY <2>1
  <2>5. QED BY <2>2, <2>3, <2>4
<1>2. TypeOK
  <2>1. shared \in BOOLEAN
    BY DEF Init
  <2>2. QED BY <1>1, <2>1, GrantFacts DEF Init, TypeOK, Places, Values
<1>3. QED
  BY <1>2 DEF Init, IInv, OneRenewalAtATime, SharesRenewal, SharedIsGood,
              ConfirmedArePast, UnrefreshedIsDue, WaitersHaveToken, AppliersHaveAuth, Renewing, Announcing, Tasks

(* Every step keeps it.                                                     *)
LEMMA NextIInv == IInv /\ [Next]_vars => IInv'
<1> SUFFICES ASSUME IInv, [Next]_vars PROVE IInv'
  OBVIOUS
<1> USE DEF IInv, TypeOK, OneRenewalAtATime, SharesRenewal, SharedIsGood, ConfirmedArePast,
            UnrefreshedIsDue, WaitersHaveToken, AppliersHaveAuth, Renewing, LoggingIn, Announcing, history
<1>a. Callers \subseteq Tasks /\ "free" \notin Callers
  BY TaskAssumption DEF Tasks
<1>b. \A place \in {"idle", "waiting", "ready", "sent", "login_sent", "answered", "renew",
                   "renewing", "renewed", "reauth", "login_handler", "logged_in",
                   "applied_again"} : place \in Places
  BY DEF Places
<1>1. CASE Tick
  BY <1>1, TickFacts DEF Tick
<1>2. CASE set_token
  <2>1. /\ token' \in TokenStates /\ token'.left <= token'.lease
        /\ token' # NoToken /\ ~ Due'
    <3>1. issued + 1 \in 1..MaxTokens
      BY <1>2, GrantFacts DEF set_token
    <3>2. token' = [value |-> issued + 1, lease |-> 0, left |-> 0, renewable |-> FALSE]
      BY <1>2 DEF set_token
    <3>3. token' \in TokenStates
      BY <3>1, <3>2 DEF TokenStates
    <3>4. token'.left = 0 /\ token'.lease = 0 /\ token'.value = issued + 1
      BY <3>2
    <3>5. token' # NoToken
      BY <3>1, <3>4 DEF NoToken
    <3>6. QED BY <3>3, <3>4, <3>5 DEF Due, token_needs_renewal
  <2>2. issued' \in 0..MaxTokens
    BY <1>2, GrantFacts DEF set_token
  <2>3. QED BY <1>2, <2>1, <2>2 DEF set_token
<1>3. CASE Wake
  <2>1. Daemon \in Tasks /\ Daemon \notin Callers
    BY TaskAssumption DEF Tasks
  <2>2. Goes(Daemon, "idle", "renew")
    BY <1>3 DEF Wake
  <2>3. QED BY <1>3, <1>a, <1>b, <2>1, <2>2, GoesFacts DEF Wake, Due
<1>4. ASSUME NEW c \in Callers, Begin(c) PROVE IInv'
  <2>1. CASE BeginLogin(c)
    BY <2>1, <1>a, <1>b, GoesFacts DEF BeginLogin, Due
  <2>2. ASSUME NEW next \in {"waiting", "reauth", "ready"}, BeginCall(c, next),
               next = "waiting" => token # NoToken
        PROVE  IInv'
    <3>1. Goes(c, "idle", next)
      BY <2>2 DEF BeginCall
    <3>2. unrefreshed' \subseteq Callers
      BY <2>2 DEF BeginCall
    <3>3. UnrefreshedIsDue'
      BY <2>2, <3>1, <1>a, <1>b, GoesFacts DEF BeginCall, Due
    <3>4. QED BY <2>2, <3>1, <3>2, <3>3, <1>a, <1>b, GoesFacts DEF BeginCall, Due
  <2>3. token.renewable => token # NoToken
    BY DEF NoToken
  <2>4. QED BY <1>4, <2>1, <2>2, <2>3 DEF Begin, BeginRenew, BeginReAuth, BeginReady
<1>5. ASSUME NEW c \in Callers, TakeLock(c) PROVE IInv'
  <2>1. CASE Goes(c, "waiting", "renew") /\ renewal_lock' = c
    BY <1>5, <2>1, <1>a, <1>b, GoesFacts DEF TakeLock, Due
  <2>2. CASE Goes(c, "waiting", "ready") /\ UNCHANGED renewal_lock
    BY <1>5, <2>2, <1>a, <1>b, GoesFacts DEF TakeLock, Due
  <2>3. QED BY <1>5, <2>1, <2>2 DEF TakeLock
<1>6. ASSUME NEW c \in Callers, Send(c) PROVE IInv'
  <2>1. sent' \in [Tasks -> 0..MaxTokens]
    BY <1>6 DEF Send, TokenStates
  <2>2. QED BY <1>6, <2>1, <1>a, <1>b, GoesFacts DEF Send, Due
<1>7. ASSUME NEW c \in Callers, Answer(c) PROVE IInv'
  <2>1. PICK from \in {"sent", "login_sent"} : Goes(c, from, "idle")
    BY <1>7 DEF Answer
  <2>2. QED BY <1>7, <2>1, <1>a, <1>b, GoesFacts, ForgetFacts DEF Answer, Due
<1>8. ASSUME NEW c \in Callers, AnnounceAnswer(c) PROVE IInv'
  <2>1. announced' \subseteq Values
    BY <1>8, <1>a DEF AnnounceAnswer, Announce, AuthInfos, Goes
  <2>2. QED BY <1>8, <2>1, <1>a, <1>b, GoesFacts, ForgetFacts DEF AnnounceAnswer, Due
<1>9. ASSUME NEW c \in Tasks, NEW a \in AuthInfos,
             NEW from \in {"renewing", "reauth", "sent", "login_sent"},
             NEW to \in {"renewed", "login_handler", "answered"},
             \/ from = "renewing" /\ to = "renewed"
             \/ from = "reauth" /\ to = "login_handler"
             \/ from \in {"sent", "login_sent"} /\ to = "answered",
             Goes(c, from, to),
             auth' = [auth EXCEPT ![c] = a], Write(a), issued' \in 0..MaxTokens,
             shared' \in BOOLEAN,
             shared' => shared \/ (to = "renewed" /\ c \in Callers),
             UNCHANGED <<renewal_lock, sent, announced, confirmed>>
      PROVE  IInv'
  <2>1. /\ auth' \in [Tasks -> AuthInfos \cup {NoAuth}]
        /\ auth'[c] = a
        /\ \A d \in Tasks \ {c} : auth'[d] = auth[d]
    BY <1>9
  <2>2. SharesRenewal'
    <3> SUFFICES ASSUME shared', NEW d \in Callers, pc'[d] \in {"renew", "renewing"}
                 PROVE  FALSE
      OBVIOUS
    <3>1. d # c /\ pc[d] \in {"renew", "renewing"}
      BY <1>9, <1>a, <1>b, GoesFacts
    <3>2. CASE shared
      BY <3>1, <3>2
    <3>3. CASE from = "renewing" /\ c \in Callers
      BY <1>9, <1>a, <1>b, <3>1, <3>3, GoesFacts
    <3>4. QED BY <1>9, <3>2, <3>3
  <2>3. QED BY <1>9, <2>1, <2>2, <1>a, <1>b, GoesFacts, WriteFacts
<1>10. ASSUME NEW c \in Callers, AnswerWithAuth(c) PROVE IInv'
  <2>1. PICK value \in Values, lease \in Leases, renewable \in BOOLEAN :
          LET a == [value |-> value, lease |-> lease, renewable |-> renewable]
          IN  /\ \/ Goes(c, "sent", "answered") /\ value = sent[c] /\ issued' = issued
                 \/ Goes(c, "login_sent", "answered") /\ value = issued + 1 /\ issued' = value
              /\ auth' = [auth EXCEPT ![c] = a]
              /\ Write(a)
    BY <1>10 DEF AnswerWithAuth
  <2> DEFINE a == [value |-> value, lease |-> lease, renewable |-> renewable]
  <2>2. a \in AuthInfos
    BY <2>1 DEF AuthInfos
  <2>3. issued' \in 0..MaxTokens
    BY <2>1, GrantFacts DEF Values
  <2>4. PICK from \in {"sent", "login_sent"} : Goes(c, from, "answered")
    BY <2>1
  <2>5. auth' = [auth EXCEPT ![c] = a] /\ Write(a)
    BY <2>1
  <2>6. UNCHANGED <<renewal_lock, sent, announced, confirmed, shared>>
    BY <1>10 DEF AnswerWithAuth
  <2> HIDE DEF a
  <2>7. QED BY <2>2, <2>3, <2>4, <2>5, <2>6, <1>9, <1>a
<1>11. ASSUME NEW c \in Tasks, Renewed(c) PROVE IInv'
  <2>1. PICK lease \in Leases, renewable \in BOOLEAN :
          LET a == [value |-> sent[c], lease |-> lease, renewable |-> renewable]
          IN  auth' = [auth EXCEPT ![c] = a] /\ Write(a)
    BY <1>11 DEF Renewed
  <2> DEFINE a == [value |-> sent[c], lease |-> lease, renewable |-> renewable]
  <2>2. sent[c] \in Values
    BY <1>11, GrantFacts DEF Renewed, Values
  <2>3. a \in AuthInfos
    BY <2>1, <2>2 DEF AuthInfos
  <2>4. auth' = [auth EXCEPT ![c] = a] /\ Write(a)
    BY <2>1
  <2>5. /\ Goes(c, "renewing", "renewed") /\ shared' = (shared \/ c \in Callers)
        /\ UNCHANGED <<renewal_lock, sent, issued, announced, confirmed>>
    BY <1>11 DEF Renewed
  <2> HIDE DEF a
  <2>6. QED BY <2>3, <2>4, <2>5, <1>9
<1>12. ASSUME NEW c \in Tasks, LoggedIn(c) PROVE IInv'
  <2>1. PICK lease \in Leases, renewable \in BOOLEAN :
          LET a == [value |-> issued + 1, lease |-> lease, renewable |-> renewable]
          IN  auth' = [auth EXCEPT ![c] = a] /\ Write(a)
    BY <1>12 DEF LoggedIn
  <2> DEFINE a == [value |-> issued + 1, lease |-> lease, renewable |-> renewable]
  <2>2. issued + 1 \in Values /\ issued' \in 0..MaxTokens
    BY <1>12, GrantFacts DEF LoggedIn, Values
  <2>3. a \in AuthInfos
    BY <2>1, <2>2 DEF AuthInfos
  <2>4. auth' = [auth EXCEPT ![c] = a] /\ Write(a)
    BY <2>1
  <2>5. /\ Goes(c, "reauth", "login_handler")
        /\ UNCHANGED <<renewal_lock, sent, announced, confirmed, shared>>
    BY <1>12 DEF LoggedIn
  <2> HIDE DEF a
  <2>6. QED BY <2>2, <2>3, <2>4, <2>5, <1>9
<1>13. ASSUME NEW c \in Tasks, RenewFailed(c) PROVE IInv'
  <2>1. CASE Goes(c, "renewing", "reauth") /\ UNCHANGED renewal_lock
    BY <1>13, <2>1, <1>a, <1>b, GoesFacts, ForgetFacts DEF RenewFailed, Due
  <2>2. CASE Goes(c, "renewing", "idle") /\ Release(c)
    BY <1>13, <2>2, <1>a, <1>b, GoesFacts, ForgetFacts, ReleaseFacts DEF RenewFailed, Due
  <2>3. QED BY <1>13, <2>1, <2>2 DEF RenewFailed
<1>14. ASSUME NEW c \in Tasks, LoginFailed(c) PROVE IInv'
  BY <1>14, <1>a, <1>b, GoesFacts, ForgetFacts, ReleaseFacts DEF LoginFailed, Due
<1>15. ASSUME NEW c \in Tasks, RenewedNothing(c) PROVE IInv'
  <2>1. Proceed(c) \in {"idle", "ready"}
    BY DEF Proceed
  <2>2. QED BY <1>15, <2>1, <1>a, <1>b, GoesFacts, ForgetFacts, ReleaseFacts
            DEF RenewedNothing, Due
<1>16. ASSUME NEW c \in Tasks, SendRenew(c) PROVE IInv'
  <2>1. sent' \in [Tasks -> 0..MaxTokens]
    BY <1>16 DEF SendRenew, TokenStates
  <2>2. QED BY <1>16, <2>1, <1>a, <1>b, GoesFacts DEF SendRenew, Due
<1>17. ASSUME NEW c \in Tasks, AnnounceRenewal(c) \/ AnnounceAgain(c) PROVE IInv'
  <2>1. PICK from \in {"renewed", "applied_again"} : Goes(c, from, Proceed(c))
    BY <1>17 DEF AnnounceRenewal, AnnounceAgain
  <2>2. Proceed(c) \in {"idle", "ready"}
    BY DEF Proceed
  <2>3. announced' \subseteq Values
    BY <1>17, <2>1 DEF AnnounceRenewal, AnnounceAgain, Announce, AuthInfos, Goes
  <2>4. QED BY <1>17, <2>1, <2>2, <2>3, <1>a, <1>b, GoesFacts, ForgetFacts, ReleaseFacts
            DEF AnnounceRenewal, AnnounceAgain, Due
<1>18. ASSUME NEW c \in Tasks, AnnounceLogin(c) PROVE IInv'
  <2>1. announced' \subseteq Values
    BY <1>18 DEF AnnounceLogin, Announce, AuthInfos, Goes
  <2>2. QED BY <1>18, <2>1, <1>a, <1>b, GoesFacts DEF AnnounceLogin, Due
<1>19. ASSUME NEW c \in Tasks, ApplyAgain(c) PROVE IInv'
  <2>1. auth[c] \in AuthInfos
    BY <1>19 DEF ApplyAgain, Goes
  <2>2. Write(auth[c]) /\ Goes(c, "logged_in", "applied_again")
    BY <1>19 DEF ApplyAgain
  <2>3. QED BY <1>19, <2>1, <2>2, <1>a, <1>b, GoesFacts, WriteFacts DEF ApplyAgain
<1>20. ASSUME NEW c \in Tasks, Cancel(c) PROVE IInv'
  <2>1. PICK from \in Places \ Announcing : Goes(c, from, "idle")
    BY <1>20, <1>b DEF Cancel, Goes
  <2>2. QED BY <1>20, <2>1, <1>a, <1>b, GoesFacts, ForgetFacts, ReleaseFacts DEF Cancel, Due
<1>21. CASE UNCHANGED vars
  BY <1>21 DEF vars, Due
<1>22. ASSUME NEW c \in Tasks, RenewReply(c) \/ LoginReply(c) \/ Run(c) \/ Cancel(c)
       PROVE  IInv'
  BY <1>11, <1>12, <1>13, <1>14, <1>15, <1>16, <1>17, <1>18, <1>19, <1>20, <1>22
     DEF RenewReply, LoginReply, Run
<1>23. ASSUME NEW c \in Callers,
              Begin(c) \/ TakeLock(c) \/ Send(c) \/ Reply(c) \/ AnnounceAnswer(c)
       PROVE  IInv'
  BY <1>4, <1>5, <1>6, <1>7, <1>8, <1>10, <1>23 DEF Reply
<1>24. QED BY <1>1, <1>2, <1>3, <1>21, <1>22, <1>23 DEF Next

(* So it holds in every reachable state.                                   *)
LEMMA InvariantHolds == Spec => []IInv
BY InitIInv, NextIInv, PTL DEF Spec

(* The variables keep their types, and the mutex belongs to a caller       *)
(* inside ensure_valid_token or to nobody, whatever failed or was dropped. *)
THEOREM TypeCorrect == Spec => []TypeOK
<1>1. IInv => TypeOK
  BY DEF IInv
<1>2. QED BY <1>1, InvariantHolds, PTL

(* A caller with a renewal under way holds the renewal lock.               *)
THEOREM RenewalsAreExclusive == Spec => []OneRenewalAtATime
<1>1. IInv => OneRenewalAtATime
  BY DEF IInv
<1>2. QED BY <1>1, InvariantHolds, PTL

(* Callers near expiry share one renewal: when one of them has a token     *)
(* from Vault, nobody who waited with it renews again before that token,   *)
(* or its successor, is due.                                               *)
THEOREM RenewalsAreShared == Spec => []SharesRenewal
<1>1. IInv => SharesRenewal
  BY DEF IInv
<1>2. QED BY <1>1, InvariantHolds, PTL

(* With an auth method, no call reaches its request on a due token that    *)
(* nobody has replaced since the call began, unless Vault has answered its *)
(* own renewal with success.                                               *)
THEOREM CallsUseFreshTokens == Spec => RefreshedBeforeUse
<1> DEFINE Fresh ==
      \A c \in Callers :
        (pc[c] # "ready" /\ pc'[c] = "ready")
          => c \notin unrefreshed' \/ c \in confirmed'
<1>1. IInv /\ [Next]_vars => [Fresh]_vars
  <2> SUFFICES ASSUME IInv, Next, NEW c \in Callers, pc[c] # "ready", pc'[c] = "ready"
               PROVE  c \notin unrefreshed' \/ c \in confirmed'
    OBVIOUS
  <2> USE DEF IInv, TypeOK, Goes, history
  <2>1. c # Daemon /\ c \in Tasks
    BY TaskAssumption DEF Tasks
  <2>2. CASE Tick \/ set_token \/ Wake
    BY <2>1, <2>2 DEF Tick, set_token, Wake
  <2>3. ASSUME NEW d \in Callers,
               Begin(d) \/ TakeLock(d) \/ Send(d) \/ Reply(d) \/ AnnounceAnswer(d)
        PROVE  c \notin unrefreshed'
    <3>1. CASE BeginReady(d)
      BY <2>1, <3>1 DEF BeginReady, BeginCall, UnrefreshedIsDue
    <3>2. CASE TakeLock(d)
      BY <2>1, <3>2 DEF TakeLock, UnrefreshedIsDue, WaitersHaveToken, Due
    <3>3. QED BY <2>1, <2>3, <3>1, <3>2 DEF Begin, BeginRenew, BeginReAuth, BeginLogin,
              BeginCall, Send, Reply, Answer, AnswerWithAuth, AnnounceAnswer
  <2>4. ASSUME NEW d \in Tasks, RenewReply(d) \/ LoginReply(d) \/ Run(d) \/ Cancel(d)
        PROVE  c \notin unrefreshed' \/ c \in confirmed'
    <3>1. d = c /\ (RenewedNothing(c) \/ AnnounceRenewal(c) \/ AnnounceAgain(c))
      BY <2>1, <2>4 DEF RenewReply, Renewed, RenewedNothing, RenewFailed, LoginReply,
         LoggedIn, LoginFailed, Run, SendRenew, AnnounceRenewal, AnnounceLogin,
         ApplyAgain, AnnounceAgain, Cancel, Proceed
    <3>2. QED BY <3>1 DEF RenewedNothing, AnnounceRenewal, AnnounceAgain,
                      UnrefreshedIsDue, Announcing
  <2>5. QED BY <2>2, <2>3, <2>4 DEF Next
<1>2. QED BY <1>1, InvariantHolds, PTL DEF Spec, RefreshedBeforeUse

(* The token in use, if a login or a renewal wrote it, was announced, or   *)
(* a task is about to announce it.                                         *)
THEOREM AnnouncementsAreComplete == Spec => []TokenIsAnnounced
<1>1. Init => TokenIsAnnounced
  <2>1. ASSUME Init PROVE token.lease = 0
    BY <2>1 DEF Init, NoToken
  <2>2. QED BY <2>1 DEF TokenIsAnnounced
<1>2. IInv /\ TokenIsAnnounced /\ [Next]_vars => TokenIsAnnounced'
  <2> SUFFICES ASSUME IInv, TokenIsAnnounced, [Next]_vars, token'.lease > 0
               PROVE  \/ token'.value \in announced'
                      \/ \E c \in Tasks : pc'[c] \in Announcing /\ auth'[c].value = token'.value
    BY DEF TokenIsAnnounced, Announcing
  <2> USE DEF IInv, TypeOK, Goes, history, Announcing
  <2>0. Callers \subseteq Tasks
    BY DEF Tasks
  <2>1. CASE Tick
    BY <2>1, TickFacts DEF Tick, TokenIsAnnounced
  <2>2. CASE set_token
    BY <2>2 DEF set_token
  <2>3. ASSUME NEW c \in Tasks, NEW a, auth' = [auth EXCEPT ![c] = a], Write(a),
               pc'[c] \in Announcing
        PROVE  \E d \in Tasks : pc'[d] \in Announcing /\ auth'[d].value = token'.value
    BY <2>3 DEF Write
  <2>4. ASSUME NEW c \in Tasks, Renewed(c) \/ LoggedIn(c) \/ (c \in Callers /\ AnswerWithAuth(c))
        PROVE  \E d \in Tasks : pc'[d] \in Announcing /\ auth'[d].value = token'.value
    <3>1. pc'[c] \in Announcing
      BY <2>4 DEF Renewed, LoggedIn, AnswerWithAuth
    <3>2. PICK a : auth' = [auth EXCEPT ![c] = a] /\ Write(a)
      BY <2>4 DEF Renewed, LoggedIn, AnswerWithAuth
    <3>3. QED BY <2>3, <3>1, <3>2
  <2>5. ASSUME NEW c \in Tasks, ApplyAgain(c)
        PROVE  \E d \in Tasks : pc'[d] \in Announcing /\ auth'[d].value = token'.value
    BY <2>5 DEF ApplyAgain, Write
  <2>6. ASSUME UNCHANGED token, announced \subseteq announced',
               \A d \in Tasks : pc[d] \in Announcing =>
                 \/ auth[d].value \in announced'
                 \/ pc'[d] \in Announcing /\ auth'[d] = auth[d]
        PROVE  \/ token'.value \in announced'
               \/ \E d \in Tasks : pc'[d] \in Announcing /\ auth'[d].value = token'.value
    BY <2>6 DEF TokenIsAnnounced
  <2>7. ASSUME NEW c \in Tasks,
               \/ AnnounceRenewal(c) \/ AnnounceLogin(c) \/ AnnounceAgain(c)
               \/ AnnounceAnswer(c)
        PROVE  \/ token'.value \in announced'
               \/ \E d \in Tasks : pc'[d] \in Announcing /\ auth'[d].value = token'.value
    <3>1. /\ UNCHANGED token
          /\ announced' = announced \cup {auth[c].value}
          /\ \A d \in Tasks \ {c} : pc'[d] = pc[d] /\ auth'[d] = auth[d]
      BY <2>7 DEF AnnounceRenewal, AnnounceLogin, AnnounceAgain, AnnounceAnswer,
                  Announce, Forget
    <3>2. QED BY <2>6, <3>1
  <2>8. CASE Wake
    BY <2>6, <2>8 DEF Wake
  <2>9. ASSUME NEW c \in Callers,
               Begin(c) \/ TakeLock(c) \/ Send(c) \/ Answer(c)
        PROVE  /\ UNCHANGED <<token, announced>>
               /\ \A d \in Tasks : pc[d] \in Announcing => pc'[d] \in Announcing /\ auth'[d] = auth[d]
    BY <2>9, <2>0 DEF Begin, BeginRenew, BeginReAuth, BeginReady, BeginLogin, BeginCall,
       TakeLock, Send, Answer, Forget
  <2>10. ASSUME NEW c \in Tasks,
                RenewedNothing(c) \/ RenewFailed(c) \/ LoginFailed(c) \/ SendRenew(c) \/ Cancel(c)
         PROVE  /\ UNCHANGED <<token, announced>>
                /\ \A d \in Tasks : pc[d] \in Announcing => pc'[d] \in Announcing /\ auth'[d] = auth[d]
    BY <2>10 DEF RenewedNothing, RenewFailed, LoginFailed, SendRenew, Cancel, Forget
  <2>11. CASE UNCHANGED vars
    BY <2>6, <2>11 DEF vars
  <2>12. QED
    BY <2>0, <2>1, <2>2, <2>4, <2>5, <2>6, <2>7, <2>8, <2>9, <2>10, <2>11
       DEF Next, Reply, RenewReply, LoginReply, Run
<1>3. QED BY <1>1, <1>2, InvariantHolds, PTL DEF Spec

(* The steps a caller has left of its call, by where it is.                *)
StepsLeft(c) ==
  CASE pc[c] = "idle" -> 0
    [] pc[c] = "answered" -> 1
    [] pc[c] \in {"sent", "login_sent"} -> 2
    [] pc[c] = "ready" -> 3
    [] pc[c] \in {"renewed", "applied_again"} -> 4
    [] pc[c] = "logged_in" -> 5
    [] pc[c] = "login_handler" -> 6
    [] pc[c] = "reauth" -> 7
    [] pc[c] = "renewing" -> 8
    [] pc[c] = "renew" -> 9
    [] pc[c] = "waiting" -> 10

(* What makes CallsEnd true, and it only adds the fairness to: a caller    *)
(* that has begun only moves on, at most ten times; who has the renewal    *)
(* lock does not wait for it, keeps it until it leaves ensure_valid_token  *)
(* and leaves it free; and it is taken from nobody.                        *)
CallAdvances(c) ==
  /\ StepsLeft(c) \in 0..10
  /\ pc[c] # "idle" /\ pc'[c] # pc[c] => StepsLeft(c)' < StepsLeft(c)

LockPasses(c) ==
  /\ renewal_lock = c =>
       /\ StepsLeft(c) \in 4..9
       /\ \/ renewal_lock' = c /\ pc'[c] \in Renewing \cup LoggingIn
          \/ renewal_lock' = "free" /\ pc'[c] \in {"ready", "idle"}
  /\ renewal_lock # c /\ renewal_lock' = c => renewal_lock = "free" /\ pc[c] = "waiting"

CallsAdvance == [][\A c \in Callers : CallAdvances(c) /\ LockPasses(c)]_vars

(* Each caller comes nearer to its end with every step it takes, and the   *)
(* lock with it to the next in the queue.                                  *)
THEOREM CallersAdvance == Spec => CallsAdvance
<1> DEFINE Advance == \A c \in Callers : CallAdvances(c) /\ LockPasses(c)
<1>1. IInv /\ Next => Advance
  <2> SUFFICES ASSUME IInv, Next, NEW c \in Callers PROVE CallAdvances(c) /\ LockPasses(c)
    OBVIOUS
  <2> USE DEF IInv, TypeOK, Goes, Places, Renewing, LoggingIn
  <2>0. c # Daemon /\ c \in Tasks /\ c # "free"
    BY TaskAssumption DEF Tasks
  <2>1. StepsLeft(c) \in 0..10 /\ (renewal_lock = c => StepsLeft(c) \in 4..9)
    <3>1. pc[c] \in Places
      BY <2>0
    <3>2. renewal_lock = c => pc[c] \in Renewing \cup LoggingIn
      BY <2>0
    <3>3. pc[c] \in Places => StepsLeft(c) \in 0..10
      BY DEF StepsLeft
    <3>4. pc[c] \in Renewing \cup LoggingIn => StepsLeft(c) \in 4..9
      BY DEF StepsLeft
    <3>5. QED BY <3>1, <3>2, <3>3, <3>4
  <2>2. ASSUME pc'[c] = pc[c], renewal_lock' = renewal_lock
        PROVE  CallAdvances(c) /\ LockPasses(c)
    BY <2>0, <2>1, <2>2 DEF CallAdvances, LockPasses
  <2>3. CASE Tick \/ set_token \/ Wake
    <3>1. pc'[c] = pc[c] /\ renewal_lock' = renewal_lock
      BY <2>0, <2>3 DEF Tick, set_token, Wake
    <3>2. QED BY <2>2, <3>1
  <2>4. ASSUME NEW d \in Tasks, d # c,
               \/ /\ d \in Callers
                  /\ Begin(d) \/ TakeLock(d) \/ Send(d) \/ Reply(d) \/ AnnounceAnswer(d)
               \/ RenewReply(d) \/ LoginReply(d) \/ Run(d) \/ Cancel(d)
        PROVE  CallAdvances(c) /\ LockPasses(c)
    <3>1. pc'[c] = pc[c]
      BY <2>0, <2>4 DEF Begin, BeginRenew, BeginReAuth, BeginReady, BeginLogin, BeginCall,
         TakeLock, Send, Reply, Answer, AnswerWithAuth, AnnounceAnswer,
         RenewReply, Renewed, RenewedNothing, RenewFailed, LoginReply, LoggedIn, LoginFailed,
         Run, SendRenew, AnnounceRenewal, AnnounceLogin, ApplyAgain, AnnounceAgain, Cancel
    <3>2. renewal_lock = c <=> renewal_lock' = c
      BY <2>0, <2>4 DEF Begin, BeginRenew, BeginReAuth, BeginReady, BeginLogin, BeginCall,
         TakeLock, Send, Reply, Answer, AnswerWithAuth, AnnounceAnswer,
         RenewReply, Renewed, RenewedNothing, RenewFailed, LoginReply, LoggedIn, LoginFailed,
         Run, SendRenew, AnnounceRenewal, AnnounceLogin, ApplyAgain, AnnounceAgain, Cancel,
         Release
    <3>3. QED BY <2>0, <2>1, <3>1, <3>2 DEF CallAdvances, LockPasses
  <2>5. CASE Begin(c)
    <3>1. pc[c] = "idle" /\ renewal_lock' = renewal_lock
      BY <2>5 DEF Begin, BeginRenew, BeginReAuth, BeginReady, BeginLogin, BeginCall
    <3>2. QED BY <2>0, <2>1, <3>1 DEF CallAdvances, LockPasses
  <2>6. CASE TakeLock(c)
    <3>1. /\ pc[c] = "waiting" /\ pc'[c] \in {"renew", "ready"} /\ renewal_lock = "free"
      BY <2>0, <2>6 DEF TakeLock
    <3>2. StepsLeft(c) = 10 /\ StepsLeft(c)' \in {3, 9}
      BY <3>1 DEF StepsLeft
    <3>3. QED BY <2>0, <2>1, <3>1, <3>2 DEF CallAdvances, LockPasses
  <2>7. ASSUME Send(c) \/ Reply(c) \/ AnnounceAnswer(c)
        PROVE  CallAdvances(c) /\ LockPasses(c)
    <3>1. /\ renewal_lock' = renewal_lock
          /\ \/ pc[c] = "ready" /\ pc'[c] = "sent"
             \/ pc[c] \in {"sent", "login_sent"} /\ pc'[c] \in {"answered", "idle"}
             \/ pc[c] = "answered" /\ pc'[c] = "idle"
      BY <2>0, <2>7 DEF Send, Reply, Answer, AnswerWithAuth, AnnounceAnswer
    <3>2. renewal_lock # c
      BY <2>0, <3>1
    <3>3. StepsLeft(c)' < StepsLeft(c)
      BY <3>1 DEF StepsLeft
    <3>4. QED BY <2>1, <3>1, <3>2, <3>3 DEF CallAdvances, LockPasses
  <2>8. ASSUME \/ RenewedNothing(c) \/ AnnounceRenewal(c) \/ AnnounceAgain(c)
               \/ LoginFailed(c) \/ Cancel(c) \/ (RenewFailed(c) /\ ~ HasAuthMethod)
        PROVE  CallAdvances(c) /\ LockPasses(c)
    <3>1. /\ renewal_lock' = IF renewal_lock = c THEN "free" ELSE renewal_lock
          /\ pc[c] \notin {"idle", "answered", "ready"} /\ pc'[c] \in {"ready", "idle"}
          /\ pc'[c] = "ready" => pc[c] \in {"renewing", "renewed", "applied_again"}
      BY <2>0, <2>8 DEF RenewedNothing, AnnounceRenewal, AnnounceAgain, LoginFailed, Cancel,
                        RenewFailed, Release, Proceed
    <3>2. StepsLeft(c)' < StepsLeft(c)
      BY <2>0, <3>1 DEF StepsLeft
    <3>3. QED BY <2>0, <2>1, <3>1, <3>2 DEF CallAdvances, LockPasses
  <2>9. ASSUME \/ SendRenew(c) \/ Renewed(c) \/ (RenewFailed(c) /\ HasAuthMethod)
               \/ LoggedIn(c) \/ AnnounceLogin(c) \/ ApplyAgain(c)
        PROVE  CallAdvances(c) /\ LockPasses(c)
    <3>1. /\ renewal_lock' = renewal_lock
          /\ \/ pc[c] = "renew" /\ pc'[c] = "renewing"
             \/ pc[c] = "renewing" /\ pc'[c] \in {"renewed", "reauth"}
             \/ pc[c] = "reauth" /\ pc'[c] = "login_handler"
             \/ pc[c] = "login_handler" /\ pc'[c] = "logged_in"
             \/ pc[c] = "logged_in" /\ pc'[c] = "applied_again"
      BY <2>0, <2>9 DEF SendRenew, Renewed, RenewFailed, LoggedIn, AnnounceLogin, ApplyAgain
    <3>2. StepsLeft(c)' < StepsLeft(c)
      BY <3>1 DEF StepsLeft
    <3>3. QED BY <2>0, <2>1, <3>1, <3>2 DEF CallAdvances, LockPasses
  <2>10. Callers \subseteq Tasks
    BY DEF Tasks
  <2>11. QED
    BY <2>3, <2>4, <2>5, <2>6, <2>7, <2>8, <2>9, <2>10
       DEF Next, RenewReply, LoginReply, Run
<1>2. IInv /\ [Next]_vars => [Advance]_vars
  BY <1>1
<1>3. QED BY <1>2, InvariantHolds, PTL DEF Spec, CallsAdvance
=============================================================================
