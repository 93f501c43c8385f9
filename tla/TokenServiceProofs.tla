------------------------- MODULE TokenServiceProofs -------------------------
(***************************************************************************)
(* The token lifecycle implements TokenService, for every set of callers,  *)
(* auth method, lease and number of tokens: with the invariant of          *)
(* TokenLifecycleProofs, every step of a caller, the daemon, the clock or  *)
(* the application is one step of the service or none.                     *)
(***************************************************************************)
EXTENDS TokenLifecycleProofs

UsingPlaces == {"ready", "sent", "login_sent", "answered"}
AskingPlaces == {"waiting"} \cup Renewing \cup LoggingIn

(* The three kinds of places that Phase tells apart.                       *)
LEMMA PhaseFacts ==
  ASSUME NEW c
  PROVE  /\ pc[c] = "idle" => Phase(c) = "away"
         /\ pc[c] \in UsingPlaces
              => Phase(c) = IF c \in confirmed THEN "trusted" ELSE "served"
         /\ pc[c] \in AskingPlaces
              => Phase(c) = IF c \in unrefreshed THEN "needy" ELSE "asking"
BY DEF Phase, UsingPlaces, AskingPlaces, Renewing, LoggingIn

LEMMA PhaseFactsNext ==
  ASSUME NEW c
  PROVE  /\ pc'[c] = "idle" => Phase(c)' = "away"
         /\ pc'[c] \in UsingPlaces
              => Phase(c)' = IF c \in confirmed' THEN "trusted" ELSE "served"
         /\ pc'[c] \in AskingPlaces
              => Phase(c)' = IF c \in unrefreshed' THEN "needy" ELSE "asking"
BY DEF Phase, UsingPlaces, AskingPlaces, Renewing, LoggingIn

LEMMA PlaceFacts ==
  /\ \A place : place \in Places <=>
                   place = "idle" \/ place \in UsingPlaces \/ place \in AskingPlaces
  /\ \A place \in UsingPlaces : place # "idle" /\ place \notin AskingPlaces
  /\ \A place \in AskingPlaces : place # "idle" /\ place \notin UsingPlaces
  /\ Announcing \subseteq AskingPlaces \cup {"answered"}
BY DEF Places, UsingPlaces, AskingPlaces, Renewing, LoggingIn, Announcing

(* What a task owes, when one task moves and the others do not.            *)
LEMMA OwedFacts ==
  ASSUME NEW c \in Tasks,
         \A d \in Tasks \ {c} : pc'[d] = pc[d] /\ auth'[d] = auth[d]
  PROVE  /\ pc[c] \notin Announcing /\ pc'[c] \notin Announcing => Owed' = Owed
         /\ pc[c] \in Announcing /\ pc'[c] \in Announcing /\ auth'[c] = auth[c] => Owed' = Owed
         /\ pc[c] \notin Announcing /\ pc'[c] \in Announcing
              => Owed' = Owed \cup {auth'[c].value}
         /\ pc[c] \in Announcing
              => /\ auth[c].value \in Owed
                 /\ pc'[c] \notin Announcing
                      => Owed' = Owed \/ Owed' = Owed \ {auth[c].value}
<1>1. ASSUME NEW v
      PROVE  v \in Owed <=> \E d \in Tasks : pc[d] \in Announcing /\ v = auth[d].value
  BY DEF Owed
<1>2. ASSUME NEW v
      PROVE  v \in Owed' <=> \E d \in Tasks : pc'[d] \in Announcing /\ v = auth'[d].value
  BY DEF Owed
<1>3. CASE pc[c] \notin Announcing /\ pc'[c] \notin Announcing
  <2>1. ASSUME NEW v PROVE v \in Owed' <=> v \in Owed
    BY <1>1, <1>2, <1>3
  <2> QED BY <1>3, <2>1 DEF Owed
<1>4. CASE pc[c] \in Announcing /\ pc'[c] \in Announcing
  <2>1. ASSUME auth'[c] = auth[c], NEW v PROVE v \in Owed' <=> v \in Owed
    BY <1>1, <1>2, <1>4, <2>1
  <2>2. auth[c].value \in Owed
    BY <1>1, <1>4
  <2> QED BY <1>4, <2>1, <2>2 DEF Owed
<1>5. CASE pc[c] \notin Announcing /\ pc'[c] \in Announcing
  <2>1. ASSUME NEW v PROVE v \in Owed' <=> v \in Owed \cup {auth'[c].value}
    BY <1>1, <1>2, <1>5
  <2> QED BY <1>5, <2>1 DEF Owed
<1>6. CASE pc[c] \in Announcing /\ pc'[c] \notin Announcing
  <2> DEFINE w == auth[c].value
  <2>1. w \in Owed
    BY <1>1, <1>6
  <2>2. ASSUME NEW v PROVE (v \in Owed' => v \in Owed) /\ (v \in Owed /\ v # w => v \in Owed')
    BY <1>1, <1>2, <1>6
  <2> HIDE DEF w
  <2>3. Owed' = Owed \/ Owed' = Owed \ {w}
    <3>1. CASE w \in Owed'
      <4>1. ASSUME NEW v PROVE v \in Owed' <=> v \in Owed
        BY <2>1, <2>2, <3>1
      <4> QED BY <4>1 DEF Owed
    <3>2. CASE w \notin Owed'
      <4>1. ASSUME NEW v PROVE v \in Owed' <=> v \in Owed \ {w}
        BY <2>1, <2>2, <3>2
      <4> QED BY <4>1 DEF Owed
    <3> QED BY <3>1, <3>2
  <2> QED BY <1>6, <2>1, <2>3 DEF w
<1> QED BY <1>3, <1>4, <1>5, <1>6

(* One caller changes its phase, and nobody else does.                     *)
LEMMA MoveFacts ==
  ASSUME NEW c \in Callers, \A d \in Callers \ {c} : Phase(d)' = Phase(d)
  PROVE  Service!Move(c, Phase(c), Phase(c)')
BY DEF Service!Move

LEMMA OthersStay ==
  ASSUME NEW d, pc'[d] = pc[d], d \in unrefreshed' <=> d \in unrefreshed,
         d \in confirmed' <=> d \in confirmed,
         pc[d] \in Places
  PROVE  Phase(d)' = Phase(d)
BY PhaseFacts, PhaseFactsNext, PlaceFacts

(* A step of one task that writes no token and announces none: the service *)
(* sees its caller's phase move, or nothing.                               *)
LEMMA TaskMoves ==
  ASSUME IInv, NEW c \in Tasks, NEW from \in Places, NEW to \in Places,
         Goes(c, from, to), UNCHANGED <<token, announced, unrefreshed>>,
         \A d \in Tasks \ {c} : auth'[d] = auth[d],
         \A d \in Tasks \ {c} : d \in confirmed' <=> d \in confirmed,
         from \notin Announcing, to \notin Announcing
  PROVE  /\ UNCHANGED <<token.value, Owed, announced>>
         /\ c \in Callers => Service!Move(c, Phase(c), Phase(c)')
         /\ (c \notin Callers \/ Phase(c)' = Phase(c)) => UNCHANGED Service!vars
<1>1. /\ pc'[c] = to /\ pc[c] = from /\ \A d \in Tasks \ {c} : pc'[d] = pc[d]
      /\ \A d \in Tasks : pc[d] \in Places
  BY GoesFacts DEF IInv, TypeOK
<1>2. Owed' = Owed
  BY <1>1, OwedFacts
<1>3. \A d \in Callers \ {c} : Phase(d)' = Phase(d)
  BY <1>1, OthersStay DEF Tasks
<1> QED BY <1>2, <1>3, MoveFacts DEF Service!vars

(* A token is written: the task keeps to the kind of place it is in, and   *)
(* everybody who was needy no longer is.                                   *)
LEMMA WriteReplaces ==
  ASSUME IInv, pc' \in [Tasks -> Places], unrefreshed' = {}, announced' = announced,
         confirmed' = confirmed, NEW v, token'.value = v,
         \A d \in Callers : /\ pc'[d] = "idle" <=> pc[d] = "idle"
                            /\ pc'[d] \in UsingPlaces <=> pc[d] \in UsingPlaces
  PROVE  Service!Replace(v)
<1>1. ASSUME NEW d \in Callers
      PROVE  Phase(d)' = IF Phase(d) = "needy" THEN "asking" ELSE Phase(d)
  <2>1. pc[d] \in Places /\ pc'[d] \in Places
    BY DEF IInv, TypeOK, Tasks
  <2>2. CASE pc[d] = "idle"
    BY <2>2, PhaseFacts, PhaseFactsNext
  <2>3. CASE pc[d] \in UsingPlaces
    BY <2>3, PhaseFacts, PhaseFactsNext
  <2>4. CASE pc[d] \in AskingPlaces
    <3>1. pc'[d] \in AskingPlaces
      BY <2>1, <2>4, PlaceFacts
    <3> QED BY <2>4, <3>1, PhaseFacts, PhaseFactsNext
  <2> QED BY <2>1, <2>2, <2>3, <2>4, PlaceFacts
<1> QED BY <1>1 DEF Service!Replace

(* A task that has an auth block writes it and will announce it.           *)
LEMMA TaskInstalls ==
  ASSUME IInv, NEW c \in Tasks, NEW from \in Places, NEW to \in Announcing,
         Goes(c, from, to), NEW a \in AuthInfos, Write(a),
         UNCHANGED <<announced, confirmed>>,
         auth' = [auth EXCEPT ![c] = a],
         from \notin Announcing \/ auth[c] = a,
         from \in AskingPlaces <=> to \in AskingPlaces, from # "idle"
  PROVE  Service!Next
<1>1. to \in Places /\ to # "idle" /\ (to \in UsingPlaces <=> from \in UsingPlaces)
  <2>1. to \in Places /\ to # "idle"
    BY PlaceFacts DEF UsingPlaces
  <2>2. \A place \in Places \ {"idle"} : place \in UsingPlaces <=> place \notin AskingPlaces
    BY PlaceFacts
  <2> QED BY <2>1, <2>2
<1>2. /\ pc' \in [Tasks -> Places]
      /\ pc'[c] = to /\ pc[c] = from /\ \A d \in Tasks \ {c} : pc'[d] = pc[d]
  BY <1>1, GoesFacts DEF IInv, TypeOK
<1>3. auth'[c] = a /\ \A d \in Tasks \ {c} : auth'[d] = auth[d]
  BY DEF IInv, TypeOK
<1>4. Owed' = Owed \cup {a.value}
  BY <1>2, <1>3, OwedFacts
<1>5. token'.value = a.value /\ unrefreshed' = {} /\ a.value \in Values
  BY DEF Write, AuthInfos
<1>6. Service!Replace(a.value)
  BY <1>1, <1>2, <1>5, WriteReplaces DEF Tasks
<1> QED BY <1>4, <1>5, <1>6 DEF Service!Next, Service!Install

(* A task announces what it wrote, and goes on to its next place.          *)
LEMMA TaskAnnounces ==
  ASSUME IInv, NEW c \in Tasks, NEW from \in Announcing, NEW to \in Places,
         Goes(c, from, to), Announce(c), UNCHANGED <<token, unrefreshed, confirmed>>,
         \A d \in Tasks \ {c} : auth'[d] = auth[d],
         to \in Announcing => auth'[c] = auth[c],
         \/ from \in AskingPlaces /\ to \in AskingPlaces
         \/ to = "idle"
         \/ to \in UsingPlaces /\ from \in AskingPlaces
  PROVE  Service!Next
<1>1. /\ pc'[c] = to /\ pc[c] = from /\ \A d \in Tasks \ {c} : pc'[d] = pc[d]
      /\ \A d \in Tasks : pc[d] \in Places
  BY GoesFacts DEF IInv, TypeOK
<1> DEFINE v == auth[c].value
<1>2. v \in Owed /\ v \in Values /\ announced' = announced \cup {v}
  <2>1. auth[c] \in AuthInfos
    BY <1>1 DEF IInv, AppliersHaveAuth
  <2>2. v \in Owed
    BY <1>1, OwedFacts
  <2> QED BY <2>1, <2>2 DEF AuthInfos, Announce
<1>3. Owed' = Owed \/ Owed' = Owed \ {v}
  BY <1>1, OwedFacts
<1> HIDE DEF v
<1>4. \A d \in Callers \ {c} : Phase(d)' = Phase(d)
  BY <1>1, OthersStay DEF Tasks
<1>5. CASE c \notin Callers
  <2>1. [d \in Callers |-> Phase(d)]' = [d \in Callers |-> Phase(d)]
    BY <1>4, <1>5
  <2> QED BY <1>2, <1>3, <2>1 DEF Service!Next, Service!Announce
<1>6. CASE c \in Callers
  <2>1. Service!Move(c, Phase(c), Phase(c)')
    BY <1>4, <1>6, MoveFacts
  <2>2. c \notin unrefreshed
    BY <1>1 DEF IInv, UnrefreshedIsDue
  <2>3. CASE from \in AskingPlaces /\ to \in AskingPlaces
    <3>1. Phase(c)' = Phase(c)
      BY <1>1, <2>3, PhaseFacts, PhaseFactsNext
    <3>2. [d \in Callers |-> Phase(d)]' = [d \in Callers |-> Phase(d)]
      BY <1>4, <3>1
    <3> QED BY <1>2, <1>3, <3>2 DEF Service!Next, Service!Announce
  <2>4. CASE to = "idle"
    <3>1. Phase(c)' = "away"
      BY <1>1, <2>4, PhaseFactsNext
    <3>2. Phase(c) \in {"asking", "served", "trusted"}
      BY <1>1, <2>2, PhaseFacts, PlaceFacts
    <3>3. Service!Leaves(c)
      BY <2>1, <3>1, <3>2 DEF Service!Leaves, Service!Phases
    <3> QED BY <1>2, <1>3, <1>6, <3>3 DEF Service!Next, Service!Announce
  <2>5. CASE to \in UsingPlaces /\ from \in AskingPlaces
    <3>0. c \notin confirmed'
      BY <1>1, <2>5 DEF IInv, ConfirmedArePast, AskingPlaces, Renewing, LoggingIn
    <3>1. Phase(c)' = "served" /\ Phase(c) = "asking"
      BY <1>1, <2>2, <2>5, <3>0, PhaseFacts, PhaseFactsNext
    <3>2. Service!Serves(c)
      BY <2>1, <3>1 DEF Service!Serves
    <3> QED BY <1>2, <1>3, <1>6, <3>2 DEF Service!Next, Service!Announce
  <2> QED BY <2>3, <2>4, <2>5
<1> QED BY <1>5, <1>6

(* A task leaves off with an error or is dropped: its caller goes home.    *)
LEMMA TaskLeaves ==
  ASSUME IInv, NEW c \in Tasks, NEW from \in Places, from # "idle", from \notin Announcing,
         Goes(c, from, "idle"), Forget(c), UNCHANGED <<token, announced, unrefreshed, confirmed>>
  PROVE  [Service!Next]_(Service!vars)
<1>1. pc[c] = from /\ pc'[c] = "idle" /\ "idle" \in Places \ Announcing
  BY GoesFacts, PlaceFacts DEF IInv, TypeOK, Announcing
<1>2. \A d \in Tasks \ {c} : auth'[d] = auth[d]
  BY ForgetFacts DEF IInv, TypeOK
<1>3. /\ UNCHANGED <<token.value, Owed, announced>>
      /\ c \in Callers => Service!Move(c, Phase(c), Phase(c)')
      /\ c \notin Callers => UNCHANGED Service!vars
  BY <1>1, <1>2, TaskMoves
<1>4. CASE c \in Callers
  <2>1. Phase(c)' = "away" /\ Phase(c) \in Service!Phases \ {"away"}
    BY <1>1, PhaseFacts, PhaseFactsNext, PlaceFacts DEF Service!Phases
  <2> QED BY <1>3, <1>4, <2>1 DEF Service!Next, Service!Leave, Service!Leaves
<1> QED BY <1>3, <1>4

(* A caller begins a call: it asks, or needs nothing.                      *)
LEMMA CallerBegins ==
  ASSUME IInv, NEW c \in Callers, Begin(c)
  PROVE  Service!Next
<1>1. c \in Tasks /\ {"waiting", "reauth", "ready", "login_sent"} \subseteq Places \ Announcing
  BY DEF Tasks, Places, Announcing, Renewing, LoggingIn
<1>2. PICK to \in {"waiting", "reauth", "ready", "login_sent"} : Goes(c, "idle", to)
  BY DEF Begin, BeginRenew, BeginReAuth, BeginReady, BeginLogin, BeginCall
<1>3. /\ UNCHANGED <<token, auth, announced>>
      /\ \A d \in Callers \ {c} : d \in unrefreshed' <=> d \in unrefreshed
      /\ \A d \in Callers \ {c} : d \in confirmed' <=> d \in confirmed
      /\ c \notin confirmed'
  BY DEF Begin, BeginRenew, BeginReAuth, BeginReady, BeginLogin, BeginCall, history
<1>4. /\ pc'[c] = to /\ pc[c] = "idle" /\ \A d \in Tasks \ {c} : pc'[d] = pc[d]
      /\ \A d \in Tasks : pc[d] \in Places
  BY <1>1, <1>2, GoesFacts DEF IInv, TypeOK
<1>5. Owed' = Owed
  BY <1>1, <1>2, <1>3, <1>4, OwedFacts DEF Announcing
<1>6. Service!Move(c, Phase(c), Phase(c)')
  <2>1. \A d \in Callers \ {c} : Phase(d)' = Phase(d)
    BY <1>3, <1>4, OthersStay DEF Tasks
  <2> QED BY <2>1, MoveFacts
<1>7. Phase(c) = "away"
  BY <1>4, PhaseFacts
<1>8. CASE to \in {"waiting", "reauth"}
  <2>1. Phase(c)' \in {"asking", "needy"}
    BY <1>4, <1>8, PhaseFactsNext DEF AskingPlaces, LoggingIn
  <2> QED BY <1>3, <1>5, <1>6, <1>7, <2>1 DEF Service!Next, Service!Ask
<1>9. CASE to \in {"ready", "login_sent"}
  <2>1. Phase(c)' = "served"
    BY <1>3, <1>4, <1>9, PhaseFactsNext DEF UsingPlaces
  <2> QED BY <1>3, <1>5, <1>6, <1>7, <2>1 DEF Service!Next, Service!Pass
<1> QED BY <1>8, <1>9

(* Every step is one of the service's, or none.                            *)
LEMMA StepRefines == IInv /\ [Next]_vars => [Service!Next]_(Service!vars)
<1> SUFFICES ASSUME IInv, [Next]_vars PROVE [Service!Next]_(Service!vars)
  OBVIOUS
<1> USE DEF history
<1>a. Callers \subseteq Tasks /\ Daemon \in Tasks /\ Daemon \notin Callers
  BY TaskAssumption DEF Tasks
<1>b. {"idle", "waiting", "ready", "sent", "login_sent", "renew", "renewing", "reauth"}
        \subseteq Places \ Announcing
  BY DEF Places, Announcing, Renewing, LoggingIn
<1>c. {"renewing", "reauth", "logged_in"} \subseteq AskingPlaces \ {"idle"}
  BY DEF AskingPlaces, Renewing, LoggingIn
<1>1. ASSUME UNCHANGED <<pc, auth, announced, unrefreshed, confirmed>>,
             token'.value = token.value
      PROVE  UNCHANGED Service!vars
  BY <1>1 DEF Service!vars, Owed, Phase
<1>2. CASE Tick
  <2>1. token'.value = token.value
    BY <1>2 DEF Tick, IInv, TypeOK, TokenStates
  <2> QED BY <1>1, <1>2, <2>1 DEF Tick
<1>3. CASE UNCHANGED vars
  BY <1>1, <1>3 DEF vars
<1>4. CASE set_token
  <2>1. issued + 1 \in Values /\ token'.value = issued + 1
    BY <1>4, GrantFacts DEF set_token, Values, IInv, TypeOK
  <2>2. /\ UNCHANGED <<pc, auth, announced, confirmed>> /\ unrefreshed' = {}
        /\ pc' \in [Tasks -> Places]
    BY <1>4 DEF set_token, IInv, TypeOK
  <2>3. Service!Replace(issued + 1)
    BY <2>1, <2>2, WriteReplaces
  <2>4. Owed' = Owed
    BY <2>2 DEF Owed
  <2> QED BY <2>1, <2>3, <2>4 DEF Service!Next, Service!Override
<1>5. CASE Wake
  <2>1. Goes(Daemon, "idle", "renew") /\ UNCHANGED <<token, auth, announced, unrefreshed, confirmed>>
    BY <1>5 DEF Wake
  <2> QED BY <1>a, <1>b, <2>1, TaskMoves
<1>6. ASSUME NEW c \in Callers, TakeLock(c) PROVE [Service!Next]_(Service!vars)
  <2>1. pc[c] = "waiting" /\ UNCHANGED <<token, auth, announced, unrefreshed, confirmed>>
    BY <1>6 DEF TakeLock, Goes
  <2>2. CASE Goes(c, "waiting", "renew")
    <3>1. pc'[c] = "renew"
      BY <1>a, <2>2 DEF Goes, IInv, TypeOK
    <3>2. Phase(c)' = Phase(c)
      BY <2>1, <3>1, PhaseFacts, PhaseFactsNext DEF AskingPlaces, Renewing
    <3> QED BY <1>a, <1>b, <2>1, <2>2, <3>2, TaskMoves
  <2>3. CASE Goes(c, "waiting", "ready") /\ ~ token_needs_renewal(token)
    <3>1. pc'[c] = "ready"
      BY <1>a, <2>3 DEF Goes, IInv, TypeOK
    <3>2. unrefreshed = {}
      BY <2>1, <2>3 DEF IInv, WaitersHaveToken, UnrefreshedIsDue, Due
    <3>3. c \notin confirmed'
      BY <2>1 DEF IInv, ConfirmedArePast
    <3>4. Phase(c) = "asking" /\ Phase(c)' = "served"
      BY <2>1, <3>1, <3>2, <3>3, PhaseFacts, PhaseFactsNext DEF AskingPlaces, UsingPlaces
    <3>5. UNCHANGED <<token.value, Owed, announced>> /\ Service!Move(c, Phase(c), Phase(c)')
      BY <1>a, <1>b, <2>1, <2>3, TaskMoves
    <3> QED BY <3>4, <3>5 DEF Service!Next, Service!Serve, Service!Serves
  <2>4. token # NoToken
    BY <2>1 DEF IInv, WaitersHaveToken
  <2> QED BY <1>6, <2>2, <2>3, <2>4 DEF TakeLock
<1>7. ASSUME NEW c \in Callers, Send(c) PROVE [Service!Next]_(Service!vars)
  <2>1. Goes(c, "ready", "sent") /\ UNCHANGED <<token, auth, announced, unrefreshed, confirmed>>
    BY <1>7 DEF Send
  <2>2. pc[c] = "ready" /\ pc'[c] = "sent"
    BY <1>a, <2>1 DEF Goes, IInv, TypeOK
  <2>3. Phase(c)' = Phase(c)
    BY <2>1, <2>2, PhaseFacts, PhaseFactsNext DEF UsingPlaces
  <2> QED BY <1>a, <1>b, <2>1, <2>3, TaskMoves
<1>8. ASSUME NEW c \in Callers, Answer(c) PROVE [Service!Next]_(Service!vars)
  <2>1. PICK from \in {"sent", "login_sent"} : Goes(c, from, "idle")
    BY <1>8 DEF Answer
  <2>2. Forget(c) /\ UNCHANGED <<token, announced, unrefreshed, confirmed>>
    BY <1>8 DEF Answer
  <2> QED BY <1>a, <1>b, <2>1, <2>2, TaskLeaves
<1>9. ASSUME NEW c \in Callers, AnswerWithAuth(c) PROVE Service!Next
  <2>1. PICK value \in Values, lease \in Leases, renewable \in BOOLEAN :
          LET a == [value |-> value, lease |-> lease, renewable |-> renewable]
          IN  /\ \/ Goes(c, "sent", "answered") /\ value = sent[c] /\ issued' = issued
                 \/ Goes(c, "login_sent", "answered") /\ value = issued + 1 /\ issued' = value
              /\ auth' = [auth EXCEPT ![c] = a]
              /\ Write(a)
    BY <1>9 DEF AnswerWithAuth
  <2> DEFINE a == [value |-> value, lease |-> lease, renewable |-> renewable]
  <2>2. a \in AuthInfos
    BY <2>1 DEF AuthInfos
  <2>3. PICK from \in {"sent", "login_sent"} : Goes(c, from, "answered")
    BY <2>1
  <2>4. auth' = [auth EXCEPT ![c] = a] /\ Write(a) /\ UNCHANGED <<announced, confirmed>>
    BY <1>9, <2>1 DEF AnswerWithAuth
  <2>5. from \notin AskingPlaces /\ "answered" \notin AskingPlaces /\ "answered" \in Announcing
    BY DEF AskingPlaces, Renewing, LoggingIn, Announcing
  <2> HIDE DEF a
  <2> QED BY <1>a, <1>b, <2>2, <2>3, <2>4, <2>5, TaskInstalls
<1>10. ASSUME NEW c \in Tasks, Renewed(c) PROVE Service!Next
  <2>1. PICK lease \in Leases, renewable \in BOOLEAN :
          LET a == [value |-> sent[c], lease |-> lease, renewable |-> renewable]
          IN  auth' = [auth EXCEPT ![c] = a] /\ Write(a)
    BY <1>10 DEF Renewed
  <2> DEFINE a == [value |-> sent[c], lease |-> lease, renewable |-> renewable]
  <2>2. a \in AuthInfos
    <3>1. sent[c] \in Values
      BY <1>10, GrantFacts DEF Renewed, Values, IInv, TypeOK
    <3> QED BY <2>1, <3>1 DEF AuthInfos
  <2>3. /\ Goes(c, "renewing", "renewed") /\ UNCHANGED <<announced, confirmed>>
        /\ auth' = [auth EXCEPT ![c] = a] /\ Write(a)
    BY <1>10, <2>1 DEF Renewed
  <2>4. "renewed" \in AskingPlaces /\ "renewed" \in Announcing
    BY DEF AskingPlaces, Renewing, Announcing
  <2> HIDE DEF a
  <2> QED BY <1>b, <1>c, <2>2, <2>3, <2>4, TaskInstalls
<1>11. ASSUME NEW c \in Tasks, LoggedIn(c) PROVE Service!Next
  <2>1. PICK lease \in Leases, renewable \in BOOLEAN :
          LET a == [value |-> issued + 1, lease |-> lease, renewable |-> renewable]
          IN  auth' = [auth EXCEPT ![c] = a] /\ Write(a)
    BY <1>11 DEF LoggedIn
  <2> DEFINE a == [value |-> issued + 1, lease |-> lease, renewable |-> renewable]
  <2>2. a \in AuthInfos
    <3>1. issued + 1 \in Values
      BY <1>11, GrantFacts DEF LoggedIn, Values, IInv, TypeOK
    <3> QED BY <2>1, <3>1 DEF AuthInfos
  <2>3. /\ Goes(c, "reauth", "login_handler") /\ UNCHANGED <<announced, confirmed>>
        /\ auth' = [auth EXCEPT ![c] = a] /\ Write(a)
    BY <1>11, <2>1 DEF LoggedIn
  <2>4. "login_handler" \in AskingPlaces /\ "login_handler" \in Announcing
    BY DEF AskingPlaces, LoggingIn, Announcing
  <2> HIDE DEF a
  <2> QED BY <1>b, <1>c, <2>2, <2>3, <2>4, TaskInstalls
<1>12. ASSUME NEW c \in Tasks, ApplyAgain(c) PROVE Service!Next
  <2>1. /\ Goes(c, "logged_in", "applied_again") /\ Write(auth[c])
        /\ UNCHANGED <<announced, confirmed, auth>>
    BY <1>12 DEF ApplyAgain
  <2>2. auth[c] \in AuthInfos /\ auth' = [auth EXCEPT ![c] = auth[c]]
    BY <2>1 DEF Goes, IInv, TypeOK, AppliersHaveAuth, Announcing
  <2>3. /\ "logged_in" \in Places /\ "applied_again" \in AskingPlaces
        /\ "applied_again" \in Announcing
    BY DEF Places, AskingPlaces, LoggingIn, Announcing
  <2> QED BY <1>c, <2>1, <2>2, <2>3, TaskInstalls
<1>13. ASSUME NEW c \in Tasks, NEW from \in {"renewed", "applied_again"},
              Goes(c, from, Proceed(c)), Announce(c), Forget(c),
              UNCHANGED <<token, unrefreshed, confirmed>>
       PROVE  Service!Next
  <2>1. from \in AskingPlaces /\ from \in Announcing
    BY DEF AskingPlaces, Renewing, LoggingIn, Announcing
  <2>2. \A d \in Tasks \ {c} : auth'[d] = auth[d]
    BY <1>13, ForgetFacts DEF IInv, TypeOK
  <2>3. Proceed(c) = "idle" \/ Proceed(c) \in UsingPlaces
    BY DEF Proceed, UsingPlaces
  <2>4. Proceed(c) \in Places \ Announcing
    BY <1>b DEF Proceed
  <2> HIDE DEF Proceed
  <2> QED BY <1>13, <2>1, <2>2, <2>3, <2>4, TaskAnnounces
<1>14. ASSUME NEW c \in Tasks, AnnounceRenewal(c) \/ AnnounceAgain(c) PROVE Service!Next
  BY <1>13, <1>14 DEF AnnounceRenewal, AnnounceAgain
<1>15. ASSUME NEW c \in Tasks, AnnounceLogin(c) PROVE Service!Next
  <2>1. /\ Goes(c, "login_handler", "logged_in") /\ Announce(c)
        /\ UNCHANGED <<token, auth, unrefreshed, confirmed>>
    BY <1>15 DEF AnnounceLogin
  <2>2. /\ "login_handler" \in Announcing /\ "login_handler" \in AskingPlaces
        /\ "logged_in" \in Places /\ "logged_in" \in AskingPlaces
    BY DEF Announcing, AskingPlaces, LoggingIn, Places
  <2> QED BY <2>1, <2>2, TaskAnnounces
<1>16. ASSUME NEW c \in Callers, AnnounceAnswer(c) PROVE Service!Next
  <2>1. /\ Goes(c, "answered", "idle") /\ Announce(c) /\ Forget(c)
        /\ UNCHANGED <<token, unrefreshed, confirmed>>
    BY <1>16 DEF AnnounceAnswer
  <2>2. "answered" \in Announcing /\ "idle" \in Places \ Announcing
    BY <1>b DEF Announcing
  <2>3. \A d \in Tasks \ {c} : auth'[d] = auth[d]
    BY <1>a, <2>1, ForgetFacts DEF IInv, TypeOK
  <2> QED BY <1>a, <2>1, <2>2, <2>3, TaskAnnounces
<1>17. ASSUME NEW c \in Tasks, RenewedNothing(c) PROVE [Service!Next]_(Service!vars)
  <2>1. /\ Goes(c, "renewing", Proceed(c)) /\ Forget(c)
        /\ UNCHANGED <<token, announced, unrefreshed>>
        /\ confirmed' = confirmed \cup (Callers \cap {c})
    BY <1>17 DEF RenewedNothing
  <2>2. \A d \in Tasks \ {c} : auth'[d] = auth[d]
    BY <2>1, ForgetFacts DEF IInv, TypeOK
  <2>3. Proceed(c) \in Places \ Announcing
    BY <1>b DEF Proceed
  <2>4. \A d \in Tasks \ {c} : d \in confirmed' <=> d \in confirmed
    BY <2>1
  <2>5. /\ UNCHANGED <<token.value, Owed, announced>>
        /\ c \in Callers => Service!Move(c, Phase(c), Phase(c)')
        /\ c \notin Callers => UNCHANGED Service!vars
    <3> HIDE DEF Proceed
    <3> QED BY <1>b, <2>1, <2>2, <2>3, <2>4, TaskMoves
  <2>6. CASE c \in Callers
    <3>1. pc[c] = "renewing" /\ pc'[c] = "ready"
      BY <1>a, <2>1, <2>6 DEF Goes, Proceed, IInv, TypeOK
    <3>2. Phase(c) \in {"asking", "needy"} /\ Phase(c)' = "trusted"
      BY <2>1, <2>6, <3>1, PhaseFacts, PhaseFactsNext DEF AskingPlaces, Renewing, UsingPlaces
    <3> QED BY <2>5, <2>6, <3>2 DEF Service!Next, Service!Trust
  <2> QED BY <2>5, <2>6
<1>18. ASSUME NEW c \in Tasks, RenewFailed(c) PROVE [Service!Next]_(Service!vars)
  <2>1. /\ Forget(c) /\ UNCHANGED <<token, announced, unrefreshed, confirmed>>
        /\ pc[c] = "renewing"
    BY <1>18 DEF RenewFailed, Goes
  <2>2. CASE Goes(c, "renewing", "idle")
    BY <1>b, <1>c, <2>1, <2>2, TaskLeaves
  <2>3. CASE Goes(c, "renewing", "reauth")
    <3>1. \A d \in Tasks \ {c} : auth'[d] = auth[d]
      BY <2>1, ForgetFacts DEF IInv, TypeOK
    <3>2. pc'[c] = "reauth"
      BY <2>3 DEF Goes, IInv, TypeOK
    <3>3. Phase(c)' = Phase(c)
      BY <1>c, <2>1, <3>2, PhaseFacts, PhaseFactsNext
    <3> QED BY <1>b, <2>1, <2>3, <3>1, <3>3, TaskMoves
  <2> QED BY <1>18, <2>2, <2>3 DEF RenewFailed
<1>19. ASSUME NEW c \in Tasks, LoginFailed(c) PROVE [Service!Next]_(Service!vars)
  <2>1. /\ Goes(c, "reauth", "idle") /\ Forget(c)
        /\ UNCHANGED <<token, announced, unrefreshed, confirmed>>
    BY <1>19 DEF LoginFailed
  <2> QED BY <1>b, <1>c, <2>1, TaskLeaves
<1>20. ASSUME NEW c \in Tasks, Cancel(c) PROVE [Service!Next]_(Service!vars)
  <2>1. PICK from \in {"waiting", "renewing", "reauth", "sent", "login_sent"} :
               Goes(c, from, "idle")
    BY <1>20 DEF Cancel, Goes
  <2>2. Forget(c) /\ UNCHANGED <<token, announced, unrefreshed, confirmed>>
    BY <1>20 DEF Cancel
  <2> QED BY <1>b, <2>1, <2>2, TaskLeaves
<1>21. ASSUME NEW c \in Tasks, SendRenew(c) PROVE [Service!Next]_(Service!vars)
  <2>1. Goes(c, "renew", "renewing") /\ UNCHANGED <<token, auth, announced, unrefreshed, confirmed>>
    BY <1>21 DEF SendRenew
  <2>2. pc[c] = "renew" /\ pc'[c] = "renewing"
    BY <2>1 DEF Goes, IInv, TypeOK
  <2>3. Phase(c)' = Phase(c)
    BY <2>1, <2>2, PhaseFacts, PhaseFactsNext DEF AskingPlaces, Renewing
  <2> QED BY <1>b, <2>1, <2>3, TaskMoves
<1>22. ASSUME NEW c \in Callers,
              Begin(c) \/ TakeLock(c) \/ Send(c) \/ Reply(c) \/ AnnounceAnswer(c)
       PROVE  [Service!Next]_(Service!vars)
  BY <1>6, <1>7, <1>8, <1>9, <1>16, <1>22, CallerBegins DEF Reply
<1>23. ASSUME NEW c \in Tasks, RenewReply(c) \/ LoginReply(c) \/ Run(c) \/ Cancel(c)
       PROVE  [Service!Next]_(Service!vars)
  BY <1>10, <1>11, <1>12, <1>14, <1>15, <1>17, <1>18, <1>19, <1>20, <1>21, <1>23
     DEF RenewReply, LoginReply, Run
<1> QED BY <1>2, <1>3, <1>4, <1>5, <1>22, <1>23 DEF Next

(* TokenLifecycle implements TokenService: no caller is served a token     *)
(* that was due when it asked, a caller keeps such a token only when Vault *)
(* has answered its own renewal with success, and no token that a task     *)
(* installs goes unannounced, however the tasks overlap, fail or are       *)
(* dropped.                                                                *)
THEOREM Refinement == Spec => ImplementsService
<1>1. Init => Service!Init
  <2> SUFFICES ASSUME Init PROVE Service!Init
    OBVIOUS
  <2>1. token.value \in Values \cup {0}
    BY GrantFacts DEF Init, NoToken, Values
  <2>2. Owed = {}
    BY DEF Init, Owed, Announcing
  <2>3. [c \in Callers |-> Phase(c)] = [c \in Callers |-> "away"]
    BY DEF Init, Phase, Tasks
  <2> QED BY <2>1, <2>2, <2>3 DEF Init, Service!Init
<1> QED BY <1>1, StepRefines, InvariantHolds, PTL DEF Spec, ImplementsService, Service!Spec
=============================================================================
