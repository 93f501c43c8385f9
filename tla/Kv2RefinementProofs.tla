------------------------- MODULE Kv2RefinementProofs -------------------------
(***************************************************************************)
(* The handler of KV v2 with its retries implements SecretRegister for any *)
(* number of calls, fields and retries.  RInv counts: the versions a call  *)
(* made and its requests under way are together no more than its attempts, *)
(* and the version an update makes follows the one it read.                *)
(***************************************************************************)
EXTENDS Kv2Proofs, FiniteSetTheorems, SequenceTheorems

MadeBy(c) == {v \in DOMAIN history : history[v].by = c}
UnderWay(c) == {m \in net : m[1] = c}

Started == \A c \in Calls : call[c].status # "idle" => call[c].op.kind \in Kinds

Counted ==
  \A c \in Calls :
    /\ IsFiniteSet(MadeBy(c)) /\ IsFiniteSet(UnderWay(c))
    /\ Cardinality(MadeBy(c)) + Cardinality(UnderWay(c)) <= call[c].attempt

CasFollows ==
  \A v \in DOMAIN history :
    call[history[v].by].op.kind = "update" => v = call[history[v].by].version + 1

RInv == IInv /\ Started /\ Counted /\ CasFollows

(* Cardinalities of finite sets are natural numbers.                       *)
LEMMA CountFacts ==
  ASSUME Counted, NEW c \in Calls
  PROVE  Cardinality(MadeBy(c)) \in Nat /\ Cardinality(UnderWay(c)) \in Nat
BY FS_CardinalityType DEF Counted

LEMMA InitRInv == Init => RInv
<1> SUFFICES ASSUME Init PROVE RInv
  OBVIOUS
<1>1. Started /\ CasFollows
  BY DEF Init, Started, CasFollows, Idle
<1>2. ASSUME NEW c \in Calls PROVE MadeBy(c) = {} /\ UnderWay(c) = {} /\ call[c].attempt = 0
  BY DEF Init, MadeBy, UnderWay, Idle
<1>3. Counted
  BY <1>2, FS_EmptySet DEF Counted
<1>4. QED BY <1>1, <1>3, InitIInv DEF RInv

(* What the callers' steps change: only Begin the operation, only Read the *)
(* version, and a new attempt is one request more.                         *)
LEMMA ClientFacts ==
  ASSUME IInv, NEW c \in Calls, Client(c)
  PROVE  /\ history' = history
         /\ \A d \in Calls \ {c} : call'[d] = call[d]
         /\ call[c].status # "idle" => call'[c].op = call[c].op
         /\ Begun(c) => call'[c].version = call[c].version
         /\ call[c].status = "idle" => call'[c].status # "idle" /\ call'[c].op.kind \in Kinds
         /\ \/ net' = net /\ call'[c].attempt = call[c].attempt
            \/ \E n \in Nat : /\ net' = net \cup {<<c, n>>} /\ <<c, n>> \notin net
                              /\ call'[c].attempt = call[c].attempt + 1
<1> USE DEF IInv, TypeOK
<1>a. call[c].attempt \in 0..(MaxRetries + 1) /\ call[c].attempt \in Nat
  BY Kv2Assumption DEF CallStates
<1>b. \A n \in Nat : <<c, n>> \in net => n <= call[c].attempt
  <2> SUFFICES ASSUME NEW n \in Nat, <<c, n>> \in net PROVE n <= call[c].attempt
    OBVIOUS
  <2>1. QED OBVIOUS
<1>1. CASE Begin(c)
  <2>1. PICK op \in Operations :
          IF op.kind = "update"
          THEN /\ call' = [call EXCEPT ![c].op = op, ![c].status = "reading"]
               /\ UNCHANGED net
          ELSE /\ call' = [call EXCEPT ![c].op = op, ![c].status = "sent", ![c].attempt = 1]
               /\ net' = net \cup {<<c, 1>>}
    BY <1>1 DEF Begin
  <2>2. op.kind \in Kinds
    BY DEF Operations, Kinds
  <2>3. call[c].attempt = 0 /\ ~ Begun(c) /\ call[c].status = "idle" /\ history' = history
    BY <1>1 DEF Begin, NothingSent, Begun
  <2>4. <<c, 1>> \notin net
    BY <1>b, <2>3
  <2>5. CASE op.kind = "update"
    <3>1. call'[c].op = op /\ call'[c].status = "reading" /\ call'[c].attempt = call[c].attempt
      BY <2>1, <2>5 DEF CallStates
    <3>2. QED BY <2>1, <2>2, <2>3, <2>5, <3>1
  <2>6. CASE op.kind # "update"
    <3>1. call'[c].op = op /\ call'[c].status = "sent" /\ call'[c].attempt = 1
      BY <2>1, <2>6 DEF CallStates
    <3>2. /\ net' = net \cup {<<c, 1>>} /\ 1 \in Nat
          /\ \A d \in Calls \ {c} : call'[d] = call[d]
      BY <2>1, <2>6
    <3>3. QED BY <2>2, <2>3, <2>4, <3>1, <3>2
  <2>7. QED BY <2>5, <2>6
<1>2. CASE Read(c)
  <2>1. call[c].status = "reading" /\ call[c].attempt = 0 /\ ~ Begun(c)
    BY <1>2 DEF Read, NothingSent, Begun
  <2>2. /\ call'[c].op = call[c].op /\ call'[c].attempt = 1
        /\ net' = net \cup {<<c, 1>>} /\ history' = history
        /\ \A d \in Calls \ {c} : call'[d] = call[d]
    BY <1>2 DEF Read, CallStates
  <2>3. <<c, 1>> \notin net
    BY <1>b, <2>1
  <2>4. QED BY <2>1, <2>2, <2>3
<1>3. CASE ReadFails(c)
  BY <1>3 DEF ReadFails, CallStates
<1>4. CASE Timeout(c)
  <2>1. CASE call[c].attempt <= MaxRetries
    <3>1. /\ call' = [call EXCEPT ![c].attempt = @ + 1, ![c].reply = "none"]
          /\ net' = net \cup {<<c, call[c].attempt + 1>>}
          /\ call[c].status = "sent" /\ history' = history
      BY <1>4, <2>1 DEF Timeout
    <3>2. /\ call'[c].op = call[c].op /\ call'[c].attempt = call[c].attempt + 1
          /\ call'[c].version = call[c].version /\ \A d \in Calls \ {c} : call'[d] = call[d]
      BY <3>1 DEF CallStates
    <3>3. call[c].attempt + 1 \in Nat /\ <<c, call[c].attempt + 1>> \notin net
      BY <1>a, <1>b
    <3>4. QED BY <3>1, <3>2, <3>3
  <2>2. CASE ~ (call[c].attempt <= MaxRetries)
    BY <1>4, <2>2 DEF Timeout, CallStates
  <2>3. QED BY <2>1, <2>2
<1>5. CASE Receive(c)
  BY <1>5 DEF Receive, CallStates
<1>6. QED BY <1>1, <1>2, <1>3, <1>4, <1>5 DEF Client

(* A caller's step keeps the counts.                                       *)
LEMMA ClientRInv ==
  ASSUME RInv, NEW c \in Calls, Client(c), IInv' PROVE RInv'
<1> USE DEF RInv
<1>1. /\ history' = history
      /\ \A d \in Calls \ {c} : call'[d] = call[d]
      /\ call[c].status # "idle" => call'[c].op = call[c].op
      /\ Begun(c) => call'[c].version = call[c].version
      /\ call[c].status = "idle" => call'[c].status # "idle" /\ call'[c].op.kind \in Kinds
      /\ \/ net' = net /\ call'[c].attempt = call[c].attempt
         \/ \E n \in Nat : /\ net' = net \cup {<<c, n>>} /\ <<c, n>> \notin net
                           /\ call'[c].attempt = call[c].attempt + 1
  BY ClientFacts
<1>2. Started'
  BY <1>1 DEF Started
<1>3. \A v \in DOMAIN history : history[v].by \in Calls /\ Begun(history[v].by)
  BY VersionFacts DEF IInv, TypeOK, Authors
<1>4. CasFollows'
  <2> SUFFICES ASSUME NEW v \in DOMAIN history, call'[history[v].by].op.kind = "update"
               PROVE  v = call'[history[v].by].version + 1
    BY <1>1 DEF CasFollows
  <2>1. /\ call'[history[v].by].op = call[history[v].by].op
        /\ call'[history[v].by].version = call[history[v].by].version
    BY <1>1, <1>3 DEF Begun
  <2>2. QED BY <2>1 DEF CasFollows
<1>5. Counted'
  <2> SUFFICES ASSUME NEW d \in Calls
               PROVE  /\ IsFiniteSet(MadeBy(d)') /\ IsFiniteSet(UnderWay(d)')
                      /\ Cardinality(MadeBy(d)') + Cardinality(UnderWay(d)') <= call'[d].attempt
    BY DEF Counted
  <2>1. MadeBy(d)' = MadeBy(d)
    BY <1>1 DEF MadeBy
  <2>2. /\ IsFiniteSet(MadeBy(d)) /\ IsFiniteSet(UnderWay(d))
        /\ Cardinality(MadeBy(d)) \in Nat /\ Cardinality(UnderWay(d)) \in Nat
        /\ Cardinality(MadeBy(d)) + Cardinality(UnderWay(d)) <= call[d].attempt
        /\ call[d].attempt \in Nat
    BY CountFacts, Kv2Assumption DEF Counted, IInv, TypeOK, CallStates
  <2>3. CASE UnderWay(d)' = UnderWay(d) /\ call'[d].attempt = call[d].attempt
    BY <2>1, <2>2, <2>3
  <2>4. CASE /\ call'[d].attempt = call[d].attempt + 1
             /\ \E n \in Nat : UnderWay(d)' = UnderWay(d) \cup {<<d, n>>} /\ <<d, n>> \notin UnderWay(d)
    <3>1. PICK n \in Nat : UnderWay(d)' = UnderWay(d) \cup {<<d, n>>} /\ <<d, n>> \notin UnderWay(d)
      BY <2>4
    <3>2. /\ IsFiniteSet(UnderWay(d)')
          /\ Cardinality(UnderWay(d)') = Cardinality(UnderWay(d)) + 1
      BY <2>2, <3>1, FS_AddElement
    <3>3. QED BY <2>1, <2>2, <2>4, <3>2
  <2>5. \/ UnderWay(d)' = UnderWay(d) /\ call'[d].attempt = call[d].attempt
        \/ /\ call'[d].attempt = call[d].attempt + 1
           /\ \E n \in Nat : UnderWay(d)' = UnderWay(d) \cup {<<d, n>>} /\ <<d, n>> \notin UnderWay(d)
    <3>1. CASE net' = net /\ call'[c].attempt = call[c].attempt
      BY <1>1, <3>1 DEF UnderWay
    <3>2. CASE \E n \in Nat : /\ net' = net \cup {<<c, n>>} /\ <<c, n>> \notin net
                              /\ call'[c].attempt = call[c].attempt + 1
      <4>1. PICK n \in Nat : /\ net' = net \cup {<<c, n>>} /\ <<c, n>> \notin net
                             /\ call'[c].attempt = call[c].attempt + 1
        BY <3>2
      <4>2. CASE d = c
        <5>1. UnderWay(d)' = UnderWay(d) \cup {<<d, n>>} /\ <<d, n>> \notin UnderWay(d)
          BY <4>1, <4>2 DEF UnderWay
        <5>2. QED BY <4>1, <4>2, <5>1
      <4>3. CASE d # c
        <5>1. UnderWay(d)' = UnderWay(d)
          BY <4>1, <4>3 DEF UnderWay
        <5>2. QED BY <1>1, <4>3, <5>1
      <4>4. QED BY <4>2, <4>3
    <3>3. QED BY <1>1, <3>1, <3>2
  <2>6. QED BY <2>3, <2>4, <2>5
<1>6. QED BY <1>2, <1>4, <1>5

(* A request that arrives is one less under way.                           *)
LEMMA ArrivalFacts ==
  ASSUME RInv, NEW c \in Calls, NEW n \in 1..(MaxRetries + 1), NEW verb, NEW paths,
         Arrives(c, n, verb, paths), NEW reply, Answers(c, n, reply)
  PROVE  /\ \A d \in Calls : /\ call'[d].op = call[d].op /\ call'[d].status = call[d].status
                             /\ call'[d].version = call[d].version
                             /\ call'[d].attempt = call[d].attempt
         /\ IsFiniteSet(UnderWay(c)')
         /\ Cardinality(UnderWay(c)) \in Nat
         /\ Cardinality(UnderWay(c)') + 1 = Cardinality(UnderWay(c))
         /\ \A d \in Calls \ {c} : UnderWay(d)' = UnderWay(d)
         /\ Begun(c)
<1>1. <<c, n>> \in net /\ net' = net \ {<<c, n>>}
  BY DEF Arrives
<1>2. \A d \in Calls : /\ call'[d].op = call[d].op /\ call'[d].status = call[d].status
                       /\ call'[d].version = call[d].version
                       /\ call'[d].attempt = call[d].attempt
  <2>1. CASE call' = call
    BY <2>1
  <2>2. CASE call' = [call EXCEPT ![c].reply = reply]
    BY <2>2 DEF RInv, IInv, TypeOK, CallStates
  <2>3. QED BY <2>1, <2>2 DEF Answers
<1>3. UnderWay(c)' = UnderWay(c) \ {<<c, n>>} /\ <<c, n>> \in UnderWay(c)
  BY <1>1 DEF UnderWay
<1>4. IsFiniteSet(UnderWay(c)) /\ Cardinality(UnderWay(c)) \in Nat
  BY CountFacts DEF RInv, Counted
<1>5. /\ IsFiniteSet(UnderWay(c)')
      /\ Cardinality(UnderWay(c)') = Cardinality(UnderWay(c)) - 1
  BY <1>3, <1>4, FS_RemoveElement
<1>6. \A d \in Calls \ {c} : UnderWay(d)' = UnderWay(d)
  BY <1>1 DEF UnderWay
<1>7. Begun(c)
  <2>1. n <= call[c].attempt
    BY <1>1 DEF RInv, IInv, TypeOK
  <2>2. QED BY <2>1 DEF RInv, IInv, NothingSent
<1>8. QED BY <1>2, <1>4, <1>5, <1>6, <1>7

(* A step of Vault that adds no version keeps the counts, ...              *)
LEMMA NoVersionRInv ==
  ASSUME RInv, IInv', NEW c \in Calls, NEW n \in 1..(MaxRetries + 1), NEW verb, NEW paths,
         Arrives(c, n, verb, paths), NEW reply, Answers(c, n, reply),
         \/ history' = <<>>
         \/ /\ DOMAIN history' = DOMAIN history
            /\ \A v \in DOMAIN history : history'[v].by = history[v].by
  PROVE  RInv'
<1> USE DEF RInv
<1>1. Started'
  BY ArrivalFacts DEF Started
<1>2. \A v \in DOMAIN history : history[v].by \in Calls
  BY VersionFacts DEF IInv, TypeOK
<1>3. CasFollows'
  BY <1>2, ArrivalFacts DEF CasFollows
<1>4. Counted'
  <2> SUFFICES ASSUME NEW d \in Calls
               PROVE  /\ IsFiniteSet(MadeBy(d)') /\ IsFiniteSet(UnderWay(d)')
                      /\ Cardinality(MadeBy(d)') + Cardinality(UnderWay(d)') <= call'[d].attempt
    BY DEF Counted
  <2>1. /\ IsFiniteSet(MadeBy(d)) /\ IsFiniteSet(UnderWay(d))
        /\ Cardinality(MadeBy(d)) \in Nat /\ Cardinality(UnderWay(d)) \in Nat
        /\ Cardinality(MadeBy(d)) + Cardinality(UnderWay(d)) <= call[d].attempt
        /\ call[d].attempt \in Nat
    BY CountFacts, Kv2Assumption DEF Counted, IInv, TypeOK, CallStates
  <2>2. /\ IsFiniteSet(MadeBy(d)')
        /\ Cardinality(MadeBy(d)') \in Nat /\ Cardinality(MadeBy(d)') <= Cardinality(MadeBy(d))
    <3>1. MadeBy(d)' = {} \/ MadeBy(d)' = MadeBy(d)
      BY DEF MadeBy
    <3>2. CASE MadeBy(d)' = {}
      BY <2>1, <3>2, FS_EmptySet
    <3>3. CASE MadeBy(d)' = MadeBy(d)
      <4>1. Cardinality(MadeBy(d)') = Cardinality(MadeBy(d))
        BY <3>3
      <4>2. QED BY <2>1, <3>3, <4>1
    <3>4. QED BY <3>1, <3>2, <3>3
  <2>3. /\ IsFiniteSet(UnderWay(d)') /\ Cardinality(UnderWay(d)') \in Nat
        /\ Cardinality(UnderWay(d)') <= Cardinality(UnderWay(d))
        /\ call'[d].attempt = call[d].attempt
    <3>1. CASE d = c
      <4>1. /\ IsFiniteSet(UnderWay(c)') /\ call'[d].attempt = call[d].attempt
            /\ Cardinality(UnderWay(c)') + 1 = Cardinality(UnderWay(c))
        BY ArrivalFacts
      <4>2. Cardinality(UnderWay(c)') \in Nat
        BY <4>1, FS_CardinalityType
      <4>3. QED BY <2>1, <3>1, <4>1, <4>2
    <3>2. CASE d # c
      BY <2>1, <3>2, ArrivalFacts
    <3>3. QED BY <3>1, <3>2
  <2>4. QED BY <2>1, <2>2, <2>3
<1>5. QED BY <1>1, <1>3, <1>4

(* ... and so does one that adds a version.                                *)
LEMMA NewVersionRInv ==
  ASSUME RInv, IInv', NEW c \in Calls, NEW n \in 1..(MaxRetries + 1), NEW verb, NEW paths,
         Arrives(c, n, verb, paths), NEW reply, Answers(c, n, reply),
         NEW content \in Contents, Adds(c, content),
         call[c].op.kind = "update" => call[c].version = Len(history)
  PROVE  RInv'
<1> USE DEF RInv
<1>1. Started'
  BY ArrivalFacts DEF Started
<1> DEFINE new == [by |-> c, content |-> content, state |-> "live"]
<1>2. /\ Len(history) \in Nat
      /\ DOMAIN history' = DOMAIN history \cup {Len(history) + 1}
      /\ Len(history) + 1 \notin DOMAIN history
      /\ history'[Len(history) + 1].by = c
      /\ \A v \in DOMAIN history : history'[v] = history[v] /\ history[v].by \in Calls
  <2>1. new \in Versions /\ new.by = c
    BY DEF Versions
  <2>2. history \in Seq(Versions) /\ history' = Append(history, new)
    BY DEF Adds, IInv, TypeOK
  <2> HIDE DEF new
  <2>3. /\ history' \in Seq(Versions) /\ Len(history') = Len(history) + 1
        /\ history'[Len(history) + 1] = new
        /\ \A v \in 1..Len(history) : history'[v] = history[v]
    BY <2>1, <2>2
  <2>4. DOMAIN history = 1..Len(history) /\ DOMAIN history' = 1..Len(history') /\ Len(history) \in Nat
    BY <2>2, <2>3
  <2>5. \A v \in DOMAIN history : history[v].by \in Calls
    BY <2>2, VersionFacts
  <2>6. QED BY <2>1, <2>3, <2>4, <2>5
<1>3. CasFollows'
  BY <1>2, ArrivalFacts DEF CasFollows
<1>4. Counted'
  <2> SUFFICES ASSUME NEW d \in Calls
               PROVE  /\ IsFiniteSet(MadeBy(d)') /\ IsFiniteSet(UnderWay(d)')
                      /\ Cardinality(MadeBy(d)') + Cardinality(UnderWay(d)') <= call'[d].attempt
    BY DEF Counted
  <2>1. /\ IsFiniteSet(MadeBy(d)) /\ IsFiniteSet(UnderWay(d))
        /\ Cardinality(MadeBy(d)) \in Nat /\ Cardinality(UnderWay(d)) \in Nat
        /\ Cardinality(MadeBy(d)) + Cardinality(UnderWay(d)) <= call[d].attempt
        /\ call[d].attempt \in Nat
    BY CountFacts, Kv2Assumption DEF Counted, IInv, TypeOK, CallStates
  <2>2. CASE d = c
    <3>1. MadeBy(c)' = MadeBy(c) \cup {Len(history) + 1} /\ Len(history) + 1 \notin MadeBy(c)
      BY <1>2 DEF MadeBy
    <3>2. /\ IsFiniteSet(MadeBy(c)')
          /\ Cardinality(MadeBy(c)') = Cardinality(MadeBy(c)) + 1
      BY <2>1, <2>2, <3>1, FS_AddElement
    <3>3. /\ IsFiniteSet(UnderWay(c)') /\ call'[d].attempt = call[d].attempt
          /\ Cardinality(UnderWay(c)') + 1 = Cardinality(UnderWay(c))
      BY ArrivalFacts
    <3>4. Cardinality(UnderWay(c)') \in Nat
      BY <3>3, FS_CardinalityType
    <3>5. QED BY <2>1, <2>2, <3>2, <3>3, <3>4
  <2>3. CASE d # c
    <3>1. MadeBy(d)' = MadeBy(d)
      BY <1>2, <2>3 DEF MadeBy
    <3>2. QED BY <2>1, <2>3, <3>1, ArrivalFacts
  <2>4. QED BY <2>2, <2>3
<1>5. QED BY <1>1, <1>3, <1>4

(* What an arriving request does to the versions.                          *)
LEMMA VaultCases ==
  ASSUME IInv, NEW c \in Calls, NEW n \in 1..(MaxRetries + 1), Vault(c, n)
  PROVE  \E verb, paths, reply :
           /\ Arrives(c, n, verb, paths) /\ Answers(c, n, reply)
           /\ \/ /\ \E content \in Contents : Adds(c, content)
                 /\ call[c].op.kind \in {"write", "update", "patch"}
                 /\ call[c].op.kind = "update" => call[c].version = Len(history)
                 /\ TakesEffect(c)
              \/ UNCHANGED <<history, took>>
              \/ /\ \/ history' = <<>>
                    \/ /\ DOMAIN history' = DOMAIN history
                       /\ \A v \in DOMAIN history : history'[v].by = history[v].by
                 /\ call[c].op.kind \in Kinds \ {"write", "update", "patch"}
                 /\ TakesEffect(c)
<1> USE DEF IInv, TypeOK
<1>1. CASE ServeWrite(c, n)
  <2>1. /\ Arrives(c, n, "POST", {"data"}) /\ Answers(c, n, "done") /\ TakesEffect(c)
        /\ Request(c).cas \in {{}, {Len(history)}} /\ Adds(c, Request(c).content)
    BY <1>1 DEF ServeWrite
  <2>2. call[c].op.kind \in {"write", "update"}
    BY <2>1, RequestFacts DEF Arrives
  <2>3. call[c].content \in Contents
    BY DEF CallStates
  <2>4. Request(c).content \in Contents
    BY <2>2, <2>3, WriteFacts, OverlayFacts, EmptyFacts
  <2>5. call[c].op.kind = "update" => call[c].version = Len(history)
    BY <2>1, WriteFacts
  <2>6. QED BY <2>1, <2>2, <2>4, <2>5
<1>2. CASE RefuseCas(c, n) \/ RefusePatch(c, n)
  BY <1>2 DEF RefuseCas, RefusePatch
<1>3. CASE ServePatch(c, n)
  <2>1. /\ Arrives(c, n, "PATCH", {"data"}) /\ Answers(c, n, "done") /\ TakesEffect(c)
        /\ Readable /\ Adds(c, Overlay(history[Len(history)].content, c))
    BY <1>3 DEF ServePatch
  <2>2. call[c].op.kind = "patch"
    BY <2>1, RequestFacts DEF Arrives
  <2>3. history[Len(history)].content \in Contents
    BY <2>1, VersionFacts DEF Readable
  <2>4. Overlay(history[Len(history)].content, c) \in Contents
    BY <2>3, OverlayFacts
  <2>5. QED BY <2>1, <2>2, <2>4
<1>4. ASSUME NEW path, NEW S, Marks(path, S)
      PROVE  /\ DOMAIN history' = DOMAIN history
             /\ \A v \in DOMAIN history : history'[v].by = history[v].by
  <2>1. history' = [v \in DOMAIN history |->
                      IF v \in S THEN [history[v] EXCEPT !.state = After(path, @)]
                      ELSE history[v]]
    BY <1>4 DEF Marks
  <2>2. \A v \in DOMAIN history : history[v] \in Versions
    BY VersionFacts
  <2>3. QED BY <2>1, <2>2 DEF Versions
<1>5. CASE ServeVersions(c, n)
  <2>1. /\ Arrives(c, n, "POST", {"delete", "undelete", "destroy"}) /\ Answers(c, n, "done")
        /\ TakesEffect(c) /\ Marks(Request(c).path, {Request(c).version})
    BY <1>5 DEF ServeVersions
  <2>2. call[c].op.kind \in {"delete", "undelete", "destroy"}
    BY <2>1, RequestFacts DEF Arrives
  <2>3. QED BY <1>4, <2>1, <2>2 DEF Kinds
<1>6. CASE ServeDelete(c, n)
  <2>1. /\ Arrives(c, n, "DELETE", {"data"}) /\ Answers(c, n, "done")
        /\ TakesEffect(c) /\ Marks("delete", {Len(history)})
    BY <1>6 DEF ServeDelete
  <2>2. call[c].op.kind \in {"delete_latest", "delete_metadata"}
    BY <2>1, RequestFacts DEF Arrives
  <2>3. QED BY <1>4, <2>1, <2>2 DEF Kinds
<1>7. CASE ServeDeleteMetadata(c, n)
  <2>1. /\ Arrives(c, n, "DELETE", {"metadata"}) /\ Answers(c, n, "done")
        /\ TakesEffect(c) /\ history' = <<>>
    BY <1>7 DEF ServeDeleteMetadata
  <2>2. call[c].op.kind \in {"delete_latest", "delete_metadata"}
    BY <2>1, RequestFacts DEF Arrives
  <2>3. QED BY <2>1, <2>2 DEF Kinds
<1>8. QED BY <1>1, <1>2, <1>3, <1>5, <1>6, <1>7 DEF Vault

LEMMA VaultRInv ==
  ASSUME RInv, IInv', NEW c \in Calls, NEW n \in 1..(MaxRetries + 1), Vault(c, n)
  PROVE  RInv'
<1>1. PICK verb, paths, reply :
           /\ Arrives(c, n, verb, paths) /\ Answers(c, n, reply)
           /\ \/ /\ \E content \in Contents : Adds(c, content)
                 /\ call[c].op.kind = "update" => call[c].version = Len(history)
              \/ history' = history
              \/ history' = <<>>
              \/ /\ DOMAIN history' = DOMAIN history
                 /\ \A v \in DOMAIN history : history'[v].by = history[v].by
  BY VaultCases DEF RInv
<1>2. CASE /\ \E content \in Contents : Adds(c, content)
           /\ call[c].op.kind = "update" => call[c].version = Len(history)
  BY <1>1, <1>2, NewVersionRInv
<1>3. CASE \/ history' = history
           \/ history' = <<>>
           \/ /\ DOMAIN history' = DOMAIN history
              /\ \A v \in DOMAIN history : history'[v].by = history[v].by
  BY <1>1, <1>3, NoVersionRInv
<1>4. QED BY <1>1, <1>2, <1>3

LEMMA NextRInv == RInv /\ [Next]_vars => RInv'
<1> SUFFICES ASSUME RInv, [Next]_vars PROVE RInv'
  OBVIOUS
<1>1. IInv'
  BY NextIInv DEF RInv
<1>2. CASE UNCHANGED vars
  BY <1>1, <1>2 DEF vars, RInv, Started, Counted, CasFollows, MadeBy, UnderWay
<1>3. CASE Next
  BY <1>1, <1>3, ClientRInv, VaultRInv DEF Next
<1>4. QED BY <1>2, <1>3

LEMMA RInvHolds == Spec => []RInv
BY InitRInv, NextRInv, PTL DEF Spec

(* The register's variables as functions of the handler's.                 *)
Kind == [c \in Calls |-> KindOf(c)]
Owners == [v \in DOMAIN history |-> history[v].by]
Result == [c \in Calls |-> OutcomeOf(c)]

(* What the register counts is what the handler made.                      *)
LEMMA MadeFacts ==
  ASSUME NEW c \in Calls
  PROVE  Register!Made(c) = Cardinality(MadeBy(c))
<1> DEFINE owners == [v \in DOMAIN history |-> history[v].by]
<1>1. {v \in DOMAIN owners : owners[v] = c} = MadeBy(c)
  BY DEF MadeBy
<1>2. \A S : Register!Cardinality(S) = Cardinality(S)
  BY DEF Register!Cardinality, Cardinality
<1>3. Register!Made(c) = Register!Cardinality({v \in DOMAIN owners : owners[v] = c})
  BY DEF Register!Made
<1> HIDE DEF owners
<1>4. QED BY <1>1, <1>2, <1>3

(* A call may make its version: a write_cas none before, any other write   *)
(* no more than its attempts.                                              *)
LEMMA LimitFacts ==
  ASSUME RInv, NEW c \in Calls, NEW n \in 1..(MaxRetries + 1), <<c, n>> \in net,
         call[c].op.kind \in {"write", "update", "patch"},
         call[c].op.kind = "update" => call[c].version = Len(history)
  PROVE  Register!Made(c) < Register!Limit(c)
<1>1. CASE call[c].op.kind = "update"
  <2>1. MadeBy(c) = {}
    <3> SUFFICES ASSUME NEW v \in DOMAIN history, history[v].by = c PROVE FALSE
      BY DEF MadeBy
    <3>1. v = Len(history) + 1
      BY <1>1 DEF RInv, CasFollows
    <3>2. v <= Len(history)
      BY DEF RInv, IInv, TypeOK
    <3>3. QED BY <3>1, <3>2 DEF RInv, IInv, TypeOK
  <2>2. Register!Made(c) = 0
    BY <2>1, MadeFacts, FS_EmptySet
  <2>3. Register!Limit(c) = 1
    BY <1>1 DEF Register!Limit, KindOf
  <2>4. QED BY <2>2, <2>3
<1>2. CASE call[c].op.kind \in {"write", "patch"}
  <2>1. /\ Cardinality(MadeBy(c)) \in Nat /\ Cardinality(UnderWay(c)) \in Nat
        /\ Cardinality(MadeBy(c)) + Cardinality(UnderWay(c)) <= call[c].attempt
        /\ call[c].attempt \in 0..(MaxRetries + 1)
    BY CountFacts DEF RInv, Counted, IInv, TypeOK, CallStates
  <2>2. Cardinality(UnderWay(c)) # 0
    BY FS_EmptySet DEF RInv, Counted, UnderWay
  <2>3. Register!Limit(c) = MaxRetries + 1
    BY <1>2 DEF Register!Limit, KindOf
  <2>4. QED BY <2>1, <2>2, <2>3, MadeFacts, Kv2Assumption
<1>3. QED BY <1>1, <1>2

(* A caller's step begins the call, settles it, or is not seen.            *)
LEMMA ClientRefines ==
  ASSUME RInv, NEW c \in Calls, Client(c)
  PROVE  [Register!Next]_(Register!vars)
<1> USE DEF RInv, IInv, TypeOK
<1>1. /\ Owners' = Owners /\ took' = took
      /\ \A d \in Calls \ {c} : KindOf(d)' = KindOf(d) /\ OutcomeOf(d)' = OutcomeOf(d)
  <2>1. history' = history /\ \A d \in Calls \ {c} : call'[d] = call[d]
    BY ClientFacts
  <2>2. took' = took
    BY DEF Client, Begin, Read, ReadFails, Timeout, Receive
  <2>3. QED BY <2>1, <2>2 DEF Owners, KindOf, OutcomeOf
<1>2. ASSUME KindOf(c)' = KindOf(c), OutcomeOf(c)' = OutcomeOf(c)
      PROVE  UNCHANGED Register!vars
  <2>1. Kind' = Kind /\ Result' = Result
    BY <1>1, <1>2 DEF Kind, Result
  <2>2. QED BY <1>1, <2>1 DEF Register!vars, Kind, Owners, Result
<1>3. ASSUME KindOf(c) # "none", KindOf(c)' = KindOf(c), OutcomeOf(c) = "open",
             OutcomeOf(c)' = "failed" \/ (OutcomeOf(c)' = "ok" /\ took[c])
      PROVE  Register!Next
  <2>1. Kind' = Kind
    BY <1>1, <1>3 DEF Kind
  <2>2. Result[c] = "open" /\ Kind[c] # "none"
    BY <1>3 DEF Result, Kind
  <2>3. Result' = [Result EXCEPT ![c] = OutcomeOf(c)']
    BY <1>1 DEF Result
  <2>4. Register!Settle(c)
    BY <1>1, <1>3, <2>1, <2>2, <2>3 DEF Register!Settle, Kind, Owners, Result
  <2>5. QED BY <2>4 DEF Register!Next
<1>4. ASSUME call[c].status \in {"reading", "sent"}
      PROVE  KindOf(c) # "none" /\ call'[c].op = call[c].op
  <2>1. call[c].op.kind \in Kinds /\ call'[c].op = call[c].op
    BY <1>4, ClientFacts DEF Started
  <2>2. QED BY <2>1 DEF KindOf, Kinds
<1>5. CASE Begin(c)
  <2>1. call[c].status = "idle" /\ call[c].op.kind = "none"
    BY <1>5 DEF Begin, NothingSent
  <2>2. PICK op \in Operations :
          /\ call'[c].op = op
          /\ call'[c].status \in {"reading", "sent"}
    BY <1>5 DEF Begin, CallStates
  <2>3. KindOf(c) = "none" /\ OutcomeOf(c) = "open" /\ OutcomeOf(c)' = "open"
    BY <2>1, <2>2 DEF KindOf, OutcomeOf
  <2>4. KindOf(c)' \in {"cas", "write", "other"}
    <3>1. op.kind # "none"
      BY DEF Operations
    <3>2. QED BY <2>2, <3>1 DEF KindOf
  <2>5. Kind[c] = "none" /\ Kind' = [Kind EXCEPT ![c] = KindOf(c)'] /\ Result' = Result
    BY <1>1, <2>3 DEF Kind, Result
  <2>6. Register!Begin(c)
    BY <1>1, <2>4, <2>5 DEF Register!Begin, Kind, Owners, Result
  <2>7. QED BY <2>6 DEF Register!Next
<1>6. CASE Read(c)
  <2>1. call[c].status = "reading" /\ call'[c].status = "sent"
    BY <1>6 DEF Read, CallStates
  <2>2. KindOf(c)' = KindOf(c) /\ OutcomeOf(c)' = OutcomeOf(c)
    BY <1>4, <2>1 DEF KindOf, OutcomeOf
  <2>3. QED BY <1>2, <2>2
<1>7. CASE ReadFails(c)
  <2>1. call[c].status = "reading" /\ call'[c].status = "failed"
    BY <1>7 DEF ReadFails, CallStates
  <2>2. KindOf(c)' = KindOf(c) /\ OutcomeOf(c) = "open" /\ OutcomeOf(c)' = "failed"
    BY <1>4, <2>1 DEF KindOf, OutcomeOf
  <2>3. QED BY <1>3, <1>4, <2>1, <2>2
<1>8. CASE Timeout(c)
  <2>1. call[c].status = "sent" /\ call'[c].status \in {"sent", "failed"}
    BY <1>8 DEF Timeout, CallStates
  <2>2. /\ KindOf(c)' = KindOf(c) /\ OutcomeOf(c) = "open"
        /\ OutcomeOf(c)' = "open" \/ OutcomeOf(c)' = "failed"
    BY <1>4, <2>1 DEF KindOf, OutcomeOf
  <2>3. QED BY <1>2, <1>3, <1>4, <2>1, <2>2
<1>9. CASE Receive(c)
  <2>1. /\ call[c].status = "sent" /\ call[c].reply # "none"
        /\ call'[c].status = Outcome(call[c].reply)
    BY <1>9 DEF Receive, CallStates
  <2>2. /\ call'[c].status \in {"ok", "refused", "failed"}
        /\ call'[c].status = "ok" => took[c]
    BY <2>1 DEF Outcome, AnswersTell
  <2>3. /\ KindOf(c)' = KindOf(c) /\ OutcomeOf(c) = "open"
        /\ OutcomeOf(c)' = "failed" \/ (OutcomeOf(c)' = "ok" /\ took[c])
    BY <1>4, <2>1, <2>2 DEF KindOf, OutcomeOf
  <2>4. QED BY <1>3, <1>4, <2>1, <2>3
<1>10. QED BY <1>5, <1>6, <1>7, <1>8, <1>9 DEF Client

(* A request that arrives makes a version, affects others, or is not seen. *)
LEMMA VaultRefines ==
  ASSUME RInv, NEW c \in Calls, NEW n \in 1..(MaxRetries + 1), Vault(c, n)
  PROVE  [Register!Next]_(Register!vars)
<1>1. PICK verb, paths, reply :
           /\ Arrives(c, n, verb, paths) /\ Answers(c, n, reply)
           /\ \/ /\ \E content \in Contents : Adds(c, content)
                 /\ call[c].op.kind \in {"write", "update", "patch"}
                 /\ call[c].op.kind = "update" => call[c].version = Len(history)
                 /\ TakesEffect(c)
              \/ UNCHANGED <<history, took>>
              \/ /\ \/ history' = <<>>
                    \/ /\ DOMAIN history' = DOMAIN history
                       /\ \A v \in DOMAIN history : history'[v].by = history[v].by
                 /\ call[c].op.kind \in Kinds \ {"write", "update", "patch"}
                 /\ TakesEffect(c)
  BY VaultCases DEF RInv
<1>2. Kind' = Kind /\ Result' = Result
  <2>1. \A d \in Calls : call'[d].op = call[d].op /\ call'[d].status = call[d].status
    BY <1>1, ArrivalFacts
  <2>2. \A d \in Calls : KindOf(d)' = KindOf(d) /\ OutcomeOf(d)' = OutcomeOf(d)
    BY <2>1 DEF KindOf, OutcomeOf
  <2>3. QED BY <2>2 DEF Kind, Result
<1>3. CASE UNCHANGED <<history, took>>
  <2>1. Owners' = Owners /\ took' = took
    BY <1>3 DEF Owners
  <2>2. QED BY <1>2, <2>1 DEF Register!vars, Kind, Owners, Result
<1>4. CASE /\ \E content \in Contents : Adds(c, content)
           /\ call[c].op.kind \in {"write", "update", "patch"}
           /\ call[c].op.kind = "update" => call[c].version = Len(history)
           /\ TakesEffect(c)
  <2>1. Register!Made(c) < Register!Limit(c)
    BY <1>1, <1>4, LimitFacts DEF Arrives
  <2>2. Owners' = Append(Owners, c)
    <3>1. PICK content \in Contents : Adds(c, content)
      BY <1>4
    <3> DEFINE new == [by |-> c, content |-> content, state |-> "live"]
    <3>2. new \in Versions /\ new.by = c
      BY DEF Versions
    <3>3. history \in Seq(Versions) /\ history' = Append(history, new)
      BY <3>1 DEF Adds, RInv, IInv, TypeOK
    <3> HIDE DEF new
    <3>4. /\ history' \in Seq(Versions) /\ Len(history') = Len(history) + 1
          /\ history'[Len(history) + 1] = new /\ Len(history) \in Nat
          /\ \A v \in 1..Len(history) : history'[v] = history[v]
      BY <3>2, <3>3
    <3>5. /\ \A v \in DOMAIN history : history[v].by \in Calls
          /\ \A v \in DOMAIN history' : history'[v].by \in Calls
      <4>1. \A v \in DOMAIN history : history[v].by \in Calls
        BY <3>3, VersionFacts
      <4>2. \A v \in DOMAIN history' : v \in 1..Len(history) \/ v = Len(history) + 1
        BY <3>4
      <4>3. DOMAIN history = 1..Len(history)
        BY <3>3
      <4>4. QED BY <3>2, <3>4, <4>1, <4>2, <4>3
    <3>6. Owners \in Seq(Calls) /\ Len(Owners) = Len(history)
      BY <3>3, <3>5 DEF Owners
    <3>7. Owners' \in Seq(Calls) /\ Len(Owners') = Len(history) + 1
      BY <3>4, <3>5 DEF Owners
    <3>8. /\ Append(Owners, c) \in Seq(Calls) /\ Len(Append(Owners, c)) = Len(history) + 1
          /\ Append(Owners, c)[Len(history) + 1] = c
          /\ \A v \in 1..Len(history) : Append(Owners, c)[v] = Owners[v]
      BY <3>6, AppendProperties
    <3>9. \A v \in 1..Len(Owners') : Owners'[v] = Append(Owners, c)[v]
      BY <3>2, <3>3, <3>4, <3>7, <3>8 DEF Owners
    <3>10. QED BY <3>7, <3>8, <3>9, SeqEqual
  <2>3. Register!Make(c)
    BY <1>2, <1>4, <2>1, <2>2 DEF Register!Make, TakesEffect, Kind, Owners, Result
  <2>4. QED BY <2>3 DEF Register!Next
<1>5. CASE /\ \/ history' = <<>>
              \/ /\ DOMAIN history' = DOMAIN history
                 /\ \A v \in DOMAIN history : history'[v].by = history[v].by
           /\ call[c].op.kind \in Kinds \ {"write", "update", "patch"}
           /\ TakesEffect(c)
  <2>1. Kind[c] = "other"
    BY <1>5 DEF Kind, KindOf, Kinds
  <2>2. Owners' \in {Owners, <<>>}
    <3>1. CASE history' = <<>>
      BY <3>1 DEF Owners
    <3>2. CASE /\ DOMAIN history' = DOMAIN history
               /\ \A v \in DOMAIN history : history'[v].by = history[v].by
      BY <3>2 DEF Owners
    <3>3. QED BY <1>5, <3>1, <3>2
  <2>3. Register!Affect(c)
    BY <1>2, <1>5, <2>1, <2>2 DEF Register!Affect, TakesEffect, Kind, Owners, Result
  <2>4. QED BY <2>3 DEF Register!Next
<1>6. QED BY <1>1, <1>3, <1>4, <1>5

(* The handler with its retries implements the register.                   *)
THEOREM Refinement == Spec => ImplementsRegister
<1>1. Init => Register!Init
  <2> SUFFICES ASSUME Init PROVE Register!Init
    OBVIOUS
  <2>1. \A c \in Calls : KindOf(c) = "none" /\ OutcomeOf(c) = "open"
    BY DEF Init, Idle, NoOp, KindOf, OutcomeOf
  <2>2. Owners = <<>>
    BY DEF Init, Owners
  <2>3. QED BY <2>1, <2>2 DEF Init, Register!Init, Owners
<1>2. RInv /\ [Next]_vars => [Register!Next]_(Register!vars)
  <2> SUFFICES ASSUME RInv, [Next]_vars PROVE [Register!Next]_(Register!vars)
    OBVIOUS
  <2>1. CASE Next
    BY <2>1, ClientRefines, VaultRefines DEF Next
  <2>2. CASE UNCHANGED vars
    <3>1. Kind' = Kind /\ Owners' = Owners /\ Result' = Result /\ took' = took
      BY <2>2 DEF vars, Kind, Owners, Result, KindOf, OutcomeOf
    <3>2. QED BY <3>1 DEF Register!vars, Kind, Owners, Result
  <2>3. QED BY <2>1, <2>2
<1>3. QED BY <1>1, <1>2, RInvHolds, PTL DEF Spec, ImplementsRegister, Register!Spec
=============================================================================
