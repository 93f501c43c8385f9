------------------------------ MODULE Kv2Proofs ------------------------------
(***************************************************************************)
(* What holds of the KV v2 handler for any number of calls, fields and     *)
(* retries.  IInv adds to the type invariant what ties a call to the       *)
(* versions of the secret it saw, named or made: that is what the repeats  *)
(* of a timed out request must not break.                                  *)
(***************************************************************************)
EXTENDS Kv2, TLAPS

Begun(c) == call[c].status \notin {"idle", "reading"}

(* A call that has sent nothing yet has had no effect.                     *)
NothingSent ==
  \A c \in Calls :
    /\ call[c].status = "idle" => call[c].op.kind = "none"
    /\ call[c].status = "sent" => call[c].attempt > 0
    /\ ~ Begun(c) => /\ ~ took[c] /\ call[c].attempt = 0 /\ call[c].reply = "none"
                     /\ call[c].version = 0 /\ call[c].content = Empty

(* What is known of a call by the answer it has.  While its only attempt   *)
(* is under way, and when that was refused, it has had no effect.          *)
AnswersTell ==
  \A c \in Calls :
    /\ call[c].status = "ok" => call[c].reply = "done"
    /\ call[c].status = "refused" => call[c].reply = "refused"
    /\ call[c].reply = "done" => took[c]
    /\ call[c].attempt = 1 /\ <<c, 1>> \in net => ~ took[c] /\ call[c].reply = "none"
    /\ call[c].attempt = 1 /\ call[c].reply = "refused" => ~ took[c]

(* Versions were made by calls that sent something.                        *)
Authors == \A v \in DOMAIN history : Begun(history[v].by)

(* Until the metadata go, the version a call names is there, ...           *)
NamedVersions ==
  \A c \in Calls :
    call[c].op.kind \in {"delete", "undelete", "destroy"} /\ ~ old[c] =>
      call[c].op.version \in DOMAIN history

(* ... what an update read is what that version holds, ...                 *)
ReadVersions ==
  \A c \in Calls :
    call[c].op.kind = "update" /\ Begun(c) /\ ~ old[c] =>
      \/ call[c].version = 0 /\ call[c].content = Empty
      \/ /\ call[c].version \in DOMAIN history
         /\ call[c].content = history[call[c].version].content

(* ... and what a call destroyed stays so.                                 *)
DestroyedVersions ==
  \A c \in Calls :
    took[c] /\ call[c].op.kind = "destroy" /\ ~ old[c] =>
      /\ call[c].op.version \in DOMAIN history
      /\ history[call[c].op.version].state = "destroyed"

IInv ==
  /\ TypeOK
  /\ NothingSent
  /\ AnswersTell
  /\ Authors
  /\ NamedVersions
  /\ ReadVersions
  /\ DestroyedVersions
  /\ OtherFieldsKept

(* Contents stay contents when fields are laid over them.                  *)
LEMMA OverlayFacts ==
  ASSUME NEW c \in Calls, NEW content \in Contents
  PROVE  /\ Overlay(content, c) \in Contents
         /\ \A f \in Fields \ call[c].op.fields : Overlay(content, c)[f] = content[f]
BY DEF Overlay, Contents

LEMMA EmptyFacts == Empty \in Contents
BY DEF Empty, Contents

(* A version has an author and a content.                                  *)
LEMMA VersionFacts ==
  ASSUME history \in Seq(Versions), NEW v \in DOMAIN history
  PROVE  history[v] \in Versions /\ history[v].by \in Calls /\ history[v].content \in Contents
<1>1. history[v] \in Versions
  OBVIOUS
<1>2. QED BY <1>1 DEF Versions

(* A call that changes leaves the others alone.                            *)
LEMMA CallFacts ==
  ASSUME call \in [Calls -> CallStates], NEW c \in Calls, NEW x \in CallStates,
         call' = [call EXCEPT ![c] = x]
  PROVE  /\ call' \in [Calls -> CallStates]
         /\ call'[c] = x
         /\ \A d \in Calls \ {c} : call'[d] = call[d]
OBVIOUS

(* The initial state satisfies the invariant.                              *)
LEMMA InitIInv == Init => IInv
<1> SUFFICES ASSUME Init PROVE IInv
  OBVIOUS
<1>1. Idle \in CallStates
  BY EmptyFacts, Kv2Assumption DEF Idle, CallStates, NoOp
<1>2. TypeOK
  BY <1>1 DEF Init, TypeOK
<1>3. NothingSent /\ AnswersTell
  BY DEF Init, NothingSent, AnswersTell, Begun, Idle, NoOp
<1>4. Authors /\ NamedVersions /\ ReadVersions /\ DestroyedVersions /\ OtherFieldsKept
  BY DEF Init, Authors, NamedVersions, ReadVersions, DestroyedVersions, OtherFieldsKept,
         Begun, Idle, NoOp
<1>5. QED BY <1>2, <1>3, <1>4 DEF IInv

(* The callers' steps keep the invariant.                                  *)
LEMMA BeginIInv ==
  ASSUME IInv, NEW c \in Calls, Begin(c) PROVE IInv'
<1> USE DEF IInv, TypeOK
<1>1. PICK op \in Operations :
        IF op.kind = "update"
        THEN /\ call' = [call EXCEPT ![c].op = op, ![c].status = "reading"]
             /\ UNCHANGED net
        ELSE /\ call' = [call EXCEPT ![c].op = op, ![c].status = "sent", ![c].attempt = 1]
             /\ net' = net \cup {<<c, 1>>}
  BY DEF Begin
<1>2. UNCHANGED <<history, took, old>> /\ call[c].status = "idle"
  BY DEF Begin
<1>3. /\ op \in [kind : Kinds \cup {"none"}, fields : SUBSET Fields, version : Nat]
      /\ op.kind \in {"delete", "undelete", "destroy"} => op.version \in DOMAIN history
      /\ op.kind # "none"
  BY <1>1 DEF Operations, Kinds
<1>4. call[c] \in CallStates /\ 1 \in 0..(MaxRetries + 1) /\ 1 \in 1..(MaxRetries + 1)
  BY Kv2Assumption
<1>5. /\ call' \in [Calls -> CallStates]
      /\ \A d \in Calls \ {c} : call'[d] = call[d]
      /\ call'[c].op = op /\ call'[c].reply = call[c].reply
      /\ call'[c].version = call[c].version /\ call'[c].content = call[c].content
      /\ \/ /\ op.kind = "update" /\ net' = net
            /\ call'[c].status = "reading" /\ call'[c].attempt = call[c].attempt
         \/ /\ op.kind # "update" /\ net' = net \cup {<<c, 1>>}
            /\ call'[c].status = "sent" /\ call'[c].attempt = 1
  <2>1. CASE op.kind = "update"
    <3> DEFINE x == [call[c] EXCEPT !.op = op, !.status = "reading"]
    <3>1. call' = [call EXCEPT ![c] = x] /\ net' = net
      BY <1>1, <2>1
    <3>2. x \in CallStates
      BY <1>3, <1>4 DEF CallStates
    <3>3. /\ x.op = op /\ x.status = "reading" /\ x.attempt = call[c].attempt
          /\ x.reply = call[c].reply /\ x.version = call[c].version
          /\ x.content = call[c].content
      BY <1>4 DEF CallStates
    <3> HIDE DEF x
    <3>4. QED BY <2>1, <3>1, <3>2, <3>3, CallFacts
  <2>2. CASE op.kind # "update"
    <3> DEFINE x == [call[c] EXCEPT !.op = op, !.status = "sent", !.attempt = 1]
    <3>1. call' = [call EXCEPT ![c] = x] /\ net' = net \cup {<<c, 1>>}
      BY <1>1, <2>2
    <3>2. x \in CallStates
      BY <1>3, <1>4 DEF CallStates
    <3>3. /\ x.op = op /\ x.status = "sent" /\ x.attempt = 1
          /\ x.reply = call[c].reply /\ x.version = call[c].version
          /\ x.content = call[c].content
      BY <1>4 DEF CallStates
    <3> HIDE DEF x
    <3>4. QED BY <2>2, <3>1, <3>2, <3>3, CallFacts
  <2>3. QED BY <2>1, <2>2
<1>6. ~ took[c] /\ call[c].attempt = 0 /\ call[c].reply = "none"
  BY <1>2 DEF NothingSent, Begun
<1>7. TypeOK'
  <2>1. net' \in SUBSET (Calls \X (1..(MaxRetries + 1)))
    BY <1>4, <1>5
  <2>2. \A m \in net' : m[2] <= call'[m[1]].attempt
    <3> SUFFICES ASSUME NEW m \in net' PROVE m[2] <= call'[m[1]].attempt
      OBVIOUS
    <3>1. CASE m \in net
      <4>1. m[1] # c
        BY <1>6, <3>1
      <4>2. QED BY <1>5, <3>1, <4>1
    <3>2. CASE m \notin net
      BY <1>5, <3>2
    <3>3. QED BY <3>1, <3>2
  <2>3. QED BY <1>2, <1>5, <2>1, <2>2
<1>8. NothingSent' /\ AnswersTell'
  BY <1>2, <1>3, <1>5, <1>6 DEF NothingSent, AnswersTell, Begun
<1>9. Authors' /\ OtherFieldsKept'
  <2>1. \A v \in DOMAIN history : history[v].by # c /\ history[v].by \in Calls
    BY <1>2, VersionFacts DEF Authors, Begun
  <2>2. QED BY <1>2, <1>5, <2>1 DEF Authors, OtherFieldsKept, Begun
<1>10. NamedVersions' /\ ReadVersions' /\ DestroyedVersions'
  BY <1>2, <1>3, <1>5, <1>6 DEF NamedVersions, ReadVersions, DestroyedVersions, Begun
<1>11. QED BY <1>7, <1>8, <1>9, <1>10

LEMMA ReadIInv ==
  ASSUME IInv, NEW c \in Calls, Read(c) PROVE IInv'
<1> USE DEF IInv, TypeOK
<1>1. /\ call[c].status = "reading" /\ UNCHANGED <<history, took, old>>
      /\ net' = net \cup {<<c, 1>>}
  BY DEF Read
<1>2. 1 \in 0..(MaxRetries + 1) /\ 1 \in 1..(MaxRetries + 1)
  BY Kv2Assumption
<1>3. /\ Readable => /\ Len(history) \in DOMAIN history
                     /\ history[Len(history)].content \in Contents
  BY VersionFacts DEF Readable
<1>4. PICK version \in Nat, content \in Contents :
        /\ call' = [call EXCEPT ![c].status = "sent", ![c].attempt = 1,
                                ![c].version = version, ![c].content = content]
        /\ \/ version = 0 /\ content = Empty
           \/ version \in DOMAIN history /\ content = history[version].content
  <2> DEFINE version == IF Readable THEN Len(history) ELSE 0
             content == IF Readable THEN history[Len(history)].content ELSE Empty
  <2>1. version \in Nat /\ content \in Contents
    BY <1>3, EmptyFacts
  <2>2. \/ version = 0 /\ content = Empty
        \/ version \in DOMAIN history /\ content = history[version].content
    BY <1>3
  <2>3. call' = [call EXCEPT ![c].status = "sent", ![c].attempt = 1,
                             ![c].version = version, ![c].content = content]
    BY DEF Read
  <2> HIDE DEF version, content
  <2>4. QED BY <2>1, <2>2, <2>3
<1>5. /\ call' \in [Calls -> CallStates]
      /\ \A d \in Calls \ {c} : call'[d] = call[d]
      /\ call'[c].op = call[c].op /\ call'[c].reply = call[c].reply
      /\ call'[c].status = "sent" /\ call'[c].attempt = 1
      /\ call'[c].version = version /\ call'[c].content = content
  <2> DEFINE x == [call[c] EXCEPT !.status = "sent", !.attempt = 1,
                                  !.version = version, !.content = content]
  <2>1. call' = [call EXCEPT ![c] = x]
    BY <1>4
  <2>2. x \in CallStates
    BY <1>2 DEF CallStates
  <2>3. /\ x.op = call[c].op /\ x.status = "sent" /\ x.attempt = 1
        /\ x.reply = call[c].reply /\ x.version = version /\ x.content = content
    BY DEF CallStates
  <2> HIDE DEF x
  <2>4. QED BY <2>1, <2>2, <2>3, CallFacts
<1>6. ~ took[c] /\ call[c].attempt = 0 /\ call[c].reply = "none"
  BY <1>1 DEF NothingSent, Begun
<1>7. TypeOK'
  <2>1. net' \in SUBSET (Calls \X (1..(MaxRetries + 1)))
    BY <1>1, <1>2
  <2>2. \A m \in net' : m[2] <= call'[m[1]].attempt
    <3> SUFFICES ASSUME NEW m \in net' PROVE m[2] <= call'[m[1]].attempt
      OBVIOUS
    <3>1. CASE m \in net
      <4>1. m[1] # c
        BY <1>6, <3>1
      <4>2. QED BY <1>5, <3>1, <4>1
    <3>2. CASE m \notin net
      BY <1>1, <1>5, <3>2
    <3>3. QED BY <3>1, <3>2
  <2>3. QED BY <1>1, <1>5, <2>1, <2>2
<1>8. NothingSent' /\ AnswersTell'
  BY <1>1, <1>5, <1>6 DEF NothingSent, AnswersTell, Begun
<1>9. Authors' /\ OtherFieldsKept'
  <2>1. \A v \in DOMAIN history : history[v].by # c /\ history[v].by \in Calls
    BY <1>1, VersionFacts DEF Authors, Begun
  <2>2. QED BY <1>1, <1>5, <2>1 DEF Authors, OtherFieldsKept, Begun
<1>10. NamedVersions' /\ ReadVersions' /\ DestroyedVersions'
  BY <1>1, <1>4, <1>5, <1>6 DEF NamedVersions, ReadVersions, DestroyedVersions, Begun
<1>11. QED BY <1>7, <1>8, <1>9, <1>10

LEMMA ReadFailsIInv ==
  ASSUME IInv, NEW c \in Calls, ReadFails(c) PROVE IInv'
<1> USE DEF IInv, TypeOK
<1>1. /\ call[c].status = "reading" /\ UNCHANGED <<net, history, took, old>>
      /\ call' = [call EXCEPT ![c].status = "failed"]
  BY DEF ReadFails
<1>2. /\ ~ took[c] /\ call[c].attempt = 0 /\ call[c].reply = "none"
      /\ call[c].version = 0 /\ call[c].content = Empty
  BY <1>1 DEF NothingSent, Begun
<1>3. /\ call' \in [Calls -> CallStates]
      /\ \A d \in Calls \ {c} : call'[d] = call[d]
      /\ call'[c].op = call[c].op /\ call'[c].reply = call[c].reply
      /\ call'[c].status = "failed" /\ call'[c].attempt = call[c].attempt
      /\ call'[c].version = call[c].version /\ call'[c].content = call[c].content
  BY <1>1 DEF CallStates
<1>4. TypeOK' /\ NothingSent' /\ AnswersTell'
  <2>1. \A m \in net' : m[1] \in Calls /\ call'[m[1]].attempt = call[m[1]].attempt
    BY <1>1, <1>3
  <2>2. TypeOK'
    BY <1>1, <1>3, <2>1
  <2>3. QED BY <1>1, <1>2, <1>3, <2>2 DEF NothingSent, AnswersTell, Begun
<1>5. Authors' /\ OtherFieldsKept'
  <2>1. \A v \in DOMAIN history : history[v].by \in Calls /\ call'[history[v].by].op = call[history[v].by].op
    BY <1>3, VersionFacts
  <2>2. Authors'
    BY <1>1, <1>3, VersionFacts DEF Authors, Begun
  <2>3. QED BY <1>1, <2>1, <2>2 DEF OtherFieldsKept
<1>6. NamedVersions' /\ ReadVersions' /\ DestroyedVersions'
  BY <1>1, <1>2, <1>3 DEF NamedVersions, ReadVersions, DestroyedVersions, Begun
<1>7. QED BY <1>4, <1>5, <1>6

(* A timed out attempt is followed by the next one, or by an error.        *)
LEMMA TimeoutIInv ==
  ASSUME IInv, NEW c \in Calls, Timeout(c) PROVE IInv'
<1> USE DEF IInv, TypeOK
<1>1. call[c].status = "sent" /\ UNCHANGED <<history, took, old>>
  BY DEF Timeout
<1>2. call[c] \in CallStates /\ call[c].attempt \in 0..(MaxRetries + 1)
  BY DEF CallStates
<1>3. /\ call' \in [Calls -> CallStates]
      /\ \A d \in Calls \ {c} : call'[d] = call[d]
      /\ call'[c].op = call[c].op /\ call'[c].reply = "none"
      /\ call'[c].version = call[c].version /\ call'[c].content = call[c].content
      /\ \/ /\ call'[c].status = "sent" /\ call'[c].attempt = call[c].attempt + 1
            /\ net' = net \cup {<<c, call[c].attempt + 1>>}
            /\ call[c].attempt + 1 \in 1..(MaxRetries + 1)
         \/ /\ call'[c].status = "failed" /\ call'[c].attempt = call[c].attempt
            /\ net' = net
  <2>1. CASE call[c].attempt <= MaxRetries
    <3>1. /\ call' = [call EXCEPT ![c].attempt = @ + 1, ![c].reply = "none"]
          /\ net' = net \cup {<<c, call[c].attempt + 1>>}
      BY <2>1 DEF Timeout
    <3>2. /\ call[c].attempt + 1 \in 1..(MaxRetries + 1)
          /\ call[c].attempt + 1 \in 0..(MaxRetries + 1)
      BY <1>2, <2>1, Kv2Assumption
    <3> DEFINE next == call[c].attempt + 1
               x == [call[c] EXCEPT !.attempt = next, !.reply = "none"]
    <3>3. call' = [call EXCEPT ![c] = x]
      BY <3>1
    <3>4. x \in CallStates
      BY <1>2, <3>2 DEF CallStates
    <3>5. /\ x.op = call[c].op /\ x.status = "sent" /\ x.attempt = call[c].attempt + 1
          /\ x.reply = "none" /\ x.version = call[c].version /\ x.content = call[c].content
      BY <1>1, <1>2 DEF CallStates
    <3> HIDE DEF x
    <3>6. QED BY <3>1, <3>2, <3>3, <3>4, <3>5, CallFacts
  <2>2. CASE ~ (call[c].attempt <= MaxRetries)
    <3>1. /\ call' = [call EXCEPT ![c].status = "failed", ![c].reply = "none"]
          /\ net' = net
      BY <2>2 DEF Timeout
    <3>2. QED BY <1>2, <3>1 DEF CallStates
  <2>3. QED BY <2>1, <2>2
<1>4. TypeOK'
  <2>1. net' \in SUBSET (Calls \X (1..(MaxRetries + 1)))
    BY <1>3
  <2>2. \A m \in net' : m[2] <= call'[m[1]].attempt
    <3> SUFFICES ASSUME NEW m \in net' PROVE m[2] <= call'[m[1]].attempt
      OBVIOUS
    <3>1. CASE m \in net
      <4>1. /\ m[1] \in Calls /\ m[2] \in 1..(MaxRetries + 1)
            /\ m[2] <= call[m[1]].attempt
        BY <3>1
      <4>2. /\ call'[m[1]].attempt \in Nat /\ call[m[1]].attempt \in Nat
            /\ call[m[1]].attempt <= call'[m[1]].attempt
        <5>1. \A d \in Calls : call[d].attempt \in 0..(MaxRetries + 1)
          BY DEF CallStates
        <5>2. call'[c].attempt \in {call[c].attempt, call[c].attempt + 1}
          BY <1>3
        <5>3. CASE m[1] = c
          BY <5>1, <5>2, <5>3, Kv2Assumption
        <5>4. CASE m[1] # c
          BY <1>3, <4>1, <5>1, <5>4, Kv2Assumption
        <5>5. QED BY <5>3, <5>4
      <4>3. QED BY <4>1, <4>2, Kv2Assumption
    <3>2. CASE m \notin net
      <4>1. m = <<c, call[c].attempt + 1>> /\ call'[c].attempt = call[c].attempt + 1
        BY <1>3, <3>2
      <4>2. QED BY <1>2, <4>1, Kv2Assumption
    <3>3. QED BY <3>1, <3>2
  <2>3. QED BY <1>1, <1>3, <2>1, <2>2
<1>5. NothingSent' /\ AnswersTell'
  <2>1. call'[c].attempt = 1 /\ <<c, 1>> \in net' => ~ took[c]
    <3>1. CASE net' = net /\ call'[c].attempt = call[c].attempt
      BY <3>1 DEF AnswersTell
    <3>2. CASE call'[c].attempt = call[c].attempt + 1
      <4>1. SUFFICES ASSUME call'[c].attempt = 1 PROVE ~ took[c]
        OBVIOUS
      <4>2. call[c].attempt = 0
        BY <1>2, <3>2, <4>1, Kv2Assumption
      <4>3. QED BY <1>1, <4>2 DEF NothingSent
    <3>3. QED BY <1>3, <3>1, <3>2
  <2>2. NothingSent'
    BY <1>1, <1>2, <1>3, Kv2Assumption DEF NothingSent, Begun
  <2>3. \A d \in Calls \ {c} : <<d, 1>> \in net' <=> <<d, 1>> \in net
    BY <1>3
  <2>4. QED BY <1>1, <1>3, <2>1, <2>2, <2>3 DEF AnswersTell
<1>6. Authors' /\ OtherFieldsKept'
  <2>1. \A v \in DOMAIN history : history[v].by \in Calls /\ call'[history[v].by].op = call[history[v].by].op
    BY <1>3, VersionFacts
  <2>2. Authors'
    BY <1>1, <1>3, VersionFacts DEF Authors, Begun
  <2>3. QED BY <1>1, <2>1, <2>2 DEF OtherFieldsKept
<1>7. NamedVersions' /\ ReadVersions' /\ DestroyedVersions'
  BY <1>1, <1>3 DEF NamedVersions, ReadVersions, DestroyedVersions, Begun
<1>8. QED BY <1>4, <1>5, <1>6, <1>7

(* The answer to the newest attempt becomes the outcome.                   *)
LEMMA ReceiveIInv ==
  ASSUME IInv, NEW c \in Calls, Receive(c) PROVE IInv'
<1> USE DEF IInv, TypeOK
<1>1. /\ call[c].status = "sent" /\ call[c].reply # "none"
      /\ UNCHANGED <<net, history, took, old>>
      /\ call' = [call EXCEPT ![c].status = Outcome(call[c].reply)]
  BY DEF Receive
<1>2. /\ Outcome(call[c].reply) \in {"ok", "refused", "failed"}
      /\ Outcome(call[c].reply) = "ok" => call[c].reply = "done"
      /\ Outcome(call[c].reply) = "refused" => call[c].reply = "refused"
  BY DEF Outcome
<1>3. /\ call' \in [Calls -> CallStates]
      /\ \A d \in Calls \ {c} : call'[d] = call[d]
      /\ call'[c].op = call[c].op /\ call'[c].reply = call[c].reply
      /\ call'[c].status = Outcome(call[c].reply) /\ call'[c].attempt = call[c].attempt
      /\ call'[c].version = call[c].version /\ call'[c].content = call[c].content
  BY <1>1, <1>2 DEF CallStates
<1>4. TypeOK' /\ NothingSent' /\ AnswersTell'
  <2>1. \A m \in net' : m[1] \in Calls /\ call'[m[1]].attempt = call[m[1]].attempt
    BY <1>1, <1>3
  <2>2. TypeOK'
    BY <1>1, <1>3, <2>1
  <2>3. QED BY <1>1, <1>2, <1>3, <2>2 DEF NothingSent, AnswersTell, Begun
<1>5. Authors' /\ OtherFieldsKept'
  <2>1. \A v \in DOMAIN history : history[v].by \in Calls /\ call'[history[v].by].op = call[history[v].by].op
    BY <1>3, VersionFacts
  <2>2. Authors'
    BY <1>1, <1>2, <1>3, VersionFacts DEF Authors, Begun
  <2>3. QED BY <1>1, <2>1, <2>2 DEF OtherFieldsKept
<1>6. NamedVersions' /\ ReadVersions' /\ DestroyedVersions'
  BY <1>1, <1>2, <1>3 DEF NamedVersions, ReadVersions, DestroyedVersions, Begun
<1>7. QED BY <1>4, <1>5, <1>6

(* Which operation a request belongs to.                                   *)
LEMMA RequestFacts ==
  ASSUME call \in [Calls -> CallStates], NEW c \in Calls
  PROVE  /\ Request(c).verb = "POST" /\ Request(c).path = "data" =>
              call[c].op.kind \in {"write", "update"}
         /\ Request(c).verb = "PATCH" => call[c].op.kind = "patch"
         /\ Request(c).verb = "POST" /\ Request(c).path \in {"delete", "undelete", "destroy"} =>
              /\ call[c].op.kind = Request(c).path
              /\ Request(c).version = call[c].op.version
         /\ Request(c).verb = "DELETE" => call[c].op.kind \in {"delete_latest", "delete_metadata"}
<1>1. call[c].op.kind \in Kinds \cup {"none"}
  BY DEF CallStates
<1>2. CASE call[c].op.kind \in {"write", "update", "patch", "delete_latest", "delete_metadata"}
  BY <1>2 DEF Request, PatchVerb
<1>3. CASE call[c].op.kind \in {"delete", "undelete", "destroy", "none"}
  BY <1>3 DEF Request, VersionPath
<1>4. QED BY <1>1, <1>2, <1>3 DEF Kinds

(* What a write sends.                                                     *)
LEMMA WriteFacts ==
  ASSUME call \in [Calls -> CallStates], NEW c \in Calls
  PROVE  /\ call[c].op.kind = "write" =>
              Request(c).content = Overlay(Empty, c)
         /\ call[c].op.kind = "update" =>
              /\ Request(c).content = Overlay(call[c].content, c)
              /\ Request(c).cas = {call[c].version}
BY DEF Request, CasOption

(* A request that reaches Vault changes of its call at most the answer,    *)
(* and what is known by the answer stays right.                            *)
LEMMA ServedFacts ==
  ASSUME IInv, NEW c \in Calls, NEW n \in 1..(MaxRetries + 1), NEW verb, NEW paths,
         Arrives(c, n, verb, paths),
         NEW reply \in {"done", "refused", "notfound"}, Answers(c, n, reply),
         IF reply = "done" THEN TakesEffect(c) ELSE UNCHANGED took
  PROVE  /\ Begun(c)
         /\ call' \in [Calls -> CallStates]
         /\ \A d \in Calls : /\ call'[d].op = call[d].op /\ call'[d].status = call[d].status
                             /\ call'[d].version = call[d].version
                             /\ call'[d].content = call[d].content
         /\ net' \in SUBSET (Calls \X (1..(MaxRetries + 1)))
         /\ \A m \in net' : m[2] <= call'[m[1]].attempt
         /\ took' \in [Calls -> BOOLEAN]
         /\ \A d \in Calls \ {c} : took'[d] = took[d]
         /\ NothingSent' /\ AnswersTell'
<1> USE DEF IInv, TypeOK
<1>1. <<c, n>> \in net /\ net' = net \ {<<c, n>>}
  BY DEF Arrives
<1>2. \A d \in Calls : call[d].attempt \in 0..(MaxRetries + 1)
  BY DEF CallStates
<1>3. call[c].attempt # 0 /\ Begun(c)
  <2>1. n <= call[c].attempt
    BY <1>1
  <2>2. QED BY <1>2, <2>1, Kv2Assumption DEF NothingSent
<1>4. /\ call' \in [Calls -> CallStates]
      /\ \A d \in Calls \ {c} : call'[d] = call[d]
      /\ call'[c].op = call[c].op /\ call'[c].status = call[c].status
      /\ call'[c].attempt = call[c].attempt /\ call'[c].version = call[c].version
      /\ call'[c].content = call[c].content
      /\ \/ call'[c].reply = call[c].reply
         \/ call'[c].reply = reply /\ call[c].status = "sent"
  <2>1. CASE call[c].status = "sent" /\ call[c].attempt = n
    <3> DEFINE x == [call[c] EXCEPT !.reply = reply]
    <3>1. call' = [call EXCEPT ![c] = x]
      BY <2>1 DEF Answers
    <3>2. x \in CallStates
      BY DEF CallStates
    <3>3. /\ x.op = call[c].op /\ x.status = call[c].status /\ x.attempt = call[c].attempt
          /\ x.reply = reply /\ x.version = call[c].version /\ x.content = call[c].content
      BY DEF CallStates
    <3> HIDE DEF x
    <3>4. QED BY <2>1, <3>1, <3>2, <3>3, CallFacts
  <2>2. CASE ~ (call[c].status = "sent" /\ call[c].attempt = n)
    BY <2>2 DEF Answers
  <2>3. QED BY <2>1, <2>2
<1>5. /\ took' \in [Calls -> BOOLEAN]
      /\ \A d \in Calls \ {c} : took'[d] = took[d]
      /\ reply = "done" => took'[c]
      /\ took[c] => took'[c]
      /\ reply # "done" => took'[c] = took[c]
  BY DEF TakesEffect
<1>6. /\ net' \in SUBSET (Calls \X (1..(MaxRetries + 1)))
      /\ \A m \in net' : m[2] <= call'[m[1]].attempt
  BY <1>1, <1>4
<1>7. NothingSent'
  BY <1>3, <1>4, <1>5 DEF NothingSent, Begun
<1>8. AnswersTell'
  <2>1. /\ call'[c].status = "ok" => call'[c].reply = "done"
        /\ call'[c].status = "refused" => call'[c].reply = "refused"
    BY <1>4 DEF AnswersTell
  <2>2. call'[c].reply = "done" => took'[c]
    BY <1>4, <1>5 DEF AnswersTell
  <2>3. ASSUME call'[c].attempt = 1
        PROVE  <<c, 1>> \notin net' /\ (call'[c].reply = "refused" => ~ took'[c])
    <3>1. n = 1
      <4>1. n <= call[c].attempt
        BY <1>1
      <4>2. QED BY <1>4, <2>3, <4>1
    <3>2. ~ took[c] /\ call[c].reply = "none"
      BY <1>1, <1>4, <2>3, <3>1 DEF AnswersTell
    <3>3. QED BY <1>1, <1>4, <1>5, <3>1, <3>2
  <2>4. \A d \in Calls \ {c} : <<d, 1>> \in net' => <<d, 1>> \in net
    BY <1>1
  <2>5. ASSUME NEW d \in Calls
        PROVE  /\ call'[d].status = "ok" => call'[d].reply = "done"
               /\ call'[d].status = "refused" => call'[d].reply = "refused"
               /\ call'[d].reply = "done" => took'[d]
               /\ call'[d].attempt = 1 /\ <<d, 1>> \in net' => ~ took'[d] /\ call'[d].reply = "none"
               /\ call'[d].attempt = 1 /\ call'[d].reply = "refused" => ~ took'[d]
    <3>1. CASE d = c
      BY <2>1, <2>2, <2>3, <3>1
    <3>2. CASE d # c
      BY <1>4, <1>5, <2>4, <3>2 DEF AnswersTell
    <3>3. QED BY <3>1, <3>2
  <2>6. QED BY <2>5 DEF AnswersTell
<1>9. QED BY <1>3, <1>4, <1>5, <1>6, <1>7, <1>8

(* The part of the invariant that is about the versions.                   *)
VersionsRight ==
  /\ history \in Seq(Versions) /\ Authors /\ NamedVersions /\ ReadVersions
  /\ DestroyedVersions /\ OtherFieldsKept

(* A request that leaves the versions as they are keeps it, ...            *)
LEMMA KeepVersions ==
  ASSUME IInv, UNCHANGED <<history, took, old>>,
         \A d \in Calls : /\ call'[d].op = call[d].op /\ call'[d].status = call[d].status
                          /\ call'[d].version = call[d].version
                          /\ call'[d].content = call[d].content
  PROVE  VersionsRight'
<1> USE DEF IInv, TypeOK
<1>1. \A v \in DOMAIN history : history[v].by \in Calls
  BY VersionFacts
<1>2. QED BY <1>1 DEF VersionsRight, Authors, NamedVersions, ReadVersions, DestroyedVersions,
                      OtherFieldsKept, Begun

(* ... one that adds a version does, ...                                   *)
LEMMA AddVersion ==
  ASSUME IInv, NEW c \in Calls, Begun(c), NEW content \in Contents, Adds(c, content),
         UNCHANGED old, \A d \in Calls \ {c} : took'[d] = took[d],
         \A d \in Calls : /\ call'[d].op = call[d].op /\ call'[d].status = call[d].status
                          /\ call'[d].version = call[d].version
                          /\ call'[d].content = call[d].content,
         call[c].op.kind # "destroy",
         call[c].op.kind \in {"update", "patch"} /\ ~ old[c] =>
           \A f \in Fields \ call[c].op.fields :
             content[f] = (IF history = <<>> THEN Empty ELSE history[Len(history)].content)[f]
  PROVE  VersionsRight'
<1> USE DEF IInv, TypeOK
<1> DEFINE new == [by |-> c, content |-> content, state |-> "live"]
<1>1. new \in Versions
  BY DEF Versions
<1>2. /\ history' \in Seq(Versions) /\ Len(history') = Len(history) + 1
      /\ history'[Len(history) + 1] = new
      /\ \A v \in DOMAIN history : v \in DOMAIN history' /\ history'[v] = history[v]
      /\ \A v \in DOMAIN history' : v \in DOMAIN history \/ v = Len(history) + 1
  BY <1>1 DEF Adds
<1>3. new.by = c /\ new.content = content
  OBVIOUS
<1> HIDE DEF new
<1>4. \A v \in DOMAIN history : history[v].by \in Calls
  BY VersionFacts
<1>5. Authors'
  BY <1>2, <1>3, <1>4 DEF Authors, Begun
<1>6. NamedVersions' /\ ReadVersions'
  <2>1. NamedVersions'
    BY <1>2 DEF NamedVersions
  <2>2. ASSUME NEW d \in Calls, call[d].op.kind = "update", Begun(d), ~ old[d]
        PROVE  \/ call[d].version = 0 /\ call[d].content = Empty
               \/ /\ call[d].version \in DOMAIN history'
                  /\ call[d].content = history'[call[d].version].content
    BY <1>2, <2>2 DEF ReadVersions
  <2>3. QED BY <2>1, <2>2 DEF ReadVersions, Begun
<1>7. DestroyedVersions'
  BY <1>2 DEF DestroyedVersions
<1>8. OtherFieldsKept'
  <2> SUFFICES ASSUME NEW v \in DOMAIN history',
                      call'[history'[v].by].op.kind \in {"update", "patch"},
                      ~ old'[history'[v].by],
                      NEW f \in Fields \ call'[history'[v].by].op.fields
               PROVE  history'[v].content[f]
                        = (IF v = 1 THEN Empty ELSE history'[v - 1].content)[f]
    BY DEF OtherFieldsKept
  <2>1. CASE v \in DOMAIN history
    <3>1. v # 1 => v - 1 \in DOMAIN history
      BY <2>1
    <3>2. QED BY <1>2, <1>4, <2>1, <3>1 DEF OtherFieldsKept
  <2>2. CASE v = Len(history) + 1
    <3>1. history' [v].content = content /\ history'[v].by = c
      BY <1>2, <1>3, <2>2
    <3>2. IF history = <<>> THEN v = 1
          ELSE v # 1 /\ v - 1 = Len(history) /\ Len(history) \in DOMAIN history
      BY <2>2
    <3>3. QED BY <1>2, <2>2, <3>1, <3>2
  <2>3. QED BY <1>2, <2>1, <2>2
<1>9. QED BY <1>2, <1>5, <1>6, <1>7, <1>8 DEF VersionsRight

(* ... and one that changes the state of versions does.                    *)
LEMMA MarkVersions ==
  ASSUME IInv, NEW c \in Calls, NEW path \in {"delete", "undelete", "destroy"}, NEW S,
         Marks(path, S), UNCHANGED old, \A d \in Calls \ {c} : took'[d] = took[d],
         \A d \in Calls : /\ call'[d].op = call[d].op /\ call'[d].status = call[d].status
                          /\ call'[d].version = call[d].version
                          /\ call'[d].content = call[d].content,
         call[c].op.kind = "destroy" => path = "destroy" /\ S = {call[c].op.version}
  PROVE  VersionsRight'
<1> USE DEF IInv, TypeOK
<1>1. \A v \in DOMAIN history :
        /\ history[v] \in Versions /\ history[v].by \in Calls
        /\ After(path, history[v].state) \in {"live", "deleted", "destroyed"}
        /\ [history[v] EXCEPT !.state = After(path, @)] \in Versions
  <2> SUFFICES ASSUME NEW v \in DOMAIN history
               PROVE  /\ history[v] \in Versions /\ history[v].by \in Calls
                      /\ After(path, history[v].state) \in {"live", "deleted", "destroyed"}
                      /\ [history[v] EXCEPT !.state = After(path, @)] \in Versions
    OBVIOUS
  <2>1. history[v] \in Versions /\ history[v].by \in Calls
    BY VersionFacts
  <2>2. After(path, history[v].state) \in {"live", "deleted", "destroyed"}
    BY <2>1 DEF After, Versions
  <2>3. QED BY <2>1, <2>2 DEF Versions
<1>2. /\ DOMAIN history' = DOMAIN history /\ history' \in Seq(Versions)
      /\ \A v \in DOMAIN history :
           /\ history'[v].by = history[v].by /\ history'[v].content = history[v].content
           /\ v \notin S => history'[v].state = history[v].state
           /\ v \in S => history'[v].state = After(path, history[v].state)
  <2>1. history' = [v \in DOMAIN history |->
                      IF v \in S THEN [history[v] EXCEPT !.state = After(path, @)]
                      ELSE history[v]]
    BY DEF Marks
  <2>2. DOMAIN history = 1..Len(history) /\ Len(history) \in Nat
    OBVIOUS
  <2>3. \A v \in DOMAIN history : history'[v] \in Versions
    BY <1>1, <2>1
  <2>4. history' \in [1..Len(history) -> Versions]
    BY <2>1, <2>2, <2>3
  <2>5. history' \in Seq(Versions)
    BY <2>2, <2>4
  <2>6. QED BY <1>1, <2>1, <2>5 DEF Versions
<1>3. Authors' /\ NamedVersions' /\ ReadVersions'
  <2>1. Authors'
    <3> SUFFICES ASSUME NEW v \in DOMAIN history'
                 PROVE  call'[history'[v].by].status \notin {"idle", "reading"}
      BY DEF Authors, Begun
    <3>1. history'[v].by = history[v].by /\ history[v].by \in Calls /\ Begun(history[v].by)
      BY <1>1, <1>2 DEF Authors
    <3>2. QED BY <3>1 DEF Begun
  <2>2. NamedVersions'
    BY <1>2 DEF NamedVersions
  <2>3. ASSUME NEW d \in Calls, call[d].op.kind = "update", Begun(d), ~ old[d]
        PROVE  \/ call[d].version = 0 /\ call[d].content = Empty
               \/ /\ call[d].version \in DOMAIN history'
                  /\ call[d].content = history'[call[d].version].content
    BY <1>2, <2>3 DEF ReadVersions
  <2>4. QED BY <2>1, <2>2, <2>3 DEF ReadVersions, Begun
<1>4. DestroyedVersions'
  <2> SUFFICES ASSUME NEW d \in Calls, took'[d], call[d].op.kind = "destroy", ~ old[d]
               PROVE  /\ call[d].op.version \in DOMAIN history
                      /\ history'[call[d].op.version].state = "destroyed"
    BY <1>2 DEF DestroyedVersions
  <2>1. call[d].op.version \in DOMAIN history
    BY DEF NamedVersions
  <2>2. CASE d = c
    BY <1>2, <2>1, <2>2 DEF After
  <2>3. CASE d # c
    <3>1. history[call[d].op.version].state = "destroyed"
      BY <2>3 DEF DestroyedVersions
    <3>2. After(path, "destroyed") = "destroyed"
      BY DEF After
    <3>3. QED BY <1>2, <2>1, <3>1, <3>2
  <2>4. QED BY <2>1, <2>2, <2>3
<1>5. OtherFieldsKept'
  <2>1. \A v \in DOMAIN history : v # 1 => v - 1 \in DOMAIN history
    OBVIOUS
  <2> SUFFICES ASSUME NEW v \in DOMAIN history,
                      call[history[v].by].op.kind \in {"update", "patch"}, ~ old[history[v].by],
                      NEW f \in Fields \ call[history[v].by].op.fields
               PROVE  history'[v].content[f]
                        = (IF v = 1 THEN Empty ELSE history'[v - 1].content)[f]
    <3>1. \A v \in DOMAIN history :
            call'[history'[v].by].op = call[history[v].by].op /\ history'[v].by = history[v].by
      BY <1>1, <1>2
    <3>2. QED BY <1>2, <3>1 DEF OtherFieldsKept
  <2>2. history[v].content[f] = (IF v = 1 THEN Empty ELSE history[v - 1].content)[f]
    BY DEF OtherFieldsKept
  <2>3. QED BY <1>2, <2>1, <2>2
<1>6. QED BY <1>2, <1>3, <1>4, <1>5 DEF VersionsRight

(* Vault's steps keep the invariant.                                       *)
LEMMA VaultIInv ==
  ASSUME IInv, NEW c \in Calls, NEW n \in 1..(MaxRetries + 1), Vault(c, n) PROVE IInv'
<1> USE DEF IInv, TypeOK
<1>0. ASSUME VersionsRight', old' \in [Calls -> BOOLEAN],
             call' \in [Calls -> CallStates], took' \in [Calls -> BOOLEAN],
             net' \in SUBSET (Calls \X (1..(MaxRetries + 1))),
             \A m \in net' : m[2] <= call'[m[1]].attempt,
             NothingSent', AnswersTell'
      PROVE  IInv'
  BY <1>0 DEF VersionsRight
<1>1. CASE ServeWrite(c, n)
  <2>1. /\ Arrives(c, n, "POST", {"data"}) /\ Answers(c, n, "done") /\ TakesEffect(c)
        /\ Request(c).cas \in {{}, {Len(history)}} /\ Adds(c, Request(c).content)
        /\ old' = old
    BY <1>1 DEF ServeWrite
  <2>2. call[c].op.kind \in {"write", "update"}
    BY <2>1, RequestFacts DEF Arrives
  <2>3. call[c].content \in Contents
    BY DEF CallStates
  <2>4. /\ Request(c).content \in Contents
        /\ call[c].op.kind = "update" =>
             \A f \in Fields \ call[c].op.fields : Request(c).content[f] = call[c].content[f]
    BY <2>2, <2>3, WriteFacts, OverlayFacts, EmptyFacts
  <2>5. Begun(c)
    BY <2>1, ServedFacts
  <2>6. call[c].op.kind \in {"update", "patch"} /\ ~ old[c] =>
          \A f \in Fields \ call[c].op.fields :
            Request(c).content[f]
              = (IF history = <<>> THEN Empty ELSE history[Len(history)].content)[f]
    <3> SUFFICES ASSUME call[c].op.kind = "update", ~ old[c]
                 PROVE  call[c].content
                          = (IF history = <<>> THEN Empty ELSE history[Len(history)].content)
      BY <2>2, <2>4
    <3>1. call[c].version = Len(history)
      BY <2>1, WriteFacts
    <3>2. QED BY <2>5, <3>1 DEF ReadVersions
  <2>7. VersionsRight'
    BY <2>1, <2>2, <2>4, <2>5, <2>6, ServedFacts, AddVersion
  <2>8. QED BY <1>0, <2>1, <2>7, ServedFacts
<1>2. CASE RefuseCas(c, n)
  BY <1>0, <1>2, ServedFacts, KeepVersions DEF RefuseCas
<1>3. CASE ServePatch(c, n)
  <2>1. /\ Arrives(c, n, "PATCH", {"data"}) /\ Answers(c, n, "done") /\ TakesEffect(c)
        /\ Readable /\ Adds(c, Overlay(history[Len(history)].content, c)) /\ old' = old
    BY <1>3 DEF ServePatch
  <2>2. call[c].op.kind = "patch"
    BY <2>1, RequestFacts DEF Arrives
  <2>3. history # <<>> /\ history[Len(history)].content \in Contents
    BY <2>1, VersionFacts DEF Readable
  <2>4. /\ Overlay(history[Len(history)].content, c) \in Contents
        /\ \A f \in Fields \ call[c].op.fields :
             Overlay(history[Len(history)].content, c)[f] = history[Len(history)].content[f]
    BY <2>3, OverlayFacts
  <2>5. VersionsRight'
    BY <2>1, <2>2, <2>3, <2>4, ServedFacts, AddVersion
  <2>6. QED BY <1>0, <2>1, <2>5, ServedFacts
<1>4. CASE RefusePatch(c, n)
  BY <1>0, <1>4, ServedFacts, KeepVersions DEF RefusePatch
<1>5. CASE ServeVersions(c, n)
  <2>1. /\ Arrives(c, n, "POST", {"delete", "undelete", "destroy"}) /\ Answers(c, n, "done")
        /\ TakesEffect(c) /\ Marks(Request(c).path, {Request(c).version}) /\ old' = old
    BY <1>5 DEF ServeVersions
  <2>2. /\ Request(c).path \in {"delete", "undelete", "destroy"}
        /\ call[c].op.kind = Request(c).path /\ Request(c).version = call[c].op.version
    BY <2>1, RequestFacts DEF Arrives
  <2>3. VersionsRight'
    BY <2>1, <2>2, ServedFacts, MarkVersions
  <2>4. QED BY <1>0, <2>1, <2>3, ServedFacts
<1>6. CASE ServeDelete(c, n)
  <2>1. /\ Arrives(c, n, "DELETE", {"data"}) /\ Answers(c, n, "done")
        /\ TakesEffect(c) /\ Marks("delete", {Len(history)}) /\ old' = old
    BY <1>6 DEF ServeDelete
  <2>2. call[c].op.kind \in {"delete_latest", "delete_metadata"}
    BY <2>1, RequestFacts DEF Arrives
  <2>3. VersionsRight'
    BY <2>1, <2>2, ServedFacts, MarkVersions
  <2>4. QED BY <1>0, <2>1, <2>3, ServedFacts
<1>7. CASE ServeDeleteMetadata(c, n)
  <2>1. /\ Arrives(c, n, "DELETE", {"metadata"}) /\ Answers(c, n, "done")
        /\ TakesEffect(c) /\ history' = <<>>
        /\ old' = [d \in Calls |-> old[d] \/ call[d].status # "idle"]
    BY <1>7 DEF ServeDeleteMetadata
  <2>2. \A d \in Calls : old'[d] \/ (call'[d].op.kind = "none" /\ ~ took'[d])
    <3>1. \A d \in Calls : call[d].status = "idle" => call[d].op.kind = "none" /\ d # c /\ ~ took[d]
      BY <2>1, ServedFacts DEF NothingSent, Begun
    <3>2. QED BY <2>1, <3>1, ServedFacts
  <2>3. VersionsRight'
    BY <2>1, <2>2 DEF VersionsRight, Authors, NamedVersions, ReadVersions, DestroyedVersions,
                      OtherFieldsKept
  <2>4. QED BY <1>0, <2>1, <2>3, ServedFacts
<1>8. QED BY <1>1, <1>2, <1>3, <1>4, <1>5, <1>6, <1>7 DEF Vault

LEMMA NextIInv == IInv /\ [Next]_vars => IInv'
<1> SUFFICES ASSUME IInv, [Next]_vars PROVE IInv'
  OBVIOUS
<1>1. CASE UNCHANGED vars
  BY <1>1 DEF vars, IInv, TypeOK, NothingSent, AnswersTell, Authors, NamedVersions, ReadVersions,
              DestroyedVersions, OtherFieldsKept, Begun
<1>2. CASE Next
  BY <1>2, BeginIInv, ReadIInv, ReadFailsIInv, TimeoutIInv, ReceiveIInv, VaultIInv
     DEF Next, Client
<1>3. QED BY <1>1, <1>2

(* Spec implies that the invariant always holds.                           *)
THEOREM Invariance == Spec => []IInv
BY InitIInv, NextIInv, PTL DEF Spec

(* Type correctness, and that no request is numbered beyond its call's     *)
(* attempts.                                                               *)
THEOREM TypeCorrect == Spec => []TypeOK
<1>1. IInv => TypeOK
  BY DEF IInv
<1>2. QED BY <1>1, Invariance, PTL

(* Neither write_cas after a read nor patch loses what another call wrote, *)
(* however many calls there are and however often each is repeated.        *)
THEOREM NoLostUpdate == Spec => []OtherFieldsKept
<1>1. IInv => OtherFieldsKept
  BY DEF IInv
<1>2. QED BY <1>1, Invariance, PTL

(* A destruction that was reported done is never undone.                   *)
THEOREM DestructionHolds == Spec => []DestructionIsFinal
<1>1. IInv => DestructionIsFinal
  BY DEF IInv, AnswersTell, DestroyedVersions, DestructionIsFinal
<1>2. QED BY <1>1, Invariance, PTL

(* Success is an effect, and a refusal of what was sent once is none.      *)
THEOREM OutcomesHold == Spec => []OutcomesAreHonest
<1>1. IInv => OutcomesAreHonest
  BY DEF IInv, AnswersTell, OutcomesAreHonest
<1>2. QED BY <1>1, Invariance, PTL
=============================================================================
