------------------------- MODULE ClientSessionProofs -------------------------
(***************************************************************************)
(* What holds of a client and its calls for every number of retries, every *)
(* order and number of settings, every depth of nesting and whatever an    *)
(* AuthMethod of the user's own calls.  IInv adds to the type invariant    *)
(* what is true of a call at each of its steps, which calls hold the two   *)
(* locks, and that the calls below the top all wait for a login.           *)
(***************************************************************************)
EXTENDS ClientSession, SequenceTheorems, TLAPS

Frames ==
  [request : Requests, wraps : BOOLEAN, step : Steps, checked : BOOLEAN,
   locked : BOOLEAN, tries : Nat, done : Nat, reply : Replies, result : Results]

Before  == {"check", "lock", "renew", "reauth"}
Storing == {"update", "announce", "callback"}

(* What stands behind a success.                                           *)
Backed(f) ==
  \/ f.done > 0
  \/ f.reply = "notfound" /\ f.request.via \in {"raw", "untyped"}

(* How often a call is carried out, by where it is; with retries retries.  *)
CountedRight(f, retries) ==
  /\ f.tries <= IF f.request.via = "restore" THEN 0 ELSE retries
  /\ f.done <= f.tries + 1
  /\ f.step \in Before => f.tries = 0 /\ f.done = 0 /\ f.reply = "none"
  /\ f.step = "send" => f.reply = "none" /\ f.done <= f.tries
  /\ f.step = "decode" => f.reply # "none"
  /\ f.reply \in {"full", "empty", "wrapped"} => f.done > 0

(* A token is stored before the call sent anything, or out of its answer   *)
(* when that is a token for the client.                                    *)
StoredRight(f) ==
  f.step \in Storing =>
    \/ f.reply = "none" /\ f.tries = 0 /\ f.done = 0
    \/ f.reply # "none" /\ f.request.for = "client" /\ Backed(f)

EndsRight(f) ==
  /\ f.result # "none" => f.step = "return"
  /\ f.result = "ok" => Backed(f)

(* Only a call that renews or logs in holds renewal_lock.                  *)
HoldsRight(f) ==
  f.locked => f.reply = "none" /\ f.step \in {"renew", "reauth"} \cup Storing

(* A login goes straight to its request, others after the check.           *)
CheckedRight(f) ==
  /\ f.step = "send" => f.checked \/ f.request.via = "restore" \/ IsLogin(f.request.path)
  /\ IsLogin(f.request.path) =>
       /\ f.step \notin {"lock", "renew", "reauth"}
       /\ f.step \in Storing => f.reply # "none"

Sound(f, retries) ==
  /\ CountedRight(f, retries)
  /\ StoredRight(f)
  /\ EndsRight(f)
  /\ HoldsRight(f)
  /\ CheckedRight(f)

StackSound ==
  /\ stack \in Seq(Frames)
  /\ Len(stack) <= MaxDepth
  /\ \A i \in 1..Len(stack) : Sound(stack[i], client.retries)
  /\ \A i \in 1..Len(stack) : i # Len(stack) => stack[i].step = "reauth"

(* The places of the calls that hold renewal_lock.                         *)
Holders == {i \in 1..Len(stack) : stack[i].locked = TRUE}

LocksSound ==
  /\ renewalLock \in BOOLEAN /\ tokenLock \in BOOLEAN /\ poisoned = FALSE
  /\ renewalLock = TRUE <=> Holders # {}
  /\ \A i, j \in Holders : i = j
  /\ tokenLock = TRUE <=> At_("announce")

LoginsSound ==
  client.method = "library" =>
    /\ Len(stack) <= 2
    /\ \A i \in 2..Len(stack) : IsLogin(stack[i].request.path)

(* The builder always holds the retries its settings ask for so far.       *)
Settings == [cli : BOOLEAN, retries : SUBSET Nat]

Builders ==
  [address : BOOLEAN, token : BOOLEAN, retries : SUBSET Nat, cli : BOOLEAN,
   method : {"none", "library", "custom"}]

BuilderSound ==
  /\ builder \in Builders
  /\ builder.retries = {} \/ \E n \in Nat : builder.retries = {n}
  /\ asked \in Seq(Settings)
  /\ OrElse(builder.retries, 2) = RequestedRetries(asked)
  /\ Naming(asked) # {} => \E i \in Naming(asked) : \A j \in Naming(asked) : j <= i

Tokens == {NoToken} \cup Issued \cup {[Leased(r) EXCEPT !.due = TRUE] : r \in BOOLEAN}

ClientSound ==
  /\ client \in [built : BOOLEAN, retries : Nat, sealed : BOOLEAN,
                 method : {"none", "library", "custom"}]
  /\ token \in Tokens
  /\ limit \in Nat
  /\ client.built => limit = client.retries
  /\ ~ client.built => stack = <<>> /\ token = NoToken /\ client = NoClient

IInv == StackSound /\ LocksSound /\ LoginsSound /\ BuilderSound /\ ClientSound

(* The top of the stack is one of its calls.                               *)
LEMMA TopFacts ==
  ASSUME StackSound, Running
  PROVE  /\ Len(stack) \in Nat /\ Len(stack) >= 1
         /\ Top \in Frames
         /\ Sound(Top, client.retries)
         /\ Len(stack) \in 1..Len(stack)
<1>1. Len(stack) \in Nat /\ Len(stack) # 0
  BY DEF StackSound, Running
<1>2. Len(stack) \in 1..Len(stack)
  BY <1>1
<1>3. Top \in Frames
  BY <1>2 DEF StackSound, Top
<1>4. QED BY <1>1, <1>2, <1>3 DEF StackSound, Top

(* A prefix of a sequence.                                                 *)
LEMMA PrefixFacts ==
  ASSUME NEW S, NEW s \in Seq(S), NEW k \in Nat, k <= Len(s)
  PROVE  /\ SubSeq(s, 1, k) \in Seq(S)
         /\ Len(SubSeq(s, 1, k)) = k
         /\ \A i \in 1..k : SubSeq(s, 1, k)[i] = s[i]
<1>1. \A i \in 1..k : s[i] \in S
  OBVIOUS
<1>2. /\ 1 \in Int /\ k \in Int /\ k - 1 + 1 = k
      /\ 1 <= k \/ k = 0
      /\ \A i \in 1..k : 1 + i - 1 = i
  OBVIOUS
<1>3. /\ SubSeq(s, 1, k) \in Seq(S)
      /\ Len(SubSeq(s, 1, k)) = IF 1 <= k THEN k - 1 + 1 ELSE 0
      /\ \A i \in 1..(k - 1 + 1) : SubSeq(s, 1, k)[i] = s[1 + i - 1]
  BY <1>1, <1>2, SubSeqProperties
<1>4. QED BY <1>2, <1>3

(* Replacing the top leaves the calls below it.                            *)
LEMMA BecomesFacts ==
  ASSUME StackSound, Running, NEW call \in Frames, Becomes(call)
  PROVE  /\ stack' \in Seq(Frames)
         /\ Len(stack') = Len(stack)
         /\ stack'[Len(stack)] = call
         /\ \A i \in 1..Len(stack) : i # Len(stack) => stack'[i] = stack[i]
<1>1. Len(stack) \in Nat /\ Len(stack) >= 1 /\ stack \in Seq(Frames)
  BY TopFacts DEF StackSound
<1>2. /\ Below \in Seq(Frames)
      /\ Len(Below) = Len(stack) - 1
      /\ \A i \in 1..(Len(stack) - 1) : Below[i] = stack[i]
  <2>1. Len(stack) - 1 \in Nat /\ Len(stack) - 1 <= Len(stack)
    BY <1>1
  <2>2. QED BY <1>1, <2>1, PrefixFacts DEF Below
<1>3. stack' = Append(Below, call)
  BY DEF Becomes
<1>4. /\ stack' \in Seq(Frames)
      /\ Len(stack') = Len(Below) + 1
      /\ stack'[Len(Below) + 1] = call
      /\ \A i \in 1..Len(Below) : stack'[i] = Below[i]
  BY <1>2, <1>3
<1>5. QED BY <1>1, <1>2, <1>4

(* OrElse of no option, and of one.                                        *)
LEMMA OrElseFacts ==
  /\ \A default : OrElse({}, default) = default
  /\ \A x, default : OrElse({x}, default) = x
BY DEF OrElse

(* A step that changes the top only: what the new top must satisfy, and    *)
(* how renewal_lock follows it.                                            *)
LEMMA TopChanges ==
  ASSUME IInv, Running, NEW call \in Frames, Becomes(call),
         Sound(call, client.retries), call.request = Top.request,
         UNCHANGED setup, token' \in Tokens, poisoned' = poisoned,
         tokenLock' \in BOOLEAN, tokenLock' = TRUE <=> call.step = "announce",
         \/ call.locked = Top.locked /\ renewalLock' = renewalLock
         \/ call.locked = FALSE /\ Top.locked = FALSE /\ renewalLock' = renewalLock
         \/ call.locked = FALSE /\ Top.locked = TRUE /\ renewalLock' = FALSE
         \/ call.locked = TRUE /\ renewalLock = FALSE /\ renewalLock' = TRUE
  PROVE  IInv'
<1>1. /\ stack' \in Seq(Frames)
      /\ Len(stack') = Len(stack)
      /\ stack'[Len(stack)] = call
      /\ \A i \in 1..Len(stack) : i # Len(stack) => stack'[i] = stack[i]
  BY BecomesFacts DEF IInv
<1>2. Len(stack) \in Nat /\ Len(stack) >= 1 /\ Len(stack) \in 1..Len(stack) /\ Top \in Frames
  BY TopFacts DEF IInv
<1>3. UNCHANGED <<builder, client, asked, limit>>
  BY DEF setup
<1>4. StackSound'
  <2>1. \A i \in 1..Len(stack') : Sound(stack'[i], client'.retries)
    BY <1>1, <1>2, <1>3 DEF IInv, StackSound
  <2>2. \A i \in 1..Len(stack') : i # Len(stack') => stack'[i].step = "reauth"
    BY <1>1, <1>2 DEF IInv, StackSound
  <2>3. Len(stack') <= MaxDepth
    BY <1>1 DEF IInv, StackSound
  <2>4. QED BY <1>1, <2>1, <2>2, <2>3 DEF StackSound
<1>5. Running'
  BY <1>1, <1>2 DEF Running
<1>6. Top' = call
  BY <1>1 DEF Top
<1>7. LocksSound'
  <2> DEFINE top == Len(stack)
  <2>1. \A i : i # top => (i \in Holders' <=> i \in Holders)
    BY <1>1 DEF Holders
  <2>2. top \in Holders' <=> call.locked = TRUE
    BY <1>1, <1>2 DEF Holders
  <2>3. top \in Holders <=> Top.locked = TRUE
    BY <1>2 DEF Holders, Top
  <2>4. /\ renewalLock \in BOOLEAN
        /\ renewalLock = TRUE <=> Holders # {}
        /\ \A i, j \in Holders : i = j
    BY DEF IInv, LocksSound
  <2> DEFINE Goal == /\ renewalLock' \in BOOLEAN
                     /\ renewalLock' = TRUE <=> Holders' # {}
                     /\ \A i, j \in Holders' : i = j
  <2> HIDE DEF top
  <2>5. ASSUME top \in Holders' <=> top \in Holders, renewalLock' = renewalLock
        PROVE  Goal
    <3>1. \A i : i \in Holders' <=> i \in Holders
      BY <2>1, <2>5
    <3>2. QED BY <3>1, <2>4, <2>5
  <2>6. ASSUME top \notin Holders', top \in Holders, renewalLock' = FALSE
        PROVE  Goal
    <3>1. \A i : i \notin Holders'
      BY <2>1, <2>4, <2>6
    <3>2. QED BY <3>1, <2>6
  <2>7. ASSUME top \in Holders', renewalLock = FALSE, renewalLock' = TRUE
        PROVE  Goal
    <3>1. \A i : i \in Holders' <=> i = top
      BY <2>1, <2>4, <2>7
    <3>2. QED BY <3>1, <2>7
  <2>8. Goal
    <3>1. call.locked \in BOOLEAN /\ Top.locked \in BOOLEAN
      BY <1>2 DEF Frames
    <3>2. QED BY <3>1, <2>2, <2>3, <2>5, <2>6, <2>7
  <2>9. tokenLock' = TRUE <=> At_("announce")'
    BY <1>5, <1>6 DEF At_
  <2>10. poisoned' = FALSE
    BY DEF IInv, LocksSound
  <2>11. QED BY <1>1, <2>8, <2>9, <2>10 DEF LocksSound
<1>8. LoginsSound'
  <2>1. \A i \in 1..Len(stack) : stack'[i].request = stack[i].request
    BY <1>1, <1>2 DEF Top
  <2>2. QED BY <1>1, <1>2, <1>3, <2>1 DEF IInv, LoginsSound
<1>9. BuilderSound' /\ ClientSound'
  <2>1. client.built
    BY DEF IInv, ClientSound, Running
  <2>2. ClientSound'
    BY <1>3, <2>1 DEF IInv, ClientSound
  <2>3. BuilderSound'
    BY <1>3 DEF IInv, BuilderSound
  <2>4. QED BY <2>2, <2>3
<1>10. QED BY <1>4, <1>7, <1>8, <1>9 DEF IInv

(* A step that ends the whole stack frees both locks.                      *)
LEMMA StackEnds ==
  ASSUME IInv, client.built, stack' = <<>>, UNCHANGED setup, token' \in Tokens,
         renewalLock' = FALSE, tokenLock' = FALSE, poisoned' = FALSE
  PROVE  IInv'
<1>1. UNCHANGED <<builder, client, asked, limit>> /\ Len(stack') = 0
  BY DEF setup
<1>2. StackSound'
  BY <1>1, SessionAssumption DEF StackSound
<1>3. LocksSound'
  <2>1. ~ Running' /\ Holders' = {}
    BY <1>1 DEF Running, Holders
  <2>2. QED BY <2>1 DEF LocksSound, At_
<1>4. LoginsSound'
  BY <1>1 DEF LoginsSound
<1>5. ClientSound'
  BY <1>1 DEF IInv, ClientSound
<1>6. BuilderSound'
  BY <1>1 DEF IInv, BuilderSound
<1>7. QED BY <1>2, <1>3, <1>4, <1>5, <1>6 DEF IInv

(* What is known at a step of the call in progress.                        *)
LEMMA RunningFacts ==
  ASSUME IInv, Running
  PROVE  /\ Top \in Frames /\ Sound(Top, client.retries)
         /\ client.built /\ client.retries \in Nat
         /\ token \in Tokens
         /\ poisoned = FALSE
         /\ Top.step # "announce" => tokenLock = FALSE
         /\ Top.step # "return" => Top.result = "none"
<1>1. Top \in Frames /\ Sound(Top, client.retries)
  BY TopFacts DEF IInv
<1>2. Top.step # "return" => Top.result = "none"
  BY <1>1 DEF Sound, EndsRight
<1>3. client.built /\ client.retries \in Nat /\ token \in Tokens
  BY DEF IInv, ClientSound, Running
<1>4. poisoned = FALSE /\ tokenLock \in BOOLEAN /\ (tokenLock = TRUE <=> At_("announce"))
  BY DEF IInv, LocksSound
<1>5. Top.step # "announce" => tokenLock = FALSE
  BY <1>4 DEF At_
<1>6. QED BY <1>1, <1>2, <1>3, <1>4, <1>5

(* The end of ensure_valid_token: the call lets renewal_lock go if it had  *)
(* it.                                                                     *)
LEMMA LeavesIInv ==
  ASSUME IInv, Running, NEW call \in Frames, Leaves(call),
         call.locked = Top.locked, call.request = Top.request, call.step # "announce",
         Sound([call EXCEPT !.locked = FALSE], client.retries),
         UNCHANGED setup, token' \in Tokens, poisoned' = poisoned, tokenLock' = FALSE
  PROVE  IInv'
<1> DEFINE left == [call EXCEPT !.locked = FALSE]
<1>1. /\ left \in Frames /\ left.locked = FALSE /\ left.request = call.request
      /\ left.step = call.step
  BY DEF Frames
<1>2. Becomes(left)
  BY DEF Leaves
<1>3. Top \in Frames
  BY TopFacts DEF IInv
<1>4. Top.locked \in BOOLEAN
  BY <1>3 DEF Frames
<1>5. renewalLock' = (renewalLock /\ ~ call.locked) /\ renewalLock \in BOOLEAN
  BY DEF Leaves, IInv, LocksSound
<1> HIDE DEF left
<1>6. CASE Top.locked = TRUE
  <2>1. renewalLock' = FALSE
    BY <1>5, <1>6
  <2>2. QED BY <2>1, <1>1, <1>2, <1>6, TopChanges DEF left
<1>7. CASE Top.locked = FALSE
  <2>1. renewalLock' = renewalLock
    BY <1>5, <1>7
  <2>2. QED BY <2>1, <1>1, <1>2, <1>7, TopChanges DEF left
<1>8. QED BY <1>4, <1>6, <1>7

(* The token needs nothing more: the call goes on to its request.          *)
LEMMA ValidIInv ==
  ASSUME IInv, Running, Valid,
         Top.reply = "none", Top.tries = 0, Top.done = 0, Top.result = "none",
         UNCHANGED setup, token' \in Tokens, poisoned' = poisoned, tokenLock' = FALSE
  PROVE  IInv'
<1> DEFINE call == [Top EXCEPT !.step = "send", !.checked = TRUE]
           sent == [call EXCEPT !.locked = FALSE]
<1>1. Top \in Frames /\ Sound(Top, client.retries)
  BY TopFacts DEF IInv
<1>2. /\ call \in Frames /\ call.step = "send"
      /\ call.locked = Top.locked /\ call.request = Top.request
  BY <1>1 DEF Frames, Steps
<1>3. /\ sent.step = "send" /\ sent.reply = "none" /\ sent.tries = 0 /\ sent.done = 0
      /\ sent.result = "none" /\ sent.checked = TRUE /\ sent.locked = FALSE
      /\ sent.request = Top.request
  BY <1>1, <1>2 DEF Frames
<1>4. Sound(sent, client.retries)
  <2>1. CountedRight(Top, client.retries)
    BY <1>1 DEF Sound
  <2>2. CountedRight(sent, client.retries)
    BY <2>1, <1>3 DEF CountedRight, Before
  <2>3. StoredRight(sent) /\ EndsRight(sent) /\ HoldsRight(sent) /\ CheckedRight(sent)
    BY <1>3 DEF StoredRight, EndsRight, HoldsRight, CheckedRight, Storing
  <2>4. QED BY <2>2, <2>3 DEF Sound
<1>5. Leaves(call)
  BY DEF Valid
<1> HIDE DEF call
<1>6. QED BY <1>2, <1>4, <1>5, LeavesIInv

(* A call that fails before it sent anything, or while it stores a token.  *)
LEMMA FailedIInv ==
  ASSUME IInv, Running, Failed, Top.step \notin {"decode", "return"},
         UNCHANGED setup, token' \in Tokens, poisoned' = poisoned, tokenLock' = FALSE
  PROVE  IInv'
<1> DEFINE call == [Top EXCEPT !.step = "return", !.result = "error"]
           over == [call EXCEPT !.locked = FALSE]
<1>1. Top \in Frames /\ Sound(Top, client.retries)
  BY TopFacts DEF IInv
<1>2. /\ call \in Frames /\ call.step = "return"
      /\ call.locked = Top.locked /\ call.request = Top.request
  BY <1>1 DEF Frames, Steps, Results
<1>3. /\ over.step = "return" /\ over.reply = Top.reply /\ over.tries = Top.tries
      /\ over.done = Top.done /\ over.result = "error" /\ over.locked = FALSE
      /\ over.request = Top.request
  BY <1>1, <1>2 DEF Frames
<1>4. Sound(over, client.retries)
  <2>1. CountedRight(Top, client.retries)
    BY <1>1 DEF Sound
  <2>2. CountedRight(over, client.retries)
    BY <2>1, <1>3 DEF CountedRight, Before
  <2>3. StoredRight(over) /\ EndsRight(over) /\ HoldsRight(over) /\ CheckedRight(over)
    BY <1>3 DEF StoredRight, EndsRight, HoldsRight, CheckedRight, Storing
  <2>4. QED BY <2>2, <2>3 DEF Sound
<1>5. Leaves(call)
  BY DEF Failed
<1> HIDE DEF call
<1>6. QED BY <1>2, <1>4, <1>5, LeavesIInv

(* The check of the token.                                                 *)
LEMMA SkipCheckIInv ==
  ASSUME IInv, SkipCheck PROVE IInv'
<1> DEFINE call == [Top EXCEPT !.step = "send"]
<1>1. Running /\ Top.step = "check"
  BY DEF SkipCheck, At_
<1>2. /\ At_("check") /\ Becomes(call) /\ UNCHANGED setup
      /\ token' = token /\ renewalLock' = renewalLock
      /\ tokenLock' = tokenLock /\ poisoned' = poisoned
      /\ IsLogin(Top.request.path) \/ Top.request.via = "restore"
  BY DEF SkipCheck, Proceeds, locks
<1>3. Top \in Frames /\ Sound(Top, client.retries) /\ Top.step = "check" /\ tokenLock = FALSE
      /\ Running /\ token \in Tokens
  BY <1>1, RunningFacts
<1>4. /\ call \in Frames /\ call.step = "send" /\ call.reply = Top.reply /\ call.tries = Top.tries
      /\ call.done = Top.done /\ call.result = Top.result /\ call.checked = Top.checked
      /\ call.locked = Top.locked /\ call.request = Top.request
  BY <1>3 DEF Frames, Steps
<1> HIDE DEF call
<1>5. Sound(call, client.retries)
  BY <1>2, <1>3, <1>4
     DEF Sound, CountedRight, StoredRight, EndsRight, HoldsRight, CheckedRight, Before, Storing
<1>6. QED BY <1>2, <1>3, <1>4, <1>5, TopChanges

(* The first look of ensure_valid_token at the token.                      *)
LEMMA CheckIInv ==
  ASSUME IInv, Check PROVE IInv'
<1>1. Running /\ Top.step = "check"
  BY DEF Check, At_
<1>2. /\ At_("check") /\ UNCHANGED setup /\ ~ IsLogin(Top.request.path)
      /\ token' = token /\ tokenLock' = tokenLock /\ poisoned' = poisoned
  BY DEF Check
<1>3. /\ Top \in Frames /\ Sound(Top, client.retries) /\ Top.step = "check" /\ tokenLock = FALSE
      /\ Running /\ token \in Tokens /\ poisoned = FALSE /\ Top.result = "none"
  BY <1>1, RunningFacts
<1>4. Top.reply = "none" /\ Top.tries = 0 /\ Top.done = 0
  BY <1>3 DEF Sound, CountedRight, Before
<1>5. CASE Valid
  BY <1>2, <1>3, <1>4, <1>5, ValidIInv
<1>6. ASSUME NEW s \in {"lock", "reauth"}, Proceeds(s), UNCHANGED renewalLock PROVE IInv'
  <2> DEFINE call == [Top EXCEPT !.step = s]
  <2>1. /\ call \in Frames /\ call.step = s /\ call.reply = "none" /\ call.tries = 0
        /\ call.done = 0 /\ call.result = "none"
        /\ call.locked = Top.locked /\ call.request = Top.request
    BY <1>3, <1>4, <1>6 DEF Frames, Steps
  <2>2. Becomes(call)
    BY <1>6 DEF Proceeds
  <2> HIDE DEF call
  <2>3. Sound(call, client.retries)
    BY <1>2, <1>3, <1>6, <2>1
       DEF Sound, CountedRight, StoredRight, EndsRight, HoldsRight, CheckedRight, Before, Storing
  <2>4. QED BY <1>2, <1>3, <1>6, <2>1, <2>2, <2>3, TopChanges
<1>7. QED BY <1>3, <1>5, <1>6 DEF Check

(* The second look, with renewal_lock taken.                               *)
LEMMA LockIInv ==
  ASSUME IInv, Lock PROVE IInv'
<1>1. Running /\ Top.step = "lock"
  BY DEF Lock, At_
<1>2. /\ At_("lock") /\ UNCHANGED setup /\ ~ renewalLock
      /\ token' = token /\ tokenLock' = tokenLock /\ poisoned' = poisoned
  BY DEF Lock
<1>3. /\ Top \in Frames /\ Sound(Top, client.retries) /\ Top.step = "lock" /\ tokenLock = FALSE
      /\ Running /\ token \in Tokens /\ poisoned = FALSE /\ Top.result = "none"
  BY <1>1, RunningFacts
<1>4. Top.reply = "none" /\ Top.tries = 0 /\ Top.done = 0
  BY <1>3 DEF Sound, CountedRight, Before
<1>5. CASE Valid
  BY <1>2, <1>3, <1>4, <1>5, ValidIInv
<1>6. CASE Becomes([Top EXCEPT !.step = "renew", !.locked = TRUE]) /\ renewalLock' = TRUE
  <2> DEFINE call == [Top EXCEPT !.step = "renew", !.locked = TRUE]
  <2>1. /\ call \in Frames /\ call.step = "renew" /\ call.reply = "none" /\ call.tries = 0
        /\ call.done = 0 /\ call.result = "none"
        /\ call.locked = TRUE /\ call.request = Top.request
    BY <1>3, <1>4 DEF Frames, Steps
  <2>2. Becomes(call)
    BY <1>6
  <2> HIDE DEF call
  <2>3. Sound(call, client.retries)
    BY <1>3, <2>1
       DEF Sound, CountedRight, StoredRight, EndsRight, HoldsRight, CheckedRight, Before, Storing
  <2>4. renewalLock = FALSE
    BY <1>2 DEF IInv, LocksSound
  <2>5. QED BY <1>2, <1>3, <1>6, <2>1, <2>2, <2>3, <2>4, TopChanges
<1>7. QED BY <1>3, <1>5, <1>6 DEF Lock

(* Renewal.                                                                *)
LEMMA RenewIInv ==
  ASSUME IInv, RenewOk \/ RenewWithoutAuth \/ RenewFails PROVE IInv'
<1>1. /\ Running /\ Top.step = "renew" /\ UNCHANGED setup
      /\ token' = token /\ tokenLock' = tokenLock /\ poisoned' = poisoned
  BY DEF RenewOk, RenewWithoutAuth, RenewFails, At_, locks
<1>2. /\ Top \in Frames /\ Sound(Top, client.retries) /\ tokenLock = FALSE
      /\ token \in Tokens /\ Top.result = "none"
  BY <1>1, RunningFacts
<1>3. Top.reply = "none" /\ Top.tries = 0 /\ Top.done = 0 /\ ~ IsLogin(Top.request.path)
  BY <1>1, <1>2 DEF Sound, CountedRight, CheckedRight, Before
<1>4. CASE Valid
  BY <1>1, <1>2, <1>3, <1>4, ValidIInv
<1>5. CASE Failed
  BY <1>1, <1>2, <1>3, <1>5, FailedIInv
<1>6. ASSUME NEW s \in {"update", "reauth"}, Proceeds(s), UNCHANGED renewalLock PROVE IInv'
  <2> DEFINE call == [Top EXCEPT !.step = s]
  <2>1. /\ call \in Frames /\ call.step = s /\ call.reply = "none" /\ call.tries = 0
        /\ call.done = 0 /\ call.result = "none"
        /\ call.locked = Top.locked /\ call.request = Top.request
    BY <1>2, <1>3, <1>6 DEF Frames, Steps
  <2>2. Becomes(call)
    BY <1>6 DEF Proceeds
  <2> HIDE DEF call
  <2>3. Sound(call, client.retries)
    BY <1>1, <1>2, <1>3, <1>6, <2>1
       DEF Sound, CountedRight, StoredRight, EndsRight, HoldsRight, CheckedRight, Before, Storing
  <2>4. QED BY <1>1, <1>2, <1>6, <2>1, <2>2, <2>3, TopChanges
<1>7. QED BY <1>4, <1>5, <1>6 DEF RenewOk, RenewWithoutAuth, RenewFails, locks

(* A new token is stored and announced.                                    *)
LEMMA UpdateIInv ==
  ASSUME IInv, Update PROVE IInv'
<1>1. Running /\ Top.step = "update" /\ UNCHANGED setup /\ poisoned' = poisoned
  BY DEF Update, At_
<1>2. /\ Top \in Frames /\ Sound(Top, client.retries) /\ tokenLock = FALSE
      /\ token \in Tokens /\ Top.result = "none" /\ poisoned = FALSE
  BY <1>1, RunningFacts
<1> DEFINE call == [Top EXCEPT !.step = "announce"]
<1>3. token' \in Tokens /\ tokenLock' = TRUE /\ Becomes(call) /\ renewalLock' = renewalLock
  BY <1>2 DEF Update, Proceeds, Tokens
<1>4. /\ call \in Frames /\ call.step = "announce" /\ call.reply = Top.reply
      /\ call.tries = Top.tries /\ call.done = Top.done /\ call.result = "none"
      /\ call.locked = Top.locked /\ call.request = Top.request
  BY <1>2 DEF Frames, Steps
<1> HIDE DEF call
<1>5. Sound(call, client.retries)
  BY <1>1, <1>2, <1>4 DEF Sound, CountedRight, StoredRight, EndsRight, HoldsRight, CheckedRight,
                         Backed, Before, Storing
<1>6. QED BY <1>1, <1>3, <1>4, <1>5, TopChanges

(* The write guard goes before the callback is called.                     *)
LEMMA AnnounceIInv ==
  ASSUME IInv, Announce PROVE IInv'
<1>1. /\ Running /\ Top.step = "announce" /\ UNCHANGED setup /\ poisoned' = poisoned
      /\ token' = token /\ tokenLock' = FALSE /\ renewalLock' = renewalLock
  BY DEF Announce, At_
<1>2. Top \in Frames /\ Sound(Top, client.retries) /\ token \in Tokens /\ Top.result = "none"
  BY <1>1, RunningFacts
<1> DEFINE call == [Top EXCEPT !.step = "callback"]
<1>3. Becomes(call)
  BY DEF Announce, Proceeds
<1>4. /\ call \in Frames /\ call.step = "callback" /\ call.reply = Top.reply
      /\ call.tries = Top.tries /\ call.done = Top.done /\ call.result = "none"
      /\ call.locked = Top.locked /\ call.request = Top.request
  BY <1>2 DEF Frames, Steps
<1> HIDE DEF call
<1>5. Sound(call, client.retries)
  BY <1>1, <1>2, <1>4 DEF Sound, CountedRight, StoredRight, EndsRight, HoldsRight, CheckedRight,
                         Backed, Before, Storing
<1>6. QED BY <1>1, <1>2, <1>3, <1>4, <1>5, TopChanges

(* A callback that returns, with or without a token of its own.            *)
LEMMA CallbackIInv ==
  ASSUME IInv, CallbackReturns \/ CallbackSetsToken PROVE IInv'
<1>1. /\ Running /\ Top.step = "callback" /\ UNCHANGED setup /\ poisoned' = poisoned
      /\ token' = token \/ token' = Plain
      /\ tokenLock' = FALSE
  BY DEF CallbackReturns, CallbackSetsToken, Resume, At_
<1>2. Top \in Frames /\ Sound(Top, client.retries) /\ token \in Tokens /\ Top.result = "none"
  BY <1>1, RunningFacts
<1>3. token' \in Tokens
  BY <1>1, <1>2 DEF Tokens, Issued
<1>4. CASE Top.reply = "none"
  <2>1. Top.tries = 0 /\ Top.done = 0
    BY <1>1, <1>2, <1>4 DEF Sound, StoredRight, Storing
  <2>2. Valid
    BY <1>4 DEF CallbackReturns, CallbackSetsToken, Resume
  <2>3. QED BY <1>1, <1>2, <1>3, <1>4, <2>1, <2>2, ValidIInv
<1>5. CASE Top.reply # "none"
  <2> DEFINE call == [Top EXCEPT !.step = "return", !.result = "ok"]
             over == [call EXCEPT !.locked = FALSE]
  <2>1. call \in Frames /\ call.locked = Top.locked /\ call.request = Top.request
        /\ call.step = "return"
    BY <1>2 DEF Frames, Steps, Results
  <2>2. /\ over.step = "return" /\ over.reply = Top.reply /\ over.tries = Top.tries
        /\ over.done = Top.done /\ over.result = "ok" /\ over.locked = FALSE
        /\ over.request = Top.request
    BY <1>2, <2>1 DEF Frames
  <2>3. Backed(Top)
    BY <1>1, <1>2, <1>5 DEF Sound, StoredRight, Storing
  <2>4. Sound(over, client.retries)
    BY <1>1, <1>2, <2>2, <2>3
       DEF Sound, CountedRight, StoredRight, EndsRight, HoldsRight, CheckedRight,
           Backed, Before, Storing
  <2>5. Leaves(call)
    BY <1>5 DEF CallbackReturns, CallbackSetsToken, Resume
  <2> HIDE DEF call
  <2>6. QED BY <1>1, <1>3, <2>1, <2>4, <2>5, LeavesIInv
<1>6. QED BY <1>4, <1>5

(* A callback that panics and a caller that drops the call free both       *)
(* locks.                                                                  *)
LEMMA AbortIInv ==
  ASSUME IInv, CallbackPanics \/ Cancel PROVE IInv'
<1>1. /\ Running /\ UNCHANGED setup /\ stack' = <<>> /\ renewalLock' = FALSE /\ token' = token
      /\ Top.step # "announce"
  BY DEF CallbackPanics, Cancel, At_
<1>2. client.built /\ token \in Tokens /\ poisoned = FALSE /\ tokenLock = FALSE
  BY <1>1, RunningFacts
<1>3. tokenLock' = FALSE /\ poisoned' = FALSE
  <2>1. CASE CallbackPanics
    BY <1>2, <2>1 DEF CallbackPanics
  <2>2. CASE Cancel
    BY <1>2, <2>2 DEF Cancel
  <2>3. QED BY <2>1, <2>2
<1>4. QED BY <1>1, <1>2, <1>3, StackEnds

(* The request.                                                            *)
LEMMA AnswerIInv ==
  ASSUME IInv, Answer PROVE IInv'
<1>1. /\ Running /\ Top.step = "send" /\ UNCHANGED setup /\ poisoned' = poisoned
      /\ token' = token /\ tokenLock' = tokenLock /\ renewalLock' = renewalLock
  BY DEF Answer, At_, locks
<1>2. /\ Top \in Frames /\ Sound(Top, client.retries) /\ token \in Tokens /\ Top.result = "none"
      /\ tokenLock = FALSE
  BY <1>1, RunningFacts
<1>3. PICK reply \in {"full", "empty", "notfound", "wrapped"} :
        Becomes([Top EXCEPT !.step = "decode", !.reply = reply,
                            !.done = IF reply = "notfound" THEN @ ELSE @ + 1])
  BY DEF Answer
<1> DEFINE n == IF reply = "notfound" THEN Top.done ELSE Top.done + 1
           call == [Top EXCEPT !.step = "decode", !.reply = reply, !.done = n]
<1>4. Top.done \in Nat /\ Top.tries \in Nat /\ n \in Nat
  BY <1>2 DEF Frames
<1>5. Becomes(call)
  BY <1>3
<1>6. n = IF reply = "notfound" THEN Top.done ELSE Top.done + 1
  OBVIOUS
<1> HIDE DEF n
<1>7. /\ call \in Frames /\ call.step = "decode" /\ call.reply = reply /\ call.tries = Top.tries
      /\ call.done = n
      /\ call.result = "none" /\ call.locked = Top.locked /\ call.request = Top.request
  BY <1>2, <1>4 DEF Frames, Steps, Replies
<1> HIDE DEF call
<1>8. Top.done <= Top.tries /\ CountedRight(Top, client.retries) /\ HoldsRight(Top)
  BY <1>1, <1>2 DEF Sound, CountedRight
<1>9. Sound(call, client.retries)
  <2>1. CountedRight(call, client.retries)
    BY <1>4, <1>6, <1>7, <1>8 DEF CountedRight, Before
  <2>2. StoredRight(call) /\ EndsRight(call) /\ HoldsRight(call) /\ CheckedRight(call)
    BY <1>1, <1>7, <1>8 DEF StoredRight, EndsRight, HoldsRight, CheckedRight, Storing
  <2>3. QED BY <2>1, <2>2 DEF Sound
<1>10. QED BY <1>1, <1>2, <1>7, <1>5, <1>9, TopChanges

(* An attempt without an answer, carried out or not, is the last one or is *)
(* followed by another.                                                    *)
LEMMA AgainIInv ==
  ASSUME IInv, Running, Top.step = "send", UNCHANGED <<setup, token, locks>>,
         NEW executed \in {0, 1},
         \/ Again([Top EXCEPT !.done = @ + executed])
         \/ Becomes([Top EXCEPT !.step = "return", !.result = "error"])
  PROVE  IInv'
<1>1. /\ UNCHANGED setup /\ poisoned' = poisoned
      /\ token' = token /\ tokenLock' = tokenLock /\ renewalLock' = renewalLock
  BY DEF locks
<1>2. /\ Top \in Frames /\ Sound(Top, client.retries) /\ token \in Tokens /\ Top.result = "none"
      /\ tokenLock = FALSE
  BY RunningFacts
<1>3. Top.done \in Nat /\ Top.tries \in Nat
  BY <1>2 DEF Frames
<1>4. /\ Top.done <= Top.tries /\ Top.reply = "none" /\ ~ (Top.locked = TRUE)
      /\ CountedRight(Top, client.retries) /\ CheckedRight(Top)
  BY <1>2, <1>3 DEF Sound, CountedRight, HoldsRight, Storing
<1> DEFINE counted == [Top EXCEPT !.done = @ + executed]
           again   == [counted EXCEPT !.tries = @ + 1]
           over    == [counted EXCEPT !.step = "return", !.result = "error"]
           refused == [Top EXCEPT !.step = "return", !.result = "error"]
<1>5. /\ counted \in Frames /\ counted.done = Top.done + executed /\ counted.tries = Top.tries
      /\ counted.step = "send" /\ counted.reply = "none" /\ counted.result = "none"
      /\ counted.locked = Top.locked /\ counted.request = Top.request
      /\ counted.checked = Top.checked
  BY <1>2, <1>3, <1>4 DEF Frames
<1>6. CASE counted.tries < Attempts /\ Becomes(again)
  <2> HIDE DEF counted
  <2>1. Top.tries + 1 \in Nat
    BY <1>3
  <2>2. /\ again \in Frames /\ again.done = Top.done + executed /\ again.tries = Top.tries + 1
        /\ again.step = "send" /\ again.reply = "none" /\ again.result = "none"
        /\ again.locked = Top.locked /\ again.request = Top.request /\ again.checked = Top.checked
    BY <1>5, <2>1 DEF Frames
  <2>3. Top.tries < IF Top.request.via = "restore" THEN 0 ELSE client.retries
    BY <1>5, <1>6 DEF Attempts
  <2>4. client.retries \in Nat
    BY RunningFacts
  <2>5. Becomes(again)
    BY <1>6
  <2> HIDE DEF again
  <2>6. CountedRight(again, client.retries)
    BY <1>3, <1>4, <2>2, <2>3, <2>4 DEF CountedRight, Before
  <2>7. StoredRight(again) /\ EndsRight(again) /\ HoldsRight(again) /\ CheckedRight(again)
    BY <1>4, <2>2 DEF StoredRight, EndsRight, HoldsRight, CheckedRight, Storing
  <2>8. QED BY <1>1, <1>2, <2>2, <2>5, <2>6, <2>7, TopChanges DEF Sound
<1>7. CASE Becomes(over)
  <2>1. /\ over \in Frames /\ over.done = Top.done + executed /\ over.tries = Top.tries
        /\ over.step = "return" /\ over.reply = "none" /\ over.result = "error"
        /\ over.locked = Top.locked /\ over.request = Top.request
    BY <1>3, <1>5 DEF Frames, Steps, Results
  <2>2. Becomes(over)
    BY <1>7
  <2> HIDE DEF over
  <2>3. CountedRight(over, client.retries)
    BY <1>3, <1>4, <2>1 DEF CountedRight, Before
  <2>4. StoredRight(over) /\ EndsRight(over) /\ HoldsRight(over) /\ CheckedRight(over)
    BY <1>4, <2>1 DEF StoredRight, EndsRight, HoldsRight, CheckedRight, Storing
  <2>5. QED BY <1>1, <1>2, <2>1, <2>2, <2>3, <2>4, TopChanges DEF Sound
<1>8. CASE Becomes(refused)
  <2>1. /\ refused \in Frames /\ refused.done = Top.done /\ refused.tries = Top.tries
        /\ refused.step = "return" /\ refused.reply = "none" /\ refused.result = "error"
        /\ refused.locked = Top.locked /\ refused.request = Top.request
    BY <1>2, <1>4 DEF Frames, Steps, Results
  <2>2. Becomes(refused)
    BY <1>8
  <2> HIDE DEF refused
  <2>3. CountedRight(refused, client.retries)
    BY <1>3, <1>4, <2>1 DEF CountedRight, Before
  <2>4. StoredRight(refused) /\ EndsRight(refused) /\ HoldsRight(refused) /\ CheckedRight(refused)
    BY <1>4, <2>1 DEF StoredRight, EndsRight, HoldsRight, CheckedRight, Storing
  <2>5. QED BY <1>1, <1>2, <2>1, <2>2, <2>3, <2>4, TopChanges DEF Sound
<1>9. QED BY <1>6, <1>7, <1>8 DEF Again

(* Timeouts, statuses that are retried and those that are not.             *)
LEMMA SendIInv ==
  ASSUME IInv, NoAnswer \/ Refuse PROVE IInv'
<1>1. Running /\ Top.step = "send" /\ UNCHANGED <<setup, token, locks>>
  BY DEF NoAnswer, Refuse, At_
<1>2. CASE NoAnswer
  BY <1>1, <1>2, AgainIInv DEF NoAnswer
<1>3. CASE Refuse
  <2>1. Top \in Frames
    BY <1>1, RunningFacts
  <2>2. [Top EXCEPT !.done = @ + 0] = Top
    BY <2>1 DEF Frames
  <2>3. Again([Top EXCEPT !.done = @ + 0])
        \/ Becomes([Top EXCEPT !.step = "return", !.result = "error"])
    BY <1>3, <2>2 DEF Refuse
  <2>4. 0 \in {0, 1}
    OBVIOUS
  <2>5. QED BY <1>1, <2>3, <2>4, AgainIInv
<1>4. QED BY <1>2, <1>3

(* A handler applies an answer only where the token in it is the client's. *)
AppliesRight(ops) ==
  \A o \in ops :
    /\ "op" \in DOMAIN o /\ "applies" \in DOMAIN o
    /\ o.applies => o.op \in {"login", "login_jwt", "renew_self"}

(* Operations that apply nothing, and those that do under these names.     *)
LEMMA RunRight ==
  ASSUME NEW via, NEW verb, NEW names PROVE AppliesRight(Run(via, verb, names))
BY DEF AppliesRight, Run

LEMMA AppliedRight ==
  ASSUME NEW verb, NEW names, names \subseteq {"login", "login_jwt", "renew_self"}
  PROVE  AppliesRight(Applied(verb, names))
BY DEF AppliesRight, Applied

(* A handler's path changes nothing about it, nor does block_on.           *)
LEMMA AtRight ==
  ASSUME NEW area, NEW ops, AppliesRight(ops) PROVE AppliesRight(At(area, ops))
BY DEF AppliesRight, At

LEMMA BlockingRight ==
  ASSUME NEW ops, AppliesRight(ops) PROVE AppliesRight(Blocking(ops))
BY DEF AppliesRight, Blocking

LEMMA UnionRight ==
  ASSUME NEW a, NEW b, AppliesRight(a), AppliesRight(b) PROVE AppliesRight(a \cup b)
BY DEF AppliesRight

(* What is left of an operation says nothing about what it applies, and    *)
(* the helpers of the catalogue are unions of operations that apply none.  *)
LEMMA DataRight ==
  ASSUME NEW verb, NEW names
  PROVE  /\ AppliesRight(Data(verb, names))
         /\ AppliesRight(Empty(verb, names))
         /\ AppliesRight(List(names))
BY RunRight DEF Data, Empty, List

(* The key-value engines, transit and the PKI apply nothing.               *)
LEMMA EnginesRight ==
  /\ AppliesRight(Kv1Operations) /\ AppliesRight(Kv1Conveniences)
  /\ AppliesRight(Kv2Data) /\ AppliesRight(Kv2Versions) /\ AppliesRight(Kv2Conveniences)
  /\ AppliesRight(Cubbyhole)
  /\ AppliesRight(TransitKeys) /\ AppliesRight(TransitCrypto) /\ AppliesRight(TransitUpkeep)
  /\ AppliesRight(PkiIssuers) /\ AppliesRight(PkiCertificates) /\ AppliesRight(PkiUpkeep)
<1>1. AppliesRight(Kv1Operations) /\ AppliesRight(Kv1Conveniences)
  BY DataRight, AtRight, UnionRight DEF Kv1Operations, Kv1Conveniences
<1>2. AppliesRight(Kv2Data) /\ AppliesRight(Kv2Versions) /\ AppliesRight(Kv2Conveniences)
  BY DataRight, AtRight, UnionRight DEF Kv2Data, Kv2Versions, Kv2Conveniences
<1>3. AppliesRight(Cubbyhole) /\ AppliesRight(TransitKeys)
  BY DataRight, AtRight, UnionRight DEF Cubbyhole, TransitKeys
<1>4. AppliesRight(TransitCrypto) /\ AppliesRight(TransitUpkeep)
  BY DataRight, AtRight, UnionRight DEF TransitCrypto, TransitUpkeep
<1>5. AppliesRight(PkiIssuers) /\ AppliesRight(PkiCertificates)
  BY DataRight, AtRight, UnionRight DEF PkiIssuers, PkiCertificates
<1>6. AppliesRight(PkiUpkeep)
  BY DataRight, RunRight, AtRight, UnionRight DEF PkiUpkeep
<1>7. QED BY <1>1, <1>2, <1>3, <1>4, <1>5, <1>6

(* Neither do the engines that issue credentials, nor identity.            *)
LEMMA IssuersRight ==
  /\ AppliesRight(DatabaseConnections) /\ AppliesRight(DatabaseRoles) /\ AppliesRight(Ssh)
  /\ AppliesRight(Totp) /\ AppliesRight(AwsSecrets) /\ AppliesRight(Consul)
  /\ AppliesRight(Nomad) /\ AppliesRight(AzureSecrets) /\ AppliesRight(TerraformCloud)
  /\ AppliesRight(GcpSecrets) /\ AppliesRight(Rabbitmq)
  /\ AppliesRight(IdentityEntities) /\ AppliesRight(IdentityGroups)
<1>1. AppliesRight(DatabaseConnections) /\ AppliesRight(DatabaseRoles)
  BY DataRight, AtRight, UnionRight DEF DatabaseConnections, DatabaseRoles
<1>2. AppliesRight(Ssh) /\ AppliesRight(AwsSecrets)
  BY DataRight, AtRight, UnionRight DEF Ssh, AwsSecrets
<1>3. AppliesRight(Totp)
  BY DataRight, RunRight, AtRight, UnionRight DEF Totp
<1>4. AppliesRight(Issuer)
  BY DataRight, AtRight, UnionRight DEF Issuer
<1>5. AppliesRight(GcpSecrets) /\ AppliesRight(Rabbitmq)
  BY DataRight, AtRight, UnionRight DEF GcpSecrets, Rabbitmq
<1>6. AppliesRight(IdentityEntities) /\ AppliesRight(IdentityGroups)
  BY DataRight, AtRight, UnionRight DEF IdentityEntities, IdentityGroups
<1>7. QED BY <1>1, <1>2, <1>3, <1>4, <1>5, <1>6 DEF Consul, Nomad, AzureSecrets, TerraformCloud

(* Nor does the system backend.                                            *)
LEMMA SysRight ==
  /\ AppliesRight(SysHealth) /\ AppliesRight(SysSeal) /\ AppliesRight(SysMounts)
  /\ AppliesRight(SysPolicies) /\ AppliesRight(SysLeases) /\ AppliesRight(SysAudit)
  /\ AppliesRight(SysWrapping) /\ AppliesRight(SysPlugins) /\ AppliesRight(SysRaft)
  /\ AppliesRight(SysNamespaces) /\ AppliesRight(SysQuotas) /\ AppliesRight(SysRekey)
  /\ AppliesRight(SysOperations)
<1>1. AppliesRight(SysHealth) /\ AppliesRight(SysSeal)
  BY DataRight, RunRight, AtRight, UnionRight DEF SysHealth, SysSeal
<1>2. AppliesRight(SysMounts) /\ AppliesRight(SysPolicies)
  BY DataRight, AtRight, UnionRight DEF SysMounts, SysPolicies
<1>3. AppliesRight(SysLeases) /\ AppliesRight(SysAudit)
  BY DataRight, RunRight, AtRight, UnionRight DEF SysLeases, SysAudit
<1>4. AppliesRight(SysWrapping) /\ AppliesRight(SysPlugins)
  BY DataRight, AtRight, UnionRight DEF SysWrapping, SysPlugins
<1>5. AppliesRight(SysRaft)
  BY DataRight, RunRight, AtRight, UnionRight DEF SysRaft
<1>6. AppliesRight(SysNamespaces) /\ AppliesRight(SysQuotas)
  BY DataRight, AtRight, UnionRight DEF SysNamespaces, SysQuotas
<1>7. AppliesRight(SysRekey)
  BY DataRight, RunRight, AtRight, UnionRight DEF SysRekey
<1>8. AppliesRight(SysOperations)
  BY <1>1, <1>2, <1>3, <1>4, <1>5, <1>6, <1>7, UnionRight DEF SysOperations
<1>9. QED BY <1>1, <1>2, <1>3, <1>4, <1>5, <1>6, <1>7, <1>8

(* The auth methods apply the tokens of their logins, and of renew_self.   *)
LEMMA AuthRight ==
  /\ AppliesRight(TokenAuth) /\ AppliesRight(AppRoleAuth) /\ AppliesRight(AwsAuth)
  /\ AppliesRight(AzureAuth) /\ AppliesRight(GcpAuth) /\ AppliesRight(CertAuth)
  /\ AppliesRight(OidcAuth) /\ AppliesRight(K8sAuth) /\ AppliesRight(GithubAuth)
  /\ AppliesRight(KerberosAuth) /\ AppliesRight(LdapAuth) /\ AppliesRight(RadiusAuth)
  /\ AppliesRight(UserpassAuth)
<1>1. AppliesRight(Login("login")) /\ AppliesRight(Login("login_jwt"))
  BY AppliedRight, AtRight DEF Login
<1>2. AppliesRight(Roles) /\ AppliesRight(Config) /\ AppliesRight(Users) /\ AppliesRight(Groups)
  BY DataRight, AtRight, UnionRight DEF Roles, Config, Users, Groups
<1>3. AppliesRight(TokenAuth)
  BY DataRight, RunRight, AppliedRight, AtRight, UnionRight DEF TokenAuth
<1>4. AppliesRight(AppRoleAuth) /\ AppliesRight(K8sAuth)
  BY <1>1, <1>2, DataRight, AtRight, UnionRight DEF AppRoleAuth, K8sAuth
<1>5. AppliesRight(AwsAuth) /\ AppliesRight(AzureAuth) /\ AppliesRight(GcpAuth)
      /\ AppliesRight(CertAuth) /\ AppliesRight(OidcAuth)
  BY <1>1, <1>2, UnionRight DEF AwsAuth, AzureAuth, GcpAuth, CertAuth, OidcAuth
<1>6. AppliesRight(GithubAuth) /\ AppliesRight(KerberosAuth)
  BY <1>1, <1>2, DataRight, AtRight, UnionRight DEF GithubAuth, KerberosAuth
<1>7. AppliesRight(LdapAuth) /\ AppliesRight(RadiusAuth) /\ AppliesRight(UserpassAuth)
  BY <1>1, <1>2, DataRight, AtRight, UnionRight DEF LdapAuth, RadiusAuth, UserpassAuth
<1>8. QED BY <1>3, <1>4, <1>5, <1>6, <1>7

(* The blocking client runs the same operations.                           *)
LEMMA BlockingsRight ==
  AppliesRight(BlockingOperations)
<1>1. AppliesRight(Generic)
  BY DataRight, RunRight, AtRight, UnionRight DEF Generic
<1>2. /\ AppliesRight(BlockingGeneric) /\ AppliesRight(BlockingCubbyhole)
      /\ AppliesRight(BlockingKv1) /\ AppliesRight(BlockingKv2)
      /\ AppliesRight(BlockingTransit) /\ AppliesRight(BlockingPki)
  BY <1>1, EnginesRight, UnionRight, BlockingRight
  DEF BlockingGeneric, BlockingCubbyhole, BlockingKv1, BlockingKv2, BlockingTransit, BlockingPki
<1>3. /\ AppliesRight(BlockingDatabase) /\ AppliesRight(BlockingSsh)
      /\ AppliesRight(BlockingIdentity) /\ AppliesRight(BlockingTotp)
      /\ AppliesRight(BlockingConsul) /\ AppliesRight(BlockingNomad)
      /\ AppliesRight(BlockingRabbitmq) /\ AppliesRight(BlockingTerraform)
  BY IssuersRight, UnionRight, BlockingRight
  DEF BlockingDatabase, BlockingSsh, BlockingIdentity, BlockingTotp, BlockingConsul,
      BlockingNomad, BlockingRabbitmq, BlockingTerraform
<1>4. /\ AppliesRight(BlockingSeal) /\ AppliesRight(BlockingMounts)
      /\ AppliesRight(BlockingLeases) /\ AppliesRight(BlockingPlugins)
      /\ AppliesRight(BlockingRekey)
  BY SysRight, UnionRight, BlockingRight
  DEF BlockingSeal, BlockingMounts, BlockingLeases, BlockingPlugins, BlockingRekey
<1>5. /\ AppliesRight(BlockingAws) /\ AppliesRight(BlockingAzure) /\ AppliesRight(BlockingGcp)
  BY IssuersRight, AuthRight, UnionRight, BlockingRight
  DEF BlockingAws, BlockingAzure, BlockingGcp
<1>6. AppliesRight(BlockingAuth)
  <2>1. /\ AppliesRight(BlockingTokenAuth) /\ AppliesRight(BlockingAppRole)
        /\ AppliesRight(BlockingK8s) /\ AppliesRight(BlockingUserpass)
        /\ AppliesRight(BlockingLdap) /\ AppliesRight(BlockingCert)
        /\ AppliesRight(BlockingGithub) /\ AppliesRight(BlockingOidc)
        /\ AppliesRight(BlockingRadius) /\ AppliesRight(BlockingKerberos)
    BY AuthRight, BlockingRight
    DEF BlockingTokenAuth, BlockingAppRole, BlockingK8s, BlockingUserpass, BlockingLdap,
        BlockingCert, BlockingGithub, BlockingOidc, BlockingRadius, BlockingKerberos
  <2>2. QED BY <2>1, UnionRight DEF BlockingAuth
<1>7. QED BY <1>2, <1>3, <1>4, <1>5, <1>6 DEF BlockingOperations, AppliesRight

(* No handler of the catalogue applies the token of somebody else.         *)
LEMMA CatalogueRight == AppliesRight(Catalogue)
<1>1. AppliesRight(Generic)
  BY DataRight, RunRight, AtRight, UnionRight DEF Generic
<1>2. AppliesRight(AuthOperations)
  BY AuthRight, UnionRight DEF AuthOperations
<1>3. AppliesRight(Operations)
  BY <1>1, <1>2, EnginesRight, IssuersRight, SysRight DEF Operations, AppliesRight
<1>4. QED BY <1>3, BlockingsRight, UnionRight DEF Catalogue

(* So a request whose handler applies the answer is about the client's     *)
(* own token.                                                              *)
LEMMA RequestsFacts ==
  ASSUME NEW r \in Requests PROVE r.applies => r.for = "client"
<1>1. PICK o \in Catalogue :
        r \in [via : {o.via}, applies : {o.applies}, for : {TokenFor(o)}, client : {o.client},
               path : Paths(o)]
  BY DEF Requests, RequestsOf
<1>2. r.applies = o.applies /\ r.for = TokenFor(o)
  BY <1>1
<1>3. o.applies => o.op \in {"login", "login_jwt", "renew_self"}
  BY CatalogueRight DEF AppliesRight
<1>4. QED BY <1>2, <1>3 DEF TokenFor

(* A success that Decodes reports has something behind it, and a login     *)
(* that is taken over was carried out.                                     *)
LEMMA DecodesFacts ==
  ASSUME NEW via, NEW reply
  PROVE  /\ Decodes(via, reply) \in {"ok", "nothing", "error"}
         /\ Decodes(via, "notfound") = "ok" => via \in {"raw", "untyped"}
<1>1. Decodes(via, reply) \in {"ok", "nothing", "error"}
  <2>1. CASE via \in {"data", "auth", "direct"}
    BY <2>1 DEF Decodes
  <2>2. CASE via \in {"untyped", "envelope", "wrap", "lease", "raw"}
    BY <2>2 DEF Decodes
  <2>3. CASE via \in {"empty", "restore"}
    BY <2>3 DEF Decodes
  <2>4. CASE via \notin {"data", "auth", "direct", "untyped", "envelope", "wrap", "lease",
                         "raw", "empty", "restore"}
    <3>1. Decodes(via, reply) = CASE reply = "full" -> "ok"
                                  [] reply = "empty" -> "error"
                                  [] OTHER -> "nothing"
      BY <2>4 DEF Decodes
    <3>2. QED BY <3>1
  <2>5. QED BY <2>1, <2>2, <2>3, <2>4
<1>2. Decodes(via, "notfound") = "ok" => via \in {"raw", "untyped"}
  <2>1. CASE via \in {"data", "auth", "direct"}
    BY <2>1 DEF Decodes
  <2>2. CASE via \in {"envelope", "wrap", "lease"}
    BY <2>2 DEF Decodes
  <2>3. CASE via \in {"empty", "restore"}
    BY <2>3 DEF Decodes
  <2>4. CASE via \notin {"data", "auth", "direct", "untyped", "envelope", "wrap", "lease",
                         "raw", "empty", "restore"}
    <3>1. Decodes(via, "notfound") = "nothing"
      BY <2>4 DEF Decodes
    <3>2. QED BY <3>1
  <2>5. QED BY <2>1, <2>2, <2>3, <2>4
<1>3. QED BY <1>1, <1>2

(* What exec_ functions make of an answer; a login goes on to its token.   *)
LEMMA DecodeIInv ==
  ASSUME IInv, Decode PROVE IInv'
<1>1. /\ Running /\ Top.step = "decode" /\ UNCHANGED setup /\ poisoned' = poisoned
      /\ token' = token /\ tokenLock' = tokenLock /\ renewalLock' = renewalLock
  BY DEF Decode, At_, locks
<1>2. /\ Top \in Frames /\ Sound(Top, client.retries) /\ token \in Tokens /\ Top.result = "none"
      /\ tokenLock = FALSE
  BY <1>1, RunningFacts
<1>3. /\ Top.reply \in Replies \ {"none"} /\ ~ (Top.locked = TRUE)
      /\ CountedRight(Top, client.retries) /\ CheckedRight(Top)
  BY <1>1, <1>2 DEF Sound, CountedRight, HoldsRight, Frames, Storing
<1> DEFINE result == Decodes(Top.request.via, Top.reply)
           storing == [Top EXCEPT !.step = "update"]
           over    == [Top EXCEPT !.step = "return", !.result = result]
<1>4. /\ result \in {"ok", "nothing", "error"}
      /\ Decodes(Top.request.via, "notfound") = "ok" => Top.request.via \in {"raw", "untyped"}
  BY DecodesFacts
<1>5. result = "ok" => Backed(Top)
  <2>1. CASE Top.reply = "notfound"
    BY <1>4, <2>1 DEF Backed
  <2>2. CASE Top.reply # "notfound"
    BY <1>3, <2>2 DEF Backed, CountedRight, Replies
  <2>3. QED BY <2>1, <2>2
<1>6. \/ result = "ok" /\ Top.request.for = "client" /\ Becomes(storing)
      \/ Becomes(over)
  <2>1. Top.request.applies => Top.request.for = "client"
    BY <1>2, RequestsFacts DEF Frames
  <2>2. QED BY <2>1 DEF Decode, TakesOver
<1> HIDE DEF result
<1>7. CASE result = "ok" /\ Top.request.for = "client" /\ Becomes(storing)
  <2>1. /\ storing \in Frames /\ storing.step = "update" /\ storing.reply = Top.reply
        /\ storing.done = Top.done /\ storing.tries = Top.tries /\ storing.result = "none"
        /\ storing.locked = Top.locked /\ storing.request = Top.request
    BY <1>2 DEF Frames, Steps
  <2>2. Becomes(storing)
    BY <1>7
  <2> HIDE DEF storing
  <2>3. CountedRight(storing, client.retries)
    BY <1>3, <2>1 DEF CountedRight, Before
  <2>4. StoredRight(storing)
    BY <1>3, <1>5, <1>7, <2>1 DEF StoredRight, Backed
  <2>5. EndsRight(storing) /\ HoldsRight(storing) /\ CheckedRight(storing)
    BY <1>3, <2>1 DEF EndsRight, HoldsRight, CheckedRight, Storing
  <2>6. QED BY <1>1, <1>2, <2>1, <2>2, <2>3, <2>4, <2>5, TopChanges DEF Sound
<1>8. CASE Becomes(over)
  <2>1. /\ over \in Frames /\ over.step = "return" /\ over.reply = Top.reply
        /\ over.done = Top.done /\ over.tries = Top.tries /\ over.result = result
        /\ over.locked = Top.locked /\ over.request = Top.request
    BY <1>2, <1>4 DEF Frames, Steps, Results
  <2>2. Becomes(over)
    BY <1>8
  <2> HIDE DEF over
  <2>3. CountedRight(over, client.retries)
    BY <1>3, <2>1 DEF CountedRight, Before
  <2>4. EndsRight(over)
    BY <1>5, <2>1 DEF EndsRight, Backed
  <2>5. StoredRight(over) /\ HoldsRight(over) /\ CheckedRight(over)
    BY <1>3, <2>1 DEF StoredRight, HoldsRight, CheckedRight, Storing
  <2>6. QED BY <1>1, <1>2, <2>1, <2>2, <2>3, <2>4, <2>5, TopChanges DEF Sound
<1>9. QED BY <1>6, <1>7, <1>8

(* Another call goes on the stack.                                         *)
LEMMA PushIInv ==
  ASSUME IInv, client.built, Running => Top.step = "reauth",
         NEW r \in Requests, NEW wraps \in BOOLEAN,
         stack' = Append(stack, Call(r, wraps)), Len(stack) < MaxDepth,
         client.method = "library" =>
           Len(stack) = 0 \/ (Len(stack) = 1 /\ IsLogin(r.path)),
         UNCHANGED <<setup, token, locks>>
  PROVE  IInv'
<1> DEFINE call == Call(r, wraps)
           n == Len(stack)
<1>1. /\ UNCHANGED <<builder, client, asked, limit>>
      /\ token' = token /\ renewalLock' = renewalLock
      /\ tokenLock' = tokenLock /\ poisoned' = poisoned
  BY DEF setup, locks
<1>2. /\ call \in Frames /\ call.step = "check" /\ call.locked = FALSE /\ call.request = r
      /\ call.tries = 0 /\ call.done = 0 /\ call.reply = "none" /\ call.result = "none"
  BY DEF Call, Frames, Steps, Replies, Results
<1>3. stack \in Seq(Frames) /\ n \in Nat /\ client.retries \in Nat
  BY DEF IInv, StackSound, ClientSound
<1>4. stack' = Append(stack, call)
  OBVIOUS
<1> HIDE DEF call
<1>5. /\ stack' \in Seq(Frames) /\ Len(stack') = n + 1 /\ stack'[n + 1] = call
      /\ \A i \in 1..n : stack'[i] = stack[i]
  BY <1>2, <1>3, <1>4
<1>6. Sound(call, client.retries)
  BY <1>2, <1>3 DEF Sound, CountedRight, StoredRight, EndsRight, HoldsRight, CheckedRight,
                   Before, Storing
<1>7. StackSound'
  <2>1. \A i \in 1..Len(stack') : Sound(stack'[i], client'.retries)
    BY <1>1, <1>3, <1>5, <1>6 DEF IInv, StackSound
  <2>2. n # 0 => stack[n].step = "reauth"
    BY <1>3 DEF Running, Top
  <2>3. \A i \in 1..Len(stack') : i # Len(stack') => stack'[i].step = "reauth"
    BY <1>3, <1>5, <2>2 DEF IInv, StackSound
  <2>4. Len(stack') <= MaxDepth
    BY <1>3, <1>5, SessionAssumption
  <2>5. QED BY <1>5, <2>1, <2>3, <2>4 DEF StackSound
<1>8. LocksSound'
  <2>1. Holders' = Holders
    BY <1>2, <1>3, <1>5 DEF Holders
  <2>2. Running' /\ Top' = call
    BY <1>3, <1>5 DEF Running, Top
  <2>3. ~ At_("announce") /\ ~ At_("announce")'
    BY <1>2, <2>2 DEF At_
  <2>4. QED BY <1>1, <2>1, <2>3 DEF IInv, LocksSound
<1>9. LoginsSound'
  <2>1. CASE n = 0
    BY <1>1, <1>5, <2>1 DEF LoginsSound
  <2>2. CASE n = 1
    BY <1>1, <1>2, <1>5, <2>2 DEF LoginsSound
  <2>3. QED BY <1>1, <2>1, <2>2 DEF LoginsSound
<1>10. ClientSound' /\ BuilderSound'
  BY <1>1 DEF IInv, ClientSound, BuilderSound
<1>11. QED BY <1>7, <1>8, <1>9, <1>10 DEF IInv

(* A call of the user's.                                                   *)
LEMMA BeginIInv ==
  ASSUME IInv, Begin PROVE IInv'
<1>1. PICK r \in Requests, wraps \in BOOLEAN : stack' = <<Call(r, wraps)>>
  BY DEF Begin
<1>2. client.built /\ ~ Running /\ UNCHANGED <<setup, token, locks>>
  BY DEF Begin
<1>3. stack = <<>> /\ Len(stack) = 0
  BY <1>2 DEF Running
<1>4. stack' = Append(stack, Call(r, wraps))
  BY <1>1, <1>3
<1>5. Len(stack) < MaxDepth
  BY <1>3, SessionAssumption
<1>6. QED BY ONLY IInv, <1>2, <1>3, <1>4, <1>5, PushIInv

(* Only the login operations of the auth methods bear the name.            *)
LoginsOnly(ops) ==
  \A o \in ops : o.op \in {"login", "login_jwt"} => o.area = "login"

(* An operation made by At and Run.                                         *)
LEMMA AtFacts ==
  ASSUME NEW area, NEW ops, NEW o \in At(area, ops)
  PROVE  o.area = area /\ \E p \in ops : o.op = p.op
BY DEF At

(* Operations that bear no such name.                                      *)
NoLogins(ops) == \A o \in ops : o.op \notin {"login", "login_jwt"}

LEMMA RunFacts ==
  ASSUME NEW via, NEW verb, NEW names, \A x \in names : x \notin {"login", "login_jwt"}
  PROVE  /\ NoLogins(Run(via, verb, names))
         /\ NoLogins(Data(verb, names))
         /\ NoLogins(Empty(verb, names))
         /\ NoLogins(List(names))
BY DEF NoLogins, Run, Data, Empty, List

(* Their union holds none either.                                          *)
LEMMA NoLoginsUnion ==
  ASSUME NEW a, NEW b, NoLogins(a), NoLogins(b) PROVE NoLogins(a \cup b)
BY DEF NoLogins

(* No operation of a set without these names is a login.                   *)
LEMMA OthersFacts ==
  ASSUME NEW ops, NoLogins(ops) PROVE LoginsOnly(At("auth", ops))
BY AtFacts DEF LoginsOnly, NoLogins

(* What Login makes is a login.                                            *)
LEMMA LoginNameFacts ==
  ASSUME NEW name PROVE LoginsOnly(Login(name))
BY AtFacts DEF LoginsOnly, Login

(* The operations the auth handlers have in common are none.               *)
LEMMA CommonFacts ==
  LoginsOnly(Roles) /\ LoginsOnly(Config) /\ LoginsOnly(Users) /\ LoginsOnly(Groups)
<1>1. LoginsOnly(Roles)
  BY OthersFacts, RunFacts, NoLoginsUnion DEF Roles
<1>2. LoginsOnly(Config)
  BY OthersFacts, RunFacts, NoLoginsUnion DEF Config
<1>3. LoginsOnly(Users)
  BY OthersFacts, RunFacts, NoLoginsUnion DEF Users
<1>4. LoginsOnly(Groups)
  BY OthersFacts, RunFacts, NoLoginsUnion DEF Groups
<1>5. QED BY <1>1, <1>2, <1>3, <1>4

(* A handler is put together of such sets.                                 *)
LEMMA UnionFacts ==
  ASSUME NEW a, NEW b, LoginsOnly(a), LoginsOnly(b) PROVE LoginsOnly(a \cup b)
BY DEF LoginsOnly

(* The AuthMethods of the library call logins below auth/, and nothing     *)
(* else.                                                                   *)
LEMMA LibraryLoginsFacts ==
  /\ \A o \in LibraryLogins : o.area = "login"
  /\ LibraryLogins \subseteq Catalogue
<1>1. LoginsOnly(AppRoleAuth)
  BY LoginNameFacts, CommonFacts, UnionFacts, OthersFacts, RunFacts, NoLoginsUnion
     DEF AppRoleAuth
<1>2. LoginsOnly(AwsAuth)
  BY LoginNameFacts, CommonFacts, UnionFacts DEF AwsAuth
<1>3. LoginsOnly(AzureAuth)
  BY LoginNameFacts, CommonFacts, UnionFacts DEF AzureAuth
<1>4. LoginsOnly(GcpAuth)
  BY LoginNameFacts, CommonFacts, UnionFacts DEF GcpAuth
<1>5. LoginsOnly(OidcAuth)
  BY LoginNameFacts, CommonFacts, UnionFacts DEF OidcAuth
<1>6. LoginsOnly(K8sAuth)
  BY LoginNameFacts, CommonFacts, UnionFacts, OthersFacts, RunFacts, NoLoginsUnion
     DEF K8sAuth
<1>7. LoginsOnly(GithubAuth)
  BY LoginNameFacts, CommonFacts, UnionFacts, OthersFacts, RunFacts, NoLoginsUnion
     DEF GithubAuth
<1>8. LoginsOnly(LdapAuth)
  BY LoginNameFacts, CommonFacts, UnionFacts, OthersFacts, RunFacts, NoLoginsUnion
     DEF LdapAuth
<1>9. LoginsOnly(UserpassAuth)
  BY LoginNameFacts, CommonFacts, UnionFacts, OthersFacts, RunFacts, NoLoginsUnion
     DEF UserpassAuth
<1>10. \A o \in LibraryLogins : o.area = "login"
  BY <1>1, <1>2, <1>3, <1>4, <1>5, <1>6, <1>7, <1>8, <1>9 DEF LibraryLogins, LoginsOnly
<1>11. LibraryLogins \subseteq AuthOperations
  BY DEF LibraryLogins, AuthOperations
<1>12. AuthOperations \subseteq Catalogue
  BY DEF Operations, Catalogue
<1>13. QED BY <1>10, <1>11, <1>12

(* What an AuthMethod asks of the client is a request of its handlers, and *)
(* one of the library's passes the test for logins.                        *)
LEMMA LoginRequestsFacts ==
  ASSUME NEW r \in LoginRequests
  PROVE  r \in Requests /\ (client.method = "library" => IsLogin(r.path))
<1> DEFINE ops == IF client.method = "library" THEN LibraryLogins ELSE CustomCalls
<1>1. ops \subseteq Catalogue
  BY LibraryLoginsFacts, SessionAssumption DEF Catalogue
<1>2. PICK o \in ops :
        r \in [via : {o.via}, applies : {o.applies}, for : {TokenFor(o)}, client : {o.client},
              path : Paths(o)]
  BY DEF LoginRequests, RequestsOf
<1>3. r \in Requests
  BY <1>1, <1>2 DEF Requests, RequestsOf
<1>4. ASSUME client.method = "library" PROVE IsLogin(r.path)
  <2>1. o.area = "login"
    BY <1>2, <1>4, LibraryLoginsFacts
  <2>2. Paths(o) = [auth : {TRUE}, login : {TRUE}]
    BY <2>1 DEF Paths
  <2>3. r.path \in [auth : {TRUE}, login : {TRUE}]
    BY <1>2, <2>2
  <2>4. r.path.auth = TRUE /\ r.path.login = TRUE
    BY <2>3
  <2>5. QED BY <2>4 DEF IsLogin
<1>5. QED BY <1>3, <1>4

(* An AuthMethod logs in on top of the call that needs the token.          *)
LEMMA ReAuthenticateIInv ==
  ASSUME IInv, ReAuthenticate PROVE IInv'
<1>1. /\ Running /\ Top.step = "reauth" /\ UNCHANGED <<setup, token, locks>>
      /\ Len(stack) < MaxDepth
  BY DEF ReAuthenticate, At_
<1>2. PICK r \in LoginRequests : stack' = Append(stack, Call(r, Top.wraps))
  BY DEF ReAuthenticate
<1>3. r \in Requests /\ (client.method = "library" => IsLogin(r.path))
  BY LoginRequestsFacts
<1>4. client.built /\ Top \in Frames /\ Sound(Top, client.retries)
  BY <1>1, RunningFacts
<1>5. Top.wraps \in BOOLEAN
  BY <1>4 DEF Frames
<1>6. Len(stack) \in Nat /\ Len(stack) >= 1
  BY <1>1, TopFacts DEF IInv
<1>7. ASSUME client.method = "library" PROVE Len(stack) = 1 /\ IsLogin(r.path)
  <2>1. ~ IsLogin(Top.request.path)
    BY <1>1, <1>4 DEF Sound, CheckedRight
  <2>2. Len(stack) # 2
    BY <1>7, <2>1 DEF IInv, LoginsSound, Top
  <2>3. Len(stack) <= 2
    BY <1>7 DEF IInv, LoginsSound
  <2>4. Len(stack) = 1
    BY <1>6, <2>2, <2>3
  <2>5. QED BY <1>3, <1>7, <2>4
<1>8. QED BY ONLY IInv, <1>1, <1>2, <1>3, <1>4, <1>5, <1>7, PushIInv

(* The call below comes back to the top.                                   *)
LEMMA PopIInv ==
  ASSUME IInv, Len(stack) > 1, Top.step = "return", NEW call \in Frames,
         stack' = Append(Outer, call), call.request = Caller.request,
         call.step \in {"return", "update"},
         Sound(Caller, client.retries) /\ Caller.step = "reauth" => Sound(call, client.retries),
         \/ call.locked = Caller.locked /\ renewalLock' = renewalLock
         \/ /\ call.locked = FALSE
            /\ renewalLock' = IF Caller.locked = TRUE THEN FALSE ELSE renewalLock,
         UNCHANGED <<setup, token, tokenLock, poisoned>>
  PROVE  IInv'
<1> DEFINE n == Len(stack) - 1
<1>1. UNCHANGED <<builder, client, asked, limit, token, tokenLock, poisoned>>
  BY DEF setup
<1>2. stack \in Seq(Frames) /\ Len(stack) = n + 1 /\ n \in Nat /\ n >= 1 /\ Running
  BY DEF IInv, StackSound, Running
<1>3. /\ Below \in Seq(Frames) /\ Len(Below) = n
      /\ \A i \in 1..n : Below[i] = stack[i]
  <2>1. n <= Len(stack)
    BY <1>2
  <2>2. QED BY <1>2, <2>1, PrefixFacts DEF Below
<1>4. /\ Outer \in Seq(Frames) /\ Len(Outer) = n - 1
      /\ \A i \in 1..(n - 1) : Outer[i] = stack[i]
  <2>1. n - 1 \in Nat /\ n - 1 <= Len(Below) /\ Len(Below) - 1 = n - 1
    BY <1>2, <1>3
  <2>2. \A i \in 1..(n - 1) : i \in 1..n
    BY <1>2
  <2> HIDE DEF n
  <2>3. QED BY <1>3, <2>1, <2>2, PrefixFacts DEF Outer
<1>5. Caller = stack[n]
  BY <1>2, <1>3 DEF Caller
<1> HIDE DEF n
<1>6. /\ stack' \in Seq(Frames) /\ Len(stack') = n /\ stack'[n] = call
      /\ \A i \in 1..n : i # n => stack'[i] = stack[i]
  <2>1. /\ stack' \in Seq(Frames)
        /\ Len(stack') = Len(Outer) + 1
        /\ stack'[Len(Outer) + 1] = call
        /\ \A i \in 1..Len(Outer) : stack'[i] = Outer[i]
    BY <1>4, AppendProperties
  <2>2. Len(Outer) + 1 = n /\ \A i \in 1..n : i # n => i \in 1..(n - 1)
    BY <1>2, <1>4
  <2>3. QED BY <1>4, <2>1, <2>2
<1>7. Caller \in Frames /\ Sound(Caller, client.retries) /\ Caller.step = "reauth"
  BY <1>2, <1>5 DEF IInv, StackSound
<1>8. Sound(call, client.retries)
  BY <1>7
<1>9. Top.locked = FALSE /\ tokenLock = FALSE
  <2>1. Top \in Frames /\ Sound(Top, client.retries) /\ tokenLock = FALSE
    BY <1>2, RunningFacts
  <2>2. ~ (Top.locked = TRUE) /\ Top.locked \in BOOLEAN
    BY <2>1 DEF Sound, HoldsRight, Storing, Frames
  <2>3. QED BY <2>1, <2>2
<1>10. StackSound'
  <2>1. \A i \in 1..Len(stack') : Sound(stack'[i], client'.retries)
    BY <1>1, <1>2, <1>6, <1>8 DEF IInv, StackSound
  <2>2. \A i \in 1..Len(stack') : i # Len(stack') => stack'[i].step = "reauth"
    BY <1>2, <1>6 DEF IInv, StackSound
  <2>3. Len(stack') <= MaxDepth
    BY <1>2, <1>6, SessionAssumption DEF IInv, StackSound
  <2>4. QED BY <1>6, <2>1, <2>2, <2>3 DEF StackSound
<1>11. LocksSound'
  <2>1. \A i : i # n => (i \in Holders' <=> i \in Holders)
    BY <1>2, <1>6, <1>9 DEF Holders, Top
  <2>2. (n \in Holders' <=> call.locked = TRUE) /\ (n \in Holders <=> Caller.locked = TRUE)
    BY <1>2, <1>6, <1>5 DEF Holders
  <2>3. /\ renewalLock \in BOOLEAN
        /\ renewalLock = TRUE <=> Holders # {}
        /\ \A i, j \in Holders : i = j
    BY DEF IInv, LocksSound
  <2> DEFINE Goal == /\ renewalLock' \in BOOLEAN
                     /\ renewalLock' = TRUE <=> Holders' # {}
                     /\ \A i, j \in Holders' : i = j
  <2> HIDE DEF n
  <2>4. ASSUME n \in Holders' <=> n \in Holders, renewalLock' = renewalLock PROVE Goal
    <3>1. \A i : i \in Holders' <=> i \in Holders
      BY <2>1, <2>4
    <3>2. QED BY <3>1, <2>3, <2>4
  <2>5. ASSUME n \notin Holders', n \in Holders, renewalLock' = FALSE PROVE Goal
    <3>1. \A i : i \notin Holders'
      BY <2>1, <2>3, <2>5
    <3>2. QED BY <3>1, <2>5
  <2>6. Goal
    <3>1. Caller.locked \in BOOLEAN
      BY <1>7 DEF Frames
    <3>2. QED BY <3>1, <2>2, <2>4, <2>5
  <2>7. ~ At_("announce")'
    <3>1. Top' = call
      BY <1>6 DEF Top
    <3>2. QED BY <3>1 DEF At_
  <2>8. poisoned' = FALSE /\ tokenLock' = FALSE
    BY <1>1, <1>9 DEF IInv, LocksSound
  <2>9. QED BY <2>6, <2>7, <2>8 DEF LocksSound
<1>12. LoginsSound'
  BY <1>1, <1>2, <1>6 DEF IInv, LoginsSound
<1>13. ClientSound' /\ BuilderSound'
  <2>1. client.built
    BY <1>2 DEF IInv, ClientSound, Running
  <2>2. QED BY <1>1, <2>1 DEF IInv, ClientSound, BuilderSound
<1>14. QED BY <1>10, <1>11, <1>12, <1>13 DEF IInv

(* The end of a call.                                                      *)
LEMMA ReturnIInv ==
  ASSUME IInv, Return PROVE IInv'
<1>1. Running /\ Top.step = "return" /\ UNCHANGED <<setup, token, tokenLock, poisoned>>
  BY DEF Return, At_
<1>2. Top \in Frames /\ Sound(Top, client.retries) /\ client.built /\ tokenLock = FALSE
      /\ poisoned = FALSE /\ token \in Tokens
  BY <1>1, RunningFacts
<1>3. Len(stack) \in Nat /\ Len(stack) >= 1
  BY <1>1, TopFacts DEF IInv
<1>4. CASE ReturnsToUser
  <2>1. Len(stack) = 1 /\ stack' = <<>> /\ renewalLock' = renewalLock
    BY <1>4 DEF ReturnsToUser
  <2>2. Holders = {}
    <3>1. ~ (Top.locked = TRUE)
      BY <1>1, <1>2 DEF Sound, HoldsRight, Storing
    <3>2. QED BY <2>1, <3>1 DEF Holders, Top
  <2>3. renewalLock = FALSE
    BY <2>2 DEF IInv, LocksSound
  <2>4. QED BY <1>1, <1>2, <2>1, <2>3, StackEnds
<1>5. ASSUME Len(stack) > 1, LoginFails \/ LoginReturns PROVE IInv'
  <2> DEFINE failed == [Caller EXCEPT !.step = "return", !.result = "error", !.locked = FALSE]
             stores == [Caller EXCEPT !.step = "update"]
  <2>1. Caller \in Frames
    <3>1. Len(stack) - 1 \in Nat /\ Len(stack) - 1 <= Len(stack) /\ Len(stack) - 1 >= 1
      BY <1>3, <1>5
    <3>2. Below \in Seq(Frames) /\ Len(Below) = Len(stack) - 1
      BY <3>1, PrefixFacts DEF Below, IInv, StackSound
    <3>3. QED BY <3>1, <3>2 DEF Caller
  <2>2. Caller.locked \in BOOLEAN /\ renewalLock \in BOOLEAN
    BY <2>1 DEF Frames, IInv, LocksSound
  <2>3. CASE LoginFails
    <3>1. stack' = Append(Outer, failed) /\ renewalLock' = (renewalLock /\ ~ Caller.locked)
      BY <2>3 DEF LoginFails
    <3>2. renewalLock' = IF Caller.locked = TRUE THEN FALSE ELSE renewalLock
      BY <2>2, <3>1
    <3>3. /\ failed \in Frames /\ failed.request = Caller.request /\ failed.locked = FALSE
          /\ failed.step = "return" /\ failed.result = "error" /\ failed.reply = Caller.reply
          /\ failed.done = Caller.done /\ failed.tries = Caller.tries
      BY <2>1 DEF Frames, Steps, Results
    <3> HIDE DEF failed
    <3>4. ASSUME Sound(Caller, client.retries) PROVE Sound(failed, client.retries)
      <4>1. CountedRight(Caller, client.retries)
        BY <3>4 DEF Sound
      <4>2. CountedRight(failed, client.retries)
        BY <3>3, <4>1 DEF CountedRight, Before
      <4>3. StoredRight(failed) /\ EndsRight(failed) /\ HoldsRight(failed) /\ CheckedRight(failed)
        BY <3>3 DEF StoredRight, EndsRight, HoldsRight, CheckedRight, Storing
      <4>4. QED BY <4>2, <4>3 DEF Sound
    <3>5. QED BY <1>1, <1>5, <3>1, <3>2, <3>3, <3>4, PopIInv
  <2>4. CASE LoginReturns
    <3>1. stack' = Append(Outer, stores) /\ renewalLock' = renewalLock
      BY <2>4 DEF LoginReturns
    <3>2. /\ stores \in Frames /\ stores.request = Caller.request /\ stores.locked = Caller.locked
          /\ stores.step = "update" /\ stores.result = Caller.result /\ stores.reply = Caller.reply
          /\ stores.done = Caller.done /\ stores.tries = Caller.tries
      BY <2>1 DEF Frames, Steps, Results
    <3> HIDE DEF stores
    <3>3. ASSUME Sound(Caller, client.retries), Caller.step = "reauth"
          PROVE  Sound(stores, client.retries)
      <4>1. /\ CountedRight(Caller, client.retries) /\ EndsRight(Caller) /\ HoldsRight(Caller)
            /\ CheckedRight(Caller)
        BY <3>3 DEF Sound
      <4>2. Caller.reply = "none" /\ Caller.tries = 0 /\ Caller.done = 0 /\ Caller.result = "none"
            /\ ~ IsLogin(Caller.request.path)
        BY <3>3, <4>1 DEF CountedRight, EndsRight, CheckedRight, Before
      <4>3. CountedRight(stores, client.retries)
        BY <3>2, <4>1, <4>2 DEF CountedRight, Before
      <4>4. StoredRight(stores) /\ EndsRight(stores) /\ HoldsRight(stores) /\ CheckedRight(stores)
        BY <3>2, <4>1, <4>2 DEF StoredRight, EndsRight, HoldsRight, CheckedRight, Storing
      <4>5. QED BY <4>3, <4>4 DEF Sound
    <3>4. QED BY <1>1, <1>5, <3>1, <3>2, <3>3, PopIInv
  <2>5. QED BY <1>5, <2>3, <2>4
<1>6. (LoginFails \/ LoginReturns) => Len(stack) > 1
  BY DEF LoginFails, LoginReturns
<1>7. QED BY <1>4, <1>5, <1>6 DEF Return

(* set_token from elsewhere, and time.                                     *)
LEMMA OthersIInv ==
  ASSUME IInv, SetToken \/ Due PROVE IInv'
<1>1. UNCHANGED <<builder, client, asked, limit, renewalLock, tokenLock, poisoned, stack>>
  BY DEF SetToken, Due, setup, locks
<1>2. client.built
  <2>1. CASE SetToken
    BY <2>1 DEF SetToken
  <2>2. CASE Due
    <3>1. token.leased
      BY <2>2 DEF Due
    <3>2. token # NoToken
      BY <3>1 DEF NoToken
    <3>3. QED BY <3>2 DEF IInv, ClientSound
  <2>3. QED BY <2>1, <2>2
<1>3. token' \in Tokens
  <2>1. CASE SetToken
    BY <2>1 DEF SetToken, Tokens, Issued
  <2>2. CASE Due
    <3>1. token \in Tokens /\ token.leased /\ ~ token.due /\ token' = [token EXCEPT !.due = TRUE]
      BY <2>2 DEF Due, IInv, ClientSound
    <3>2. ~ NoToken.leased /\ ~ Plain.leased /\ \A r : [Leased(r) EXCEPT !.due = TRUE].due
      BY DEF NoToken, Plain, Leased
    <3>3. token = Leased(TRUE) \/ token = Leased(FALSE)
      BY <3>1, <3>2 DEF Tokens, Issued
    <3>4. QED BY <3>1, <3>3 DEF Tokens
  <2>3. QED BY <2>1, <2>2
<1>4. StackSound' /\ LocksSound' /\ LoginsSound'
  BY <1>1 DEF IInv, StackSound, LocksSound, LoginsSound, Holders, At_, Running, Top
<1>5. ClientSound'
  BY <1>1, <1>2, <1>3 DEF IInv, ClientSound
<1>6. BuilderSound'
  BY <1>1 DEF IInv, BuilderSound
<1>7. QED BY <1>4, <1>5, <1>6 DEF IInv

(* The newest of the settings that name a number of retries decides.       *)
LEMMA NewestCounts ==
  ASSUME NEW s \in Seq(Settings), NEW i \in Naming(s), \A j \in Naming(s) : j <= i
  PROVE  RequestedRetries(s) = IF s[i].cli THEN 0 ELSE OrElse(s[i].retries, 2)
<1> DEFINE newest == CHOOSE k \in Naming(s) : \A j \in Naming(s) : j <= k
<1>1. newest \in Naming(s) /\ \A j \in Naming(s) : j <= newest
  OBVIOUS
<1>2. Naming(s) \subseteq Nat
  BY DEF Naming
<1>3. newest <= i /\ i <= newest /\ newest \in Nat /\ i \in Nat
  BY <1>1, <1>2
<1> HIDE DEF newest
<1>4. newest = i
  BY <1>3
<1>5. RequestedRetries(s) = IF s[newest].cli THEN 0 ELSE OrElse(s[newest].retries, 2)
  BY DEF RequestedRetries, newest
<1>6. QED BY <1>4, <1>5

(* One more setting that names a number of retries decides.                *)
LEMMA NamingSays ==
  ASSUME NEW s \in Seq(Settings), NEW x \in Settings, x.cli \/ x.retries # {}
  PROVE  /\ s \o <<x>> \in Seq(Settings)
         /\ RequestedRetries(s \o <<x>>) = IF x.cli THEN 0 ELSE OrElse(x.retries, 2)
         /\ \E i \in Naming(s \o <<x>>) : \A j \in Naming(s \o <<x>>) : j <= i
<1> DEFINE t == s \o <<x>>
<1>1. /\ t \in Seq(Settings) /\ Len(s) \in Nat
      /\ Len(t) = Len(s) + 1 /\ t[Len(s) + 1] = x
  BY AppendIsConcat, AppendProperties
<1> HIDE DEF t
<1>2. Len(s) + 1 \in Naming(t) /\ \A j \in Naming(t) : j <= Len(s) + 1
  BY <1>1 DEF Naming
<1>3. RequestedRetries(t) = IF x.cli THEN 0 ELSE OrElse(x.retries, 2)
  BY <1>1, <1>2, NewestCounts
<1>4. QED BY <1>1, <1>2, <1>3 DEF t

(* One more setting that names none changes nothing.                       *)
LEMMA SilentSays ==
  ASSUME NEW s \in Seq(Settings), NEW x \in Settings, x.cli = FALSE, x.retries = {},
         Naming(s) # {} => \E i \in Naming(s) : \A j \in Naming(s) : j <= i
  PROVE  /\ s \o <<x>> \in Seq(Settings)
         /\ RequestedRetries(s \o <<x>>) = RequestedRetries(s)
         /\ Naming(s \o <<x>>) # {} =>
              \E i \in Naming(s \o <<x>>) : \A j \in Naming(s \o <<x>>) : j <= i
<1> DEFINE t == s \o <<x>>
<1>1. /\ t \in Seq(Settings) /\ Len(s) \in Nat
      /\ Len(t) = Len(s) + 1 /\ t[Len(s) + 1] = x
      /\ \A i \in 1..Len(s) : t[i] = s[i]
  BY AppendIsConcat, AppendProperties
<1> HIDE DEF t
<1>2. \A i \in 1..(Len(s) + 1) : i \in 1..Len(s) \/ i = Len(s) + 1
  BY <1>1
<1>3. Naming(t) = Naming(s) /\ \A i \in Naming(s) : t[i] = s[i]
  BY <1>1, <1>2 DEF Naming
<1>4. RequestedRetries(t) = RequestedRetries(s)
  <2>1. CASE Naming(s) = {}
    BY <1>3, <2>1 DEF RequestedRetries
  <2>2. CASE Naming(s) # {}
    <3>1. PICK i \in Naming(s) : \A j \in Naming(s) : j <= i
      BY <2>2
    <3>2. RequestedRetries(s) = IF s[i].cli THEN 0 ELSE OrElse(s[i].retries, 2)
      BY <3>1, NewestCounts
    <3>3. RequestedRetries(t) = IF t[i].cli THEN 0 ELSE OrElse(t[i].retries, 2)
      BY <1>1, <1>3, <3>1, NewestCounts
    <3>4. QED BY <1>3, <3>2, <3>3
  <2>3. QED BY <2>1, <2>2
<1>5. QED BY <1>1, <1>3, <1>4 DEF t

(* A setting on the builder: what it must agree with.                      *)
LEMMA SetsIInv ==
  ASSUME IInv, NEW change, NEW says, Sets(change, says),
         change \in Builders,
         change.retries = {} \/ \E n \in Nat : change.retries = {n},
         asked \o says \in Seq(Settings),
         OrElse(change.retries, 2) = RequestedRetries(asked \o says),
         Naming(asked \o says) # {} =>
           \E i \in Naming(asked \o says) : \A j \in Naming(asked \o says) : j <= i
  PROVE  IInv'
<1>1. /\ builder' = change /\ asked' = asked \o says
      /\ UNCHANGED <<client, token, renewalLock, tokenLock, poisoned, stack, limit>>
  BY DEF Sets, locks
<1>2. StackSound' /\ LocksSound' /\ LoginsSound' /\ ClientSound'
  BY <1>1 DEF IInv, StackSound, LocksSound, LoginsSound, ClientSound, Holders, At_, Running, Top
<1>3. BuilderSound'
  BY <1>1 DEF BuilderSound
<1>4. QED BY <1>2, <1>3 DEF IInv

(* A builder without settings.                                             *)
LEMMA DefaultSound ==
  /\ DefaultBuilder \in Builders
  /\ DefaultBuilder.retries = {}
  /\ <<>> \in Seq(Settings)
  /\ Naming(<<>>) = {}
  /\ OrElse(DefaultBuilder.retries, 2) = RequestedRetries(<<>>)
<1>1. DefaultBuilder \in Builders /\ DefaultBuilder.retries = {} /\ <<>> \in Seq(Settings)
  BY DEF DefaultBuilder, Builders
<1>2. Naming(<<>>) = {}
  BY DEF Naming
<1>3. RequestedRetries(<<>>) = 2
  BY <1>2 DEF RequestedRetries
<1>4. QED BY <1>1, <1>2, <1>3, OrElseFacts

(* The builder's methods.                                                  *)
LEMMA ConfigureIInv ==
  ASSUME IInv, Configure PROVE IInv'
<1>1. /\ builder \in Builders
      /\ builder.retries = {} \/ \E n \in Nat : builder.retries = {n}
      /\ asked \in Seq(Settings)
      /\ OrElse(builder.retries, 2) = RequestedRetries(asked)
      /\ Naming(asked) # {} => \E i \in Naming(asked) : \A j \in Naming(asked) : j <= i
  BY DEF IInv, BuilderSound
<1>2. asked \o <<>> = asked
  BY <1>1, ConcatEmptySeq
<1>3. ASSUME NEW n \in Retries, max_retries(n) PROVE IInv'
  <2> DEFINE change == [builder EXCEPT !.retries = {n}]
             x == [cli |-> FALSE, retries |-> {n}]
  <2>1. n \in Nat /\ x \in Settings /\ x.cli = FALSE /\ x.retries = {n}
    BY SessionAssumption DEF Settings
  <2>2. change \in Builders /\ change.retries = {n}
    BY <1>1, <2>1 DEF Builders
  <2>3. Sets(change, <<x>>)
    BY <1>3 DEF max_retries
  <2> HIDE DEF change, x
  <2>4. OrElse(change.retries, 2) = n /\ OrElse(x.retries, 2) = n
    BY <2>1, <2>2, OrElseFacts
  <2>5. /\ asked \o <<x>> \in Seq(Settings)
        /\ RequestedRetries(asked \o <<x>>) = n
        /\ \E i \in Naming(asked \o <<x>>) : \A j \in Naming(asked \o <<x>>) : j <= i
    BY <1>1, <2>1, <2>4, NamingSays
  <2>6. QED BY <2>1, <2>2, <2>3, <2>4, <2>5, SetsIInv
<1>4. CASE cli_mode(TRUE)
  <2> DEFINE change == [builder EXCEPT !.cli = TRUE, !.retries = {0}]
             x == [cli |-> TRUE, retries |-> {}]
  <2>1. x \in Settings /\ x.cli = TRUE /\ x.retries = {}
    BY DEF Settings
  <2>2. Sets(change, <<x>>)
    BY <1>4 DEF cli_mode
  <2>3. change \in Builders /\ change.retries = {0}
    <3>1. {0} \in SUBSET Nat /\ TRUE \in BOOLEAN
      OBVIOUS
    <3> DEFINE zero == {0}
    <3> HIDE DEF zero
    <3>2. ASSUME zero \in SUBSET Nat
          PROVE  /\ [builder EXCEPT !.cli = TRUE, !.retries = zero] \in Builders
                 /\ [builder EXCEPT !.cli = TRUE, !.retries = zero].retries = zero
      BY <1>1, <3>2 DEF Builders
    <3>3. QED BY <3>1, <3>2 DEF zero
  <2> HIDE DEF change, x
  <2>4. OrElse(change.retries, 2) = 0 /\ \E n \in Nat : change.retries = {n}
    BY <2>3, OrElseFacts
  <2>5. /\ asked \o <<x>> \in Seq(Settings)
        /\ RequestedRetries(asked \o <<x>>) = 0
        /\ \E i \in Naming(asked \o <<x>>) : \A j \in Naming(asked \o <<x>>) : j <= i
    BY <1>1, <2>1, NamingSays
  <2>6. QED BY <2>2, <2>3, <2>4, <2>5, SetsIInv
<1>5. CASE cli_mode(FALSE)
  <2> DEFINE change == [builder EXCEPT !.cli = FALSE, !.retries = builder.retries]
             x == [cli |-> FALSE, retries |-> {}]
  <2>1. x \in Settings /\ x.cli = FALSE /\ x.retries = {}
    BY DEF Settings
  <2>2. change \in Builders /\ change.retries = builder.retries
    BY <1>1 DEF Builders
  <2>3. Sets(change, <<x>>)
    BY <1>5 DEF cli_mode
  <2> HIDE DEF change, x
  <2>4. /\ asked \o <<x>> \in Seq(Settings)
        /\ RequestedRetries(asked \o <<x>>) = RequestedRetries(asked)
        /\ Naming(asked \o <<x>>) # {} =>
             \E i \in Naming(asked \o <<x>>) : \A j \in Naming(asked \o <<x>>) : j <= i
    BY <1>1, <2>1, SilentSays
  <2>5. QED BY <1>1, <2>2, <2>3, <2>4, SetsIInv
<1>6. ASSUME NEW change, change \in Builders, change.retries = builder.retries,
             Sets(change, <<>>)
      PROVE  IInv'
  BY <1>1, <1>2, <1>6, SetsIInv
<1>7. CASE address
  <2>1. /\ [builder EXCEPT !.address = TRUE] \in Builders
        /\ [builder EXCEPT !.address = TRUE].retries = builder.retries
    BY <1>1 DEF Builders
  <2>2. QED BY <1>6, <1>7, <2>1 DEF address
<1>8. CASE token_str
  <2>1. /\ [builder EXCEPT !.token = TRUE] \in Builders
        /\ [builder EXCEPT !.token = TRUE].retries = builder.retries
    BY <1>1 DEF Builders
  <2>2. QED BY <1>6, <1>8, <2>1 DEF token_str
<1>9. ASSUME NEW m \in {"library", "custom"}, auth_method(m) PROVE IInv'
  <2>1. /\ [builder EXCEPT !.method = m] \in Builders
        /\ [builder EXCEPT !.method = m].retries = builder.retries
    BY <1>1 DEF Builders
  <2>2. QED BY <1>6, <1>9, <2>1 DEF auth_method
<1>10. CASE build
  <2>1. /\ ~ client.built
        /\ client' = [built   |-> TRUE,
                      retries |-> OrElse(builder.retries, 2),
                      sealed  |-> ~ builder.cli,
                      method  |-> builder.method]
        /\ token' = IF builder.token THEN Plain ELSE NoToken
        /\ limit' = RequestedRetries(asked)
        /\ asked' = <<>> /\ builder' = DefaultBuilder
        /\ UNCHANGED <<renewalLock, tokenLock, poisoned, stack>>
    BY <1>10 DEF build, locks
  <2>2. OrElse(builder.retries, 2) \in Nat
    <3>1. CASE builder.retries = {}
      BY <3>1, OrElseFacts
    <3>2. ASSUME NEW n \in Nat, builder.retries = {n} PROVE OrElse(builder.retries, 2) \in Nat
      BY <3>2, OrElseFacts
    <3>3. QED BY <1>1, <3>1, <3>2
  <2>3. /\ client' \in [built : BOOLEAN, retries : Nat, sealed : BOOLEAN,
                        method : {"none", "library", "custom"}]
        /\ client'.built /\ client'.retries = OrElse(builder.retries, 2)
    BY <1>1, <2>1, <2>2 DEF Builders
  <2>4. token' \in Tokens
    BY <2>1 DEF Tokens, Issued
  <2>5. stack = <<>>
    BY <2>1 DEF IInv, ClientSound
  <2>6. ClientSound'
    BY <1>1, <2>1, <2>2, <2>3, <2>4 DEF ClientSound
  <2>7. StackSound' /\ LocksSound' /\ LoginsSound'
    <3>1. Len(stack') = 0 /\ stack' = <<>>
      BY <2>1, <2>5
    <3>2. LocksSound'
      BY <2>1 DEF IInv, LocksSound, Holders, At_, Running, Top
    <3>3. QED BY <3>1, <3>2, SessionAssumption DEF StackSound, LoginsSound
  <2>8. BuilderSound'
    BY <2>1, DefaultSound DEF BuilderSound
  <2>9. QED BY <2>6, <2>7, <2>8 DEF IInv
<1>11. QED BY <1>3, <1>4, <1>5, <1>7, <1>8, <1>9, <1>10 DEF Configure

(* The start, with or without settings from the environment.               *)
LEMMA InitIInv == Init => IInv
<1> SUFFICES ASSUME Init PROVE IInv
  OBVIOUS
<1>1. /\ client = NoClient /\ token = NoToken /\ limit = 0
      /\ renewalLock = FALSE /\ tokenLock = FALSE /\ poisoned = FALSE
      /\ stack = <<>> /\ Len(stack) = 0
  BY DEF Init
<1>2. StackSound /\ LoginsSound
  BY <1>1, SessionAssumption DEF StackSound, LoginsSound
<1>3. LocksSound
  <2>1. ~ Running /\ Holders = {}
    BY <1>1 DEF Running, Holders
  <2>2. QED BY <1>1, <2>1 DEF LocksSound, At_
<1>4. ClientSound
  BY <1>1 DEF ClientSound, NoClient, Tokens
<1>5. BuilderSound
  <2>1. CASE builder = DefaultBuilder /\ asked = <<>>
    BY <2>1, DefaultSound DEF BuilderSound
  <2>2. ASSUME NEW addressed \in BOOLEAN, NEW held \in BOOLEAN, NEW cli \in BOOLEAN,
               NEW retries \in OptionalRetries,
               builder = FromEnv(addressed, held, cli, retries),
               asked = <<[cli |-> cli, retries |-> retries]>>
        PROVE  BuilderSound
    <3> DEFINE x == [cli |-> cli, retries |-> retries]
               set == IF cli THEN {0} ELSE retries
    <3>1. retries = {} \/ \E n \in Nat : retries = {n}
      BY SessionAssumption DEF OptionalRetries
    <3>2. retries \in SUBSET Nat /\ x \in Settings /\ x.cli = cli /\ x.retries = retries
      BY <3>1 DEF Settings
    <3>3. set \in SUBSET Nat /\ (set = {} \/ \E n \in Nat : set = {n})
      <4>1. CASE cli
        BY <4>1
      <4>2. CASE ~ cli
        BY <3>1, <3>2, <4>2
      <4>3. QED BY <4>1, <4>2
    <3>4. cli => OrElse(set, 2) = 0
      BY OrElseFacts
    <3>5. ~ cli => set = retries
      OBVIOUS
    <3>6. builder \in Builders /\ builder.retries = set
      <4>1. builder = [DefaultBuilder EXCEPT !.address = addressed, !.token = held, !.cli = cli,
                                             !.retries = set]
        BY <2>2 DEF FromEnv
      <4> HIDE DEF set
      <4>2. QED BY <3>3, <4>1 DEF DefaultBuilder, Builders
    <3> HIDE DEF x, set
    <3>7. <<>> \o <<x>> = <<x>> /\ asked = <<x>>
      BY <2>2, <3>2, ConcatEmptySeq DEF x
    <3>8. CASE cli \/ retries # {}
      <4>1. /\ <<x>> \in Seq(Settings)
            /\ RequestedRetries(<<x>>) = IF x.cli THEN 0 ELSE OrElse(x.retries, 2)
            /\ \E i \in Naming(<<x>>) : \A j \in Naming(<<x>>) : j <= i
        BY <3>2, <3>7, <3>8, DefaultSound, NamingSays
      <4>2. RequestedRetries(<<x>>) = OrElse(set, 2)
        BY <3>2, <3>4, <3>5, <4>1
      <4>3. QED BY <3>3, <3>6, <3>7, <4>1, <4>2 DEF BuilderSound
    <3>9. CASE ~ cli /\ retries = {}
      <4>1. x.cli = FALSE /\ x.retries = {}
        BY <3>2, <3>9
      <4>2. /\ <<x>> \in Seq(Settings)
            /\ RequestedRetries(<<x>>) = RequestedRetries(<<>>)
            /\ Naming(<<x>>) # {} =>
                 \E i \in Naming(<<x>>) : \A j \in Naming(<<x>>) : j <= i
        BY <3>2, <3>7, <4>1, DefaultSound, SilentSays
      <4>3. RequestedRetries(<<x>>) = OrElse(set, 2)
        BY <3>5, <3>9, <4>2, DefaultSound
      <4>4. QED BY <3>3, <3>6, <3>7, <4>2, <4>3 DEF BuilderSound
    <3>10. QED BY <3>8, <3>9
  <2>3. QED BY <2>1, <2>2 DEF Init
<1>6. QED BY <1>2, <1>3, <1>4, <1>5 DEF IInv

(* Every step keeps the invariant.                                         *)
LEMMA NextIInv == IInv /\ [Next]_vars => IInv'
<1> SUFFICES ASSUME IInv, [Next]_vars PROVE IInv'
  OBVIOUS
<1>1. CASE UNCHANGED vars
  BY <1>1 DEF vars, IInv, StackSound, LocksSound, LoginsSound, BuilderSound, ClientSound,
              Holders, At_, Running, Top
<1>2. CASE Step
  BY <1>2, SkipCheckIInv, CheckIInv, LockIInv, RenewIInv, ReAuthenticateIInv, UpdateIInv,
     AnnounceIInv, CallbackIInv, AbortIInv, AnswerIInv, SendIInv, DecodeIInv, ReturnIInv
     DEF Step
<1>3. CASE Next
  BY <1>2, <1>3, ConfigureIInv, BeginIInv, AbortIInv, OthersIInv DEF Next
<1>4. QED BY <1>1, <1>3

(* The domain of the stack, as the properties name it.                     *)
LEMMA StackDomain ==
  IInv => /\ stack \in Seq(Frames)
          /\ DOMAIN stack = 1..Len(stack)
          /\ \A i \in DOMAIN stack : stack[i] \in Frames
BY DEF IInv, StackSound

(* Spec implies that the invariant always holds.                           *)
THEOREM Invariance == Spec => []IInv
BY InitIInv, NextIInv, PTL DEF Spec

(* Type correctness, and that calls never nest deeper than the bound.      *)
THEOREM TypeCorrect == Spec => []TypeOK
<1>1. IInv => TypeOK
  <2> SUFFICES ASSUME IInv PROVE TypeOK
    OBVIOUS
  <2>1. Len(stack) <= MaxDepth /\ \A i \in DOMAIN stack : stack[i] \in Frames
    BY StackDomain DEF IInv, StackSound
  <2>2. renewalLock \in BOOLEAN /\ tokenLock \in BOOLEAN /\ poisoned \in BOOLEAN
    BY DEF IInv, LocksSound
  <2>3. QED BY <2>1, <2>2 DEF IInv, ClientSound, TypeOK, Frames, Tokens
<1>2. QED BY <1>1, Invariance, PTL

(* Both locks are free whenever no call runs, and neither is held while    *)
(* the user's callback runs or left poisoned by it.                        *)
THEOREM LocksGetFree == Spec => []LocksAreReleased
<1>1. IInv => LocksAreReleased
  <2> SUFFICES ASSUME IInv PROVE LocksAreReleased
    OBVIOUS
  <2>1. /\ renewalLock \in BOOLEAN /\ tokenLock \in BOOLEAN /\ poisoned = FALSE
        /\ renewalLock = TRUE <=> Holders # {}
        /\ tokenLock = TRUE <=> At_("announce")
    BY DEF IInv, LocksSound
  <2>2. \A i \in DOMAIN stack : stack[i].locked \in BOOLEAN
    <3>1. \A f \in Frames : f.locked \in BOOLEAN
      BY DEF Frames
    <3>2. QED BY <3>1, StackDomain
  <2>3. renewalLock <=> \E i \in DOMAIN stack : stack[i].locked
    <3>1. Holders # {} <=> \E i \in DOMAIN stack : stack[i].locked = TRUE
      BY StackDomain DEF Holders
    <3>2. QED BY <2>1, <2>2, <3>1
  <2>4. ~ Running => ~ renewalLock /\ ~ tokenLock
    <3>1. ASSUME ~ Running PROVE ~ (renewalLock = TRUE) /\ ~ (tokenLock = TRUE)
      <4>1. DOMAIN stack = {}
        BY <3>1 DEF Running
      <4>2. Holders = {}
        BY <4>1, StackDomain DEF Holders
      <4>3. QED BY <2>1, <3>1, <4>2 DEF At_
    <3>2. QED BY <2>1, <3>1
  <2>5. At_("callback") => ~ tokenLock
    <3>1. At_("callback") => ~ At_("announce")
      BY DEF At_
    <3>2. QED BY <2>1, <3>1
  <2>6. QED BY <2>1, <2>3, <2>4, <2>5 DEF LocksAreReleased
<1>2. QED BY <1>1, Invariance, PTL

(* A login of the library's own AuthMethods stays one call deep and never  *)
(* waits for the lock that the call above it holds.                        *)
THEOREM LoginsDoNotReenter == Spec => []LibraryLoginsDoNotReenter
<1>1. IInv => LibraryLoginsDoNotReenter
  <2> SUFFICES ASSUME IInv, client.method = "library"
               PROVE  Len(stack) <= 2 /\ ~ (At_("lock") /\ renewalLock)
    BY DEF LibraryLoginsDoNotReenter
  <2>1. Len(stack) <= 2 /\ \A i \in 2..Len(stack) : IsLogin(stack[i].request.path)
    BY DEF IInv, LoginsSound
  <2>2. ASSUME At_("lock"), renewalLock PROVE FALSE
    <3>1. /\ Running /\ Top.step = "lock" /\ Sound(Top, client.retries)
          /\ Len(stack) \in Nat /\ Len(stack) >= 1
      BY <2>2, TopFacts DEF At_, IInv
    <3>2. ~ IsLogin(Top.request.path) /\ ~ (Top.locked = TRUE)
      BY <3>1 DEF Sound, CheckedRight, HoldsRight, Storing
    <3>3. Len(stack) = 1
      <4>1. Len(stack) # 2
        BY <2>1, <3>2 DEF Top
      <4>2. \A k \in Nat : k >= 1 /\ k <= 2 /\ k # 2 => k = 1
        OBVIOUS
      <4>3. QED BY <2>1, <3>1, <4>1, <4>2
    <3>4. Holders = {}
      BY <3>2, <3>3 DEF Holders, Top
    <3>5. renewalLock = TRUE <=> Holders # {}
      BY DEF IInv, LocksSound
    <3>6. QED BY <2>2, <3>4, <3>5 DEF IInv, LocksSound
  <2>3. QED BY <2>1, <2>2
<1>2. QED BY <1>1, Invariance, PTL

(* No call succeeds that Vault did not carry out, except on a 404 whose    *)
(* body nobody looks into.                                                 *)
THEOREM SuccessHolds == Spec => []SuccessIsReal
<1>1. IInv => SuccessIsReal
  BY StackDomain DEF IInv, StackSound, Sound, EndsRight, Backed, SuccessIsReal
<1>2. QED BY <1>1, Invariance, PTL

(* Whatever the order of the builder's settings, the retries are those     *)
(* they ask for.                                                           *)
THEOREM RepeatsHold == Spec => []RepeatsAsConfigured
<1>1. IInv => RepeatsAsConfigured
  <2> SUFFICES ASSUME IInv, NEW i \in DOMAIN stack
               PROVE  stack[i].done <= 1 + (IF stack[i].request.via = "restore" THEN 0 ELSE limit)
    BY DEF RepeatsAsConfigured
  <2>1. i \in 1..Len(stack) /\ stack[i] \in Frames
    BY StackDomain
  <2>2. limit = client.retries /\ limit \in Nat
    <3>1. stack # <<>>
      OBVIOUS
    <3>2. QED BY <3>1 DEF IInv, ClientSound
  <2>3. CountedRight(stack[i], client.retries)
    BY <2>1 DEF IInv, StackSound, Sound
  <2>4. stack[i].done \in Nat /\ stack[i].tries \in Nat
    BY <2>1 DEF Frames
  <2>5. QED BY <2>2, <2>3, <2>4 DEF CountedRight
<1>2. QED BY <1>1, Invariance, PTL

(* Nothing outside auth/ but a restored snapshot goes out unchecked.       *)
THEOREM ChecksHold == Spec => []SecretsAreChecked
<1>1. IInv => SecretsAreChecked
  BY StackDomain DEF IInv, StackSound, Sound, CheckedRight, IsLogin, SecretsAreChecked
<1>2. QED BY <1>1, Invariance, PTL

(* The only steps that replace the client's token.                         *)
THEOREM TokenHolds == Spec => TokenOnlyFromLogins
<1> DEFINE Right == \/ token' = Plain /\ (stack' = stack \/ At_("callback"))
                    \/ token' = [token EXCEPT !.due = TRUE]
                    \/ At_("update") /\ (Top.reply = "none" \/ Top.request.for = "client")
<1>1. ASSUME IInv, [Next]_vars, token' # token PROVE Right
  <2>1. CASE build
    <3>1. ~ client.built /\ token' \in {Plain, NoToken} /\ stack' = stack
      BY <2>1 DEF build
    <3>2. token = NoToken
      BY <1>1, <3>1 DEF IInv, ClientSound
    <3>3. QED BY <1>1, <3>1, <3>2
  <2>2. CASE Update
    <3>1. Running /\ Top.step = "update"
      BY <2>2 DEF Update, At_
    <3>2. Sound(Top, client.retries)
      BY <1>1, <3>1, RunningFacts
    <3>3. Top.reply = "none" \/ Top.request.for = "client"
      BY <3>1, <3>2 DEF Sound, StoredRight, Storing
    <3>4. QED BY <3>1, <3>3 DEF At_
  <2>3. CASE CallbackSetsToken
    BY <2>3 DEF CallbackSetsToken
  <2>4. CASE SetToken
    BY <2>4 DEF SetToken
  <2>5. CASE Due
    BY <2>5 DEF Due
  <2>6. ASSUME Configure, ~ build PROVE FALSE
    BY <1>1, <2>6 DEF Configure, max_retries, cli_mode, address, token_str, auth_method, Sets
  <2>7. ASSUME Step, ~ Update, ~ CallbackSetsToken PROVE FALSE
    BY <1>1, <2>7
       DEF Step, SkipCheck, Check, Lock, RenewOk, RenewWithoutAuth, RenewFails, ReAuthenticate,
           Announce, CallbackReturns, CallbackPanics, Answer, NoAnswer, Refuse, Decode, Return
  <2>8. ~ Begin /\ ~ Cancel /\ ~ UNCHANGED vars
    BY <1>1 DEF Begin, Cancel, vars
  <2>9. QED BY <1>1, <2>1, <2>2, <2>3, <2>4, <2>5, <2>6, <2>7, <2>8 DEF Next
<1>2. IInv /\ [Next]_vars => [token' # token => Right]_vars
  BY <1>1
<1>3. QED BY <1>2, Invariance, PTL DEF Spec, TokenOnlyFromLogins
-----------------------------------------------------------------------------
(* Calls come to their end.                                                *)

(* Waiting is what a login leaves the call below it to do.                 *)
Waiting == 10 + client.retries

(* The steps a call still has before it, at most, by where it is.          *)
StepsOf(f) ==
  LET login == IF f.reply = "none" THEN 5 + client.retries ELSE 0
  IN CASE f.step = "return" -> 1
       [] f.step = "callback" -> 2 + login
       [] f.step = "announce" -> 3 + login
       [] f.step = "update" -> 4 + login
       [] f.step = "decode" -> 5
       [] f.step = "send" -> 6 + (client.retries - f.tries)
       [] f.step = "reauth" -> 8 + client.retries + Waiting
       [] f.step = "renew" -> 9 + client.retries + Waiting
       [] f.step = "lock" -> 10 + client.retries + Waiting
       [] f.step = "check" -> 7 + client.retries
                                + (IF IsLogin(f.request.path) THEN 0 ELSE 4 + Waiting)

StepsLeft == StepsOf(Top) + (IF Len(stack) > 1 THEN Waiting ELSE 0)

(* What makes CallsEnd true, and it only adds the fairness to: a call      *)
(* never waits for a lock it holds itself, directly or through the login   *)
(* it runs; each of its steps brings it closer to its end, of which it is  *)
(* never further away than its retries allow; and nobody else's step takes *)
(* it back.                                                                *)
Moves ==
  /\ StepsLeft \in 1..(21 + 2 * client.retries)
  /\ Step => ~ Running' \/ StepsLeft' < StepsLeft
  /\ ~ Step => ~ Running' \/ UNCHANGED <<stack, client>>
  /\ Top.step \in {"check", "lock", "update"} => ~ tokenLock
  /\ Top.step = "lock" => ~ renewalLock
  /\ Top.step = "reauth" => Len(stack) = 1

CallMoves == [][Running /\ client.method # "custom" => Moves]_vars

(* Without an AuthMethod no call waits for a login.                        *)
NoDetour == client.method = "none" => \A i \in 1..Len(stack) : stack[i].step # "reauth"

(* Where a call is says how many steps it has left.                        *)
LEMMA StepsFacts ==
  ASSUME IInv, NEW f \in Frames, f.tries <= client.retries
  PROVE  /\ StepsOf(f) \in 1..(21 + 2 * client.retries)
         /\ f.step = "return" => StepsOf(f) = 1
         /\ f.step = "decode" => StepsOf(f) = 5
         /\ f.step = "send" => StepsOf(f) = 6 + (client.retries - f.tries)
         /\ f.step = "send" => StepsOf(f) <= 6 + client.retries
         /\ f.step = "reauth" => StepsOf(f) = 18 + 2 * client.retries
         /\ f.step = "renew" => StepsOf(f) = 19 + 2 * client.retries
         /\ f.step = "lock" => StepsOf(f) = 20 + 2 * client.retries
         /\ f.step = "check" /\ IsLogin(f.request.path) => StepsOf(f) = 7 + client.retries
         /\ f.step = "check" /\ ~ IsLogin(f.request.path)
              => StepsOf(f) = 21 + 2 * client.retries
         /\ f.reply = "none" =>
              /\ f.step = "callback" => StepsOf(f) = 7 + client.retries
              /\ f.step = "announce" => StepsOf(f) = 8 + client.retries
              /\ f.step = "update" => StepsOf(f) = 9 + client.retries
         /\ f.reply # "none" =>
              /\ f.step = "callback" => StepsOf(f) = 2
              /\ f.step = "announce" => StepsOf(f) = 3
              /\ f.step = "update" => StepsOf(f) = 4
<1>1. client.retries \in Nat
  BY DEF IInv, ClientSound
<1>2. f.tries \in Nat /\ f.step \in Steps
  BY DEF Frames
<1> DEFINE n == client.retries
<1> HIDE DEF n
<1>3. n \in Nat /\ f.tries <= n
  BY <1>1 DEF n
<1>4. StepsOf(f) =
        LET login == IF f.reply = "none" THEN 5 + n ELSE 0
        IN CASE f.step = "return" -> 1
             [] f.step = "callback" -> 2 + login
             [] f.step = "announce" -> 3 + login
             [] f.step = "update" -> 4 + login
             [] f.step = "decode" -> 5
             [] f.step = "send" -> 6 + (n - f.tries)
             [] f.step = "reauth" -> 8 + n + (10 + n)
             [] f.step = "renew" -> 9 + n + (10 + n)
             [] f.step = "lock" -> 10 + n + (10 + n)
             [] f.step = "check" -> 7 + n + (IF IsLogin(f.request.path) THEN 0
                                             ELSE 4 + (10 + n))
  BY DEF StepsOf, Waiting, n
<1>5. CASE f.step \in {"return", "callback", "announce", "update", "decode"}
  <2>1. /\ f.step = "return" => StepsOf(f) = 1
        /\ f.step = "decode" => StepsOf(f) = 5
        /\ f.step = "callback" => StepsOf(f) = IF f.reply = "none" THEN 7 + n ELSE 2
        /\ f.step = "announce" => StepsOf(f) = IF f.reply = "none" THEN 8 + n ELSE 3
        /\ f.step = "update" => StepsOf(f) = IF f.reply = "none" THEN 9 + n ELSE 4
    BY <1>3, <1>4
  <2>2. StepsOf(f) \in 1..(21 + 2 * n)
    BY <1>3, <1>5, <2>1
  <2>3. QED BY <1>5, <2>1, <2>2 DEF n
<1>6. CASE f.step = "send"
  <2>1. StepsOf(f) = 6 + (n - f.tries)
    BY <1>4, <1>6
  <2>2. 6 + (n - f.tries) \in 1..(21 + 2 * n) /\ 6 + (n - f.tries) <= 6 + n
    BY <1>2, <1>3
  <2>3. QED BY <1>6, <2>1, <2>2 DEF n
<1>7. CASE f.step \in {"reauth", "renew", "lock"}
  <2>1. /\ f.step = "reauth" => StepsOf(f) = 18 + 2 * n
        /\ f.step = "renew" => StepsOf(f) = 19 + 2 * n
        /\ f.step = "lock" => StepsOf(f) = 20 + 2 * n
    BY <1>3, <1>4
  <2>2. StepsOf(f) \in 1..(21 + 2 * n)
    BY <1>3, <1>7, <2>1
  <2>3. QED BY <1>7, <2>1, <2>2 DEF n
<1>8. CASE f.step = "check"
  <2>1. StepsOf(f) = IF IsLogin(f.request.path) THEN 7 + n ELSE 21 + 2 * n
    BY <1>3, <1>4, <1>8
  <2>2. QED BY <1>3, <1>8, <2>1 DEF n
<1>9. QED BY <1>2, <1>5, <1>6, <1>7, <1>8 DEF Steps

(* A step that moves the call at the top on.                               *)
Onward(call) ==
  /\ Becomes(call)
  /\ call.tries <= client.retries
  /\ StepsOf(call) < StepsOf(Top)
  /\ client.method = "none" => call.step # "reauth"

(* Facts of the top that its next step may rest on.                        *)
LEMMA TopIs ==
  ASSUME IInv, Running
  PROVE  /\ Top \in Frames /\ Top.tries <= client.retries /\ Top.tries \in Nat
         /\ client.retries \in Nat
         /\ Top.step \in Before \cup {"send"} => Top.reply = "none"
         /\ Top.step = "decode" => Top.reply # "none"
         /\ Top.step \in {"lock", "renew", "reauth"} => ~ IsLogin(Top.request.path)
         /\ poisoned = FALSE
<1>1. /\ Top \in Frames /\ Sound(Top, client.retries) /\ client.retries \in Nat
      /\ poisoned = FALSE
  BY RunningFacts
<1>2. Top.tries \in Nat
  BY <1>1 DEF Frames
<1>3. QED BY <1>1, <1>2 DEF Sound, CountedRight, CheckedRight, Before

(* Going on with another step, the attempts as they were.                  *)
LEMMA ProceedsOnward ==
  ASSUME IInv, Running, NEW s \in Steps, NEW wasChecked \in BOOLEAN, NEW held \in BOOLEAN,
         NEW result \in Results,
         NEW call, call = [Top EXCEPT !.step = s, !.checked = wasChecked, !.locked = held,
                                      !.result = result],
         Becomes(call), client.method = "none" => s # "reauth",
         \/ s = "return" /\ Top.step # "return"
         \/ s = "send" /\ Top.step \in Before
         \/ s = "send" /\ Top.step = "callback" /\ Top.reply = "none"
         \/ s \in {"lock", "reauth"} /\ Top.step = "check" /\ ~ IsLogin(Top.request.path)
         \/ s = "renew" /\ Top.step = "lock"
         \/ s \in {"update", "reauth"} /\ Top.step = "renew"
         \/ s = "update" /\ Top.step = "decode"
         \/ s = "announce" /\ Top.step = "update"
         \/ s = "callback" /\ Top.step = "announce"
  PROVE  call \in Frames /\ Onward(call)
<1>1. /\ Top \in Frames /\ Top.tries <= client.retries /\ Top.tries \in Nat
      /\ client.retries \in Nat
      /\ Top.step \in Before \cup {"send"} => Top.reply = "none"
      /\ Top.step = "decode" => Top.reply # "none"
      /\ Top.step \in {"lock", "renew", "reauth"} => ~ IsLogin(Top.request.path)
  BY TopIs
<1>2. /\ call \in Frames /\ call.step = s /\ call.tries = Top.tries /\ call.reply = Top.reply
      /\ call.request = Top.request
  BY <1>1 DEF Frames
<1>3. Top.step \in Steps
  BY <1>1 DEF Frames
<1> DEFINE n == client.retries
           top == StepsOf(Top)
           next == StepsOf(call)
<1>4. /\ top \in 1..(21 + 2 * n)
      /\ Top.step = "decode" => top = 5
      /\ Top.step = "send" => top = 6 + (n - Top.tries)
      /\ Top.step = "reauth" => top = 18 + 2 * n
      /\ Top.step = "renew" => top = 19 + 2 * n
      /\ Top.step = "lock" => top = 20 + 2 * n
      /\ Top.step = "check" /\ IsLogin(Top.request.path) => top = 7 + n
      /\ Top.step = "check" /\ ~ IsLogin(Top.request.path) => top = 21 + 2 * n
      /\ Top.reply = "none" =>
           /\ Top.step = "callback" => top = 7 + n
           /\ Top.step = "announce" => top = 8 + n
           /\ Top.step = "update" => top = 9 + n
      /\ Top.reply # "none" =>
           /\ Top.step = "callback" => top = 2
           /\ Top.step = "announce" => top = 3
           /\ Top.step = "update" => top = 4
  BY <1>1, StepsFacts
<1>5. /\ next \in 1..(21 + 2 * n)
      /\ s = "return" => next = 1
      /\ s = "send" => next <= 6 + n
      /\ s = "reauth" => next = 18 + 2 * n
      /\ s = "renew" => next = 19 + 2 * n
      /\ s = "lock" => next = 20 + 2 * n
      /\ Top.reply = "none" =>
           /\ s = "callback" => next = 7 + n
           /\ s = "announce" => next = 8 + n
           /\ s = "update" => next = 9 + n
      /\ Top.reply # "none" =>
           /\ s = "callback" => next = 2
           /\ s = "announce" => next = 3
           /\ s = "update" => next = 4
  BY <1>1, <1>2, StepsFacts
<1> HIDE DEF n, top, next
<1>6. n \in Nat /\ Top.tries <= n
  BY <1>1 DEF n
<1>7. next < top
  <2>1. CASE s = "return" /\ Top.step # "return"
    BY <1>1, <1>3, <1>4, <1>5, <1>6, <2>1 DEF Steps
  <2>2. CASE /\ s = "send"
             /\ Top.step \in Before \/ (Top.step = "callback" /\ Top.reply = "none")
    BY <1>1, <1>4, <1>5, <1>6, <2>2 DEF Before
  <2>3. CASE \/ s \in {"lock", "reauth"} /\ Top.step = "check" /\ ~ IsLogin(Top.request.path)
             \/ s = "renew" /\ Top.step = "lock"
    BY <1>4, <1>5, <1>6, <2>3
  <2>4. CASE s \in {"update", "reauth"} /\ Top.step = "renew"
    BY <1>1, <1>4, <1>5, <1>6, <2>4 DEF Before
  <2>5. CASE \/ s = "update" /\ Top.step = "decode"
             \/ s = "announce" /\ Top.step = "update"
             \/ s = "callback" /\ Top.step = "announce"
    BY <1>1, <1>4, <1>5, <1>6, <2>5
  <2>6. QED BY <2>1, <2>2, <2>3, <2>4, <2>5
<1>8. QED BY <1>1, <1>2, <1>7 DEF Onward, top, next

(* The ends of ensure_valid_token are steps onward.                        *)
LEMMA LeavesOnward ==
  ASSUME IInv, Running,
         \/ Valid /\ (Top.step \in Before \/ (Top.step = "callback" /\ Top.reply = "none"))
         \/ Failed /\ Top.step # "return"
  PROVE  \E call \in Frames : Onward(call)
<1>1. Top \in Frames
  BY TopIs
<1>2. CASE Valid /\ (Top.step \in Before \/ (Top.step = "callback" /\ Top.reply = "none"))
  <2> DEFINE call == [Top EXCEPT !.step = "send", !.checked = TRUE, !.locked = FALSE,
                                 !.result = Top.result]
  <2>1. [[Top EXCEPT !.step = "send", !.checked = TRUE] EXCEPT !.locked = FALSE] = call
    BY <1>1 DEF Frames
  <2>2. Becomes(call)
    BY <1>2, <2>1 DEF Valid, Leaves
  <2>3. Top.result \in Results /\ "send" \in Steps
    BY <1>1 DEF Frames, Steps
  <2>4. QED BY <1>2, <2>2, <2>3, ProceedsOnward
<1>3. CASE Failed /\ Top.step # "return"
  <2> DEFINE call == [Top EXCEPT !.step = "return", !.checked = Top.checked, !.locked = FALSE,
                                 !.result = "error"]
  <2>1. [[Top EXCEPT !.step = "return", !.result = "error"] EXCEPT !.locked = FALSE] = call
    BY <1>1 DEF Frames
  <2>2. Becomes(call)
    BY <1>3, <2>1 DEF Failed, Leaves
  <2>3. Top.checked \in BOOLEAN /\ "return" \in Steps /\ "error" \in Results
    BY <1>1 DEF Frames, Steps, Results
  <2>4. QED BY <1>3, <2>2, <2>3, ProceedsOnward
<1>4. QED BY <1>2, <1>3

(* So is moving on to the next step.                                       *)
LEMMA ProceedsToOnward ==
  ASSUME IInv, Running, NEW s \in Steps, NEW held \in BOOLEAN,
         NEW to, to = [Top EXCEPT !.step = s, !.locked = held], Becomes(to),
         client.method = "none" => s # "reauth",
         \/ s = "return" /\ Top.step # "return"
         \/ s = "send" /\ Top.step \in Before
         \/ s \in {"lock", "reauth"} /\ Top.step = "check" /\ ~ IsLogin(Top.request.path)
         \/ s = "renew" /\ Top.step = "lock"
         \/ s \in {"update", "reauth"} /\ Top.step = "renew"
         \/ s = "update" /\ Top.step = "decode"
         \/ s = "announce" /\ Top.step = "update"
         \/ s = "callback" /\ Top.step = "announce"
  PROVE  \E call \in Frames : Onward(call)
<1> DEFINE call == [Top EXCEPT !.step = s, !.checked = Top.checked, !.locked = held,
                               !.result = Top.result]
<1>1. Top \in Frames
  BY TopIs
<1>2. to = call
  BY <1>1 DEF Frames
<1>3. Becomes(call) /\ Top.checked \in BOOLEAN /\ Top.result \in Results
  BY <1>1, <1>2 DEF Frames
<1>4. QED BY <1>3, ProceedsOnward

(* An attempt more, if there is one left.                                  *)
LEMMA AgainOnward ==
  ASSUME IInv, At_("send"), NEW d \in Nat, Again([Top EXCEPT !.done = d])
  PROVE  \E call \in Frames : Onward(call)
<1> DEFINE next == Top.tries + 1
           more == [Top EXCEPT !.done = d, !.tries = next]
           over == [Top EXCEPT !.done = d, !.step = "return", !.result = "error"]
<1>1. /\ Running /\ Top.step = "send" /\ Top \in Frames /\ Top.tries \in Nat
      /\ Top.tries <= client.retries /\ client.retries \in Nat
  BY TopIs DEF At_
<1>2. StepsOf(Top) = 6 + (client.retries - Top.tries)
  BY <1>1, StepsFacts
<1>3. CASE Top.tries < Attempts /\ Becomes(more)
  <2>1. /\ more \in Frames /\ more.step = "send" /\ more.tries = Top.tries + 1
    <3>1. next \in Nat
      BY <1>1
    <3> HIDE DEF next
    <3>2. more \in Frames /\ more.step = "send" /\ more.tries = next
      BY <1>1, <3>1 DEF Frames
    <3>3. QED BY <3>2 DEF next
  <2>2. more.tries <= client.retries
    BY <1>1, <1>3, <2>1 DEF Attempts
  <2>3. StepsOf(more) = 6 + (client.retries - (Top.tries + 1))
    BY <2>1, <2>2, StepsFacts
  <2>4. StepsOf(more) < StepsOf(Top)
    BY <1>1, <1>2, <2>3
  <2>5. QED BY <1>3, <2>1, <2>2, <2>4 DEF Onward
<1>4. CASE Becomes(over)
  <2>1. over \in Frames /\ over.step = "return" /\ over.tries = Top.tries
    BY <1>1 DEF Frames, Steps, Results
  <2>2. StepsOf(over) = 1
    BY <1>1, <2>1, StepsFacts
  <2>3. StepsOf(over) < StepsOf(Top)
    BY <1>1, <1>2, <2>2
  <2>4. QED BY <1>1, <1>4, <2>1, <2>3 DEF Onward
<1>5. \/ Top.tries < Attempts /\ Becomes(more)
      \/ Becomes(over)
  <2>1. /\ [[Top EXCEPT !.done = d] EXCEPT !.tries = @ + 1] = more
        /\ [[Top EXCEPT !.done = d] EXCEPT !.step = "return", !.result = "error"] = over
        /\ [Top EXCEPT !.done = d].tries = Top.tries
    BY <1>1 DEF Frames
  <2>2. QED BY <2>1 DEF Again
<1>6. QED BY <1>3, <1>4, <1>5

(* Every step that neither runs a login nor comes back from one.           *)
LEMMA StepOnward ==
  ASSUME IInv, Step, ~ ReAuthenticate, ~ Return, ~ CallbackPanics
  PROVE  (\E call \in Frames : Onward(call)) /\ UNCHANGED setup
<1>1. Running
  BY DEF Step, SkipCheck, Check, Lock, RenewOk, RenewWithoutAuth, RenewFails, Update, Announce,
         CallbackReturns, CallbackSetsToken, Answer, NoAnswer, Refuse, Decode, At_
<1>2. UNCHANGED setup
  BY DEF Step, SkipCheck, Check, Lock, RenewOk, RenewWithoutAuth, RenewFails, Update, Announce,
         CallbackReturns, CallbackSetsToken, Answer, NoAnswer, Refuse, Decode
<1>3. /\ Top \in Frames /\ Top.locked \in BOOLEAN /\ Top.done \in Nat /\ Top.step \in Steps
      /\ Top.reply \in Replies
  <2>1. Top \in Frames
    BY <1>1, TopIs
  <2>2. QED BY <2>1 DEF Frames
<1>0. /\ \A s \in Steps : s \in Before <=> s \in {"check", "lock", "renew", "reauth"}
      /\ {"check", "lock", "renew", "reauth", "update", "announce", "callback", "send",
          "decode", "return"} \subseteq Steps
  BY DEF Steps, Before
<1> DEFINE Goal == \E call \in Frames : Onward(call)
<1> SUFFICES Goal
  BY <1>2
<1> HIDE DEF Goal
<1>4. CASE SkipCheck
  <2>1. Top.step = "check" /\ Becomes([Top EXCEPT !.step = "send"])
    BY <1>4 DEF SkipCheck, At_, Proceeds
  <2>2. Becomes([Top EXCEPT !.step = "send", !.locked = Top.locked])
    BY <1>3, <2>1
  <2>3. QED BY <1>1, <1>3, <2>1, <2>2, <1>0, ProceedsToOnward DEF Goal
<1>5. CASE Check
  <2>1. Top.step = "check" /\ ~ IsLogin(Top.request.path)
    BY <1>5 DEF Check, At_
  <2>2. \/ Valid
        \/ Failed
        \/ \E s \in {"lock", "reauth"} :
             Proceeds(s) /\ (client.method = "none" => s # "reauth")
    BY <1>5 DEF Check
  <2>3. CASE Valid \/ Failed
    BY <1>1, <2>1, <2>3, <1>0, LeavesOnward DEF Goal
  <2>4. ASSUME NEW s \in {"lock", "reauth"}, Proceeds(s), client.method = "none" => s # "reauth"
        PROVE  Goal
    <3>1. Becomes([Top EXCEPT !.step = s, !.locked = Top.locked])
      BY <1>3, <2>4 DEF Proceeds
    <3>2. s \in Steps
      BY <2>4 DEF Steps
    <3>3. QED BY <1>1, <1>3, <2>1, <2>4, <3>1, <3>2, ProceedsToOnward DEF Goal
  <2>5. QED BY <2>2, <2>3, <2>4
<1>6. CASE Lock
  <2>1. Top.step = "lock"
    BY <1>6 DEF Lock, At_
  <2>2. Valid \/ Failed \/ Becomes([Top EXCEPT !.step = "renew", !.locked = TRUE])
    BY <1>6 DEF Lock
  <2>3. CASE Valid \/ Failed
    BY <1>1, <2>1, <2>3, <1>0, LeavesOnward DEF Goal
  <2>4. CASE Becomes([Top EXCEPT !.step = "renew", !.locked = TRUE])
    BY <1>1, <2>1, <2>4, <1>0, ProceedsToOnward DEF Goal
  <2>5. QED BY <2>2, <2>3, <2>4
<1>7. CASE RenewOk \/ RenewWithoutAuth \/ RenewFails
  <2>1. Top.step = "renew"
    BY <1>7 DEF RenewOk, RenewWithoutAuth, RenewFails, At_
  <2>2. \/ Valid
        \/ Failed
        \/ \E s \in {"update", "reauth"} :
             Proceeds(s) /\ (client.method = "none" => s # "reauth")
    BY <1>7 DEF RenewOk, RenewWithoutAuth, RenewFails
  <2>3. CASE Valid \/ Failed
    BY <1>1, <2>1, <2>3, <1>0, LeavesOnward DEF Goal
  <2>4. ASSUME NEW s \in {"update", "reauth"}, Proceeds(s),
               client.method = "none" => s # "reauth"
        PROVE  Goal
    <3>1. Becomes([Top EXCEPT !.step = s, !.locked = Top.locked])
      BY <1>3, <2>4 DEF Proceeds
    <3>2. s \in Steps
      BY <2>4 DEF Steps
    <3>3. QED BY <1>1, <1>3, <2>1, <2>4, <3>1, <3>2, ProceedsToOnward DEF Goal
  <2>5. QED BY <2>2, <2>3, <2>4
<1>8. CASE Update
  <2>1. Top.step = "update" /\ poisoned = FALSE
    BY <1>1, <1>8, TopIs DEF Update, At_
  <2>2. Becomes([Top EXCEPT !.step = "announce", !.locked = Top.locked])
    BY <1>3, <1>8, <2>1 DEF Update, Proceeds
  <2>3. QED BY <1>1, <1>3, <2>1, <2>2, <1>0, ProceedsToOnward DEF Goal
<1>9. CASE Announce
  <2>1. /\ Top.step = "announce"
        /\ Becomes([Top EXCEPT !.step = "callback", !.locked = Top.locked])
    BY <1>3, <1>9 DEF Announce, At_, Proceeds
  <2>2. QED BY <1>1, <1>3, <2>1, <1>0, ProceedsToOnward DEF Goal
<1>10. CASE CallbackReturns \/ CallbackSetsToken
  <2>1. Top.step = "callback" /\ Resume
    BY <1>10 DEF CallbackReturns, CallbackSetsToken, At_
  <2>2. CASE Top.reply = "none"
    BY <1>1, <2>1, <2>2, LeavesOnward DEF Goal, Resume
  <2>3. CASE Top.reply # "none"
    <3> DEFINE call == [Top EXCEPT !.step = "return", !.checked = Top.checked, !.locked = FALSE,
                                   !.result = "ok"]
    <3>1. [[Top EXCEPT !.step = "return", !.result = "ok"] EXCEPT !.locked = FALSE] = call
      BY <1>3 DEF Frames
    <3>2. Becomes(call)
      BY <2>1, <2>3, <3>1 DEF Resume, Leaves
    <3>3. Top.checked \in BOOLEAN /\ "return" \in Steps /\ "ok" \in Results
      BY <1>3 DEF Frames, Steps, Results
    <3>4. QED BY <1>1, <2>1, <3>2, <3>3, ProceedsOnward DEF Goal
  <2>4. QED BY <2>2, <2>3
<1>11. CASE Answer
  <2>1. PICK reply \in Replies \ {"none"}, d \in Nat :
          Becomes([Top EXCEPT !.step = "decode", !.reply = reply, !.done = d])
    <3>1. PICK reply \in Replies \ {"none"} :
            Becomes([Top EXCEPT !.step = "decode", !.reply = reply,
                                !.done = IF reply = "notfound" THEN @ ELSE @ + 1])
      BY <1>11 DEF Answer, Replies
    <3> DEFINE d == IF reply = "notfound" THEN Top.done ELSE Top.done + 1
    <3>2. d \in Nat
      BY <1>3
    <3>3. Becomes([Top EXCEPT !.step = "decode", !.reply = reply, !.done = d])
      BY <3>1
    <3> HIDE DEF d
    <3>4. QED BY <3>2, <3>3
  <2> DEFINE call == [Top EXCEPT !.step = "decode", !.reply = reply, !.done = d]
  <2>2. Top.step = "send" /\ Top.tries <= client.retries /\ Top.tries \in Nat
        /\ client.retries \in Nat
    BY <1>1, <1>11, TopIs DEF Answer, At_
  <2>3. call \in Frames /\ call.step = "decode" /\ call.tries = Top.tries
    BY <1>3 DEF Frames, Steps
  <2>4. StepsOf(call) = 5 /\ StepsOf(Top) = 6 + (client.retries - Top.tries)
    BY <1>3, <2>2, <2>3, StepsFacts
  <2>5. StepsOf(call) < StepsOf(Top)
    BY <2>2, <2>4
  <2>6. QED BY <2>1, <2>2, <2>3, <2>5 DEF Goal, Onward
<1>12. CASE NoAnswer
  <2>1. At_("send") /\ \E d \in Nat : Again([Top EXCEPT !.done = d])
    <3>1. PICK executed \in {0, 1} : Again([Top EXCEPT !.done = @ + executed])
      BY <1>12 DEF NoAnswer
    <3> DEFINE d == Top.done + executed
    <3>2. d \in Nat /\ Again([Top EXCEPT !.done = d])
      BY <1>3, <3>1
    <3> HIDE DEF d
    <3>3. QED BY <1>12, <3>1, <3>2 DEF NoAnswer
  <2>2. QED BY <2>1, AgainOnward DEF Goal
<1>13. CASE Refuse
  <2>1. Top.step = "send" /\ At_("send")
    BY <1>13 DEF Refuse, At_
  <2>2. CASE Again(Top)
    <3>1. [Top EXCEPT !.done = Top.done] = Top
      BY <1>3 DEF Frames
    <3>2. QED BY <1>3, <2>1, <2>2, <3>1, AgainOnward DEF Goal
  <2>3. CASE Becomes([Top EXCEPT !.step = "return", !.result = "error"])
    <3> DEFINE call == [Top EXCEPT !.step = "return", !.checked = Top.checked,
                                   !.locked = Top.locked, !.result = "error"]
    <3>1. [Top EXCEPT !.step = "return", !.result = "error"] = call
      BY <1>3 DEF Frames
    <3>2. Becomes(call)
      BY <2>3, <3>1
    <3>3. /\ Top.checked \in BOOLEAN /\ Top.locked \in BOOLEAN
          /\ "return" \in Steps /\ "error" \in Results
      BY <1>3 DEF Frames, Steps, Results
    <3>4. QED BY <1>1, <2>1, <3>2, <3>3, ProceedsOnward DEF Goal
  <2>4. QED BY <1>13, <2>2, <2>3 DEF Refuse
<1>14. CASE Decode
  <2>1. Top.step = "decode"
    BY <1>14 DEF Decode, At_
  <2> DEFINE result == Decodes(Top.request.via, Top.reply)
  <2>2. \/ Becomes([Top EXCEPT !.step = "update"])
        \/ Becomes([Top EXCEPT !.step = "return", !.result = result])
    BY <1>14 DEF Decode
  <2>3. CASE Becomes([Top EXCEPT !.step = "update"])
    <3>1. Becomes([Top EXCEPT !.step = "update", !.locked = Top.locked])
      BY <1>3, <2>3
    <3>2. QED BY <1>1, <1>3, <2>1, <3>1, <1>0, ProceedsToOnward DEF Goal
  <2>4. CASE Becomes([Top EXCEPT !.step = "return", !.result = result])
    <3>1. result \in Results
      BY DEF Decodes, Results
    <3> DEFINE call == [Top EXCEPT !.step = "return", !.checked = Top.checked,
                                   !.locked = Top.locked, !.result = result]
    <3> HIDE DEF result
    <3>2. [Top EXCEPT !.step = "return", !.result = result] = call
      BY <1>3 DEF Frames
    <3>3. Becomes(call)
      BY <2>4, <3>2
    <3>4. Top.checked \in BOOLEAN /\ Top.locked \in BOOLEAN /\ "return" \in Steps
      BY <1>3 DEF Frames, Steps
    <3>5. QED BY <1>1, <2>1, <3>1, <3>3, <3>4, ProceedsOnward DEF Goal
  <2>5. QED BY <2>2, <2>3, <2>4
<1>15. QED
  BY <1>4, <1>5, <1>6, <1>7, <1>8, <1>9, <1>10, <1>11, <1>12, <1>13, <1>14
     DEF Step

(* The login an AuthMethod of the library's makes.                         *)
LEMMA LoginBegins ==
  ASSUME IInv, NoDetour, ReAuthenticate, client.method # "custom"
  PROVE  /\ client.method = "library" /\ Len(stack) = 1 /\ UNCHANGED setup
         /\ Len(stack') = 2 /\ Running' /\ Top' \in Frames /\ Top'.tries = 0
         /\ Top'.step = "check" /\ IsLogin(Top'.request.path)
<1>1. /\ Running /\ Top.step = "reauth" /\ UNCHANGED setup
  BY DEF ReAuthenticate, At_
<1>2. PICK r \in LoginRequests : stack' = Append(stack, Call(r, Top.wraps))
  BY DEF ReAuthenticate
<1>3. /\ Len(stack) \in Nat /\ Len(stack) >= 1 /\ Len(stack) \in 1..Len(stack)
      /\ Top \in Frames /\ Sound(Top, client.retries) /\ stack \in Seq(Frames)
  BY <1>1, TopFacts DEF IInv, StackSound
<1>4. client.method = "library"
  <2>1. client.method # "none"
    BY <1>1, <1>3 DEF NoDetour, Top
  <2>2. client.method \in {"none", "library", "custom"}
    BY DEF IInv, ClientSound
  <2>3. QED BY <2>1, <2>2
<1>5. r \in Requests /\ IsLogin(r.path)
  BY <1>4, LoginRequestsFacts
<1>6. Len(stack) = 1
  <2>1. ~ IsLogin(Top.request.path)
    BY <1>1, <1>3 DEF Sound, CheckedRight
  <2>2. Len(stack) # 2
    BY <1>4, <2>1 DEF IInv, LoginsSound, Top
  <2>3. Len(stack) <= 2
    BY <1>4 DEF IInv, LoginsSound
  <2>4. \A k \in Nat : k >= 1 /\ k <= 2 /\ k # 2 => k = 1
    OBVIOUS
  <2>5. QED BY <1>3, <2>2, <2>3, <2>4
<1> DEFINE call == Call(r, Top.wraps)
<1>7. call \in Frames /\ call.step = "check" /\ call.tries = 0 /\ call.request = r
  <2>1. Top.wraps \in BOOLEAN
    BY <1>3 DEF Frames
  <2>2. QED BY <1>5, <2>1 DEF Call, Frames, Steps, Replies, Results
<1> HIDE DEF call
<1>8. Len(stack') = 2 /\ stack'[2] = call
  <2>1. stack' = Append(stack, call)
    BY <1>2 DEF call
  <2>2. /\ Len(stack') = Len(stack) + 1
        /\ stack'[Len(stack) + 1] = call
    BY <1>3, <1>7, <2>1
  <2>3. QED BY <1>6, <2>2
<1>9. Running' /\ Top' = call
  BY <1>8 DEF Running, Top
<1>10. QED BY <1>1, <1>4, <1>5, <1>6, <1>7, <1>8, <1>9

(* Its end, with or without a token.                                       *)
LEMMA LoginEnds ==
  ASSUME IInv, Return, Len(stack) = 2
  PROVE  /\ Len(stack') = 1 /\ Running' /\ Top' \in Frames /\ Top'.tries <= client.retries
         /\ Top'.step \in {"return", "update"} /\ Top'.reply = "none" /\ UNCHANGED setup
<1>1. Running /\ Top.step = "return" /\ UNCHANGED setup
  BY DEF Return, At_
<1>2. stack \in Seq(Frames)
  BY DEF IInv, StackSound
<1>3. /\ Below \in Seq(Frames) /\ Len(Below) = 1 /\ Below[1] = stack[1]
  BY <1>2, PrefixFacts DEF Below
<1>4. Caller = stack[1] /\ Len(Outer) = 0 /\ Outer \in Seq(Frames)
  BY <1>3, PrefixFacts DEF Caller, Outer
<1>5. /\ Caller \in Frames /\ Sound(Caller, client.retries) /\ Caller.step = "reauth"
  BY <1>2, <1>4 DEF IInv, StackSound
<1>6. Caller.reply = "none" /\ Caller.tries = 0 /\ client.retries \in Nat
  BY <1>5 DEF Sound, CountedRight, Before, IInv, ClientSound
<1>7. PICK call \in Frames : /\ stack' = Append(Outer, call)
                             /\ call.step \in {"return", "update"}
                             /\ call.reply = "none" /\ call.tries = 0
  <2> DEFINE failed == [Caller EXCEPT !.step = "return", !.result = "error", !.locked = FALSE]
             stores == [Caller EXCEPT !.step = "update"]
  <2>1. /\ failed \in Frames /\ failed.step = "return" /\ failed.reply = Caller.reply
        /\ failed.tries = Caller.tries
    BY <1>5 DEF Frames, Steps, Results
  <2>2. /\ stores \in Frames /\ stores.step = "update" /\ stores.reply = Caller.reply
        /\ stores.tries = Caller.tries
    BY <1>5 DEF Frames, Steps
  <2>3. stack' = Append(Outer, failed) \/ stack' = Append(Outer, stores)
    BY DEF Return, ReturnsToUser, LoginFails, LoginReturns
  <2> HIDE DEF failed, stores
  <2>4. QED BY <1>6, <2>1, <2>2, <2>3
<1>8. Len(stack') = 1 /\ stack'[1] = call
  BY <1>4, <1>7
<1>9. Running' /\ Top' = call
  BY <1>8 DEF Running, Top
<1>10. QED BY <1>1, <1>6, <1>7, <1>8, <1>9

(* With one call that waits for a login at most, and that only if there is *)
(* an AuthMethod.                                                          *)
LEMMA StackIsShort ==
  ASSUME IInv, NoDetour, Running, client.method # "custom"
  PROVE  /\ Len(stack) \in {1, 2}
         /\ Len(stack) = 2 => client.method = "library" /\ IsLogin(Top.request.path)
<1>1. /\ Len(stack) \in Nat /\ Len(stack) >= 1
      /\ client.method \in {"none", "library", "custom"}
  BY TopFacts DEF IInv, ClientSound
<1>2. CASE client.method = "library"
  <2>1. Len(stack) <= 2 /\ \A i \in 2..Len(stack) : IsLogin(stack[i].request.path)
    BY <1>2 DEF IInv, LoginsSound
  <2>2. Len(stack) \in {1, 2}
    <3>1. \A k \in Nat : k >= 1 /\ k <= 2 => k \in {1, 2}
      OBVIOUS
    <3>2. QED BY <1>1, <2>1, <3>1
  <2>3. ASSUME Len(stack) = 2 PROVE IsLogin(Top.request.path)
    BY <2>1, <2>3 DEF Top
  <2>4. QED BY <1>2, <2>2, <2>3
<1>3. CASE client.method = "none"
  <2>1. ASSUME Len(stack) # 1 PROVE FALSE
    <3>1. 1 \in 1..Len(stack) /\ 1 # Len(stack)
      BY <1>1, <2>1
    <3>2. QED BY <1>3, <3>1 DEF NoDetour, IInv, StackSound
  <2>2. QED BY <1>3, <2>1
<1>4. QED BY <1>1, <1>2, <1>3

(* No call runs at first.                                                  *)
LEMMA InitNoDetour == Init => NoDetour
<1> SUFFICES ASSUME Init PROVE \A i \in 1..Len(stack) : stack[i].step # "reauth"
  BY DEF NoDetour
<1>1. Len(stack) = 0
  BY DEF Init
<1>2. QED BY <1>1

(* Only an AuthMethod takes a call to its login.                           *)
LEMMA NextNoDetour == IInv /\ NoDetour /\ [Next]_vars => NoDetour'
<1> SUFFICES ASSUME IInv, NoDetour, [Next]_vars, client'.method = "none"
             PROVE  \A i \in 1..Len(stack') : stack'[i].step # "reauth"
  BY DEF NoDetour
<1>1. CASE stack' = <<>>
  <2>1. Len(stack') = 0
    BY <1>1
  <2>2. QED BY <2>1
<1>2. CASE UNCHANGED <<stack, client>>
  BY <1>2 DEF NoDetour
<1>3. ASSUME Step, stack' # <<>> PROVE \A i \in 1..Len(stack') : stack'[i].step # "reauth"
  <2>1. Running /\ UNCHANGED setup
    BY <1>3
       DEF Step, SkipCheck, Check, Lock, RenewOk, RenewWithoutAuth, RenewFails, ReAuthenticate,
           Update, Announce, CallbackReturns, CallbackSetsToken, CallbackPanics,
           Answer, NoAnswer, Refuse, Decode, Return, At_
  <2>2. client.method = "none"
    BY <2>1 DEF setup
  <2>3. ~ ReAuthenticate
    BY <2>2, LoginBegins
  <2>4. Len(stack) = 1
    BY <2>1, <2>2, StackIsShort
  <2>5. ~ Return /\ ~ CallbackPanics
    BY <1>3, <2>4 DEF Return, ReturnsToUser, LoginFails, LoginReturns, CallbackPanics
  <2>6. PICK call \in Frames : Onward(call)
    BY <1>3, <2>3, <2>5, StepOnward
  <2>7. Len(stack') = 1 /\ stack'[1] = call
    BY <2>1, <2>4, <2>6, BecomesFacts DEF Onward, IInv
  <2>8. QED BY <2>2, <2>6, <2>7 DEF Onward
<1>4. CASE Begin
  <2>1. PICK r \in Requests, wraps \in BOOLEAN : stack' = <<Call(r, wraps)>>
    BY <1>4 DEF Begin
  <2>2. Call(r, wraps).step = "check"
    BY DEF Call
  <2>3. QED BY <2>1, <2>2
<1>5. CASE Configure
  <2>1. stack' = stack /\ ~ client.built
    BY <1>5 DEF Configure, max_retries, cli_mode, address, token_str, auth_method, Sets, build
  <2>2. stack = <<>>
    BY <2>1 DEF IInv, ClientSound
  <2>3. QED BY <1>1, <2>1, <2>2
<1>6. CASE Cancel \/ SetToken \/ Due \/ UNCHANGED vars
  BY <1>1, <1>2, <1>6 DEF Cancel, SetToken, Due, setup, vars
<1>7. QED BY <1>1, <1>3, <1>4, <1>5, <1>6 DEF Next

(* A call of a client with the library's AuthMethods, or none, always      *)
(* moves, and towards its end.                                             *)
THEOREM CallsMove == Spec => CallMoves
<1> DEFINE Good == Running /\ client.method # "custom" => Moves
<1>1. ASSUME IInv, NoDetour, [Next]_vars, Running, client.method # "custom" PROVE Moves
  <2>1. /\ Top \in Frames /\ Top.tries <= client.retries /\ Top.tries \in Nat
        /\ client.retries \in Nat
        /\ Top.step \in {"lock", "renew", "reauth"} => ~ IsLogin(Top.request.path)
    BY <1>1, TopIs
  <2>2. /\ Len(stack) \in {1, 2}
        /\ Len(stack) = 2 => client.method = "library" /\ IsLogin(Top.request.path)
    BY <1>1, StackIsShort
  <2> DEFINE n == client.retries
             top == StepsOf(Top)
  <2>3. StepsLeft \in 1..(21 + 2 * client.retries)
    <3>1. top \in 1..(21 + 2 * n)
      BY <1>1, <2>1, StepsFacts
    <3>2. CASE Len(stack) = 1
      BY <3>1, <3>2 DEF StepsLeft
    <3>3. CASE Len(stack) = 2
      <4>1. top <= 9 + n
        <5>1. IsLogin(Top.request.path) /\ CheckedRight(Top) /\ Top.step \in Steps
          <6>1. Sound(Top, client.retries)
            BY <1>1, RunningFacts
          <6>2. QED BY <2>1, <2>2, <3>3, <6>1 DEF Sound, Frames
        <5>2. /\ Top.step \notin {"lock", "renew", "reauth"}
              /\ Top.step \in Storing => Top.reply # "none"
          BY <5>1 DEF CheckedRight
        <5>3. CASE Top.step = "check"
          BY <1>1, <2>1, <5>1, <5>3, StepsFacts
        <5>4. CASE Top.step = "send"
          BY <1>1, <2>1, <5>4, StepsFacts
        <5>5. CASE Top.step \in Storing
          <6>1. top \in {2, 3, 4}
            BY <1>1, <2>1, <5>2, <5>5, StepsFacts DEF Storing
          <6>2. QED BY <2>1, <6>1
        <5>6. CASE Top.step \in {"decode", "return"}
          <6>1. top \in {1, 5}
            BY <1>1, <2>1, <5>6, StepsFacts
          <6>2. QED BY <2>1, <6>1
        <5>7. QED BY <5>1, <5>2, <5>3, <5>4, <5>5, <5>6 DEF Steps, Storing
      <4>2. StepsLeft = top + (10 + n)
        BY <3>3 DEF StepsLeft, Waiting
      <4> HIDE DEF top, n
      <4>3. n \in Nat
        BY <2>1 DEF n
      <4>4. QED BY <3>1, <4>1, <4>2, <4>3 DEF n
    <3>4. QED BY <2>2, <3>2, <3>3
  <2>4. ASSUME Step, Running' PROVE StepsLeft' < StepsLeft
    <3>1. CASE ReAuthenticate
      <4>1. /\ Len(stack) = 1 /\ UNCHANGED setup
            /\ Len(stack') = 2 /\ Top' \in Frames /\ Top'.tries = 0
            /\ Top'.step = "check" /\ IsLogin(Top'.request.path)
        BY <1>1, <3>1, LoginBegins
      <4>2. client' = client
        BY <4>1 DEF setup
      <4>3. StepsLeft = 18 + 2 * client.retries
        <5>1. Top.step = "reauth"
          BY <3>1 DEF ReAuthenticate, At_
        <5>2. QED BY <1>1, <2>1, <4>1, <5>1, StepsFacts DEF StepsLeft
      <4>4. StepsOf(Top)' = 7 + client.retries
        <5>1. StepsOf(Top)' = StepsOf(Top')
          BY <4>2 DEF StepsOf, Waiting
        <5>2. Top'.tries <= client.retries
          BY <2>1, <4>1
        <5>3. QED BY <1>1, <4>1, <5>1, <5>2, StepsFacts
      <4>5. StepsLeft' = (7 + client.retries) + (10 + client.retries)
        BY <4>1, <4>2, <4>4 DEF StepsLeft, Waiting
      <4>6. QED BY <2>1, <4>3, <4>5
    <3>2. CASE Return
      <4>1. Len(stack) = 2
        <5>1. ~ ReturnsToUser
          BY <2>4 DEF ReturnsToUser, Running
        <5>2. Len(stack) > 1
          BY <3>2, <5>1 DEF Return, LoginFails, LoginReturns
        <5>3. QED BY <2>2, <5>2
      <4>2. /\ Len(stack') = 1 /\ Top' \in Frames /\ Top'.tries <= client.retries
            /\ Top'.step \in {"return", "update"} /\ Top'.reply = "none" /\ UNCHANGED setup
        BY <1>1, <3>2, <4>1, LoginEnds
      <4>3. client' = client
        BY <4>2 DEF setup
      <4>4. StepsLeft = 1 + (10 + client.retries)
        <5>1. Top.step = "return"
          BY <3>2 DEF Return, At_
        <5>2. StepsOf(Top) = 1
          BY <1>1, <2>1, <5>1, StepsFacts
        <5>3. QED BY <4>1, <5>2 DEF StepsLeft, Waiting
      <4>5. StepsLeft' \in {1, 9 + client.retries}
        BY <2>1, <4>2, <4>3 DEF StepsLeft, StepsOf
      <4>6. QED BY <2>1, <4>4, <4>5
    <3>3. CASE ~ ReAuthenticate /\ ~ Return
      <4>1. ~ CallbackPanics
        BY <2>4 DEF CallbackPanics, Running
      <4>2. PICK call \in Frames : Onward(call)
        BY <1>1, <2>4, <3>3, <4>1, StepOnward
      <4>3. client' = client
        BY <1>1, <2>4, <3>3, <4>1, StepOnward DEF setup
      <4>4. Len(stack') = Len(stack) /\ Top' = call
        BY <1>1, <4>2, BecomesFacts DEF Onward, IInv, Top
      <4>5. StepsOf(Top)' = StepsOf(call)
        BY <4>3, <4>4 DEF StepsOf, Waiting
      <4>6. /\ StepsOf(call) < StepsOf(Top) /\ StepsOf(call) \in Int /\ StepsOf(Top) \in Int
        BY <1>1, <2>1, <4>2, StepsFacts DEF Onward
      <4>7. StepsLeft' = StepsOf(call) + (IF Len(stack) > 1 THEN 10 + client.retries ELSE 0)
        BY <4>3, <4>4, <4>5 DEF StepsLeft, Waiting
      <4>8. StepsLeft = StepsOf(Top) + (IF Len(stack) > 1 THEN 10 + client.retries ELSE 0)
        BY DEF StepsLeft, Waiting
      <4>9. QED BY <2>1, <2>2, <4>6, <4>7, <4>8
    <3>4. QED BY <3>1, <3>2, <3>3
  <2>5. ASSUME ~ Step, Running' PROVE UNCHANGED <<stack, client>>
    <3>1. client.built
      BY <1>1 DEF IInv, ClientSound, Running
    <3>2. ~ Configure
      BY <3>1 DEF Configure, max_retries, cli_mode, address, token_str, auth_method, Sets, build
    <3>3. ~ Begin /\ ~ Cancel
      BY <1>1, <2>5 DEF Begin, Cancel, Running
    <3>4. QED BY <1>1, <2>5, <3>2, <3>3 DEF Next, SetToken, Due, setup, vars
  <2>6. Top.step \in {"check", "lock", "update"} => ~ tokenLock
    BY <1>1, RunningFacts
  <2>7. Top.step = "lock" => ~ renewalLock
    <3>1. ASSUME Top.step = "lock" PROVE renewalLock = FALSE
      <4>1. Len(stack) = 1
        BY <2>1, <2>2, <3>1
      <4>2. Sound(Top, client.retries)
        BY <1>1, RunningFacts
      <4>3. ~ (Top.locked = TRUE)
        BY <3>1, <4>2 DEF Sound, HoldsRight, Storing
      <4>4. Holders = {}
        BY <4>1, <4>3 DEF Holders, Top
      <4>5. QED BY <1>1, <4>4 DEF IInv, LocksSound
    <3>2. QED BY <3>1
  <2>8. Top.step = "reauth" => Len(stack) = 1
    BY <2>1, <2>2
  <2>9. QED BY <2>3, <2>4, <2>5, <2>6, <2>7, <2>8 DEF Moves
<1>2. IInv /\ NoDetour /\ [Next]_vars => [Good]_vars
  BY <1>1
<1>3. Spec => []NoDetour
  BY Invariance, InitNoDetour, NextNoDetour, PTL DEF Spec
<1>4. QED BY <1>2, <1>3, Invariance, PTL DEF Spec, CallMoves
=============================================================================
