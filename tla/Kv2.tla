---------------------------------- MODULE Kv2 ----------------------------------
(***************************************************************************)
(* Several callers of api/kv2.rs work on one secret.  A call is one        *)
(* operation of the handler, or an update: read, then write_cas with the   *)
(* version read.  send_with_retry repeats a request that timed out though  *)
(* Vault may have carried it out, or may still do so when the call is long *)
(* over, so every attempt is a message of its own that arrives at any time *)
(* or never.                                                               *)
(*                                                                         *)
(* The secret's data are fields, each with the call that wrote its value.  *)
(* Vault's side is what the handler's requests ask of it: numbered         *)
(* versions, check-and-set, merge, soft deletion and destruction.  Limits  *)
(* on the number of versions (max_versions) are left out.                  *)
(***************************************************************************)
EXTENDS Naturals, Sequences, FiniteSets

CONSTANTS Calls,       \* bound: the calls made
          Fields,
          MaxRetries,  \* max_retries
          Nobody       \* the value of a field that is absent

ASSUME Kv2Assumption ==
  /\ MaxRetries \in Nat
  /\ Nobody \notin Calls

VARIABLES
  call,     \* the calls
  net,      \* requests under way: a call and the number of the attempt
  history,  \* Vault: the versions of the secret
  took,     \* history: the call took effect
  old       \* history: the call began before the secret's metadata were deleted

vars == <<call, net, history, took, old>>

Contents == [Fields -> Calls \cup {Nobody}]
Empty == [f \in Fields |-> Nobody]
Versions == [by : Calls, content : Contents, state : {"live", "deleted", "destroyed"}]

NoOp == [kind |-> "none", fields |-> {}, version |-> 0]
Kinds == {"write", "update", "patch", "delete", "undelete", "destroy", "delete_latest",
          "delete_metadata"}

Idle == [op |-> NoOp, status |-> "idle", attempt |-> 0, reply |-> "none",
         version |-> 0, content |-> Empty]
-----------------------------------------------------------------------------
(* The handler: what each operation sends.                                 *)

(* The new values of a call's fields on top of some content *)
Overlay(content, c) == [f \in Fields |-> IF f \in call[c].op.fields THEN c ELSE content[f]]

(* A variant of CasOption: write_cas without its options.                  *)
NoCasOption(c) == {}

CasOption(c) == IF call[c].op.kind = "update" THEN {call[c].version} ELSE {}

(* A variant of VersionPath: destroy_versions posts to delete.             *)
VersionPathSoft(kind) == IF kind = "destroy" THEN "delete" ELSE kind

(* version_op puts the operation's name into the path *)
VersionPath(kind) == kind

(* A variant of PatchVerb: patch posts its fields.                         *)
PatchByPost == "POST"

PatchVerb == "PATCH"

(* Data go out as {"data": ...}: all of it for write, the fields to merge  *)
(* for patch, what was read with the new fields for an update              *)
Request(c) ==
  LET op == call[c].op
      To(verb, path, cas, content) ==
        [verb |-> verb, path |-> path, cas |-> cas, content |-> content, version |-> op.version]
  IN CASE op.kind = "write"  -> To("POST", "data", CasOption(c), Overlay(Empty, c))
       [] op.kind = "update" -> To("POST", "data", CasOption(c), Overlay(call[c].content, c))
       [] op.kind = "patch"  -> To(PatchVerb, "data", CasOption(c), Overlay(Empty, c))
       [] op.kind = "delete_latest"   -> To("DELETE", "data", {}, Empty)
       [] op.kind = "delete_metadata" -> To("DELETE", "metadata", {}, Empty)
       [] OTHER -> To("POST", VersionPath(op.kind), {}, Empty)

(* Versions are named by callers who saw them *)
Operations ==
  [kind : {"write", "update", "patch"}, fields : {{f} : f \in Fields}, version : {0}]
  \cup [kind : {"delete", "undelete", "destroy"}, fields : {{}}, version : DOMAIN history]
  \cup [kind : {"delete_latest", "delete_metadata"}, fields : {{}}, version : {0}]

Init ==
  /\ call = [c \in Calls |-> Idle]
  /\ net = {}
  /\ history = <<>>
  /\ took = [c \in Calls |-> FALSE]
  /\ old = [c \in Calls |-> FALSE]

Begin(c) ==
  /\ call[c].status = "idle"
  /\ \E op \in Operations :
       IF op.kind = "update"
       THEN /\ call' = [call EXCEPT ![c].op = op, ![c].status = "reading"]
            /\ UNCHANGED net
       ELSE /\ call' = [call EXCEPT ![c].op = op, ![c].status = "sent", ![c].attempt = 1]
            /\ net' = net \cup {<<c, 1>>}
  /\ UNCHANGED <<history, took, old>>

(* read: data and version of the newest version, NotFound when there is    *)
(* none or it is deleted or destroyed, as 404 hides the metadata Vault     *)
(* sends with it.  The caller goes on with write_cas, with 0 if it found   *)
(* nothing.                                                                *)
Readable == history # <<>> /\ history[Len(history)].state = "live"

Read(c) ==
  /\ call[c].status = "reading"
  /\ call' = [call EXCEPT ![c].status = "sent", ![c].attempt = 1,
                          ![c].version = IF Readable THEN Len(history) ELSE 0,
                          ![c].content = IF Readable THEN history[Len(history)].content ELSE Empty]
  /\ net' = net \cup {<<c, 1>>}
  /\ UNCHANGED <<history, took, old>>

ReadFails(c) ==
  /\ call[c].status = "reading"
  /\ call' = [call EXCEPT ![c].status = "failed"]
  /\ UNCHANGED <<net, history, took, old>>

(* A variant of Timeout with an attempt too many.                          *)
TimeoutOneMore(c) ==
  /\ call[c].status = "sent"
  /\ call[c].attempt <= MaxRetries + 1
  /\ call' = [call EXCEPT ![c].attempt = @ + 1, ![c].reply = "none"]
  /\ net' = net \cup {<<c, call[c].attempt + 1>>}
  /\ UNCHANGED <<history, took, old>>

(* No answer in time, or the answer lost: the same request again, or       *)
(* VaultError::Http                                                        *)
Timeout(c) ==
  /\ call[c].status = "sent"
  /\ IF call[c].attempt <= MaxRetries
     THEN /\ call' = [call EXCEPT ![c].attempt = @ + 1, ![c].reply = "none"]
          /\ net' = net \cup {<<c, call[c].attempt + 1>>}
     ELSE /\ call' = [call EXCEPT ![c].status = "failed", ![c].reply = "none"]
          /\ UNCHANGED net
  /\ UNCHANGED <<history, took, old>>

(* A variant of Outcome that does not look at the status.                  *)
OutcomeBlind(reply) == IF reply = "refused" THEN "refused" ELSE "ok"

(* 200 and 204 are success; 400 is VaultError::Api, 404 NotFound *)
Outcome(reply) ==
  CASE reply = "done" -> "ok"
    [] reply = "refused" -> "refused"
    [] OTHER -> "failed"

Receive(c) ==
  /\ call[c].status = "sent"
  /\ call[c].reply # "none"
  /\ call' = [call EXCEPT ![c].status = Outcome(call[c].reply)]
  /\ UNCHANGED <<net, history, took, old>>
-----------------------------------------------------------------------------
(* Vault.                                                                  *)

(* Only the answer to the newest attempt is waited for *)
Answers(c, n, reply) ==
  call' = IF call[c].status = "sent" /\ call[c].attempt = n
          THEN [call EXCEPT ![c].reply = reply] ELSE call

TakesEffect(c) == took' = [took EXCEPT ![c] = TRUE]

(* Attempt n of call c arrives *)
Arrives(c, n, verb, paths) ==
  /\ <<c, n>> \in net
  /\ Request(c).verb = verb
  /\ Request(c).path \in paths
  /\ net' = net \ {<<c, n>>}

Adds(c, content) ==
  history' = Append(history, [by |-> c, content |-> content, state |-> "live"])

(* A write, with cas only on top of the version it names *)
ServeWrite(c, n) ==
  /\ Arrives(c, n, "POST", {"data"})
  /\ Request(c).cas \in {{}, {Len(history)}}
  /\ Adds(c, Request(c).content)
  /\ Answers(c, n, "done")
  /\ TakesEffect(c)
  /\ UNCHANGED old

RefuseCas(c, n) ==
  /\ Arrives(c, n, "POST", {"data"})
  /\ Request(c).cas \notin {{}, {Len(history)}}
  /\ Answers(c, n, "refused")
  /\ UNCHANGED <<history, took, old>>

(* A merge into the newest version, if it can be read *)
ServePatch(c, n) ==
  /\ Arrives(c, n, "PATCH", {"data"})
  /\ Readable
  /\ Adds(c, Overlay(history[Len(history)].content, c))
  /\ Answers(c, n, "done")
  /\ TakesEffect(c)
  /\ UNCHANGED old

RefusePatch(c, n) ==
  /\ Arrives(c, n, "PATCH", {"data"})
  /\ ~ Readable
  /\ Answers(c, n, "notfound")
  /\ UNCHANGED <<history, took, old>>

(* A version changes its state; destroyed is final *)
After(path, state) ==
  CASE state = "destroyed" \/ path = "destroy" -> "destroyed"
    [] state # "destroyed" /\ path = "undelete" -> "live"
    [] OTHER -> "deleted"

Marks(path, versions) ==
  history' = [v \in DOMAIN history |->
                IF v \in versions THEN [history[v] EXCEPT !.state = After(path, @)]
                ELSE history[v]]

ServeVersions(c, n) ==
  /\ Arrives(c, n, "POST", {"delete", "undelete", "destroy"})
  /\ Marks(Request(c).path, {Request(c).version})
  /\ Answers(c, n, "done")
  /\ TakesEffect(c)
  /\ UNCHANGED old

ServeDelete(c, n) ==
  /\ Arrives(c, n, "DELETE", {"data"})
  /\ Marks("delete", {Len(history)})
  /\ Answers(c, n, "done")
  /\ TakesEffect(c)
  /\ UNCHANGED old

(* All versions go, and numbers begin at 1 again *)
ServeDeleteMetadata(c, n) ==
  /\ Arrives(c, n, "DELETE", {"metadata"})
  /\ history' = <<>>
  /\ Answers(c, n, "done")
  /\ TakesEffect(c)
  /\ old' = [d \in Calls |-> old[d] \/ call[d].status # "idle"]

Client(c) == Begin(c) \/ Read(c) \/ ReadFails(c) \/ Timeout(c) \/ Receive(c)

Vault(c, n) ==
  \/ ServeWrite(c, n) \/ RefuseCas(c, n) \/ ServePatch(c, n) \/ RefusePatch(c, n)
  \/ ServeVersions(c, n) \/ ServeDelete(c, n) \/ ServeDeleteMetadata(c, n)

Next == \E c \in Calls : Client(c) \/ \E n \in 1..(MaxRetries + 1) : Vault(c, n)

Spec == Init /\ [][Next]_vars
-----------------------------------------------------------------------------
(* Properties.                                                             *)

CallStates ==
  [op      : [kind : Kinds \cup {"none"}, fields : SUBSET Fields, version : Nat],
   status  : {"idle", "reading", "sent", "ok", "refused", "failed"},
   attempt : 0..(MaxRetries + 1),
   reply   : {"none", "done", "refused", "notfound"},
   version : Nat,
   content : Contents]

(* Type invariant: calls, requests under way and versions keep their       *)
(* shapes, and no request is numbered beyond its call's attempts.          *)
TypeOK ==
  /\ call \in [Calls -> CallStates]
  /\ net \in SUBSET (Calls \X (1..(MaxRetries + 1)))
  /\ \A m \in net : m[2] <= call[m[1]].attempt
  /\ history \in Seq(Versions)
  /\ took \in [Calls -> BOOLEAN]
  /\ old \in [Calls -> BOOLEAN]

(* No update is lost under another: the version an update or a patch makes *)
(* differs from the one before it in the fields that call wrote and in no  *)
(* other, though other calls and late duplicates of attempts may come      *)
(* between the read and the write.  An update that read the secret before  *)
(* its metadata were deleted is the exception: the numbers begin anew and  *)
(* its cas may fit another version.                                        *)
OtherFieldsKept ==
  \A v \in DOMAIN history :
    LET version == history[v]
        before  == IF v = 1 THEN Empty ELSE history[v - 1].content
    IN call[version.by].op.kind \in {"update", "patch"} /\ ~ old[version.by] =>
         \A f \in Fields \ call[version.by].op.fields : version.content[f] = before[f]

(* A version whose destruction was reported done stays destroyed, whatever *)
(* late undelete request arrives, until the secret is deleted as a whole.  *)
DestructionIsFinal ==
  \A c \in Calls :
    LET v == call[c].op.version
    IN call[c].op.kind = "destroy" /\ call[c].status = "ok" /\ ~ old[c] =>
         v \in DOMAIN history /\ history[v].state = "destroyed"

(* A call that reports success took effect.  A write that Vault refused    *)
(* did not - unless it was sent more than once: then the refusal may be    *)
(* the answer to the repeat of a write that went through.                  *)
OutcomesAreHonest ==
  \A c \in Calls :
    /\ call[c].status = "ok" => took[c]
    /\ call[c].status = "refused" /\ call[c].attempt = 1 => ~ took[c]

(* The handler with its retries implements a register: a write_cas makes   *)
(* at most one version of the secret, a plain write or patch one per       *)
(* attempt, success means effect.                                          *)
KindOf(c) ==
  CASE call[c].op.kind = "none" -> "none"
    [] call[c].op.kind = "update" -> "cas"
    [] call[c].op.kind \in {"write", "patch"} -> "write"
    [] OTHER -> "other"

OutcomeOf(c) ==
  CASE call[c].status = "ok" -> "ok"
    [] call[c].status \in {"refused", "failed"} -> "failed"
    [] OTHER -> "open"

Register == INSTANCE SecretRegister
  WITH Attempts <- MaxRetries + 1,
       kind     <- [c \in Calls |-> KindOf(c)],
       owners   <- [v \in DOMAIN history |-> history[v].by],
       outcome  <- [c \in Calls |-> OutcomeOf(c)]

ImplementsRegister == Register!Spec
=============================================================================
