---------------------------- MODULE ClientSession ----------------------------
(***************************************************************************)
(* A client from its builder to its calls.  The builder takes settings in  *)
(* any order; the client it builds runs operations of the catalogue        *)
(* (Endpoints) on views of itself, one at a time: check of the token,      *)
(* renewal or login, request and retries, decoding of the answer.  A call  *)
(* may run another one inside it, since ensure_valid_token logs in through *)
(* the same client, and the user's on_token_changed callback runs in the   *)
(* middle of it: the stack of calls, the two locks of the client and what  *)
(* the callback may do to them are what this module is about.  Concurrent  *)
(* calls are the subject of TokenLifecycle, statuses and pauses between    *)
(* attempts of RequestExecution.                                           *)
(*                                                                         *)
(* Vault answers what it likes; a timed out attempt may have been carried  *)
(* out.  Of the builder only the settings a call's course depends on are   *)
(* kept: address, token, retries, cli_mode, auth_method.                   *)
(***************************************************************************)
EXTENDS Endpoints, Naturals, Sequences

CONSTANTS Retries,      \* bound: the values given to max_retries
          MaxSettings,  \* bound: the settings made on one builder
          CustomCalls,  \* what an AuthMethod of the user's own calls to log in
          MaxDepth      \* bound: the calls nested in one another

ASSUME SessionAssumption ==
  /\ Retries \subseteq Nat
  /\ CustomCalls \subseteq Operations
  /\ MaxSettings \in Nat
  /\ MaxDepth \in Nat \ {0}

VARIABLES
  builder,      \* ClientBuilder
  client,       \* VaultClientInner: what build fixed
  token,        \* its token
  renewalLock,  \* renewal_lock is held
  tokenLock,    \* the write guard of token is held
  poisoned,     \* a panic hit while it was
  stack         \* the call in progress and the calls it waits for

VARIABLES       \* history
  asked,        \* the settings made on the builder that concern retries
  limit         \* the retries they ask for, fixed by build

vars == <<builder, client, token, renewalLock, tokenLock, poisoned, stack, asked, limit>>
locks == <<renewalLock, tokenLock, poisoned>>
setup == <<builder, client, asked, limit>>

(* Options: the empty set or a singleton *)
OrElse(option, default) == IF option = {} THEN default ELSE CHOOSE x \in option : TRUE

NoToken == [held |-> FALSE, leased |-> FALSE, renewable |-> FALSE, due |-> FALSE]
Plain   == [NoToken EXCEPT !.held = TRUE]
Leased(renewable) == [held |-> TRUE, leased |-> TRUE, renewable |-> renewable, due |-> FALSE]
Issued  == {Plain, Leased(TRUE), Leased(FALSE)}

NoClient == [built |-> FALSE, retries |-> 0, sealed |-> FALSE, method |-> "none"]
-----------------------------------------------------------------------------
(* The builder.                                                            *)

DefaultBuilder ==
  [address |-> FALSE, token |-> FALSE, retries |-> {}, cli |-> FALSE, method |-> "none"]

(* from_env: VAULT_CLI_MODE beats VAULT_MAX_RETRIES *)
FromEnv(addressed, held, cli, retries) ==
  [DefaultBuilder EXCEPT !.address = addressed, !.token = held, !.cli = cli,
                         !.retries = IF cli THEN {0} ELSE retries]

OptionalRetries == {{}} \cup {{n} : n \in Retries}

Init ==
  /\ \/ builder = DefaultBuilder /\ asked = <<>>
     \/ \E addressed, held, cli \in BOOLEAN, retries \in OptionalRetries :
          /\ builder = FromEnv(addressed, held, cli, retries)
          /\ asked = <<[cli |-> cli, retries |-> retries]>>
  /\ client = NoClient
  /\ token = NoToken
  /\ renewalLock = FALSE
  /\ tokenLock = FALSE
  /\ poisoned = FALSE
  /\ stack = <<>>
  /\ limit = 0

(* A setting that says [cli, retries] about retries, or nothing *)
Sets(change, says) ==
  /\ ~ client.built
  /\ Len(asked) < MaxSettings
  /\ builder' = change
  /\ asked' = asked \o says
  /\ UNCHANGED <<client, token, locks, stack, limit>>

max_retries(n) ==
  Sets([builder EXCEPT !.retries = {n}], <<[cli |-> FALSE, retries |-> {n}]>>)

(* A variant of cli_mode: switching it off takes the retries back too.     *)
cli_mode_resets(yes) ==
  Sets([builder EXCEPT !.cli = yes, !.retries = IF yes THEN {0} ELSE {}],
       <<[cli |-> yes, retries |-> {}]>>)

cli_mode(yes) ==
  Sets([builder EXCEPT !.cli = yes, !.retries = IF yes THEN {0} ELSE @],
       <<[cli |-> yes, retries |-> {}]>>)

address == ~ builder.address /\ Sets([builder EXCEPT !.address = TRUE], <<>>)
token_str == ~ builder.token /\ Sets([builder EXCEPT !.token = TRUE], <<>>)
auth_method(m) == builder.method = "none" /\ Sets([builder EXCEPT !.method = m], <<>>)

(* What settings ask for: the last one that names a number of retries,     *)
(* with cli_mode naming none at all, or the default                        *)
Naming(settings) == {i \in DOMAIN settings : settings[i].cli \/ settings[i].retries # {}}

RequestedRetries(settings) ==
  LET newest == CHOOSE i \in Naming(settings) : \A j \in Naming(settings) : j <= i
  IN IF Naming(settings) = {} THEN 2
     ELSE IF settings[newest].cli THEN 0 ELSE OrElse(settings[newest].retries, 2)

(* build fails without an address *)
build ==
  /\ ~ client.built
  /\ builder.address
  /\ client' = [built   |-> TRUE,
                retries |-> OrElse(builder.retries, 2),
                sealed  |-> ~ builder.cli,
                method  |-> builder.method]
  /\ token' = IF builder.token THEN Plain ELSE NoToken
  /\ limit' = RequestedRetries(asked)
  /\ asked' = <<>>
  /\ builder' = DefaultBuilder
  /\ UNCHANGED <<locks, stack>>
-----------------------------------------------------------------------------
(* Calls.                                                                  *)

(* A path, by the two things execute looks at: whether it begins with      *)
(* auth/ and whether "/login" occurs in it.  A caller's mount or name may  *)
(* hold that text.                                                         *)
Paths(o) ==
  CASE o.area = "login" -> [auth : {TRUE}, login : {TRUE}]
    [] o.area = "auth"  -> [auth : {TRUE}, login : BOOLEAN]
    [] o.area = "token" -> [auth : {TRUE}, login : {FALSE}]
    [] o.area = "other" -> [auth : {FALSE}, login : BOOLEAN]
    [] o.area = "any"   -> [auth : BOOLEAN, login : BOOLEAN]

(* Whose the token in an operation's answer is, by what the operation is   *)
(* there for, whatever its handler does with it: logging in and renewing   *)
(* oneself are about the client's own, no other operation is.              *)
TokenFor(o) == IF o.op \in {"login", "login_jwt", "renew_self"} THEN "client" ELSE "other"

(* The requests the handlers make: what is left of an operation *)
RequestsOf(ops) ==
  UNION {[via : {o.via}, applies : {o.applies}, for : {TokenFor(o)}, client : {o.client},
          path : Paths(o)] : o \in ops}

Requests == RequestsOf(Catalogue)

Steps == {"check", "lock", "renew", "reauth", "update", "announce", "callback", "send",
          "decode", "return"}
Replies == {"none", "full", "empty", "notfound", "wrapped"}
Results == {"none", "ok", "nothing", "error"}

(* A call; wraps if its view or the builder gave it a wrap TTL, locked     *)
(* while it holds renewal_lock                                             *)
Call(r, wraps) ==
  [request |-> r, wraps |-> wraps, step |-> "check", checked |-> FALSE, locked |-> FALSE,
   tries |-> 0, done |-> 0, reply |-> "none", result |-> "none"]

Running == stack # <<>>
Top == stack[Len(stack)]
Below == SubSeq(stack, 1, Len(stack) - 1)
At_(step) == Running /\ Top.step = step

Becomes(call) == stack' = Append(Below, call)
Proceeds(step) == Becomes([Top EXCEPT !.step = step])

(* The end of ensure_valid_token: its renewal guard goes *)
Leaves(call) ==
  /\ Becomes([call EXCEPT !.locked = FALSE])
  /\ renewalLock' = (renewalLock /\ ~ call.locked)

Valid  == Leaves([Top EXCEPT !.step = "send", !.checked = TRUE])
Failed == Leaves([Top EXCEPT !.step = "return", !.result = "error"])

(* An operation on the client or on a view of it *)
Begin ==
  /\ client.built
  /\ ~ Running
  /\ \E r \in Requests, wraps \in BOOLEAN : stack' = <<Call(r, wraps)>>
  /\ UNCHANGED <<setup, token, locks>>

(* A variant of IsLogin without the test for auth/.                        *)
MentionsLogin(path) == path.login
(* A variant of IsLogin that never finds a login.                          *)
NeverLogin(path) == FALSE

IsLogin(path) == path.auth /\ path.login

(* execute leaves the check out for logins, raft_snapshot_restore has none *)
SkipCheck ==
  /\ At_("check")
  /\ IsLogin(Top.request.path) \/ Top.request.via = "restore"
  /\ Proceeds("send")
  /\ UNCHANGED <<setup, token, locks>>

(* The first lines of ensure_valid_token *)
Check ==
  /\ At_("check")
  /\ ~ IsLogin(Top.request.path) /\ Top.request.via # "restore"
  /\ ~ tokenLock
  /\ CASE poisoned -> Failed
       [] ~ poisoned /\ token.held /\ ~ token.due -> Valid
       [] ~ poisoned /\ token.due /\ token.renewable -> Proceeds("lock") /\ UNCHANGED renewalLock
       [] OTHER -> IF client.method = "none" THEN Valid
                   ELSE Proceeds("reauth") /\ UNCHANGED renewalLock
  /\ UNCHANGED <<setup, token, tokenLock, poisoned>>

(* renewal_lock, and the second look at the token *)
Lock ==
  /\ At_("lock")
  /\ ~ renewalLock
  /\ ~ tokenLock
  /\ CASE poisoned -> Failed
       [] ~ poisoned /\ token.due -> /\ Becomes([Top EXCEPT !.step = "renew", !.locked = TRUE])
                                     /\ renewalLock' = TRUE
       [] ~ poisoned /\ ~ token.due -> Valid
  /\ UNCHANGED <<setup, token, tokenLock, poisoned>>

(* renew_token_via_api.  An answer without auth counts as success: a 404,  *)
(* or the wrapping of the answer, asked for by the view's headers.         *)
RenewOk ==
  /\ At_("renew")
  /\ ~ Top.wraps
  /\ Proceeds("update")
  /\ UNCHANGED <<setup, token, locks>>

RenewWithoutAuth ==
  /\ At_("renew")
  /\ Valid
  /\ UNCHANGED <<setup, token, tokenLock, poisoned>>

RenewFails ==
  /\ At_("renew")
  /\ IF client.method = "none" THEN Failed ELSE Proceeds("reauth") /\ UNCHANGED renewalLock
  /\ UNCHANGED <<setup, token, tokenLock, poisoned>>

(* try_re_authenticate: the AuthMethod calls back into the client, on the  *)
(* view of the call that needs the token                                   *)
LoginRequests ==
  RequestsOf(IF client.method = "library" THEN LibraryLogins ELSE CustomCalls)

ReAuthenticate ==
  /\ At_("reauth")
  /\ Len(stack) < MaxDepth
  /\ \E r \in LoginRequests : stack' = Append(stack, Call(r, Top.wraps))
  /\ UNCHANGED <<setup, token, locks>>

(* A variant of Update that calls on_token_changed with the guard held.    *)
UpdateUnderGuard ==
  /\ At_("update")
  /\ ~ tokenLock
  /\ IF poisoned
     THEN Failed /\ UNCHANGED <<token, tokenLock>>
     ELSE /\ token' \in Issued
          /\ tokenLock' = TRUE
          /\ Proceeds("callback")
          /\ UNCHANGED renewalLock
  /\ UNCHANGED <<setup, poisoned>>

(* update_token_from_auth takes the write guard and stores the token, or   *)
(* fails when the lock is poisoned                                         *)
Update ==
  /\ At_("update")
  /\ ~ tokenLock
  /\ IF poisoned
     THEN Failed /\ UNCHANGED <<token, tokenLock>>
     ELSE /\ token' \in Issued
          /\ tokenLock' = TRUE
          /\ Proceeds("announce")
          /\ UNCHANGED renewalLock
  /\ UNCHANGED <<setup, poisoned>>

(* It drops the guard and calls on_token_changed *)
Announce ==
  /\ At_("announce")
  /\ tokenLock' = FALSE
  /\ Proceeds("callback")
  /\ UNCHANGED <<setup, token, renewalLock, poisoned>>

(* After the callback: ensure_valid_token is done, or the login is *)
Resume ==
  /\ tokenLock' = FALSE
  /\ IF Top.reply = "none" THEN Valid
     ELSE Leaves([Top EXCEPT !.step = "return", !.result = "ok"])

CallbackReturns ==
  /\ At_("callback")
  /\ Resume
  /\ UNCHANGED <<setup, token, poisoned>>

CallbackSetsToken ==
  /\ At_("callback")
  /\ ~ tokenLock
  /\ token' = Plain
  /\ Resume
  /\ UNCHANGED <<setup, poisoned>>

(* The callback panics, or calls a BlockingVaultClient, whose block_on     *)
(* panics inside a runtime: the call unwinds and drops every guard; a      *)
(* standard lock whose guard goes that way is poisoned.                    *)
CallbackPanics ==
  /\ At_("callback")
  /\ stack' = <<>>
  /\ renewalLock' = FALSE
  /\ tokenLock' = FALSE
  /\ poisoned' = (poisoned \/ tokenLock)
  /\ UNCHANGED <<setup, token>>
-----------------------------------------------------------------------------
(* The request.                                                            *)

(* send_with_retry's max; raft_snapshot_restore sends once *)
Attempts == IF Top.request.via = "restore" THEN 0 ELSE client.retries

(* A 2xx or 404.  With a wrap TTL Vault answers a wrapping token instead   *)
(* of the body.                                                            *)
Answer ==
  /\ At_("send")
  /\ \E reply \in {"full", "empty", "notfound"} \cup (IF Top.wraps THEN {"wrapped"} ELSE {}) :
       Becomes([Top EXCEPT !.step = "decode", !.reply = reply,
                           !.done = IF reply = "notfound" THEN @ ELSE @ + 1])
  /\ UNCHANGED <<setup, token, locks>>

Again(call) ==
  IF call.tries < Attempts
  THEN Becomes([call EXCEPT !.tries = @ + 1])
  ELSE Becomes([call EXCEPT !.step = "return", !.result = "error"])

(* A timeout, or a status that is retried: carried out or not *)
NoAnswer ==
  /\ At_("send")
  /\ \E executed \in {0, 1} : Again([Top EXCEPT !.done = @ + executed])
  /\ UNCHANGED <<setup, token, locks>>

(* A sealed Vault is tried again only with retry_on_sealed; any other      *)
(* status ends the call                                                    *)
Refuse ==
  /\ At_("send")
  /\ \/ client.sealed /\ Again(Top)
     \/ Becomes([Top EXCEPT !.step = "return", !.result = "error"])
  /\ UNCHANGED <<setup, token, locks>>

(* A variant of Decodes: an exec_empty that does not look at the status.   *)
DecodesBlindly(via, reply) ==
  IF via = "empty" THEN "ok" ELSE IF reply = "full" THEN "ok" ELSE "error"

(* What the exec_ functions make of an answer.  An empty body and a body   *)
(* of another shape do not deserialize; a wrapped one has an envelope with *)
(* neither data nor auth, but with the fields of any envelope.             *)
Decodes(via, reply) ==
  CASE via \in {"data", "auth", "direct"} -> IF reply = "full" THEN "ok" ELSE "error"
    [] via = "untyped" -> IF reply = "empty" THEN "error" ELSE "ok"
    [] via \in {"envelope", "wrap", "lease"} ->
         IF reply \in {"full", "wrapped"} THEN "ok" ELSE "error"
    [] via = "raw"     -> "ok"
    [] via \in {"empty", "restore"} -> IF reply = "notfound" THEN "error" ELSE "ok"
    [] OTHER (* list *) -> CASE reply = "full" -> "ok"
                             [] reply = "empty" -> "error"
                             [] OTHER -> "nothing"

(* A variant of TakesOver: creating a token switches to it.                *)
TakesOverAny(request) == request.via = "auth"

(* login and renew_self call update_token_from_auth *)
TakesOver(request) == request.applies

Decode ==
  /\ At_("decode")
  /\ LET result == Decodes(Top.request.via, Top.reply)
     IN Becomes(IF result = "ok" /\ TakesOver(Top.request)
                THEN [Top EXCEPT !.step = "update"]
                ELSE [Top EXCEPT !.step = "return", !.result = result])
  /\ UNCHANGED <<setup, token, locks>>

(* The call that waits for the top one, and the calls below it             *)
Caller == Below[Len(Below)]
Outer  == SubSeq(Below, 1, Len(Below) - 1)

(* The call is over, and an AuthMethod's login with it: its token is       *)
(* stored once more, or the call that needed it fails                      *)
ReturnsToUser ==
  /\ Len(stack) = 1
  /\ stack' = <<>>
  /\ UNCHANGED renewalLock

LoginFails ==
  /\ Len(stack) > 1
  /\ Top.result = "error"
  /\ stack' = Append(Outer, [Caller EXCEPT !.step = "return", !.result = "error", !.locked = FALSE])
  /\ renewalLock' = (renewalLock /\ ~ Caller.locked)

LoginReturns ==
  /\ Len(stack) > 1
  /\ Top.result # "error"
  /\ stack' = Append(Outer, [Caller EXCEPT !.step = "update"])
  /\ UNCHANGED renewalLock

Return ==
  /\ At_("return")
  /\ ReturnsToUser \/ LoginFails \/ LoginReturns
  /\ UNCHANGED <<setup, token, tokenLock, poisoned>>

(* The caller of an async operation may drop it wherever it awaits; a      *)
(* blocking one runs to its end                                            *)
Cancel ==
  /\ Running
  /\ stack[1].request.client = "async"
  /\ Top.step \in {"lock", "renew", "send", "decode"}
  /\ stack' = <<>>
  /\ renewalLock' = FALSE
  /\ UNCHANGED <<setup, token, tokenLock, poisoned>>
-----------------------------------------------------------------------------
(* Others: set_token from another thread, and time. *)

SetToken ==
  /\ client.built
  /\ ~ tokenLock
  /\ ~ poisoned
  /\ token' = Plain
  /\ UNCHANGED <<setup, locks, stack>>

(* A variant of Due that takes a lease of 0, which never expires, for one  *)
(* that has run out.                                                       *)
DueForAll ==
  /\ token.held
  /\ ~ token.due
  /\ token' = [token EXCEPT !.due = TRUE]
  /\ UNCHANGED <<setup, locks, stack>>

Due ==
  /\ token.leased
  /\ ~ token.due
  /\ token' = [token EXCEPT !.due = TRUE]
  /\ UNCHANGED <<setup, locks, stack>>

Configure ==
  \/ \E n \in Retries : max_retries(n)
  \/ \E yes \in BOOLEAN : cli_mode(yes)
  \/ address
  \/ token_str
  \/ \E m \in {"library", "custom"} : auth_method(m)
  \/ build

Step ==
  \/ SkipCheck \/ Check \/ Lock \/ RenewOk \/ RenewWithoutAuth \/ RenewFails \/ ReAuthenticate
  \/ Update \/ Announce
  \/ CallbackReturns \/ CallbackSetsToken \/ CallbackPanics
  \/ Answer \/ NoAnswer \/ Refuse \/ Decode \/ Return

Next == Configure \/ Begin \/ Step \/ Cancel \/ SetToken \/ Due

Spec == Init /\ [][Next]_vars

(* The calls' own steps: the runtime polls them, Vault or the timeout      *)
(* answers, and the callback returns                                       *)
FairSpec == Spec /\ WF_vars(Step)
-----------------------------------------------------------------------------
(* Properties.                                                             *)

(* Type invariant: the locks, the token and every call of the stack keep   *)
(* to the values the code gives them.                                      *)
TypeOK ==
  /\ client \in [built : BOOLEAN, retries : Nat, sealed : BOOLEAN,
                 method : {"none", "library", "custom"}]
  /\ token \in {NoToken} \cup Issued \cup {[Leased(r) EXCEPT !.due = TRUE] : r \in BOOLEAN}
  /\ renewalLock \in BOOLEAN /\ tokenLock \in BOOLEAN /\ poisoned \in BOOLEAN
  /\ limit \in Nat
  /\ Len(stack) <= MaxDepth
  /\ \A i \in DOMAIN stack :
       stack[i] \in [request : Requests, wraps : BOOLEAN, step : Steps, checked : BOOLEAN,
                     locked : BOOLEAN, tries : Nat, done : Nat, reply : Replies,
                     result : Results]

(* The AuthMethods that come with the library log in through one call of   *)
(* their own and no deeper, and that call never waits for the renewal lock *)
(* the call above it holds: their paths all pass the is_login test of      *)
(* execute, whatever the mount is named.  A method of the user's that      *)
(* calls anything else can do both.                                        *)
LibraryLoginsDoNotReenter ==
  client.method = "library" =>
    /\ Len(stack) <= 2
    /\ ~ (At_("lock") /\ renewalLock)

(* Whatever happens in the middle of a call - an error, a caller that      *)
(* drops it, a callback that panics - both locks are free when it is over  *)
(* and the token's is never poisoned: update_token_from_auth drops its     *)
(* guard before it calls on_token_changed, which may therefore use the     *)
(* client itself.                                                          *)
LocksAreReleased ==
  /\ ~ Running => ~ renewalLock /\ ~ tokenLock
  /\ renewalLock <=> \E i \in DOMAIN stack : stack[i].locked
  /\ At_("callback") => ~ tokenLock
  /\ ~ poisoned

(* Ok with data, or without any to give, means that Vault carried the      *)
(* operation out.  The bodies nobody looks into are the exception: a 404   *)
(* of read_crl, raft_snapshot or metrics_json comes back as their data.    *)
SuccessIsReal ==
  \A i \in DOMAIN stack :
    stack[i].result = "ok" =>
      \/ stack[i].done > 0
      \/ stack[i].reply = "notfound" /\ stack[i].request.via \in {"raw", "untyped"}

(* Vault carries an operation out at most once more than the settings of   *)
(* the builder asked for retries, whatever their order: the last one that  *)
(* names a number counts, cli_mode names zero and its absence nothing.  A  *)
(* snapshot is restored at most once.                                      *)
RepeatsAsConfigured ==
  \A i \in DOMAIN stack :
    stack[i].done <= 1 + (IF stack[i].request.via = "restore" THEN 0 ELSE limit)

(* No request outside auth/ goes out unchecked, though a secret may be     *)
(* called .../login; only raft_snapshot_restore does.                      *)
SecretsAreChecked ==
  \A i \in DOMAIN stack :
    stack[i].step = "send" /\ ~ stack[i].request.path.auth =>
      stack[i].checked \/ stack[i].request.via = "restore"

(* The client's token is replaced by set_token, or while a call has its    *)
(* token checked, or by the answer to an operation that is there to log    *)
(* the client in or to renew it, on whichever handler, mount or path; a    *)
(* token made for someone else (create, create_orphan), which comes back   *)
(* in the same auth field, never becomes the client's.                     *)
TokenOnlyFromLogins ==
  [][token' # token =>
       \/ token' = Plain /\ (stack' = stack \/ At_("callback"))
       \/ token' = [token EXCEPT !.due = TRUE]
       \/ At_("update") /\ (Top.reply = "none" \/ Top.request.for = "client")]_vars

(* A call of a client whose AuthMethod is the library's, or that has none, *)
(* comes to its end, also through renewal, login, retries and callbacks.   *)
CallsEnd ==
  (Running /\ client.method # "custom") ~> ~ Running
=============================================================================
