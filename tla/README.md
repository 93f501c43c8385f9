# A verification project for vault-client-rs

TLA+ models of `vault-client-rs` (a Rust client for HashiCorp Vault), from its
concurrent core to the catalogue of its operations, the TLC runs that check them
on small instances, and TLAPS proofs of the safety properties for every value of
the constants. Paths are
relative to `src/crates/vault-client-rs/src/`.

## 1. The system

`VaultClient` is a cheap clone of an `Arc` around one `VaultClientInner`. Every
clone and every view (`with_namespace`, `with_wrap_ttl`) shares the same token,
circuit breaker, renewal mutex, HTTP client and configuration, and any number of
tasks use them from any number of threads.

| Component | State | Operations | Talks to | What makes it correct |
|---|---|---|---|---|
| Circuit breaker (`circuit_breaker.rs`) | `Mutex<State>`: Closed with a counter, Open or HalfOpen with an instant | `check`, `record_success`, `record_failure` | called by `execute_raw` | no failure lost or counted twice; probes are `reset_timeout` apart; it always recovers |
| Request execution (`client/async_client.rs` 856-1043) | per call: attempt, backoff | `execute_raw`, `send_with_retry` | breaker, HTTP, Vault | attempts bounded; every call ends; one result per call reaches the breaker |
| Token lifecycle (same file, 545-603 and 737-852) | `RwLock<Option<TokenState>>`, `renewal_lock` | `ensure_valid_token`, `renew_token_via_api`, `try_re_authenticate`, `set_token`, `update_token_from_auth`, the callback | request execution, auth handlers | one shared renewal; no request with a token that could have been refreshed; every new token announced |
| Token daemon (`renewal.rs` 62-110) | one task, its cancellation | sleep, renew, log in again | token lifecycle, without the renewal lock | renews before expiry; stops when told |
| Lease watchers (`renewal.rs` 117-383) | one task per lease, channel of 16 events, cancellation | `watch_lease`, `watch_lease_events`, `watch_lease_rotate`; `recv`, `shutdown`, drop | `renew_lease`, the application's `rotate_fn` | bounded rotation; no silent lapse; `Expired` is last; the task stops |
| Client builder (`client/async_client.rs` 70-360) | configuration | `from_env`, the setters, `cli_mode`, `build` | all | later settings win, whatever the order |
| Views | header overrides | `with_namespace`, `with_wrap_ttl`, `inject_headers` | token lifecycle | an override reaches every request of the view and no other |
| Response decoding (same file, `exec_*`) | none | one function per shape of answer | handlers | success means Vault did it |
| KV v1, KV v2 (`api/kv1.rs`, `api/kv2.rs`) | none in the client | read, write, `write_cas`, patch, versions | Vault | no lost update with cas, repeats do no harm, honest outcomes |
| Auth handlers and auth methods (`api/auth/`) | credentials | `login`, role management | token lifecycle, re-entering `execute` | a login leaves its token in the client, other tokens do not; a login never waits for its caller |
| Secret engines, system backend, operation traits | none | one request per operation | `execute` | path, method, body |
| Blocking client (`blocking/`) | a runtime | `block_on` | asynchronous client | same operations, same results |
| Types, redaction | none | (de)serialisation, `Debug` | all | secrets are not printed |
| Test doubles (`vault-client-rs-test`) | a map of secrets | mock KV v2 | users' tests | agrees with the client |

Hard behaviours: shared mutable state touched by many tasks between awaits, late
results, cancellation at any await (futures are dropped), timeouts and retries,
a mutex held across network calls, bounded channels, and the clock. Nothing is
persisted, so there is no crash recovery. `PROJECT.json` lists each hazard at
its line with the properties that would catch it.

## 2. Modules

| Module | Models | Uses |
|---|---|---|
| `AdmissionGate` | abstract: a gate that is shut or not, with a minimum spacing of the requests let through while shut, which only the failure of a request it let through can hold shut for longer. No code; the promise the breaker keeps. | |
| `CircuitBreaker` | `circuit_breaker.rs` with the calls that go through it. | refines `AdmissionGate` |
| `RequestExecution` | `execute_raw` and `send_with_retry`. | its breaker is an instance of `CircuitBreaker`, whose actions it uses and whose specification it refines |
| `TokenService` | abstract: who asks for a token is served once it is good, and every token installed is owed to the callback. No code. | |
| `TokenLifecycle` | the token, its lock, callers, logins, callback, daemon as a writer. | refines `TokenService` |
| `LeaseEvents` | abstract: the order of the events an owner reads. No code. | |
| `LeaseWatcher` | the four background loops of `renewal.rs`, the handles and the channel. | refines `LeaseEvents` |
| `Endpoints` | every operation of the async and blocking handlers, as the request it makes. No state. | |
| `ClientSession` | builder, `build`, and whole calls: check of the token, nested login, callback, attempts, decoding. | extends `Endpoints` |
| `SecretRegister` | abstract: what callers of the KV v2 handler may rely on. No code. | |
| `Kv2` | several callers of `api/kv2.rs` and Vault's versions of one secret. | refines `SecretRegister` |
| `*Proofs` | theorems and proofs. | extend their module |
| `MC*` | instances for TLC. | extend their module |

The request path is described at four levels on purpose: `ClientSession` follows
one call at a time through everything, and leaves out concurrency, statuses and
pauses; `TokenLifecycle` has the concurrent callers of its first part,
`RequestExecution` those of its second; `Kv2` shows what the repeated attempts do
to Vault's state.

**CircuitBreaker.** Each method locks the mutex for its whole body, so each is one
action; `check` is three (`AdmitClosed`, `AdmitProbe`, `Reject`), `record_failure`
one operator per variant. `Abandon` is an admitted call whose future is dropped,
or that fails between `check()?` and the first send: nothing is recorded. Time is
`elapsed`, which stops at `ResetTimeout` because the code compares it with
nothing else; there is no horizon. `streak` and `sinceProbe` are history.

**RequestExecution.** A step runs from one await (`send`, `sleep`) to the next.
Vault's answer is any member of `Responses`: each HTTP class of the match in
`send_with_retry`, a timeout or failed connection (`Timeout`), and any other
transport error (`Broken`). Bodies, headers and paths are abstracted. `streak`,
`sinceProbe`, `sends` and `outage` are history.

**TokenLifecycle.** `pc` says where each task is between two awaits or between
two accesses to the token: `waiting` for the mutex, `renew`/`renewing`/`renewed`
in `renew_token_via_api`, `reauth`/`login_handler`/`logged_in`/`applied_again` in
`try_re_authenticate` (the handler applies the auth block and calls the callback,
then `try_re_authenticate` does both once more), `ready`/`sent` in the request
itself. The callback is a step of its own because the code drops the write guard
first. Tokens are numbers; `left` counts down to the expiry. `RenewedNothing` is a
renewal answered with success and no auth block, which the code takes for done: any
task can meet it (a 404 is enough), and a task in `Wrapped`, which uses a view with
a wrap TTL, meets it whenever its renewal does not fail. History: `announced`;
`unrefreshed`, the callers whose call began with a due token nobody has replaced;
`confirmed`, those Vault told that their renewal is done without giving a token;
`shared`, that the last renewal by a caller brought a token which has not been due
since.
`TokenService` has neither locks nor requests: a caller that asked while the token
was due is `needy` until some task has installed another, and only then `served`;
who goes on with the token there is because its renewal was confirmed is `trusted`,
which the specification keeps apart. What a task installs is `owed` until announced.

**LeaseWatcher.** The four loops (mode `token` is `start_token_renewal`, the
others `watch_lease`, `watch_lease_events`, `watch_lease_rotate`) differ in a few
guards on `mode`. The token daemon sleeps as long as the token it finds says, polls
when there is none or it never expires, and logs in after a failed renewal. A tick
is a second. The clock does not pass a task whose timer has fired or that has been
cancelled; a task at `tx.send` or waiting for Vault lets it pass. `life` is
Vault's own countdown of the lease. `last` and `rotations` are history.
`LeaseEvents` is the owner's side: every `Error` is resolved by one `Rotated` or one
`Expired` before anything else is said, and nothing follows `Expired`.

**Endpoints.** An operation is a name, an HTTP verb, the function of
`async_client.rs` that runs it and the part of the answer its handler needs (`via`),
whether the handler then passes the auth block to `update_token_from_auth`
(`applies`), and where its path lies (`area`): that is
all the client's own decisions depend on. Handlers of the same shape share a
definition (`Issuer` for consul, nomad, azure, terraform); the blocking handlers
are the async ones run to their end.

**ClientSession.** The builder's settings come in any order, from the environment
or the setters, until `build`. A call is a record on `stack`; an `AuthMethod`'s
login is a call on top of the call that needs it, through the same view.
`renewalLock` and `tokenLock` are the client's two locks, the second with its
`std` poisoning. A callback may return, call `set_token`, or panic. `TakesOver` is
what a handler does with the auth block (`applies`); whose token that is says
`TokenFor`, by the name of the operation alone, and `TokenOnlyFromLogins` compares
the two. `Decodes` is what the `exec_` functions make of a full body, an empty one, a 404 and a wrapped one. `asked`
and `limit` (the settings about retries, and what they ask for in the end) are
history, `done` counts executions Vault knows of and the client cannot.
`CustomCalls` are what an `AuthMethod` of the application's own calls.

**Kv2.** A call is one operation, or an update: `read`, then `write_cas` with the
version read. `Request` is what the handler sends; `net` holds attempts under
way, each of which arrives once, at any time, or never. Vault's side (versions,
check-and-set, merge, soft deletion, destruction) is modelled from what the
requests ask for and marked external in the map. Data are fields that hold the
name of the call that wrote them: enough to tell whose write was lost. `took` and
`old` are history.

Operators described as "a variant of" another are plausible mistakes in that
action; none is part of a specification. Each shows which property would notice.

## 3. Runs

| Run | Instance | Result |
|---|---|---|
| `circuit_breaker` | 3 requests, threshold 2, timeout 3 | the counter is exact, probes are spaced, the breaker recovers, and it implements `AdmissionGate` |
| `request_execution` | 2 requests, 2 retries, threshold 2, initial delay 0 or 1, `Retry-After` up to 3 | a pause can always be drawn, the budget, `is_retryable` and the retry loop agree, calls end, and the step-by-step behaviour is one of `CircuitBreaker` |
| `token_lifecycle` | 2 callers (one wrapped) and the daemon, 2 tokens, leases 0 and 1 | renewals exclusive and shared, tokens refreshed before use (or their renewal confirmed by Vault) and announced, calls end, and it implements `TokenService` |
| `lease_watcher` | all four modes, ttl 0 or 4, jitter up to 2 s, poll 3 s, channel of 2 | the daemon keeps trying, rotation is bounded, `Expired` is final, no silent lapse, the task stops, and its events are a `LeaseEvents` stream |
| `client_session` | 3 settings, `max_retries` 1, all 464 operations, 3 nested calls | locks are released, library logins do not re-enter, success is real, repeats are as configured, only operations there to log the client in or renew it replace its token, calls end |
| `kv2_store` | 3 calls of 8 kinds, 2 fields, 1 retry each | no update lost, destruction final, outcomes honest, and it implements `SecretRegister` |
| `breaker_on_refusals` | as `request_execution`, 1 retry | **violated**: 401, 403 or 400 from a healthy Vault opens the circuit ("Vault appears unreachable") |
| `set_token_sticks` | 1 caller and the daemon | **violated**: a late renewal reply restores the token `set_token` replaced |
| `wrapped_renewal` | 1 wrapped caller | **violated**: renew-self through a wrapping view renews nothing the client can use, and no login follows; an answer without an auth block does the same to any caller |
| `lease_shutdown` | channel of 2, ttl 2 | **violated**: `shutdown()` hangs on a full channel |
| `short_lease` | ttl 10, jitter up to 4 s | **violated**: the watcher wakes after expiry |
| `expired_event` | ttl 6 | **violated**: `Expired` for a lease that is still alive |

**Bounds.** Three requests let a probe meet two older requests that end late; two
callers plus the daemon are every pair that can race for the lock and a third
that ignores it. Two retries separate first, middle and last attempt. A channel
of two has the empty, partly filled and full states of the code's sixteen; full
is what matters and it is reached. Leases of one tick are due at once and expired
one tick later, leases of zero never expire: the branches of
`token_needs_renewal`; the due-but-alive fifth of longer leases is covered by the
proofs, which hold for every lease. A ttl of 0 takes the `MIN_RENEWAL_SLEEP`
branch. `MaxTokens` stops the run after two tokens: enough for an old one to
come back.

`client_session`: `max_retries` 1 next to the default 2 and the 0 of `cli_mode`
are three different budgets, and three settings put `cli_mode` before, after and
on both sides of `max_retries`. Operations collapse to the distinct triples of
decoding, kind of path and client, so all of the catalogue is run. Three calls on
the stack are one more than a library login makes; a custom `AuthMethod` that
calls a checked endpoint nests further, and stops there. `kv2_store`: two
concurrent updates and a third call that deletes, destroys or overwrites between
them is the least that loses an update; one retry makes the duplicate that
arrives late; two fields tell a merge from an overwrite. Calls and fields are
symmetric, and its properties are invariants and a safety refinement, so the
symmetry is sound.

Deadlock is checked except where the system may stop: in `LeaseWatcher` the task
has ended and the owner is gone; in `ClientSession` a builder never got an address,
or a custom login waits for the lock of its own caller; in `Kv2` all calls are over.

`token_lifecycle` sets an auth method; without one the failed renewal ends the
call (`RenewFailed`), a branch `set_token_sticks` explores and the proofs cover.

**Fairness.** Tasks are polled (tokio); time passes; a request ends, because the
`reqwest` client the builder makes has a timeout (60 s by default) - an
application that passes its own client without a timeout gives this up. In
`token_lifecycle` the mutex is strongly fair: tokio's mutex serves waiters in
order, so one that waits while the lock is free again and again gets it. No
application action is assumed, except in `circuit_breaker` (requests keep coming,
as recovery needs a probe) and `lease_watcher` (an owner that keeps the watcher
receives; `lease_shutdown` shows what happens once it stops).
`ClientSession`'s fairness is that of the call's own steps (`Step`): polled,
answered or timed out, and a callback that returns or panics; neither new
calls nor `set_token` nor cancellation are assumed. `Kv2` has none: its properties
are safety. `Recovers` assumes that from some time on no request fails and none is dropped
while the circuit is tripped.

## 4. Proofs

All assume only what the modules' `ASSUME`s say of the constants: thresholds,
timeouts, leases are naturals, the daemon is not a caller, `"free"` is not a
task's name, `Nobody` is not a call,
an AuthMethod of the user's calls operations of the catalogue.

* `CircuitBreakerProofs`. The invariant adds `WaitsSinceProbe` to the properties:
  a tripped circuit's clock never runs ahead of the time since its last probe,
  since both `check` and `record_failure` restart it. Without it the spacing
  is not inductive: the guard of `AdmitProbe` tests the clock, the property the
  time since the probe. Theorems: `TypeCorrect`, `CountingCorrect`,
  `SpacingCorrect`, `Refinement`: every step is a step of `AdmissionGate`
  or changes nothing the gate has, and `RecoveryNeverStops`: while nothing fails
  or is dropped, each request that ends closes the circuit, the clock restarts only
  for a request on its way, and none is refused once the clock has run out.
* `TokenLifecycleProofs`. The invariant adds to types and lock ownership that a
  caller is unrefreshed only while the token is due and it has itself written
  none (so writing, and time passing, are all that matter), that a shared renewal's
  token is not due and no caller is past the second look at it (`SharedIsGood`,
  `SharesRenewal`), that only callers past their renewal are confirmed
  (`ConfirmedArePast`), that a waiter has
  seen a token (so the second look, `is_some_and`, cannot pass an absent one for
  a good one), and that whoever announces has an auth block. Theorems:
  `TypeCorrect` (with: the mutex belongs to a caller inside `ensure_valid_token`,
  whatever failed or was dropped), `RenewalsAreExclusive`, `RenewalsAreShared`,
  `CallsUseFreshTokens`, `AnnouncementsAreComplete`, and `CallersAdvance`: a call is
  over after at most ten moves, and who has the lock never waits for it, keeps it
  until it leaves `ensure_valid_token` and leaves it free.
* `TokenServiceProofs`. `Refinement`: every step is a step of `TokenService` or
  changes nothing the service has. What is needed is that a task on its way to the
  callback has the value it owes in `auth` (`OwedFacts`), and that a value may
  be owed by two tasks at once, since a login is announced twice.
* `RequestExecutionProofs`. `SentInStep`: the loop variable and the attempts
  really sent go in step, and who waits for an answer is awake. No guard bounds
  the attempts themselves, only the loop variable is compared with `max`.
  Theorems: `TypeCorrect`, `SendsAreBounded`, `RetriesAreUsedUp` (a retryable
  error is returned only from the last attempt), and `CallsAreRecorded`: the
  loop, step by step, is a behaviour of `CircuitBreaker`, so what is proved of
  the breaker holds under `execute_raw`. `PausesExist` and `BackoffGrows` are about
  the arithmetic of the backoff, for every delay and attempt: no range a pause is
  drawn from is empty, none goes beyond `MAX_BACKOFF`, none is shorter than the
  one before, and, unless the delay is zero, the one before retry n holds every
  pause below n and the cap. They need powers of two with the attempt as exponent, so
  `pow2` is a recursive function whose existence is proved (`Pow2Def`), by an
  induction over sets of naturals that rests on the well-foundedness of `<`.
  `CallsProgress`: each step of a call lowers its rank (attempts left, then
  pause left) or ends it.
* `LeaseWatcherProofs`. `CountedByAttempt` ties the calls of `rotate_fn` to the
  loop's `attempt` at every await, `ErrorComesFirst` says that a task between a
  failed renewal and its resolution has reported the error last, `NothingPending`
  that no error is unresolved anywhere else in the loop, `ExpiredEnds` that a task
  which sent `Expired` is done. Theorems: `TypeCorrect` (which bounds the channel),
  `RotationsAreBounded`, `ExpiredIsLast`, `StreamIsImplemented` (the refinement of
  `LeaseEvents`), `CancelledTaskWindsDown` (a cancelled task passes at most eleven
  more awaits), and `LongLeasesAreRenewedInTime`: if every lease is longer than a
  second and than three times the jitter (rounded up to seconds, 15 s in the code),
  `watch_lease` always wakes before the expiry. The run `short_lease` is what
  happens below that; the bound is about `watch_lease` only, as a watcher that
  reports events may wait for room in the channel before it sleeps.
* `Kv2Proofs`. An update's write goes out long after its read and may be carried
  out long after the call is over, so the invariant ties a call to the versions it
  knows of: what an update read is what that version holds (`ReadVersions`), a
  named version exists (`NamedVersions`), a destroyed one is still destroyed
  (`DestroyedVersions`), all until the metadata are deleted; and `AnswersTell`
  says what an answer, or an attempt still under way, tells of the effect.
  `OtherFieldsKept` is then inductive: cas fits only on top of the version read,
  and the contents of versions never change. Theorems: `TypeCorrect`,
  `NoLostUpdate`, `DestructionHolds`, `OutcomesHold`.
* `Kv2RefinementProofs`. `Refinement`: the handler with its retries implements
  `SecretRegister`. The bound on the versions a call makes needs `Counted`
  (versions made and requests under way are together no more than attempts) for
  plain writes, and `CasFollows` (an update's version is the one after the version
  it read, so there are not two) for check-and-set.
* `ClientSessionProofs`. Calls nest to any depth and a user's AuthMethod may call
  anything, so the invariant says of every call of the stack what its place in the
  call means: how often it was carried out (`CountedRight`), whose token it is
  about to store (`StoredRight`), what stands behind its result (`EndsRight`),
  whether it may hold renewal_lock (`HoldsRight`) and whether it was checked or
  needs no check (`CheckedRight`). `Holders` is the set of calls that hold
  renewal_lock: at most one, and the lock is taken exactly if there is one. All
  calls below the top wait for a login (`StackSound`), and a builder's retries are
  at any time those its settings so far ask for (`BuilderSound`). That a login of
  the library cannot wait for the lock above it comes from the catalogue:
  `LibraryLoginsFacts` goes through the handlers and finds a path of
  `auth/.../login` for each. That no handler installs a token made for someone else
  comes from it too: `CatalogueRight` goes through all handlers, async and blocking,
  and finds only `login`, `login_jwt` and `renew_self` to apply what they receive. Theorems: `TypeCorrect`, `LocksGetFree`,
  `LoginsDoNotReenter`, `SuccessHolds`, `RepeatsHold`, `ChecksHold`, `TokenHolds`,
  and `CallsMove`: without an AuthMethod of the user's, no call waits for a lock
  of its own, and the steps left to it (logins below it included, at most 21 and
  two for each retry) become fewer with each it takes.

Every invariant, action property and refinement of the passing runs is proved.
Only model-checked is liveness, since fairness and `ENABLED` are beyond the prover.
What is proved for most of it is the part that depends on the code, that every
step leads nearer to the end; TLC adds, on the small instances, that fairness makes the
steps happen:

| Liveness (TLC) | Its safety core (TLAPS) |
|---|---|
| `RequestExecution!CallsEnd` | `CallsProgress` |
| `TokenLifecycle!CallsEnd` | `CallersAdvance` |
| `ClientSession!CallsEnd` | `CallsMove` |
| `LeaseWatcher!DropStopsTask`, `ShutdownEndsUnlessFull` | `CancelledTaskWindsDown` |
| `CircuitBreaker!Recovers` | `RecoveryNeverStops` |
| `LeaseWatcher!LapseIsNoticed`, `DaemonKeepsTrying` | none |

## 5. What is not modelled

* **Types, redaction, errors** (`types/`): data definitions, serde attributes and
  `Debug` output; of the errors `is_retryable` is in `RequestExecution`.
* **Operation traits** (`api/traits.rs`): signatures of the operations that
  `Endpoints` lists where they are implemented.
* **Test doubles** (`vault-client-rs-test`): programmed answers and a log of
  calls, `unimplemented!` otherwise.
* **Builder settings that only reach `reqwest`**: TLS material, timeouts,
  proxies. **Namespaces** change one header of otherwise equal requests.
* **Parameters and bodies** of the operations in `Endpoints`, and Vault's
  `max_versions`.
* **The backoff's overflow**: `Backoff` computes with naturals in whole ticks;
  `saturating_pow`, `checked_mul` and the cut to milliseconds are left out, and so
  are the `Config` error of a body that cannot be cloned (JSON bodies always can)
  and the await in `extract_errors`.
* **Poisoned locks** in `LeaseWatcher` and `TokenLifecycle`: `ClientSession`
  shows that no lock is poisoned by a callback, and no other code under them
  can panic. The breaker's counter could overflow only past
  `failure_threshold`, which `CountsEveryFailure` excludes. In `ClientSession` a
  poisoned lock met after a renewal fails the call, where the code would first try
  to log in; `LocksAreReleased` shows that neither happens.

Observed while reading, and allowed by the models because nothing in the repository
says otherwise:

* `exec_list` through a wrapping view gives an empty list; operations whose
  answer is wrapped or empty may have been carried out and yet report an error
  (`VaultClient::write` of an endpoint that answers 204).
* `read_crl`, `read_crl_delta`, `raft_snapshot` and `metrics_json` return the body
  of a 404 as data; the exception in `SuccessIsReal`.
* A renewal that answers 404, wrapped, or with any 2xx without an auth block
  counts as success; `wrapped_renewal` is the case a setting of the client brings
  about every time.
* Below `auth/`, a role, mount or user whose name begins with "login" takes its
  requests past the token check; the comment in `execute` speaks of logins only.
  `SecretsAreChecked` is about everything else.
* After a login through an `AuthMethod` the token is stored and announced twice:
  by the handler and by `try_re_authenticate`.
* A deleted secret reads as `NotFound`, which hides the version `write_cas`
  would need; and after `delete_metadata` versions count from 1 again, so an
  old `cas` may fit a new secret (the exception `old` in `Kv2`).
* `cli_mode(true)` after `max_retries` overwrites it, and a later
  `cli_mode(false)` leaves the retries at 0. An empty `VAULT_TOKEN` hides the
  token file.
* An `AuthMethod` of the application's own that calls anything but a login from
  under the renewal lock waits for itself; `LibraryLoginsDoNotReenter` and
  `CallsEnd` are about the library's.
* Wordings: the repository's README has the watcher sleep for two thirds of the
  *remaining* ttl (it is the full one); `watch_lease_rotate` speaks of three
  retries (three attempts); `LeaseEvent::Error` claims rotation errors, which are
  only logged; "Probe failed" in `record_failure` is any failure recorded while
  half-open; `MockKv2::read_field` says it mirrors the handler's and refuses
  values that are not strings.

## 6. Where this could go

A composition of `TokenLifecycle` and `RequestExecution` (attempts of one call
carry the token it was checked with, also after a renewal by another: the one
hazard no property covers), the safety core of `LapseIsNoticed` and
`DaemonKeepsTrying`, the liveness of `Kv2` under a Vault that answers, and namespaces, should the client ever decide anything by them.
