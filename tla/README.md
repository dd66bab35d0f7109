# Verification of upstrah-service

TLA+ modules, TLC configurations and TLAPS proofs for the parts of
upstrah-service that keep state and interleave. Paths below are relative to the
repository; the code is under `src/`.

- [The system](#the-system)
- [Modules and the code they model](#modules-and-the-code-they-model)
- [What the runs check](#what-the-runs-check)
- [Bounds](#bounds)
- [Fairness](#fairness)
- [What is proved](#what-is-proved)
- [Known deviations](#known-deviations)
- [What is not modelled](#what-is-not-modelled)
- [Plan](#plan)
- [Conventions and commands](#conventions-and-commands)

## The system

A Django/FastAPI service. FastAPI endpoints call controllers, controllers call
use cases, use cases call repositories over the Django ORM. Endpoints are
coroutines: a request runs alone from one `await` to the next, and every ORM call
and every call wrapped in `sync_to_async` is an `await` at which other requests
run. There is no transaction around a request, and rows are not locked. Beside
the event loop there are worker threads (`asyncio.to_thread`, `sync_to_async`),
Celery tasks and, in production, several processes. Shared state is in three
places: the database, the Django cache, and objects that live as long as the
process (breakers, the service token, the event bus, client registries).

| Component | State | Operations | Talks to | Hard part | Correct when |
|---|---|---|---|---|---|
| Circuit breaker `common/resilience/circuit_breaker.py` | state, failure count, time of last failure, probing flag, under a lock | `call`, `state`, `_record_failure`, `_record_success` | HTTP client | the function runs with the lock free, so old calls end late | failures open it, one spaced probe tests it, success closes it, it recovers |
| Service token `common/auth/service_token.py` | token, expiry, lock | `get_token`, `_refresh`, `invalidate` | rudra, dispatcher | lock-free reads of two fields written one by one | one refresh at a time; what is served is fresh; empty for a reason only |
| HTTP client and dispatcher `common/services/http_service.py`, `dispatch.py` | registry of clients, one breaker each | the dispatchers' operations, `_request`, `_post`, `get_instance`, `request` | breaker, token | registry read without its lock; which credential goes out; what each way of failing turns into | one breaker per service; the right identity; events never raise; errors answered do not open the circuit |
| Snowflake `common/utils/snowflake.py` | last timestamp and sequence | `__next__`, `from_snowflake`, `generate_snowflake` | models | clock set back; several generators | unique, increasing, decodable |
| OTP login `accounts/api/application/use_cases/auth_use_cases.py`, `otp_use_cases.py`, `accounts/admin.py`, `common/auth/otp/handler.py` | OTP row, PhoneNumber and User rows, two cache counters | `send_otp`, `verify_otp`, admin `create`, `delete`, the admin site | dispatcher, sessions | read, await, write with no lock, and an administrator in between | limits hold; a spent code stays spent; a phone has one user |
| Sessions `common/auth/jwt/handler.py`, `token_version.py`, `dependencies.py`, `auth_use_cases.py` | blacklist and token version in the cache | login, `refresh`, `logout`, `bump`, `get_current_user` and the other dependencies | cache, users | whole seconds against a clock with fractions; checks before awaits | logout is final; refresh tokens rotate; a request that begins after a change is refused with a token from before |
| Rate limiting `common/middleware/ratelimiting.py` | counters per minute and hour in the cache | `FastAPIRateLimitMiddleware` | cache | get, compare, set is not atomic; counters have a life of their own | no more than the limit in a window; who is refused had its share |
| Academies, memberships `academies/api/...` | academy, sports relation, membership | create, replace, patch, delete, get, list, walk; apply, approve, reject, list; bulk delete and patch | repositories, admin | one use case is several transactions | a request answered 404 has changed nothing; what is deleted stays gone; one membership per user and academy |
| Events `common/events/base.py` | list of handlers | `subscribe`, `unsubscribe`, `publish`, `publish_sync` | any | the list changes while it is iterated | every handler subscribed all along is called, whatever another raises |
| Celery dispatch `common/services/celery_dispatcher.py`, `common/observability/celery_signals.py` | pending on-commit callbacks, messages, trace ids | `_enqueue`, `_enqueue_bulk`, `enqueue_on_commit`, worker signals | broker, transactions | commit, rollback, partial failure, retries | run after the commit, in order, under the right trace |
| Base repository, pagination `common/api/base_*.py` | rows | create, update, delete, bulk, cursor pages | all use cases | pages read while rows change | no row that stays is skipped or repeated |
| User profiles `accounts/api/application/use_cases/user_profile_use_cases.py` | profile rows | get-or-create, upsert | base repository | create races create | one profile per user |
| Single-use tokens `common/auth/sso/*.py`, `password_reset_handler.py` | nonces in the cache, JWKS cache | issue, consume | cache | get then delete | consumed once |

The interactions that matter: the dispatcher asks the token manager for a
credential and calls through a client whose breaker may reject (composed in
Outbound); a use case writes rows, publishes events whose handlers enqueue tasks,
and the tasks are about these rows (composed in Background); a successful
`verify_otp` ends in the minting of a token pair, which is the login step of
Sessions; new users take their user names from `generate_snowflake`. The places
where these go wrong and a test would hardly look are listed in PROJECT.json
under `hazards`.

## Modules and the code they model

**CircuitBreaker**, **BreakerPromise**. The threads that share one breaker. The
lock is held for the admission test in `call` and for each of the two record
functions, so a call is two atomic steps with anything in between: `Admit`,
`AdmitProbe` or `Reject` (the three values of `_effective_state`), later
`RecordFailure`, `RecordSuccess` or `Escape`, an exception that
`expected_exceptions` does not list and of which nothing is recorded. The code
only compares ages with `recovery_timeout`, so ages saturate there. `probeAge`
and `leaked` are history variables: the time since a probe was admitted, and
whether the probing flag is up with no call left that will take it down.
BreakerPromise is what the service behind the breaker relies on: a tripped
breaker lets a call through only after a full timeout with neither a failure nor
a probe, only a failure trips it, only a success untrips it. CircuitBreaker
refines it with `tripped <- state = "open"`, `quiet <-` the smaller of the two
ages, `passed <-` the threads in flight.

**ServiceToken**. `get_token` at the granularity of its shared reads and writes:
`Peek` and `CheckExpiry` are the two reads of the lock-free `_is_fresh()`,
`ReturnCached` the third; `Acquire`, `RecheckHit`, `StartRefresh`, `StoreToken`,
`StoreExpiry`, `ReturnRefreshed` and `RefreshFails` are the locked path with the
two assignments of `_refresh` apart. A token is the instant it expires at. An
answer has a readable expiry or falls to the floor of `_compute_expiry`, which
is taken to be conservative, as the code calls it; or its `access_token` is empty,
which the code stores like any other, with an expiry of its own. A round trip takes
less than a tick, so the `expires_in` of a response means the same as `exp`.
`emptiedBy`, `expiryOf`, `emptied` and `misled` are histories: why there is no
token, what the expiry came with, and what a call has run next to.
**TokenPromise** is what its callers rely on: a call is answered with a token
whenever one is held at that moment, and a token is given up by one of two events
only, `Invalidate` and `ObtainEmpty`, each of which leaves its name in `cause`.
ServiceToken refines it with `held <-` the token field is set and `cause <-
emptiedBy`, so that a refresh that cleared the field on its way would be refuted.

**OtpLogin**. One phone number. Each awaited query of `send_otp`, `verify_otp`
and the admin use cases is a step; the synchronous cache counters go with the
code around them. A code is what a row is given at one time, its digits and its
`expires_at`; codes are numbered as they are given. Generated digits are new; an
administrator may supply any digits there have been and any expiry (`Supplied`, and
`CodeExpires`, which may come at once). A guess is any digits drawn so far, or 0.
`Save` is Django's `save()`: an UPDATE by primary key, an INSERT when the row is
gone, an IntegrityError when another row has the phone. The admin site adds and
deletes users, with the cascade to their PhoneNumber, gives the phone to another
user, and edits the OTP row (`SiteAddUser`, `SiteDeleteUser`, `SiteEditPhone`,
`SiteEdit`). Codes and counters expire at any moment, and any query may fail and end
its request (`Fail`). `history` records what the properties ask about: deliveries and
misses per life of their counter, codes no longer stored, codes accepted, what was
spent when a request started, and the owners the phone has had while it ran.

**Sessions**. Token pairs of one user with the half seconds that `exp` and the
cache's time to live are cut to: `clock` counts ticks, `Tps` to the second.
`StartRefresh`, `FindUser` and `Rotate` (or `RotateFails`) are `refresh` with its
awaits, `StartLogin` and `LoginPair` the end of `verify_otp`, `Logout` the whole
of `logout` (it does not await), `Grant` the minting of a service's or a partner's
token, `Bump` an authorisation change. `StartRequest` is a dependency up to its first
await, with the types of token it takes (`AnyPrincipal`, `ServiceOrUser`,
`PartnerOrUser`, `UserOnly`). `get_current_user` then reads the version in a worker
thread (`ReadVersion`) and resumes later with what was read (`Gate`); the other
dependencies do not read it. The cache keeps an entry until its time to live is over.

**SnowflakeId**, **SnowflakeGenerator**, **GenerateSnowflake**. SnowflakeId has the
bit fields as arithmetic on powers of two, and the decision of `__next__`.
SnowflakeGenerator is a generator that is kept, or resumed by `from_snowflake`, under
a wall clock that may be set back. GenerateSnowflake is the function the models call:
a new generator each time, instance 0, retries with a sleep of one millisecond,
`RuntimeError` in the end; calls overlap. Time runs in fractions of a millisecond, of
which a generator reads whole ones: `int(time() * 1000)`.

**Academies**, **Responses**. A request of `academies/api` from its schema to its
answer. Schemas, DTOs, entities and mappers are sets of records and functions between
them; a use case is the sequence of its awaited queries, and the requests interleave
between any two of these. A query is atomic, with the transaction Django opens around
a `delete()` and around `aset()`. `save()` on a loaded instance is an UPDATE of the
named columns that raises when the row is gone. The administrator deletes sports and
users, with the cascades of the models, at any moment. Responses has the statuses the
exception handler gives to exceptions. `stamp`, `wrote`, `disturbed` and `throughout`
are what the properties ask about: whether `updated_at` has moved, whether the
request has written, whether somebody changed the sports it set, which rows a walk
over the pages must show.

**Outbound**. A thread that serves a request, or runs a task, calls an operation of a
dispatcher: it runs in a context of its own, which holds a user's token only if the
middleware let the request in (`EnterWithUser`); it builds the headers (the user's
token of its context, else the service token, else none), looks the client up in the
registry (`LookUp` without the lock, `LockRegistry`, `BuildClient`, `ReadRegistry`),
and calls through the client's breaker, whose actions are those of CircuitBreaker
instantiated with these callers. The token manager is TokenPromise, which
ServiceToken is proved to implement, so the composition needs none of its steps.
`work`, a history, is what a caller is at, said by how it came in and not by its
context; `silent`, another, is how many transport errors came since the service last
answered.

**RateLimit**. `FastAPIRateLimitMiddleware`, each `get` and `set` of the cache a step
of a worker; either call may raise, and then the request passes. (The Django
middleware has a limiter too, which never runs: see [Known
deviations](#known-deviations).) A window is the quotient of the clock by its length,
a part of the key; a counter is kept for two windows. `through` remembers what was
let through, `disturbed` which clients had overlapping checks or met a failure. Its
names carry a prefix (`LimitInit`, `LimitNext`, `LimitSpec`, ...), and so do those of
GenerateSnowflake (`CallInit`, ...), so that one module of proofs can extend it
beside another component.

**Background**. Units of work (a request on the event loop, or synchronous code in
`transaction.atomic()`) write a row, publish an event and ask for tasks; handlers
come and go in the live list that `publish` walks by position; commit hooks send the
tasks of a transaction, one after the other, and the broker may fail any of them;
workers run messages under the trace they carry, and Celery may try one again. The
list holds a handler once at most: a handler subscribed twice would be called twice,
and nothing in the repository subscribes one twice.

| Module | Code |
|---|---|
| CircuitBreaker | `CircuitBreaker.call`, `_effective_state`, `_record_failure`, `_record_success`, `state` |
| ServiceToken, TokenPromise | `ServiceTokenManager` |
| OtpLogin | `AuthUseCases.send_otp`, `verify_otp`; `OTPUseCases.create`, `delete`; `OTPHandler` counters; `OTPRepositoryImpl`; `AuthRepositoryImpl.get_or_create_user_by_phone`; `OTP`; the admin site of `accounts/admin.py` |
| Sessions | `JWTHandler`; `AuthUseCases.refresh`, `logout`, `_build_token_pair`; `TokenVersionService`; `get_current_user`, `get_current_principal`, `require_user`, `require_service_or_user`, `require_partner_or_user` |
| SnowflakeId, SnowflakeGenerator, GenerateSnowflake | `Snowflake`, `SnowflakeGenerator`, `generate_snowflake` |
| Academies | endpoints, controllers, schemas, DTOs, mappers, entities, use cases and repositories of `academies/api`; `Academy`, `Membership`; `BaseRepository`, `BaseUseCase` as they use them |
| Responses | `AppBaseError` and its subclasses, `UniversalExceptionHandler` |
| Outbound | `ServiceDispatcher` and its subclasses, `HttpClient`, `FastAPIJWTMiddleware`, `set_user_token` |
| RateLimit | `FastAPIRateLimitMiddleware` |
| Background | `EventDispatcher`, `BaseCeleryDispatcher`, `celery_signals`, the trace id of the logging middlewares |

## What the runs check

| Run | Question | Outcome |
|---|---|---|
| MCCircuitBreaker_breaker | Is the breaker open exactly when the threshold is reached, whatever late calls do? Is BreakerPromise implemented? Does the breaker recover? | yes; recovery unless a probe escapes |
| MCServiceToken_token | One refresh at a time? Is what the cache serves fresh? When is it empty? Is the lock released? Is TokenPromise implemented? | yes; empty only after `invalidate()` or an empty answer of rudra, and it may be stale next to the expiry of such an answer |
| MCOtpLogin_login | Misses and deliveries bounded, spent codes spent, stale saves harmless, owner kept, with an administrator and failing queries in between? | yes; only the admin site makes a phone change hands, and it may give old digits out again, as a new code |
| MCOtpLogin_single_use | Is a code accepted once? | no: two requests read the row before either deletes it |
| MCSessions_sessions | Is logout final, a refresh token exchanged once, a request after a change refused with a token from before? | yes, but for the last second of a refresh token; a change while a request waits for the version may be missed |
| MCSnowflakeGenerator_ids | Do identifiers grow and decode, clock set back, resumption? | yes |
| MCGenerateSnowflake_calls | When does the function raise? Is the order of calls kept? | only when the clock is set back by more than `max_retries` - 1 milliseconds; yes, though two may get the same |
| MCAcademies_rows | One academy under two requests and an administrator: does a request write only the columns it names, has one answered 404 changed nothing, does an answer show the sports it set? | yes |
| MCAcademies_lists | Several academies and memberships: do references hold, one membership per user and academy, does what is deleted stay gone, does a walk show what was there all along, once? | yes |
| MCOutbound_outbound | One client per service, each call in the right name, answers do not open the circuit, events do not raise, does every call end? | yes |
| MCRateLimit_limits | Is the limit kept where checks do not overlap? Had who is refused its share, whatever overlaps and fails? | yes |
| MCBackground_background | Do tasks run after the commit, in order, none forgotten, under their trace? Is every handler called? | yes; not for tasks that a handler of `publish_sync` enqueues inside a transaction |

For each property of a passing run PROJECT.json names a mutant, a definition with
a plausible mistake that stands beside the right one in the module
(`ClearFlag_Forgotten`, `RotationTtl_NotStored`, ...) and that makes TLC refute the
property under the run's own configuration.

## Bounds

- **Breaker**: four threads, threshold 3, timeout 3. The interesting cases need a
  probe, a late call from the closed period and one or two bystanders. The ages
  saturate, so time is not bounded.
- **ServiceToken**: two callers, lifetimes of 2 and 3 ticks, skew 1, five ticks of
  clock: two generations of tokens, an empty one and a failed refresh fit. Two callers
  give a refresher and a lock-free reader; more callers are covered by the proofs.
- **OtpLogin**: two senders, two verifiers and an administrator, any two of them at
  once (`MaxRunning`), so that two sends, two logins, or one of these and an
  administrator overlap; three codes, two rows, two users, four codes and users
  together: a code, its successor and one that repeats old digits, a row and its
  re-creation, a phone that passes from one user to another. With limits of one, one
  request in flight beside another already overshoots. States that differ only in what
  nothing reads any more are not told apart (`View`).
- **Sessions**: two ticks to the second, an access token of one second, a refresh
  token of two; the clock passes the end of an access token and enters the last
  second of a refresh token. Half seconds are enough to tell a floored interval from
  the interval. Six tokens are a login, two exchanges and one token of a service or a
  partner, or another pair. Two clients, one request under any dependency, one change.
  The `View` leaves out how an ended call ended, all of a token that will not verify
  again but what calls carry, and which of service and partner a token belongs to: each
  has a dependency that takes it and one that does not.
- **Snowflake**: a sequence of two numbers, so exhaustion is common; clocks of a
  few milliseconds with a set-back at any time. For the calls, two ticks to the
  millisecond, three retries, and set-backs up to half a millisecond more than two of
  the retries sleep through, which is where `FailsOnlyOnSkew` draws the line.
- **Academies**: two requests, any operation each, again and again. `rows`: one
  academy with two columns of two values (the required one and another), one sport,
  one user, bodies that are whole, partial, empty or invalid: enough for two writers
  of different columns, a deletion under a writer, a sport that vanishes. `lists`:
  two academies, pages of one, two memberships: a walk takes two pages and one row
  can come or go between them.
- **Outbound**: two callers, a breaker that opens after two transport errors and may
  probe after a tick: a call admitted while closed ends during another's probe. One
  service, for services share only the token manager.
- **RateLimit**: two workers, a client seen directly and through a proxy and one
  signed in; minutes of two ticks, an hour of two minutes, limits of two a minute
  and three an hour, four requests: both limits are met and a minute and the hour
  turn over.
- **Background**: two units with two tasks between them (`MayAsk`: a unit that is
  about to ask for k tasks counts them in), two handlers of which one enqueues, one
  worker, one change of the subscriptions, one retry. Two tasks are an order, and a
  unit's task between those of another. How many handlers there are and how often they
  change is left to the proofs.

Counters that code does not bound are bounded by guards named in the constants
(`MaxTime`, `MaxCodes`, `MaxRows`, `MaxUsers`, `MaxMade`, `MaxRunning`, `MaxTokens`,
`MaxGranted`, `MaxClock`, `MaxBumps`, `MaxRevoked`, `MaxIds`, `MaxNow`, `MaxSetBack`,
`MaxAcademies`, `MaxMemberships`, `MaxRequests`, `MaxTasks`, `MaxRetries`,
`MaxChanges`). Symmetry is used for threads, requests and clients in runs without
liveness. Runs over a clock that ends switch the deadlock check off where every call
may be over by then; the others leave it on.

## Fairness

- CircuitBreaker, `FairSpec`: time passes, and a call let through ends, which
  httpx's timeout justifies. Nobody is obliged to make another call.
- ServiceToken, `FairSpec`: a caller inside `get_token` goes on. Threads are
  scheduled, the request has a timeout (`request_timeout`), and nothing between
  taking the lock and releasing it waits for anything else.
- Outbound, `FairSpec`: time passes, and a caller that is inside a call goes on:
  threads are scheduled, the registry's lock is held over nothing that waits, the
  request has a timeout. Entering a call is nobody's duty.

The other specifications have no fairness; their properties are safety.

## What is proved

With TLAPS, for every value of the constants that meets the assumptions the modules
name. Every safety property that a passing run checks is the statement of a theorem:
the run shows it on a small instance, the theorem for any number of threads,
requests, rows, handlers, workers and so on.

| Module | Theorems |
|---|---|
| LimitsProofs (CircuitBreaker) | `TypeCorrect`, `OpenMeansThreshold`, `ProbingMeansOpen`, `HalfOpenProbed`, `ProbeGap`, `BreakerKeepsPromise` |
| LimitsProofs (RateLimit) | `LimitTypeCorrect`, `ClientsHeldToLimit`, `RefusalsAreDue` |
| ServiceTokenProofs | `TypeCorrect`, `SingleRefresh`, `PairConsistent`, `CacheServesFresh`, `EmptyForACause`, `TokenKeepsPromise` |
| SessionsProofs | `TypeCorrect`, `BlacklistCovers`, `LogoutFinal`, `ExchangedOnceOnly`, `ChangeReachesLater` |
| OtpLoginProofs | `TypeCorrect`, `PhoneKeepsUser`, `SpentStaysSpent`, `SendsAreBounded`, `MissesAreBounded` |
| OutboundProofs | `TypeCorrect`, `OneClientOnly`, `InTheRightName`, `OnlySilenceOpens`, `EventsReturn`, `ImplementsBreaker` |
| AcademiesProofs | `TypeCorrect`, `IntegrityKept`, `DeletedForGood`, `ColumnsKept`, `RefusedUnchanged`, `OwnSportsShown`, `WalkComplete` |
| BackgroundProofs | `TypeCorrect`, `NoTaskBeforeCommit`, `FirstAttemptTraced`, `TasksSentInOrder`, `HandlersCalledOnce` |
| SnowflakeProofs (SnowflakeGenerator) | `TypeCorrect`, `Decodes`, `StrictlyIncreasing` |
| SnowflakeProofs (GenerateSnowflake) | `CallsTypeCorrect`, `GivesUpOnlyOnSkew`, `CallsOrdered` |

Two components share a module of proofs where they belong together: both limit
something (LimitsProofs), both rest on the arithmetic of the identifiers
(SnowflakeProofs).

A component has one inductive invariant (`IInv`, `LimitIInv`, `CallIInv`, `Inv`) with
a lemma per group of its conjuncts, or one for each theorem where they need different
things (OtpLogin, Outbound). Some invariants are proved and not model-checked again:
the type invariants of the breaker, the token manager, Sessions, the Snowflake
modules and Outbound, `ProbingOnlyWhileOpen`, `HalfOpenHasProbe`, `ProbesSpaced`,
`PairSettled` and `RevokedIsBlacklisted`. What the properties lack to be inductive:

- **Breaker**: `TimerCoversProbe`, on an open breaker that is not probing the timer
  was restarted at or after the last probe. Without it a full timer says nothing
  about the last probe. `FlagHasOwner`: the flag belongs to a probe in flight or
  has leaked. The refinement needs `TimerCoversProbe` in the probe's step alone.
- **RateLimit**: counters are bounded from both sides by how many requests a set of
  times holds (`HowMany`), and the two properties need one bound each.
  *From above*, whatever overlaps and fails (`UpperOK`): a
  counter is at most the requests let through in its window plus the checks between
  their last `get` and their last `set`, and a count that a check has read is at most
  those let through and those *others* being counted. No step lowers that sum
  (`CountedStays`): a check that stops being counted has its request let through at
  the time it was counted by. A refusal reads a counter that is at its limit, and a
  window is no longer than the span of the limit: `RefusalsAreDue`.
  *From below*, for a client that was never disturbed (`LowerOK`): its checks come one
  by one; as long as a time's requests can still be joined by another, the counter
  that holds them is there, is kept long enough and counts all of them
  (`KeptFor`); what the running check has read (`ReadAll`) and written (`HasWritten`)
  counts them too. A check ends before its minute is over and a counter lives for two
  windows, so no counter runs out under a check: that, with `Minute <= Hour`, is where
  `TimeAssumption` and the guard of `ClockTicks` are used. `CountsOK` (a counter and
  the checks still to write it are no more than the requests that have arrived) is
  for the type invariant alone.
- **ServiceToken**: the lock's holder is the caller in the critical section; the
  pair is settled unless a caller is between the two writes, or both came with an
  empty answer; while a refresh is under way the stored expiry is stale (`StaleInv`),
  which is why a lock-free reader that sees a new token with an old expiry is sent to
  the lock; a caller past its test will return something that outlives the test
  (`FreshInv`). The expiry of an empty answer is the exception to both, and every call
  that runs next to it is marked (`HollowInv`). `CacheServesFresh` assumes that tokens
  outlive the skew (`LongLived`). The refinement (`TokenKeepsPromise`) has one lemma for
  the steps that leave the answers alone and one for the returns: a caller that is past
  its test returns a token, or the cache was emptied under it, so what it replies is
  what the abstract step allows.
- **Sessions**: blacklist entries of revoked tokens last to the token's end because
  `exp` is whole seconds and `logout` rounds the present down; a call that holds a
  token holds one of the right type that was minted. `SeenInv`: the version only
  grows, so what a request reads is no older than what was there when it began; `ver`
  is 0 in every token, so a request that has read a version above 0 is refused.
- **Snowflake**: the generator's last identifier was made with its last timestamp
  and a sequence below the limit; arithmetic lemmas bound the fields, for every
  width. For the calls of `generate_snowflake`, `RetryInv`: a call that has been
  refused k times has slept k - 1 milliseconds or more and still found the clock behind
  its generator, so giving up takes a set-back of more than that; truncation keeps the
  order of times (`MillisecondsOrder`), and no more is needed of it. `OrderInv`: while
  the clock is not set back, no generator is ahead of it, and a call holds a later time
  than those that had returned when it began or, once it returns, the number 1.
- **OtpLogin**: all rest on `TypeInv`. `OwnerInv` says of each login what it has seen
  of the phone's owners (`Known`): the owner of now is among them, unless it has seen
  the phone without one, and a login that is past the PhoneNumber row with a user has
  seen that user own it or has seen nobody do. `CodesInv` says which instances of the
  row a request may still save: each has a code of its own that was never stored, so a
  late save cannot bring a spent code back, whatever its digits; `LateInv` is then
  inductive. `LimitInv` adds to each counter the requests that have passed its test and
  not yet incremented it, which are at most all of them. `FiniteAssumption`: finitely
  many requests.
- **Outbound**: `RegistryInv`, the registry holds the one client once it is built,
  and a caller past the lookup holds that one. `NameInv`, while a caller is at work its
  context holds its own token if the middleware let it in and none if not, and the
  headers, once made, say the same. `CountInv`, the
  breaker's count never runs ahead of the transport errors since the last answer.
  `EventsReturn` follows each result through the exceptions it is wrapped in to the
  outcome of the call. `ImplementsBreaker` maps every step to one of CircuitBreaker's
  or to a stutter, so what is proved of a breaker by itself holds for the one inside
  an HTTP client.
- **Academies**: `TablesInv` has the rows, that no row lives under a key not yet given
  out (`KeysGiven`, without which a deleted row could come back by an insertion), and
  `Integrity`. `RequestOK` says of each request, whatever is done of it, what is
  still ahead (`Ahead`: a load is followed by its save, a count follows its page, a
  setting of sports is followed by the reload of the same academy, and no step that
  may find something missing comes after one that writes) and what is true between
  two steps (`Now`: the loaded instance is an instance of the model; a request that
  has written has no such test left). `RefusedUnchanged` is a consequence of the
  last. `SportsKept`: a request about to reload the academy whose sports it set finds
  these, unless somebody set others meanwhile. `Walked`: a walk has shown what was
  there all along up to its cursor, once, and nothing beyond it; the cursor only goes
  up. The steps are classed by what they do to the tables (`Stays`, `StaysGone`,
  `NamedOnly`) and to the request (refused, done, or going on), and each property is
  proved of the classes. `SportsAssumption`: there are finitely many sports, as in any
  database; a bulk deletion answers with how many rows went, those of the relation to
  sports among them.
- **Background**: `UnitOK` relates a unit's row, hooks and loop to its publication: a
  row is pending only while its transaction is open, hooks wait for a row, a
  transaction waits for its publication. `MessageOK` relates a message, in the queue
  or at a worker, to its unit. `SendOK` says of each task a unit asked for that it is
  sent or hooked unless the unit failed, and of a unit no handler has asked in the
  name of that what is sent and then what is hooked is in the order of asking.
  `OnCourse`, of a publication during which no handler was removed: those subscribed
  all along are the first of the list, and position by position they are the ones
  called so far. The list grows at its end, so a subscription leaves that true.
  `UnitsAssumption` and `HandlersAssumption`: finitely many of each; every unit shares
  in the bound on the tasks, so they must be counted.

The invariants of RateLimit, Academies and Background were checked with TLC on the
instances of the runs before they were proved.

Model-checked only: the liveness properties `RecoversUnlessLeaked`, `LockReleased` and
`EveryCallEnds` (liveness under fairness, and ENABLED, are out of the prover's reach),
and `SingleUse`, which the code violates.

## Known deviations

Where the code and its own words disagree. The first is shown by a run that is
expected to be violated (PROJECT.json, `findings`):

- One code can log in twice when the two requests overlap
  (`auth_use_cases.py:147`; `:129` says "single-use").

The others are steps of the modules, so that no property of a passing run denies
them:

- A probe that raises an exception outside `expected_exceptions` leaves `_probing`
  up and the service blocked for ever (`circuit_breaker.py:161`; `:76` and `:78`
  promise a recovery). `RecoversUnlessLeaked` says that this is the only way.
- The `ver` claim is never minted (`auth_repository_impl.py:103`), so after one
  `bump` all of a user's tokens are refused, new ones too (`token_version.py:18`).
- `generate_snowflake` makes a generator per call (`snowflake.py:293`), so two calls
  in a millisecond get one identifier (`models/snowflake.py:13`: "unique").
- `BaseRepository.update` saves only the named fields (`base_repository.py:50`), so
  `updated_at` stays at the time of creation (`models/timestamp.py:41`:
  "last-modification stamp"). Only `set_sports` leaves it alone for good reason.
- `RateLimitMiddleware` and the Django `JWTAuthenticationMiddleware` override
  `__call__` with one that only returns `get_response` (`ratelimiting.py:66`,
  `auth.py:66`), so the `process_request` of both, the limiter (`:28`) and the refusal
  of requests without a token, never run. Neither is modelled for that reason.
- The FastAPI limiter has fixed windows of the clock where its doc says sliding
  (`ratelimiting.py:181`), so around a turn twice the limit passes.
- An answer of rudra whose `access_token` is empty is stored and served as a token
  (`service_token.py:206`). When its expiry is long, and a later token's is short, a
  lock-free reader may take the torn pair of the two for fresh; `CachedMeansFresh` and
  `EmptyHasACause` except these calls. httpx refuses the header `Bearer ` that an empty
  token makes, which counts as a failure of a service that was never called.
- `ServiceDispatcher._request` documents 504 for a timeout; the caller gets the 502
  of `ExternalServiceError`.
- `asgi.py` installs no JWT middleware and no dependency calls `set_user_token`, so in
  this service every call goes out as the service; Outbound has the middleware's
  steps as the module offers them. Nothing clears the user's token: it goes with the
  context.
- Nothing calls `register_celery_signals`, and nothing publishes through the
  dispatchers of Background or mints tokens of services and partners; the dependencies
  other than `get_current_user` and its alias `require_user` guard no endpoint. They
  are modelled as the modules offer them. `get_current_principal` takes refresh tokens
  too, and it and the `require_*` dependencies but `require_user` do not read the
  version.
- A change of the version while a request waits between its reading and its use
  (`dependencies.py:134`) is missed by that request.
- `generate_snowflake` sleeps through set-backs of up to `max_retries` - 1
  milliseconds and may raise after any larger one, since the times it compares are
  truncated (`snowflake.py:231`).
- `subscribe` appends a handler again (`base.py:74`), which would then be called
  twice; `Subscribe` in Background has a guard against it, for nothing here does so.
- A task that a handler asks for and the broker refuses is logged by the bus like any
  error of a handler; `TasksSent` does not count it as asked.
- An event published by `publish_sync` inside `transaction.atomic()` is handled at
  once, and what its handlers enqueue is sent before the commit
  (`celery_dispatcher.py:7`); `RunsAfterCommit` excepts these messages.
- A retry is published by the worker without the trace of its unit, and runs under a
  new one (`celery_signals.py:3`); `TracedFirst` speaks of first attempts.
- The correlation and request ids in the headers of a message are not bound again in
  the worker (`celery_dispatcher.py:13`).
- A handler that unsubscribes during a publication makes it skip the next one.

Smaller ones: a call admitted long ago clears the flag of a running probe, so two
probes may run together; `invalidate()` can make `get_token` return `""`; the
fallback after a failed refresh does not test that the cached token is valid; the
floor of the expiry equals the default skew; requests in flight together overshoot
the limits of the OTP handler and of the rate limiter by their number; two first
logins of a phone create two users; a new code does not lift the lockout although
the message asks for one; of two overlapping sends the phone may receive the code
that was overwritten; a refresh token can be exchanged again within its last second;
checks of one client that overlap in the rate limiter lose counts; a token used by
another call while `refresh` waits raises a jwt exception in place of
`AuthenticationError`; any failure of a membership's insertion, a missing academy
too, is answered as a duplicate; approve and reject decide what was decided before.

## What is not modelled

- Configuration service: it filters on `namespace`, `key` and `value` where the model
  has `config_key` and `config_value`, so every call raises; nothing calls it.
- User profiles: one `update_or_create` under a unique key; nothing interleaves.
- SSO state and password reset: nothing routes to them; their get-then-delete is the
  race `SingleUse` shows on the OTP row.
- Permissions and scopes: set tests on the claims of one token, no state.
- Soft delete: nothing in the repository uses it.
- Log formats, metrics, health, security headers, storage, the schemas and mappers of
  accounts, wiring, the placeholder applications: input, output and plumbing.
- Within Sessions: `require_scope`, `get_company_ids`, and a cache that evicts. Within
  ServiceToken: an `access_token` that is JSON null, which is stored as the text `None`.
  Within OtpLogin: `generate_and_store` and `verify` of `OTPHandler`, which nothing
  calls. Within Academies: filters of the lists.

## Plan

In order of importance. Parameters are constants with assumptions, one action per
step between awaits, no RECURSIVE.

1. **Done**: CircuitBreaker with BreakerPromise, ServiceToken with TokenPromise,
   OtpLogin, Sessions, Snowflake, Academies with Responses, Outbound (the composition of
   breaker, token manager and registry), RateLimit, Background; their runs, and a
   theorem for each safety property the passing runs check.
2. Theorems with no property of a run yet: that two identifiers of one millisecond are
   the only way `generate_snowflake` repeats itself; by how much requests in flight
   overshoot the limit of a disturbed client in RateLimit; an abstract specification of
   a session that Sessions implements.
3. Sessions with an evicting cache.

## Conventions and commands

A definition keeps the source's name where it can. `X_<mistake>` before `X` is a
mutant of `X`. History variables and fields say so where they are declared.

    tlc -workers 2 -config MCSessions_sessions.cfg MCSessions
    tlapm SessionsProofs.tla
