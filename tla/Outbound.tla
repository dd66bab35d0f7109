------------------------------ MODULE Outbound ------------------------------
(***************************************************************************)
(* Calls to another service: from the dispatcher (services/dispatch.py)    *)
(* through the registry of clients and the client (services/               *)
(* http_service.py) to the breaker of that client and back, with the       *)
(* credentials that each call carries.  A composition: the breaker is      *)
(* CircuitBreaker, the token manager is what TokenPromise says of it.      *)
(*                                                                         *)
(* A caller is a thread that serves a request or runs a task.  Services    *)
(* share nothing but the token manager, so one service is modelled and the *)
(* operations of all dispatchers are called on it.  Payloads, paths and    *)
(* log lines are left out; so is X-Trace-ID, which Background is about.    *)
(*                                                                         *)
(* A definition X_<mistake>, placed before X, is X with a plausible        *)
(* mistake, swapped in for X to confirm that some property notices.        *)
(***************************************************************************)
EXTENDS Naturals, FiniteSets, Responses

CONSTANTS
    Callers,
    Nobody,            \* no caller; also: no user
    FailureThreshold,  \* of the client's breaker
    RecoveryTimeout

ASSUME NobodyAssumption == Nobody \notin Callers
ASSUME ThresholdAssumption == FailureThreshold \in Nat \ {0}
ASSUME TimeoutAssumption == RecoveryTimeout \in Nat \ {0}

VARIABLES
    state, failureCount, failureAge, probing, calls, probeAge, leaked,  \* breaker
    held, cause, answer,   \* the token manager
    instance,       \* HttpClient._instances[name]: 0 or the number of a client
    built,          \* how many clients have been built
    lock,           \* who holds HttpClient._lock
    pc,             \* where each caller is in its call
    op,             \* the method its operation goes through: _post or _request
    work,           \* history: what it is at: a request that the middleware let in,
                    \* other work, nothing
    user,           \* user_token_var in its context: the caller itself stands
                    \* for the token of the user whose request it serves
    header,         \* the Authorization header of its call
    client,         \* the client it got from the registry
    outcome,        \* what its last call came to
    silent          \* history: transport errors since the service last answered

breakerVars == <<state, failureCount, failureAge, probing, calls, probeAge, leaked>>
tokenVars == <<held, cause, answer>>
registryVars == <<instance, built, lock>>
callVars == <<pc, op, work, user, header, client, outcome>>
vars == <<breakerVars, tokenVars, registryVars, callVars, silent>>

Breaker == INSTANCE CircuitBreaker WITH Threads <- Callers
Token == INSTANCE TokenPromise

Location == {"idle", "ready", "headers", "token", "registry", "lock", "locked",
             "read", "call", "flight"}

-----------------------------------------------------------------------------
(* The dispatchers' operations, and the method each of them goes through.  *)

PostEvents == {"dispatch_idv_event", "dispatch_policy_event",
               "dispatch_booking_event"}
RequestOperations == {"fetch_companies", "fetch_users", "create_representative",
                      "deactivate_representative"}

Through(operation) == IF operation \in PostEvents THEN "_post" ELSE "_request"

\* fetch_users of nobody calls nobody.
NeedsNoCall(operation, ids) == operation = "fetch_users" /\ ids = {}

-----------------------------------------------------------------------------
(* What comes back, and what the caller is given for it.                   *)

\* httpx.RequestError, what the client's breaker counts as a failure.
TransportErrors == {"TimeoutException", "ConnectError", "RequestError"}

\* An exception of another class: a URL or a payload that cannot be sent.
OtherErrors == {"InvalidURL"}

\* The service answers: 200, 201 or 202 with or without JSON, or another status.
Answers == {"data", "invalid JSON", "other status"}

CircuitBreakerOpenError == [class |-> "CircuitBreakerOpenError", carries |-> 503]

\* _request: the exception that each failure becomes.
Wrapped(result) ==
    IF result \in OtherErrors THEN OtherError(result)
                              ELSE AppError("ExternalServiceError")

StatusOfError(e) == IF e = CircuitBreakerOpenError THEN e.carries ELSE StatusOf(e)

NoOutcome == [returned |-> FALSE, status |-> 0]
Returned == [returned |-> TRUE, status |-> 200]
RaisedError(e) == [returned |-> FALSE, status |-> StatusOfError(e)]

Suppress_ServiceErrorsOnly(method, e) ==
    method = "_post" /\ e.class = "ExternalServiceError"
\* contextlib.suppress(Exception) of _post.
Suppress(method, e) == method = "_post"

OutcomeOf(method, e) == IF Suppress(method, e) THEN Returned ELSE RaisedError(e)

-----------------------------------------------------------------------------
Goto(c, location) == pc' = [pc EXCEPT ![c] = location]

End(c, what) ==
    /\ Goto(c, "idle")
    /\ outcome' = [outcome EXCEPT ![c] = what]
    /\ header' = [header EXCEPT ![c] = "none"]
    /\ client' = [client EXCEPT ![c] = 0]
    /\ op' = [op EXCEPT ![c] = "none"]
    /\ work' = [work EXCEPT ![c] = "none"]
    /\ Token!Forget(c)
    /\ UNCHANGED user

Init ==
    /\ Breaker!Init
    /\ Token!Init
    /\ instance = 0 /\ built = 0 /\ lock = Nobody
    /\ pc = [c \in Callers |-> "idle"]
    /\ op = [c \in Callers |-> "none"]
    /\ work = [c \in Callers |-> "none"]
    /\ user = [c \in Callers |-> Nobody]
    /\ header = [c \in Callers |-> "none"]
    /\ client = [c \in Callers |-> 0]
    /\ outcome = [c \in Callers |-> NoOutcome]
    /\ silent = 0

-----------------------------------------------------------------------------
(* The context.  A request and a task each run in one of their own, in     *)
(* which user_token_var has its default; FastAPIJWTMiddleware sets it, and *)
(* nothing ever clears it: the next request of the thread has another      *)
(* context.  (The Django middleware's process_request is never run.)       *)

SetUserToken_ForAll(c) == user' = [d \in Callers |-> c]
SetUserToken(c) == user' = [user EXCEPT ![c] = c]

NewContext(c) == user' = [user EXCEPT ![c] = Nobody]

StartWork(c, kind) ==
    /\ pc[c] = "idle"
    /\ Goto(c, "ready")
    /\ work' = [work EXCEPT ![c] = kind]
    /\ outcome' = [outcome EXCEPT ![c] = NoOutcome]
    /\ UNCHANGED <<breakerVars, tokenVars, registryVars, op, header, client,
                   silent>>

\* A task, a request on an exempt path, or one that only a dependency authenticates.
EnterWithoutUser(c) == StartWork(c, "other") /\ NewContext(c)

\* A request with a token that the middleware verifies.
EnterWithUser(c) == StartWork(c, "middleware") /\ SetUserToken(c)

\* No header, no bearer token, or one that does not verify: answered at once.
Refuse(c) ==
    /\ pc[c] = "idle"
    /\ outcome' = [outcome EXCEPT ![c] = [returned |-> FALSE, status |-> 401]]
    /\ UNCHANGED <<breakerVars, tokenVars, registryVars, pc, op, work, user, header,
                   client, silent>>

CallOperation(c, operation, ids) ==
    /\ pc[c] = "ready"
    /\ IF NeedsNoCall(operation, ids)
       THEN End(c, Returned)
       ELSE /\ Goto(c, "headers")
            /\ op' = [op EXCEPT ![c] = Through(operation)]
            /\ UNCHANGED <<tokenVars, work, user, header, client, outcome>>
    /\ UNCHANGED <<breakerVars, registryVars, silent>>

-----------------------------------------------------------------------------
(* _default_headers.                                                       *)

\* The user's token, if the context has one.
ForwardUserToken(c) ==
    /\ pc[c] = "headers" /\ user[c] # Nobody
    /\ header' = [header EXCEPT ![c] = user[c]]
    /\ Goto(c, "registry")
    /\ UNCHANGED <<breakerVars, tokenVars, registryVars, op, work, user, client,
                   outcome,
                   silent>>

AskServiceToken(c) ==
    /\ pc[c] = "headers" /\ user[c] = Nobody
    /\ Token!Ask(c)
    /\ Goto(c, "token")
    /\ UNCHANGED <<breakerVars, registryVars, op, work, user, header, client,
                   outcome, silent>>

\* A refresh that succeeds, for one of those who ask; the token may be empty.
\* (Nothing in the program calls invalidate().)
RefreshServiceToken ==
    /\ Token!Obtain \/ Token!ObtainEmpty
    /\ UNCHANGED <<breakerVars, registryVars, callVars, silent>>

\* Without a token the header is left out and the call goes on; an empty token makes
\* it "Bearer " with nothing after it.
UseServiceToken(c) ==
    /\ pc[c] = "token"
    /\ Token!Reply(c)
    /\ header' = [header EXCEPT ![c] = CASE answer'[c] = "token" -> "service"
                                         [] answer'[c] = "empty" -> "blank"
                                         [] OTHER                -> "none"]
    /\ Goto(c, "registry")
    /\ UNCHANGED <<breakerVars, registryVars, op, work, user, client, outcome,
                   silent>>

-----------------------------------------------------------------------------
(* HttpClient.get_instance.                                                *)

\* The test without the lock.
LookUp(c) ==
    /\ pc[c] = "registry"
    /\ Goto(c, IF instance # 0 THEN "read" ELSE "lock")
    /\ UNCHANGED <<breakerVars, tokenVars, registryVars, op, work, user, header,
                   client,
                   outcome, silent>>

LockRegistry(c) ==
    /\ pc[c] = "lock" /\ lock = Nobody
    /\ lock' = c
    /\ Goto(c, "locked")
    /\ UNCHANGED <<breakerVars, tokenVars, instance, built, op, work, user, header,
                   client,
                   outcome, silent>>

MustBuild_NotTestedAgain == TRUE
MustBuild == instance = 0

ReleaseRegistry_Forgotten == UNCHANGED lock
ReleaseRegistry == lock' = Nobody

BuildClient(c) ==
    /\ pc[c] = "locked"
    /\ IF MustBuild THEN built' = built + 1 /\ instance' = built + 1
                    ELSE UNCHANGED <<built, instance>>
    /\ ReleaseRegistry
    /\ Goto(c, "read")
    /\ UNCHANGED <<breakerVars, tokenVars, op, work, user, header, client, outcome,
                   silent>>

ReadRegistry(c) ==
    /\ pc[c] = "read"
    /\ client' = [client EXCEPT ![c] = instance]
    /\ Goto(c, "call")
    /\ UNCHANGED <<breakerVars, tokenVars, registryVars, op, work, user, header,
                   outcome,
                   silent>>

-----------------------------------------------------------------------------
(* HttpClient.request, in the breaker of the client.                       *)

Admitted(c) ==
    /\ pc[c] = "call"
    /\ Breaker!Admit(c) \/ Breaker!AdmitProbe(c)
    /\ Goto(c, "flight")
    /\ UNCHANGED <<tokenVars, registryVars, op, work, user, header, client,
                   outcome, silent>>

\* CircuitBreakerOpenError goes through the client and _request as it is.
RejectCall(c) ==
    /\ pc[c] = "call"
    /\ Breaker!Reject(c)
    /\ UNCHANGED <<tokenVars, registryVars, callVars, silent>>

RejectionHandled(c) ==
    /\ pc[c] = "call"
    /\ Breaker!HandleRejection(c)
    /\ End(c, OutcomeOf(op[c], CircuitBreakerOpenError))
    /\ UNCHANGED <<registryVars, silent>>

\* What the breaker is told: expected_exceptions=(httpx.RequestError,).
Record_StatusCounts(c, result) ==
    CASE result \in TransportErrors \union {"other status"} -> Breaker!RecordFailure(c)
      [] result \in OtherErrors -> Breaker!Escape(c)
      [] OTHER -> Breaker!RecordSuccess(c)
Record(c, result) ==
    CASE result \in TransportErrors -> Breaker!RecordFailure(c)
      [] result \in OtherErrors     -> Breaker!Escape(c)
      [] result \in Answers         -> Breaker!RecordSuccess(c)

\* httpx does not send a header whose value ends in a blank: the call fails as one
\* of its RequestErrors before it leaves.
Sendable(c, result) == header[c] = "blank" => result = "RequestError"

Receive(c, result) ==
    /\ pc[c] = "flight"
    /\ Sendable(c, result)
    /\ Record(c, result)
    /\ End(c, IF result = "data" THEN Returned ELSE OutcomeOf(op[c], Wrapped(result)))
    /\ silent' = IF result \in Answers THEN 0
                 ELSE IF result \in TransportErrors /\ silent < FailureThreshold
                 THEN silent + 1 ELSE silent
    /\ UNCHANGED registryVars

Tick ==
    /\ Breaker!Tick
    /\ UNCHANGED <<tokenVars, registryVars, callVars, silent>>

-----------------------------------------------------------------------------
Enter(c) == EnterWithoutUser(c) \/ EnterWithUser(c) \/ Refuse(c)

GoOn(c) ==
    \/ \E operation \in PostEvents \union RequestOperations, ids \in {{}, {1}} :
           CallOperation(c, operation, ids)
    \/ ForwardUserToken(c) \/ AskServiceToken(c) \/ UseServiceToken(c)
    \/ LookUp(c) \/ LockRegistry(c) \/ BuildClient(c) \/ ReadRegistry(c)
    \/ Admitted(c) \/ RejectCall(c) \/ RejectionHandled(c)
    \/ \E result \in Answers \union TransportErrors \union OtherErrors :
           Receive(c, result)

Next == (\E c \in Callers : Enter(c) \/ GoOn(c)) \/ RefreshServiceToken \/ Tick

Spec == Init /\ [][Next]_vars

\* A caller that has started goes on (requests have a timeout), and time passes.
FairSpec == Spec /\ WF_vars(Tick) /\ \A c \in Callers : WF_vars(GoOn(c))

-----------------------------------------------------------------------------
TypeOK ==
    /\ Breaker!TypeOK
    /\ held \in BOOLEAN
    /\ cause \in {"never", "nothing", "empty_answer"}
    /\ instance \in Nat /\ built \in Nat
    /\ lock \in Callers \union {Nobody}
    /\ pc \in [Callers -> Location]
    /\ op \in [Callers -> {"none", "_post", "_request"}]
    /\ work \in [Callers -> {"none", "middleware", "other"}]
    /\ user \in [Callers -> Callers \union {Nobody}]
    /\ header \in [Callers -> Callers \union {"service", "blank", "none"}]
    /\ client \in [Callers -> Nat]
    /\ outcome \in [Callers -> {NoOutcome, Returned}
                        \union [returned : {FALSE}, status : {401, 500, 502, 503}]]

\* Whoever calls the service first, all callers go through one client and so
\* through one breaker (get_instance: "Thread-safe").
OneClient == built <= 1 /\ \A c \in Callers : pc[c] = "flight" => client[c] = instance

\* What goes out in whose name is settled by what the caller is at, whichever other
\* requests are let in while it makes its headers and waits for a token: a call made
\* for a request that the middleware let in carries that request's token, even while
\* the service has one of its own, and every other call, those of a user whom only a
\* dependency knows included, carries no user's (_default_headers).
OnBehalfOf == \A c \in Callers : pc[c] \in {"call", "flight"} =>
    header[c] \in IF work[c] = "middleware" THEN {c} ELSE {"service", "blank", "none"}

\* Publishing an event never fails its caller: however the token, the circuit and
\* the call turn out, it returns (_post: "swallows all errors").
EventsNeverRaise == [][\A c \in Callers :
    op[c] = "_post" /\ op'[c] = "none" => outcome'[c] = Returned]_vars

\* Only silence opens the circuit: a service that answers, be it with errors or with
\* nonsense, is not cut off (expected_exceptions of HttpClient).  Silence it is, too,
\* when the call was never sent for want of a token.
AnsweringServiceIsCalled == state = "open" => silent = FailureThreshold

\* Every call comes to an end, in whatever state the registry, the token manager and
\* the breaker are.
EveryCallEnds == \A c \in Callers : pc[c] # "idle" ~> pc[c] = "idle"
=============================================================================
