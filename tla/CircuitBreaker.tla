--------------------------- MODULE CircuitBreaker ---------------------------
(***************************************************************************)
(* One CircuitBreaker of common/resilience/circuit_breaker.py, shared by   *)
(* the threads that call an external service through it.                   *)
(*                                                                         *)
(* The lock is held for the whole of the admission test at the top of      *)
(* call() and for the whole of _record_failure and _record_success; the    *)
(* function itself runs between the two with the lock free.  So a call is  *)
(* two atomic steps, and the calls of other threads, and the clock, may    *)
(* come between them.                                                      *)
(*                                                                         *)
(* Time is kept as the age of an event, saturated at RecoveryTimeout: the  *)
(* code only ever asks whether an age has reached recovery_timeout.  The   *)
(* failure counter saturates at FailureThreshold for the same reason.      *)
(*                                                                         *)
(* A definition X_<mistake>, placed before X, is X with a plausible        *)
(* mistake; nothing uses it unless it is swapped in for X to confirm that  *)
(* some property notices.                                                  *)
(***************************************************************************)
EXTENDS Naturals

CONSTANTS
    Threads,           \* the callers that share the breaker
    FailureThreshold,  \* failure_threshold
    RecoveryTimeout    \* recovery_timeout, in ticks

ASSUME ThresholdAssumption == FailureThreshold \in Nat \ {0}
ASSUME TimeoutAssumption == RecoveryTimeout \in Nat \ {0}

VARIABLES
    state,         \* _state: "closed" or "open"
    failureCount,  \* _failure_count
    failureAge,    \* time.monotonic() - _last_failure_time
    probing,       \* _probing
    calls,         \* calls[t]: what current_state was when t's call was admitted
    probeAge,      \* history: time since a probe was last admitted
    leaked         \* history: the flag is up and no call will take it down

vars == <<state, failureCount, failureAge, probing, calls, probeAge, leaked>>

CallStatus == {"idle", "rejected", "closed", "half_open"}

TypeOK ==
    /\ state \in {"closed", "open"}
    /\ failureCount \in 0..FailureThreshold
    /\ failureAge \in 0..RecoveryTimeout
    /\ probing \in BOOLEAN
    /\ calls \in [Threads -> CallStatus]
    /\ probeAge \in 0..RecoveryTimeout
    /\ leaked \in BOOLEAN

\* _last_failure_time starts at 0.0, an instant long past; until the first
\* failure the breaker is closed and nothing reads it.
Init ==
    /\ state = "closed"
    /\ failureCount = 0
    /\ failureAge = RecoveryTimeout
    /\ probing = FALSE
    /\ calls = [t \in Threads |-> "idle"]
    /\ probeAge = RecoveryTimeout
    /\ leaked = FALSE

-----------------------------------------------------------------------------
RecoveryTimeoutElapsed_Early == failureAge + 1 >= RecoveryTimeout

RecoveryTimeoutElapsed == failureAge >= RecoveryTimeout

MayProbe == state = "open" /\ RecoveryTimeoutElapsed /\ ~probing

\* The `state` property, what monitoring sees.
ReportedState ==
    IF state = "open" /\ (probing \/ RecoveryTimeoutElapsed)
    THEN "half_open" ELSE state

\* call(): the admission test, one action for each value of _effective_state().
Admit(t) ==
    /\ calls[t] = "idle"
    /\ state = "closed"
    /\ calls' = [calls EXCEPT ![t] = "closed"]
    /\ UNCHANGED <<state, failureCount, failureAge, probing, probeAge, leaked>>

AdmitProbe(t) ==
    /\ calls[t] = "idle"
    /\ MayProbe
    /\ probing' = TRUE
    /\ calls' = [calls EXCEPT ![t] = "half_open"]
    /\ probeAge' = 0
    /\ UNCHANGED <<state, failureCount, failureAge, leaked>>

Reject(t) ==
    /\ calls[t] = "idle"
    /\ state = "open"
    /\ ~MayProbe
    /\ calls' = [calls EXCEPT ![t] = "rejected"]
    /\ UNCHANGED <<state, failureCount, failureAge, probing, probeAge, leaked>>

\* The caller has handled CircuitBreakerOpenError.
HandleRejection(t) ==
    /\ calls[t] = "rejected"
    /\ calls' = [calls EXCEPT ![t] = "idle"]
    /\ UNCHANGED <<state, failureCount, failureAge, probing, probeAge, leaked>>

InFlight(t) == calls[t] \in {"closed", "half_open"}

Counted == IF failureCount < FailureThreshold THEN failureCount + 1
                                              ELSE failureCount

ClearFlag_Forgotten == UNCHANGED probing
ClearFlag == probing' = FALSE

RestartTimer == failureAge' = 0

\* func raised one of expected_exceptions: _record_failure().
RecordFailure(t) ==
    /\ InFlight(t)
    /\ ClearFlag
    /\ failureCount' = Counted
    /\ RestartTimer
    /\ state' = IF ~probing /\ Counted >= FailureThreshold
                THEN "open" ELSE state
    /\ calls' = [calls EXCEPT ![t] = "idle"]
    /\ leaked' = FALSE
    /\ UNCHANGED probeAge

CloseCircuit_KeepsCount == state' = "closed" /\ UNCHANGED failureCount
CloseCircuit == state' = "closed" /\ failureCount' = 0

\* func returned: _record_success().
RecordSuccess(t) ==
    /\ InFlight(t)
    /\ ClearFlag
    /\ CloseCircuit
    /\ calls' = [calls EXCEPT ![t] = "idle"]
    /\ leaked' = FALSE
    /\ UNCHANGED <<failureAge, probeAge>>

Probes == {t \in Threads : calls[t] = "half_open"}

\* func raised something else: call() catches nothing and records nothing, so
\* the flag of a probe stays up.
Escape(t) ==
    /\ InFlight(t)
    /\ calls' = [calls EXCEPT ![t] = "idle"]
    /\ leaked' = (leaked \/ (probing /\ Probes = {t}))
    /\ UNCHANGED <<state, failureCount, failureAge, probing, probeAge>>

Older(age) == IF age < RecoveryTimeout THEN age + 1 ELSE age

\* Stops only when every age is saturated, which no comparison can notice.
Tick ==
    /\ failureAge < RecoveryTimeout \/ probeAge < RecoveryTimeout
    /\ failureAge' = Older(failureAge)
    /\ probeAge' = Older(probeAge)
    /\ UNCHANGED <<state, failureCount, probing, calls, leaked>>

-----------------------------------------------------------------------------
Finish(t) == RecordFailure(t) \/ RecordSuccess(t) \/ Escape(t)

Next ==
    \/ \E t \in Threads :
          \/ Admit(t)
          \/ AdmitProbe(t)
          \/ Reject(t)
          \/ HandleRejection(t)
          \/ RecordFailure(t)
          \/ RecordSuccess(t)
          \/ Escape(t)
    \/ Tick

Spec == Init /\ [][Next]_vars

\* Time passes, and every call that was let through ends (HttpClient gives
\* httpx a timeout).  Nobody is obliged to make another call.
Fairness ==
    /\ WF_vars(Tick)
    /\ \A t \in Threads : WF_vars(Finish(t))

FairSpec == Spec /\ Fairness

-----------------------------------------------------------------------------
\* The breaker is open exactly when the failures counted since the last
\* success have reached the threshold: the two fields, written at different
\* branches of _record_failure and _record_success, never drift apart, even
\* when calls admitted long ago finish while the breaker is open or probing.
OpenIffThresholdReached ==
    state = "open" <=> failureCount = FailureThreshold

\* The probing flag is raised only on an open breaker, so a late success or
\* failure that closes or reopens it never leaves the flag behind.
ProbingOnlyWhileOpen == probing => state = "open"

\* When the breaker reports half_open, the next caller would be the probe, a
\* probe is still running, or the last probe escaped: nobody is locked out on
\* behalf of a call whose end the breaker has recorded.
HalfOpenHasProbe ==
    ReportedState = "half_open" => MayProbe \/ Probes # {} \/ leaked

\* Two probes are at least recovery_timeout apart, whatever calls admitted
\* earlier do to the counter, the flag and the timer in the meantime.
ProbesSpaced ==
    [][(\E t \in Threads : calls[t] = "idle" /\ calls'[t] = "half_open")
          => probeAge = RecoveryTimeout]_vars

\* A breaker that turns callers away comes to the point where it would let one
\* through, unless the exception of a probe escapes it.
WouldAdmit == state = "closed" \/ MayProbe
RecoversUnlessLeaked == ~WouldAdmit ~> (WouldAdmit \/ leaked)

-----------------------------------------------------------------------------
\* How long neither a failure nor a probe has happened.
Quiet == IF failureAge < probeAge THEN failureAge ELSE probeAge

Promise == INSTANCE BreakerPromise WITH
    tripped <- state = "open",
    quiet   <- Quiet,
    passed  <- {t \in Threads : InFlight(t)}

\* The breaker keeps its promise to the service: calls let through while it is
\* open come at least recovery_timeout after the last failure and the last
\* probe, only a recorded failure opens it and only a recorded success closes it.
KeepsPromise == Promise!Spec
=============================================================================
