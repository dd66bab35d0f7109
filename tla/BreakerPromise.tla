--------------------------- MODULE BreakerPromise ---------------------------
(***************************************************************************)
(* What a circuit breaker promises the service behind it, without saying   *)
(* how: when tripped, it lets a call through only after RecoveryTimeout    *)
(* with neither a failure nor another probe; only a failure trips it and   *)
(* only a success untrips it.  CircuitBreaker implements this.             *)
(***************************************************************************)
EXTENDS Naturals

CONSTANTS Threads, RecoveryTimeout

VARIABLES
    tripped,   \* calls are being turned away
    quiet,     \* time since the last failure or probe, at most RecoveryTimeout
    passed     \* the threads whose call was let through and has not ended

pvars == <<tripped, quiet, passed>>

Init == tripped = FALSE /\ quiet = RecoveryTimeout /\ passed = {}

LetThrough(t) ==
    /\ t \notin passed
    /\ passed' = passed \union {t}
    /\ IF tripped THEN quiet = RecoveryTimeout /\ quiet' = 0
                  ELSE quiet' = quiet
    /\ UNCHANGED tripped

Fail(t) ==
    /\ t \in passed
    /\ passed' = passed \ {t}
    /\ quiet' = 0
    /\ tripped' \in {tripped, TRUE}

Succeed(t) ==
    /\ t \in passed
    /\ passed' = passed \ {t}
    /\ tripped' = FALSE
    /\ UNCHANGED quiet

\* The call ended without saying anything about the service.
Abandon(t) ==
    /\ t \in passed
    /\ passed' = passed \ {t}
    /\ UNCHANGED <<tripped, quiet>>

Tick ==
    /\ quiet < RecoveryTimeout
    /\ quiet' = quiet + 1
    /\ UNCHANGED <<tripped, passed>>

Next ==
    \/ \E t \in Threads :
          LetThrough(t) \/ Fail(t) \/ Succeed(t) \/ Abandon(t)
    \/ Tick

Spec == Init /\ [][Next]_pvars
=============================================================================
