\* Two callers, a breaker that opens after two failures and probes after a
\* tick, every operation and every way a call can end.
SPECIFICATION FairSpec
CONSTANTS
    Callers = {c1, c2}
    Nobody = Nobody
    FailureThreshold = 2
    RecoveryTimeout = 1
INVARIANTS
    OneClient
    OnBehalfOf
    AnsweringServiceIsCalled
PROPERTIES
    EventsNeverRaise
    EveryCallEnds
