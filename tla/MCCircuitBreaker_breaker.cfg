\* Four callers; three consecutive failures open the circuit.
SPECIFICATION FairSpec
CONSTANTS
    Threads = {t1, t2, t3, t4}
    FailureThreshold = 3
    RecoveryTimeout = 3
INVARIANTS
    OpenIffThresholdReached
PROPERTIES
    KeepsPromise
    RecoversUnlessLeaked
