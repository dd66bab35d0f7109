\* Tokens of two lifetimes, empty and unreadable answers, refreshes that fail and
\* invalidate() at any moment; the clock covers a token's life and a refresh.
SPECIFICATION FairSpec
CONSTANTS
    Callers = {c1, c2}
    Nobody = Nobody
    Skew = 1
    Lifetimes = {2, 3}
    Floor = 2
    MaxTime = 5
INVARIANTS
    OneRefreshInFlight
    CachedMeansFresh
    EmptyHasACause
PROPERTIES
    LockReleased
    KeepsPromise
