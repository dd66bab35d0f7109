\* Two calls and a clock that is set back by more than the retries sleep through:
\* half a millisecond more than two of them.
SPECIFICATION CallSpec
CONSTANTS
    MaxSeq = 3
    MaxInstance = 3
    Calls = {c1, c2}
    MaxRetries = 3
    TicksPerMs = 2
    MaxNow = 7
    MaxSetBack = 5
CHECK_DEADLOCK FALSE
SYMMETRY Symmetry
INVARIANTS
    FailsOnlyOnSkew
    OrderedInTime
