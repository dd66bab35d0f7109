\* Two minutes, one hour and a bit, two requests a minute and three an hour.
SPECIFICATION LimitSpec
CONSTANTS
    Workers = {w1, w2}
    Requests <- MCRequests
    Absent = Absent
    h1 = h1
    h2 = h2
    RequestsPerMinute = 2
    RequestsPerHour = 3
    Minute = 2
    Hour = 4
    MaxTime = 4
    MaxRequests = 4
SYMMETRY Symmetry
INVARIANTS
    LimitTypeOK
    WithinLimit
PROPERTIES
    RefusedHadItsShare
