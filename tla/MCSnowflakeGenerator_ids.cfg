\* A burst longer than the sequence, a clock that is set back, resumptions.
SPECIFICATION Spec
CONSTANTS
    MaxSeq = 3
    MaxInstance = 3
    Instance = 2
    MaxClock = 4
    MaxIds = 8
INVARIANTS
    DecodesToMaker
PROPERTIES
    Increasing
