
SPECIFICATION Spec
CONSTANTS
    Senders = {s1}
    Verifiers = {v1, v2}
    Admins = {}
    RateMax = 2
    MaxAttempts = 2
    MaxCodes = 2
    MaxRows = 2
    MaxUsers = 1
    MaxRunning = 2
    MaxMade = 3
PROPERTY SingleUse
