\* Two sends, two verifications and an administrator, any two at once, over one row and
\* a phone that changes hands: three codes and a user, or two of each.
SPECIFICATION Spec
CONSTANTS
    Senders = {s1, s2}
    Verifiers = {v1, v2}
    Admins = {a1}
    RateMax = 1
    MaxAttempts = 1
    MaxRunning = 2
    MaxCodes = 3
    MaxRows = 2
    MaxUsers = 2
    MaxMade = 4
SYMMETRY Symmetry
VIEW View
INVARIANTS
    TypeOK
    MissesBounded
    LateVerifyFails
    KnownPhoneKeepsUser
    SendsBounded
