\* Two exchanges of one token, a logout, a request and an authorisation change; the
\* clock, in half seconds, passes the end of an access token and enters the last
\* second of a refresh token.
SPECIFICATION Spec
CONSTANTS
    Clients = {w1, w2}
    Requests = {r1}
    Tps = 2
    AccessLife = 1
    RefreshLife = 2
    ServiceLife = 1
    PartnerLife = 1
    MaxTokens = 6
    MaxGranted = 1
    MaxClock = 3
    MaxBumps = 1
    MaxRevoked = 1
SYMMETRY Symmetry
VIEW View
CHECK_DEADLOCK FALSE
PROPERTIES
    LogoutIsFinal
    ExchangedOnce
    ChangeReachesLaterRequests
