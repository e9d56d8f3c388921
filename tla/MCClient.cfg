CONSTANTS
    u1 = u1
    u2 = u2
    Users = {u1, u2}
    Nobody = Nobody
    TTL = 12
    Margin = 6
    Period = 2
    MaxSessions = 3
    MaxFlight = 3
SPECIFICATION Spec

INVARIANTS
    OneAccount
    NoDeadToken

PROPERTIES
    SignedOutForCause
