SPECIFICATION AccessSpec

CONSTANTS
    s1 = s1
    t1 = t1
    t2 = t2
    t3 = t3
    l1 = l1
    l2 = l2
    l3 = l3
    none = none
    k1 = k1
    k2 = k2
    c1 = c1
    c2 = c2
    Sids <- MCSids
    Threads <- MCThreads
    Locks <- MCLocks
    NoSid = none
    NoLock = none
    MaxCookie = 3
    Keys <- MCKeys
    Callers <- MCCallers
    MaxEvents = 2
    Window = 2
    Skew = 1
    MaxTime = 4

SYMMETRY MCSymmetry

INVARIANTS
    NoRotatedCookie
    BudgetKept
    RetryAfterHonoured

PROPERTIES
    GoneStaysGone
