CONSTANTS
    a = a
    b = b
    p = p
    v = v
    w = w
    c1 = c1
    c2 = c2
    Keys <- MCKeys
    VideoOf <- MCVideoOf
    Lists <- MCLists
    Previews = {p}
    Collections = {c1, c2}
    MaxTaps = 3
    MaxRestarts = 1
SPECIFICATION Spec
CHECK_DEADLOCK FALSE

INVARIANTS
    IndexBacked
    IndexRecorded
    HeldByEach

PROPERTIES
    SharedStays
    ChainDrains
