SPECIFICATION Spec

CONSTANTS
    t1 = t1
    t2 = t2
    t3 = t3
    l1 = l1
    l2 = l2
    u1 = u1
    u2 = u2
    r1 = r1
    r2 = r2
    w1 = w1
    none = none
    Tracks <- MCTracks
    Lists <- MCLists
    Users <- MCUsers
    Admins <- MCAdmins
    Requests <- MCRequests
    Importers <- MCImporters
    NoUser = none
    NoList = none
    MaxPlaylists = 1
    MaxKeys = 2
    MaxPosition = 2

SYMMETRY Symmetry

INVARIANTS
    UniquePositions
    CapOvershoot

PROPERTIES
    ImplementsOrderedLists
