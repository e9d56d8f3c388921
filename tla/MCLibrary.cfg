SPECIFICATION Spec

CONSTANTS
    t1 = t1
    l1 = l1
    u1 = u1
    w1 = w1
    w2 = w2
    a1 = a1
    s1 = s1
    none = none
    Tracks <- MCTracks
    Lists <- MCLists
    Users <- MCUsers
    Importers <- MCImporters
    ListImporters <- MCListImporters
    Admins <- MCAdmins
    Listeners <- MCListeners
    NoTrack = none
    NoList = none
    NoUser = none

INVARIANTS
    RowHasFile
    FileHasRow

PROPERTIES
    SparesUse
    StreamFindsFile
