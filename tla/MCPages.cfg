SPECIFICATION PagesSpec
CONSTANTS
    MaxJobs = 2
    s1 = s1
    s2 = s2
    s3 = s3
    Songs <- MCSongs
    NoSong = none
    MaxSends = 2
    MaxGestures = 2
    Libraries <- MCLibraries
    Editions <- MCEditions
    Blank = ""
    NoAlbum = "none"
    MaxLookups = 2
    MaxTracks = 2
    MaxImports = 2
    MaxTaps = 5
    MaxDepth = 2
INVARIANTS
    PageAgrees
    NothingLost
    ReportIsOfThisImport
    StackHoldsOpen
PROPERTIES
    ImportEnds
    RowsSettle
    CardSettles
CHECK_DEADLOCK FALSE
