SPECIFICATION FairStreamSpec

CONSTANTS
    f1 = f1
    c1 = c1
    c2 = c2
    v1 = v1
    none = none
    Jobs <- MCJobs
    ImportJobs <- MCNoJobs
    Clients <- MCClients
    NoJob <- none
    MaxConcurrent = 1
    MaxBoots = 1
    Viewers <- MCViewers

INVARIANTS
    NoDeadWait

PROPERTIES
    EveryStreamEnds
    TmpReclaimed
