SPECIFICATION PoolSpec

CONSTANTS
    f1 = f1
    i1 = i1
    c1 = c1
    none = none
    Jobs <- MCJobs
    ImportJobs <- MCImportJobs
    Clients <- MCClients
    NoJob <- none
    MaxConcurrent = 1
    MaxBoots = 1

INVARIANTS
    FreshResultFetchable
    RowMatchesWorker

PROPERTIES
    ImplementsJobStatus
    EveryJobSettles
