SPECIFICATION FairSpec
CONSTANTS
    Jobs = {j1, j2}
    NoJob = NoJob
    Submitters = {p1, p2}
    Workers = {w1, w2}
    QueueDepth = 1
    MaxFaults = 2
    MaxCrashes = 2
INVARIANTS
    TypeOK
    HistoryNeverAhead
    ScanIsJournaledFirst
    AcceptedIsDurable
    NoOrphanInHistory
PROPERTIES
    HistoryRefined
    AcceptedIsSettled
    ShutdownCompletes
