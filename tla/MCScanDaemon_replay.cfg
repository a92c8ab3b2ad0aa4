SPECIFICATION Spec
CONSTANTS
    Jobs = {j1, j2}
    NoJob = NoJob
    Submitters = {p1, p2}
    Workers = {w1}
    QueueDepth = 1
    MaxFaults = 1
    MaxCrashes = 0
INVARIANT AcceptedIsReplayable
