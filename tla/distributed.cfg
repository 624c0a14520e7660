SPECIFICATION DistributedSpec
CONSTANTS
    Tasks = {t1, bad}
    Malformed = {bad}
    Workers = {w1, w2}
    NoTask = NoTask
    MaxRetries = 1
    MaxLog = 5
    MaxCrashes = 1
    Faults = {"stop", "crash", "write"}
    Jobs = {j1}
    PodCounts = {0, 1, 2}
    DefaultWorkers = 3
    MaxEdits = 2
    MaxFaults = 2
    Seeds = {s1, s2}
    MaxCalls = 5
INVARIANTS ConsumerInv
PROPERTIES TasksSettle ReconcilerOK JobsConverge 
CHECK_DEADLOCK FALSE
