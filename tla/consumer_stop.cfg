SPECIFICATION Spec
CONSTANTS
    Tasks = {t1, t2, bad}
    Malformed = {bad}
    Workers = {w1}
    NoTask = NoTask
    MaxRetries = 1
    MaxLog = 5
    MaxCrashes = 1
    Faults = {"stop"}
INVARIANTS GracefulStop
CHECK_DEADLOCK FALSE
