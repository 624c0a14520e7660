SPECIFICATION Spec
CONSTANTS
    Rpcs = {p1, p2}
    Ids = {i1}
    NoRpc = NoRpc
    NoId = NoId
INVARIANTS LongRunning
CHECK_DEADLOCK FALSE
