SPECIFICATION ServerSpec
CONSTANTS
    Rpcs = {p1, p2, p3}
    Ids = {i1, i2}
    NoRpc = NoRpc
    NoId = NoId
    Updaters = {u1, u2}
    Loop = loop
    Clients = {c1}
    Cap = 2
    MaxUpdates = 3
    Stoppers = {s1}
    Streams = {k1, k2}
    Starter = starter
INVARIANTS ServiceInv ProgressInv
PROPERTIES  LatestShown 
CHECK_DEADLOCK FALSE
