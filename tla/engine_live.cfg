SPECIFICATION LiveSpec
CONSTANTS
    r1 = r1
    r2 = r2
    r3 = r3
    d1 = d1
    d2 = d2
    Workers = {w1, w2}
    Adders = {a1}
    Waiters = {x1}
    Requests <- MCTwoRequests
    NoRequest = NoRequest
    Domains = {d1, d2}
    DomainOf <- MCOneDomain
    QueueCap = 1
    GlobalMax = 2
    DomainMax = 1
    Overlap = {}
    PageRequests = {q1, q2}
    Quiet = 2
    MaxWait = 3
    MaxRedirects = 1
    MaxClock = 6
INVARIANTS WaitComplete NoPanic
PROPERTIES WaitReturns WorkersExit IdleOK
CHECK_DEADLOCK FALSE
