SPECIFICATION Spec
CONSTANTS
    r1 = r1
    r2 = r2
    r3 = r3
    d1 = d1
    d2 = d2
    Workers = {w1, w2}
    Adders = {a1}
    Waiters = {x1}
    Requests <- MCRequests
    NoRequest = NoRequest
    Domains = {d1, d2}
    DomainOf <- MCDomainOf
    QueueCap = 1
    GlobalMax = 2
    DomainMax = 1
    Overlap = {"add", "start"}
SYMMETRY Symmetry
INVARIANTS UrlWgAccounting NoLeakedPermit RequestsConserved
PROPERTIES HandledOnce
CHECK_DEADLOCK FALSE
