SPECIFICATION LocksSpec
CONSTANTS
    Procs = {p1, p2, p3}
    Domains = {d1, d2}
    NoDomain = NoDomain
    GlobalMax = 2
    DomainMax = 1
    PerDomain = TRUE
    Firers = {w1, w2}
    Registrars = {g1, g2}
    Nobody = nobody
INVARIANTS PermitsAccounted
PROPERTIES ImplementsLimits AcquireReturns CallbacksOK
