SPECIFICATION MiddlewareSpec
CONSTANTS
    d1 = d1
    d2 = d2
    Requests = {r1, r2, r3}
    Domains = {d1, d2}
    NoDomain = noDomain
    GlobalRPS = 2
    DefaultDomainRPS = 1
    BurstSize = 2
    Overrides <- MCOverrides
    Rates = {1, 2}
    MaxSets = 2
    Fetchers = {f1, f2}
    Keys = {k1, k2, k3}
    Bypass = bypass
    MaxEntries = 2
    DefaultTTL = 2
    MaxAges = {1}
    NoMaxAge = none
    NoResponse = noResponse
    MaxTime = 3
    N = 2
    MaxFailures = 2
    IndexLimit = 4
    Hosts = {d1}
    Nobody = nobody
    CacheExpiry = 2
    Lifetimes = {0, 1, 3}
    Buffer = 1
    MaxLatency = 1
    MaxRetries = 2
    InitialBackoff = 4
    MaxBackoff = 12
    Multiplier = 4
    JitterPercent = 25
    Second = 4
    Half = 16
    RetryAfters <- MCRetryAfters
    NoHeader = noHeader
SYMMETRY Symmetry
INVARIANTS   RetryInv
PROPERTIES  ProxyOK 
