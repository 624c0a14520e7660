SPECIFICATION SharedSpec
CONSTANTS
    Nodes = {n1, n2}
    Urls = {u1, u2}
    Priorities = {0, 1}
    Band = 2
    MaxTime = 1
    MaxAdds = 3
    NoEntry = NoEntry
    Faults = {"lost"}
    Consumers = {c1}
    Domains = {d1, d2}
    NoDomain = NoDomain
    Delay = 3
    DelayTime = 8
SYMMETRY Symmetry
 
PROPERTIES RedisOK 
CHECK_DEADLOCK FALSE
