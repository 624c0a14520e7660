SPECIFICATION LoopSpec
CONSTANTS
    v1 = v1
    v2 = v2
    w1 = w1
    url1 = url1
    url2 = url2
    Adders = {a1, a2}
    Consumers = {c1, c2}
    RawUrls = {v1, v2, w1}
    Urls = {url1, url2}
    Canonicalize <- MCCanonicalize
    PriorityOf <- MCPriorityOf
    Rules <- MCRules
    MaxRules = 1
    NoUrl = NoUrl
    NoEntry = NoEntry
INVARIANTS FrontierInv
PROPERTIES ImplementsFrontier BacklogServed
CHECK_DEADLOCK FALSE
