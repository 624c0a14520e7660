SPECIFICATION ResourcesSpec
CONSTANTS
    Users = {u1, u2, u3}
    Browsers = {b1, b2, b3}
    NoBrowser = NoBrowser
    MaxBrowsers = 2
    MaxTabs = 2
    MaxChecks = 1
    Names = {n1, m1}
    Aged = {m1}
    Savers = {s1, s2}
    MaxTime = 2
    MaxSets = 2
    Loaders = {l1, l2}
    Closers = {c1, c2}
    Keys = {k1, k2, k3}
    Known = {k1, k2}
    MaxEntries = 2
    NoPlugin = NoPlugin
    Procs = {p1, p2, p3}
    Migrations = 2
    Batches = {i1}
    MaxFaults = 2
    Calls = {q1, q2, q3}
    Buffers = {f1, f2, f3}
    NoArray = NoArray
    Size = 2
    MaxRedirects = 2
SYMMETRY Symmetry
INVARIANTS PoolInv PostgresInv ClientInv
PROPERTIES CookiesOK PluginsOK
CHECK_DEADLOCK FALSE
