CONSTANTS
    Names = {n1, n2}
    Callers = {c1, c2}
    Loop = Loop
    Lists = {l1, l2}
    NoHosts = NoHosts
    Failed = Failed
    None = None
    RefreshAge = 0
    IdleAge = 0
    Interval = 1
    MaxFaults = 1
SPECIFICATION MCFairSpec
INVARIANTS TypeOK CachedErrorNeverServed
PROPERTIES ImplementsDirectory CacheConverges
