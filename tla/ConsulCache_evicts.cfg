CONSTANTS
    Names = {n1}
    Callers = {c1}
    Loop = Loop
    Lists = {l1}
    NoHosts = NoHosts
    Failed = Failed
    None = None
    RefreshAge = 1
    IdleAge = 2
    Interval = 2
    MaxFaults = 0
SPECIFICATION MCSpec
PROPERTY OnlyUnusedAreDue
