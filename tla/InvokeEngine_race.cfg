CONSTANTS
    Callers = {c1, c2}
    NodeCounts = {1, 2}
    NoObject = NoObject
    Limits = {0, 1, 3, 9}
    Default = 4
    Low = 2
    High = 5
    MaxCalls = 3
SPECIFICATION Spec
INVARIANTS TypeOK IndexAdvances ConfiguredUnlessEarly LimitsInRange
PROPERTIES ObjectSettles
