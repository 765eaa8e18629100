CONSTANTS
    Procs = {p1, p2, p3}
    LimitCnt = 2
    MaxTime = 3
    ClockSetBack = TRUE
SPECIFICATION Spec
INVARIANTS TypeOK WindowLimit
PROPERTIES DeniedOnlyWhenFull ImplementsQuota
