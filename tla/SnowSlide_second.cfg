CONSTANTS
    Procs = {p1, p2}
    LimitCnt = 1
    MaxTime = 3
    ClockSetBack = FALSE
SPECIFICATION MCSpec
INVARIANT SecondLimit
SYMMETRY Symmetry
