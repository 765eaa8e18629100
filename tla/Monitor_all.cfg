CONSTANTS
    k1 = k1
    k2 = k2
    Reporters = {r1, r2}
    Keys = {k1, k2}
    Unparsable = {k2}
    Requests <- MCRequests
    QueueLen = 1
    CheckLimit = 1
    Interval = 1
    MaxCount = 2
    SetBack = 1
    MaxSetBacks = 1
SPECIFICATION FairSpec
INVARIANTS TypeOK NothingLostInside
PROPERTIES SentEventually ReportersNeverWait
