CONSTANTS
    Calls = {x1}
    Statuses = {200, 204, 404}
SPECIFICATION FairSpec
INVARIANTS TypeOK NoErrorMeansAnswer FailureCodeIsReturned LastReportIsResult ConnectionIsReleased
PROPERTIES CallReturns TimeoutEndsRequest ReturnedIsFinal ImplementsCall
CHECK_DEADLOCK FALSE
