CONSTANTS
    Calls = {x1}
    Statuses = {200, 404}
SPECIFICATION Spec
INVARIANT ReportedOnce
CHECK_DEADLOCK FALSE
