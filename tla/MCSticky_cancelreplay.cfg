SPECIFICATION Spec
CONSTANTS
    w1 = w1
    w2 = w2
    Worker = {w1}
    Prog <- Cleanup
    MaxHistoryFetch = 1000
    Bound <- RequestOnly
    MaxDisturbances = 1
    QueryAnyTime = FALSE
    MaxEvents = 30
INVARIANT SameAsReplay
\* A run that is closed and has no queued task is at rest.
CHECK_DEADLOCK FALSE
