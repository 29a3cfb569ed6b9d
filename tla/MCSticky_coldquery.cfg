SPECIFICATION Spec
CONSTANTS
    w1 = w1
    w2 = w2
    Worker = {w1}
    Prog <- Parallel
    MaxHistoryFetch = 1000
    Bound <- QueryOnly
    MaxDisturbances = 1
    QueryAnyTime = TRUE
    MaxEvents = 30
INVARIANT NeverStuck
\* A run that is closed and has no queued task is at rest.
CHECK_DEADLOCK FALSE
