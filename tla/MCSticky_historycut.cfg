SPECIFICATION Spec
CONSTANTS
    w1 = w1
    w2 = w2
    Worker = {w1}
    Prog <- Parallel
    MaxHistoryFetch = 8
    Bound <- OnceEach
    MaxDisturbances = 0
    QueryAnyTime = FALSE
    MaxEvents = 30
INVARIANT NeverStuck
\* A run that is closed and has no queued task is at rest.
CHECK_DEADLOCK FALSE
