SPECIFICATION Spec
CONSTANTS
    w1 = w1
    w2 = w2
    Worker = {w1}
    Prog <- Background
    MaxHistoryFetch = 1000
    Bound <- RequestOnly
    MaxDisturbances = 0
    QueryAnyTime = FALSE
    MaxEvents = 30
INVARIANTS
    SameAsReplay
\* A run that is closed and has no queued task is at rest.
CHECK_DEADLOCK FALSE
