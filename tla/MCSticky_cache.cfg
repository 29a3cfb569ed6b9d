SPECIFICATION Spec
CONSTANTS
    w1 = w1
    w2 = w2
    Worker = {w1}
    Prog <- Parallel
    MaxHistoryFetch = 1000
    Bound <- OnceEach
    MaxDisturbances = 2
    QueryAnyTime = FALSE
    MaxEvents = 30
INVARIANTS
    SameAsReplay
    NeverStuck
    SignalsHandledOnce
    NoFalsePanic
\* A run that is closed and has no queued task is at rest.
CHECK_DEADLOCK FALSE
