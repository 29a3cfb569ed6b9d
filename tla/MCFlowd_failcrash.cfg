SPECIFICATION Spec
CONSTANTS
    w1 = w1
    w2 = w2
    p1 = p1
    p2 = p2
    NoWorker = NoWorker
    Worker = {w1}
    LiveWorker = {w1}
    Proc = {p1, p2}
    Call <- StartOnly
    MaxRuns = 1
    Decide <- DecideSimple
    MaxAttempts = 2
    MaxRetries = 2
    StickyEnabled = FALSE
    CrashPoints = {"wffail"}
    MaxCrashes = 1
    MaxExpiries = 0
    MaxTaskFailures = 1
    MaxRaceEvents = 8
SYMMETRY SymProc
INVARIANTS
    NoLostWakeup
\* The system rests once every call is answered and the queues are empty.
CHECK_DEADLOCK FALSE
