SPECIFICATION Spec
CONSTANTS
    w1 = w1
    w2 = w2
    p1 = p1
    p2 = p2
    NoWorker = NoWorker
    Worker = {w1}
    LiveWorker = {w1}
    Proc = {p1}
    Call <- AllCalls
    MaxRuns = 4
    Decide <- DecideContinueOnce
    MaxAttempts = 2
    MaxRetries = 2
    StickyEnabled = FALSE
    CrashPoints = {"wake", "terminate", "start", "wfdequeued", "wfstart", "wflist", "wfcomplete", "actdequeued", "actstart"}
    MaxCrashes = 0
    MaxExpiries = 0
    MaxTaskFailures = 0
    MaxRaceEvents = 8
INVARIANTS
    StatusMatchesHistory
    ContinuationLinked
    WokenExactlyOnce
PROPERTIES
    ImplementsHistoryLog
\* The system rests once every call is answered and the queues are empty.
CHECK_DEADLOCK FALSE
