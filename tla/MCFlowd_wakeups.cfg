SPECIFICATION FairSpec
CONSTANTS
    w1 = w1
    w2 = w2
    p1 = p1
    p2 = p2
    NoWorker = NoWorker
    Worker = {w1, w2}
    LiveWorker = {w2}
    Proc = {p1, p2}
    Call <- StartCancel
    MaxRuns = 1
    Decide <- DecideOneTimer
    MaxAttempts = 2
    MaxRetries = 2
    StickyEnabled = TRUE
    CrashPoints = {"wake", "terminate", "start", "wfdequeued", "wfstart", "wflist", "wfcomplete", "actdequeued", "actstart"}
    MaxCrashes = 0
    MaxExpiries = 0
    MaxTaskFailures = 0
    MaxRaceEvents = 6
INVARIANTS
    HistoryContiguous
    TimerAccounted
    NoLostWakeup
    WokenExactlyOnce
PROPERTIES
    QueuesDrain
\* The system rests once every call is answered and the queues are empty.
CHECK_DEADLOCK FALSE
