SPECIFICATION FairSpec
CONSTANTS
    p1 = p1
    p2 = p2
    e1 = e1
    e2 = e2
    Poller = {p1, p2}
    Persistent = {p1}
    Enqueuer = {e1, e2}
    MaxUnannounced = 1
INVARIANTS
    NoLeakedWaiter
    WaitersSignalled
PROPERTIES
    RowsAreTaken
