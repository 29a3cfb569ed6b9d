SPECIFICATION FairSpec
CONSTANTS
    q1 = q1
    q2 = q2
    Query = {q1, q2}
    MaxExpiries = 2
    MaxLost = 1
INVARIANTS
    OneAnswer
    RowsCleanedUp
PROPERTIES
    EveryQueryReturns
\* The system rests once every query has returned.
CHECK_DEADLOCK FALSE
