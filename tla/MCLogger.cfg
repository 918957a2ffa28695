SPECIFICATION FairSpec
CONSTANTS
    t1 = t1
    t2 = t2
    Threads <- TwoThreads
    Threshold = 2
    MaxLines = 4
INVARIANT LoggerInv
PROPERTY UrgentIsWritten
PROPERTY DestructorReturns
CHECK_DEADLOCK FALSE
