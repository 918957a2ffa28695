SPECIFICATION FairSpec
CONSTANTS
    t1 = t1
    Ids <- OneTimer
    waterMark_ = 2
    MaxMessage = 2
    MaxBytes = 3
    MaxQueue = 2
INVARIANT ConnectionInv
INVARIANT StreamInOrder
INVARIANT TimersEndWithConnection
PROPERTY CompletionReported
CHECK_DEADLOCK FALSE
