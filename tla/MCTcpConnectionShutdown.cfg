SPECIFICATION Spec
CONSTANTS
    t1 = t1
    Ids <- OneTimer
    waterMark_ = 2
    MaxMessage = 2
    MaxBytes = 3
    MaxQueue = 2
INVARIANT ShutdownFinishes
CHECK_DEADLOCK FALSE
