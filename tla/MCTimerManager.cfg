SPECIFICATION FairSpec
CONSTANTS
    u1 = u1
    Threads <- OneThread
    MaxTimers = 2
    MaxTime = 2
    Whens = {0, 2}
    Intervals = {0, 1}
    ClockSteps = {0}
    MaxPosted = 2
INVARIANT TimerInv
INVARIANT TimerArmed
INVARIANT RunsAccountedFor
INVARIANT Punctual
PROPERTY CancelledNeverRuns
PROPERTY DueTimerRuns
CHECK_DEADLOCK FALSE
