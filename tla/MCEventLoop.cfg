SPECIFICATION FairSpec
CONSTANTS
    u1 = u1
    u2 = u2
    t1 = t1
    t2 = t2
    Threads <- MCThreads
    Tasks <- MCTasks
    Timeouts = {"2000", "-1"}
    Finite = {"2000"}
    WakeupMax = 1
INVARIANT LoopInv
INVARIANT NoLostWakeup
INVARIANT CallbackQueuesForThisTurn
PROPERTY ImplementsTaskQueue
PROPERTY PostedRuns
PROPERTY QueuedRuns
PROPERTY QuitStopsLoop
