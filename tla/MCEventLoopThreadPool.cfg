SPECIFICATION PoolFairSpec
CONSTANTS
    owner = owner
    Callers <- OnlyOwner
    Owner <- owner
    Elts <- ThreeElts
    NumThreads = 2
    Quitters <- SecondElt
    UIntSize = 3
    MaxCalls = 3
INVARIANT ThreadInv
INVARIANT DestroyedMeansThreadEnded
INVARIANT StartReturnsLiveLoop
INVARIANT PoolInv
INVARIANT Balanced
PROPERTY StartReturns
PROPERTY DestructorReturns
PROPERTY PoolIsDestroyed
CHECK_DEADLOCK FALSE
