SPECIFICATION Spec
CONSTANTS
    s1 = s1
    s2 = s2
    l1 = l1
    l2 = l2
    u1 = u1
    u2 = u2
    f1 = f1
    f2 = f2
    None = None
    Streams <- TwoStreams
    Listens <- TwoListens
    Udps <- TwoUdps
    Fds <- TwoFds
    MaxSets = 1
SYMMETRY Interchangeable
INVARIANT SocketsInv
INVARIANT NothingElseLost
CHECK_DEADLOCK FALSE
