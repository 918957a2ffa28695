SPECIFICATION Spec
CONSTANTS
    s1 = s1
    s2 = s2
    l1 = l1
    l2 = l2
    u1 = u1
    u2 = u2
    f1 = f1
    f2 = f2
    None = None
    Streams <- Nothing
    Listens <- OneListen
    Udps <- Nothing
    Fds <- TwoFds
    MaxSets = 2
INVARIANT OptionsAsAsked
CHECK_DEADLOCK FALSE
