SPECIFICATION Spec
CONSTANTS
    base = base
    sub = sub
    c1 = c1
    c2 = c2
    f1 = f1
    f2 = f2
    NoConn = NoConn
    Base <- base
    SubLoops <- OneSub
    Conns <- TwoConns
    Fds <- TwoFds
    MaxQueue = 1
SYMMETRY Interchangeable
INVARIANT ServerInv
INVARIANT ChannelsAlive
INVARIANT RegistryKeepsOwn
INVARIANT MessagesFromOpenChannel
INVARIANT NothingLeftBehind
PROPERTY ImplementsConnectionLife
CHECK_DEADLOCK FALSE
