SPECIFICATION FairSpec
CONSTANTS
    base = base
    sub = sub
    c1 = c1
    c2 = c2
    f1 = f1
    f2 = f2
    NoConn = NoConn
    Base <- base
    SubLoops <- OneSub
    Conns <- OneConn
    Fds <- OneFd
    MaxQueue = 2
PROPERTY AcceptedIsEstablished
PROPERTY ClosedIsDestroyed
CHECK_DEADLOCK FALSE
