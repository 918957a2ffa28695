SPECIFICATION FairSpec
CONSTANTS
    c1 = c1
    e1 = e1
    Callers <- OneCaller
    Elts <- OneElt
    Quitters <- OneElt
PROPERTY StartReturnsOnceCreated
CHECK_DEADLOCK FALSE
