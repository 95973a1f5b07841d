SPECIFICATION FairSpec
CONSTANTS
    c1 = c1
    c2 = c2
    c3 = c3
    Conns = {c1, c2}
    NoConn = NoConn
    MaxSent <- OneTalks
    ForkMayFail = FALSE
PROPERTY HandlerReturns
CHECK_DEADLOCK FALSE
