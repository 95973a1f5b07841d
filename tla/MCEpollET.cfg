SPECIFICATION FairSpec
CONSTANTS
    c1 = c1
    c2 = c2
    c3 = c3
    Conns = {c1, c2, c3}
    Fds = {1, 2}
    NoConn = NoConn
    LFd = LFd
    MaxSent <- OneTalks
    MaxEvents = 2
    BufSize = 1
INVARIANTS NoLostEdge BatchIsOpen
PROPERTIES Implements
CHECK_DEADLOCK FALSE
