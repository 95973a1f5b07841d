SPECIFICATION FairSpec
CONSTANTS
    c1 = c1
    c2 = c2
    c3 = c3
    Conns = {c1, c2, c3}
    Fds = {4, 5, 6}
    NoConn = NoConn
    MaxSent <- Talks
    SndBuf = 1
    Lazy = {c3}
    NoFd = NoFd
    OpenMax = 3
    MaxLine = 1
    Stack = {FALSE, TRUE}
INVARIANTS SlotsMatch ReadOnlyWhenReady
PROPERTIES Implements Served
CHECK_DEADLOCK FALSE
