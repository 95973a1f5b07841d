SPECIFICATION FairSpec
CONSTANTS
    c1 = c1
    c2 = c2
    c3 = c3
    Conns = {c1, c2, c3}
    Fds = {4, 5}
    NoConn = NoConn
    MaxSent <- Talks
    SndBuf = 1
    Lazy = {c3}
    LFd = 3
    BufSize = 1
INVARIANTS WatchesAll ReadOnlyWhenReady
PROPERTIES Implements Served
CHECK_DEADLOCK FALSE
