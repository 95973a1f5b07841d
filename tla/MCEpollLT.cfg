SPECIFICATION FairSpec
CONSTANTS
    c1 = c1
    c2 = c2
    c3 = c3
    Conns = {c1, c2, c3}
    Fds = {4, 5}
    NoConn = NoConn
    MaxSent <- Talks
    SndBuf = 1
    Lazy = {c3}
    LFd = LFd
    MaxEvents = 2
    BufSize = 1
INVARIANTS ReadNeverBlocks LeaksOnlyResets
PROPERTIES Implements DataTaken
CHECK_DEADLOCK FALSE
