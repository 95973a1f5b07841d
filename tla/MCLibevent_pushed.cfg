SPECIFICATION MCSpec
CONSTANTS
    c1 = c1
    c2 = c2
    c3 = c3
    Conns = {c1, c2, c3}
    Fds = {4, 5, 6}
    NoConn = NoConn
    MaxSent <- Talks
    SndBuf = 1
    Lazy = {c2}
    MaxEvent = 3
    BufSize = 1
    LFd = 3
    None = None
    Clients = {c1, c2}
    Browsers = {c1}
    ReadMax = 3
    BufMax = 2
    MaxUnits <- OneTalks
    Nul = {2}
    Methods = {"GET", "get", "POST"}
    FileSize = 2
    DirSize = 1
INVARIANT FilePushed

CHECK_DEADLOCK FALSE
