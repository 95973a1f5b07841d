SPECIFICATION FairSpec
CONSTANTS
    c1 = c1
    c2 = c2
    Conns = {c1, c2}
    Fds = {1, 2}
    NoConn = NoConn
    LFd = LFd
    Requests <- PageRequests
    Pieces = {2}
    Impatient = {c1}
    MaxEvents = 2
    BufSize = 2
    LineMax = 3
    SndBuf = 6
    ChunkSize = 1
    FullChunks = 1
    LastChunk = 1
    DirEntries = 2
    Shortage = TRUE
PROPERTIES Answered BackToWait
CHECK_DEADLOCK FALSE
