SPECIFICATION FairSpec
CONSTANTS
    c1 = c1
    c2 = c2
    Conns = {c1, c2}
    Fds = {1, 2}
    NoConn = NoConn
    LFd = LFd
    Requests <- FileRequests
    Pieces = {}
    Impatient = {c1}
    MaxEvents = 2
    BufSize = 2
    LineMax = 4
    SndBuf = 6
    ChunkSize = 1
    FullChunks = 1
    LastChunk = 1
    DirEntries = 2
    Shortage = FALSE
PROPERTY DrainEnds
CHECK_DEADLOCK FALSE
