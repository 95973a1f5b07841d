SPECIFICATION Spec
CONSTANTS
    c1 = c1
    c2 = c2
    Conns = {c1, c2}
    Fds = {1, 2}
    NoConn = NoConn
    LFd = LFd
    Requests <- MixedRequests
    Pieces = {1, 2}
    Impatient = {c1, c2}
    MaxEvents = 2
    BufSize = 2
    LineMax = 4
    SndBuf = 5
    ChunkSize = 2
    FullChunks = 1
    LastChunk = 1
    DirEntries = 2
    Shortage = FALSE
SYMMETRY Sym
INVARIANTS NoCrossTalk FreshEvents OpenIsWatched PageIntact
CHECK_DEADLOCK FALSE
