SPECIFICATION MCFairSpec
CONSTANTS
    c1 = c1
    c2 = c2
    Conns = {c1, c2}
    Fds = {4, 5}
    NoConn = NoConn
    MaxSent <- Talks
    SndBuf = 1
    Lazy = {c2}
    LFd = 3
    BufSize = 1
    MaxOutput = 2
    ReadMax = 1
    MaxSay <- Says
    Lines <- SomeLines
    BufLen = 3
    NulChar = "0"
    Behind <- SomeBytes
    MaxKills = 1
    Users = {u1, u2}
    Texts = {t1, t2}
    Empty = Empty
    Nothing = Nothing
    MaxStarts = 2
    Capacity = 2
    MaxWrites = 3
    Want = 3
    ReadBuf = 2
    LineEnds = {2}
    MaxBytes = 4
    MaxSignals = 1
    MaxCalls = 2
    Progs = {p1, p2}
    Payloads <- SomeData
    Src <- Guest
    Dst <- Host
    Port = 8000
    Mac <- Macs
    MaxFrames = 2
    Fields <- SomeFields
    Half = 4
    MaxClicks = 2
    Formats = {{"name"}, {"pid", "perror"}}
    MaxLines = 2
    Names <- Entries
    Safe = {46, 97, 98, 99}
    Types <- Suffixes
    Plain = "text/plain"
    ToSize = 9
    Size = 3
    Stream <- Segments
INVARIANTS DataExact AnswersRight Bounded
PROPERTIES StreamsKept FailsOnlyToAnother Conversations Delivered
CHECK_DEADLOCK FALSE
