SPECIFICATION PassingSpec
CONSTANTS
    c1 = c1
    c2 = c2
    c3 = c3
    Conns = {c1, c2, c3}
    NoConn = NoConn
    MaxSent <- OneTalks
    ForkMayFail = TRUE
INVARIANTS NoLostReap OwnChildOnly EchoComplete
PROPERTIES EventuallyReaped EventuallyServed
CHECK_DEADLOCK FALSE
