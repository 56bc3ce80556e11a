SPECIFICATION FairSpec
CONSTANTS
    N = 2
    Ports = {p1}
    Timeout = 2
    Intervals = {1, 3}
    Milli = 2
    MaxPings = 3
    Horizon = 3
INVARIANTS
    StalePongNeedsLatePing
    SocketTimeBounded
    OnePingAfterCancel
PROPERTY ProbeEnds
CHECK_DEADLOCK FALSE
