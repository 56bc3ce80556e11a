SPECIFICATION TcpFairSpec
CONSTANTS
    Conns = {c1}
    MaxChunks = 2
INVARIANTS
    AnswersReachTheClient
PROPERTIES
    RelayCloses
CHECK_DEADLOCK FALSE
