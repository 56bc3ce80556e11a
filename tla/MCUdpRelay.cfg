SPECIFICATION FairSpec
CONSTANTS
    ClientPorts = {c1, c2}
    Ports = {p1}
    RelayTimeout = 3
    ProbeTimeout = 1
    RetryInterval = 1
    MaxAttempts = 4
    QueueLimit = 2
INVARIANTS
    StrayAnswerNeedsReuse
    SettledTargetIsFound
PROPERTIES
    CloseIsBounded
CHECK_DEADLOCK FALSE
