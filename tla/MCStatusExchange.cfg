SPECIFICATION FairSpec
CONSTANTS
    Tokens = {t1, t2}
    ProbeToken = t1
    Timeout = 1
    ServerDeadline = 2
    Horizon = 3
    MaxForeign = 3
INVARIANTS
    SuccessIsMutual
    
    OnlyTheExactExchangeCounts
PROPERTIES
    BothSidesEnd
CHECK_DEADLOCK FALSE
