SPECIFICATION FairSpec
CONSTANTS
    MaxCandidates = 3
    Delay = 2
INVARIANTS
    WinnerStaysOpen
    ErrorMeansNoneConnected
    OpenConnectionsAccounted
    SendNeverBlocks
PROPERTIES
    AttemptsAreStaggered
    LateSuccessIsClosed
    RaceEnds
CHECK_DEADLOCK FALSE
