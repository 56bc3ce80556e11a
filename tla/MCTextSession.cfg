SPECIFICATION FairSpec
CONSTANTS
    Configs <- MCConfigs
    Addresses = {a1}
    NoAddress = NoAddress
    Horizon = 5
    MaxProbes = 3
    MaxSockets = 2
INVARIANT OverrunIsAccountedFor
PROPERTIES
    StartsArePaced
    SessionReturns
    ImplementsSession
CHECK_DEADLOCK FALSE
