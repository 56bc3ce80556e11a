SPECIFICATION MCSpec
CONSTANTS
    ArgLists <- MCArgLists
    NanosPerSecond = 4
    MaxInt = 64
    MaxTimeout = 60
    Addresses <- MCAddresses
    Names = {h1}
    NoHost = NoHost
    ExplicitPorts = {25565, 7}
    SrvPorts = {0, 9}
    MaxAnswers = 4
INVARIANTS
    ScanFindsTheMeaning
    ConfigIsInDomain
    ExitStatusTellsThePhase
    CandidatesFollowPolicy
    CandidatesAlternate
    PortsAgree
CHECK_DEADLOCK FALSE
