SPECIFICATION PrepareSpec
CONSTANTS
    Addresses <- MCAddresses
    Names = {h1}
    NoHost = NoHost
    ExplicitPorts = {25565, 7}
    SrvPorts = {0, 9}
    MaxAnswers = 1
INVARIANT ListedPrefixesRejected
CHECK_DEADLOCK FALSE
