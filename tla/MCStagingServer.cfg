SPECIFICATION FairSpec
CONSTANTS
    j4 = j4
    j6 = j6
    b4 = b4
    Java <- MCJava
    Bedrock <- MCBedrock
    SetupOrder <- MCOrder
    Conns = {c1, c2}
INVARIANTS
    ReturnLeavesNothing
    ReturnIsHonest
    NoErrorDropped
PROPERTY ServeEnds
CHECK_DEADLOCK FALSE
