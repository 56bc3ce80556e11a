SPECIFICATION Spec
CONSTANTS
    ArgLists <- MCArgLists
    NanosPerSecond = 4
    MaxInt = 64
    MaxTimeout = 60
INVARIANT EmptyArgumentsRejected
CHECK_DEADLOCK FALSE
