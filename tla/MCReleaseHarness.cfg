SPECIFICATION Spec
CONSTANTS
    Options <- MCOptions
    ReadyTimeout = 3
    ProbeTimeout = 1
    RetryInterval = 1
INVARIANTS
    NothingLeftBehind
    WaitIsBounded
    CancelStopsRetries
PROPERTIES
    TornDownInReverse
CHECK_DEADLOCK FALSE
