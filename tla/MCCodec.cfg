SPECIFICATION CodecSpec
CONSTANTS
    Continue = 4
    Modulus = 32
    MaxBytes = 3
    MaxPacket = 7
    MaxString = 4
    Jobs <- MCJobs
    Strays <- MCStrays
INVARIANTS
    NumbersHaveTheirMeaning
    WhatIsSentIsRead
CHECK_DEADLOCK FALSE
