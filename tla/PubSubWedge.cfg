SPECIFICATION StreamSpec
CONSTANTS
    Keys = {k}
    NoKey = NoKey
    Published = {k, NoKey}
    MaxId = 1
    Streams = {s}
    AckDeadline = 1
    Extensions = {0}
    MaxOutstanding = 1
    Size = 1
    MaxBytes = 3
    MaxClaims = 2
    MaxTime = 1
PROPERTY AckedBudgetReturns
CHECK_DEADLOCK FALSE
