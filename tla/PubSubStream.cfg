SPECIFICATION StreamSpec
CONSTANTS
    Keys = {k}
    NoKey = NoKey
    Published = {k, NoKey}
    MaxId = 2
    Streams = {s}
    AckDeadline = 1
    Extensions = {0}
    MaxOutstanding = 2
    Size = 2
    MaxBytes = 2
    MaxClaims = 2
    MaxTime = 2
INVARIANT StreamTypeOK
INVARIANT HiddenIsHeld
PROPERTY TombstonesCleared
PROPERTY BudgetReturns
CHECK_DEADLOCK FALSE
