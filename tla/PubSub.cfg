SPECIFICATION PubSubSpec
CONSTANTS
    Keys = {k}
    NoKey = NoKey
    MaxId = 3
    Clients = {c1, c2}
    Publishers = {p}
    ExactlyOnce = FALSE
    Matches = {TRUE, FALSE}
    AckDeadline = 1
    Extensions = {0, 1}
    Retention = 1
    MaxMessages = 2
    MaxDeliveryAttempts = 1
    HasDeadSub = TRUE
    MaxPublished = 2
    BatchSize = 2
    FirstSeq = 0
    MaxVersion = 2
    MaxSeeks = 0
    MaxTime = 4
INVARIANT PubSubTypeOK
INVARIANT AckedPrefix
INVARIANT HeldHasBlocker
INVARIANT MessageKept
PROPERTY PullsKeyPrefix
CHECK_DEADLOCK FALSE
SYMMETRY Symmetry
