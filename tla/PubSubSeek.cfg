SPECIFICATION PubSubSpec
CONSTANTS
    Keys = {k}
    NoKey = NoKey
    MaxId = 3
    Clients = {c1}
    Publishers = {p}
    ExactlyOnce = TRUE
    Matches = {TRUE}
    AckDeadline = 1
    Extensions = {1}
    Retention = 0
    MaxMessages = 2
    MaxDeliveryAttempts = 1
    HasDeadSub = FALSE
    MaxPublished = 2
    BatchSize = 2
    FirstSeq = 0
    MaxVersion = 2
    MaxSeeks = 1
    MaxTime = 2
INVARIANT MessageKept
INVARIANT SeekInvalidates
CHECK_DEADLOCK FALSE
