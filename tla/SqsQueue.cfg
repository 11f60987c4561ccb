SPECIFICATION SqsSpec
CONSTANTS
    MessageIds = {m1, m2}
    Groups = {g}
    NoGroup = NoGroup
    DedupIds = {}
    NoDedup = NoDedup
    TempVisibility = 2
    DedupWindow = 2
    Retention = 1
    Consumers = {c1, c2}
    Fifo = FALSE
    GroupScope = FALSE
    QueueDelay = 0
    Delays = {}
    BatchDelays = {1}
    VisTimeout = 1
    Timeouts = {0}
    Waits = {0, 2}
    MaxMessages = 2
    MaxReceives = 1
    Frozen = FALSE
    MaxTime = 3
INVARIANT SqsTypeOK
INVARIANT GroupHeadOnly
INVARIANT NothingLost
INVARIANT LeaseHonoured
SYMMETRY Symmetry
