SPECIFICATION MoveFairSpec
CONSTANTS
    MessageIds = {m1}
    Groups = {}
    NoGroup = NoGroup
    DedupIds = {}
    NoDedup = NoDedup
    TempVisibility = 2
    DedupWindow = 2
    Retention = 2
    Consumers = {c1}
    Fifo = FALSE
    GroupScope = FALSE
    QueueDelay = 0
    Delays = {}
    BatchDelays = {}
    VisTimeout = 1
    Timeouts = {}
    Waits = {2}
    MaxMessages = 1
    MaxReceives = 1
    Frozen = FALSE
    MaxTime = 3
    Tasks = {t1, t2}
    MoveFrom = {"dlq", "source"}
    MoveTo = {"source", NoDest, Missing}
    NoDest = NoDest
    Missing = Missing
    MaxMoved = 1
INVARIANT MovedOnce
PROPERTY PollEnds
CHECK_DEADLOCK FALSE
