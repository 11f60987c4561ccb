SPECIFICATION SnapshotLoopSpec
CONSTANTS
    TryReaders = {q1, saver}
    WaitReaders = {final}
    Writers = {w1}
    NoWriter = NoWriter
    Saver = saver
    Shutdown = final
    Stores = {s1, s2}
    FaultyStores = {s2}
    MaxBoots = 2
    NoFile = NoFile
    Torn = Torn
INVARIANTS
    SnapshotLoopTypeOK
    MemoryConsistent
    NeverTorn
    FileKeepsPromise
    StopCapturesState
PROPERTIES
    DurabilityMonotone
CHECK_DEADLOCK FALSE
