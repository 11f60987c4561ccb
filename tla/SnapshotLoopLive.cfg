SPECIFICATION SnapshotLoopFairSpec
CONSTANTS
    TryReaders = {q1, saver}
    WaitReaders = {final}
    Writers = {w1}
    NoWriter = NoWriter
    Saver = saver
    Shutdown = final
    Stores = {s1, s2}
    FaultyStores = {}
    MaxBoots = 1
    NoFile = NoFile
    Torn = Torn
PROPERTIES
    ShutdownEnds
CHECK_DEADLOCK FALSE
