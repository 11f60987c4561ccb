\* Three kinds of callers: a request, two readers that wait, two writers that compete.
SPECIFICATION BarrierFairSpec
CONSTANTS
    TryReaders = {q1}
    WaitReaders = {s1, s2}
    Writers = {w1, w2}
    NoWriter = NoWriter
INVARIANTS
    BarrierTypeOK
    WriterExclusion
    NoLeakedLock
PROPERTIES
    ImplementsSharedLock
    NoReaderOvertakes
    EveryBeginEnds
    EveryDrainEnds
    ReadersReadmitted
