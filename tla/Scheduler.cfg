SPECIFICATION FairSpec
CONSTANTS
    Workers = {w1, w2}
    Caller = c
    UseCaller = TRUE
    Fibers = {f1, f2}
    PinnedFibers = {f1}
    AnyThread = any
    NoFiber = none
    MaxYields = 2
INVARIANTS
    TypeOK
    CountersExact
    PinnedFindsReady
    StopComplete
    NoLostTask
PROPERTIES
    ImplementsPool
    StopReturns
    QueuedTaskRuns
