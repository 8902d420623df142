SPECIFICATION FairSpec
CONSTANTS
    i1 = i1
    i2 = i2
    Threads = {t1, t2}
    Timers = {i1, i2}
    Events = {e1}
    Delays = {1, 2}
    MaxTimeout = 2
    IntMax = 2
    Loads <- Mixed
INVARIANTS
    PendingCoversEvents
    StopLeavesNoTask
    NoOversleep
PROPERTIES
    StopEnds
