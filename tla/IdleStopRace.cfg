SPECIFICATION Spec
CONSTANTS
    i1 = i1
    i2 = i2
    Threads = {t1, t2}
    Timers = {}
    Events = {e1, e2}
    Delays = {1}
    MaxTimeout = 1
    IntMax = 2
    Loads <- TwoEvents
SYMMETRY Symmetry
INVARIANTS
    StopLeavesNothing
