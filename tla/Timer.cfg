SPECIFICATION Spec
CONSTANTS
    Threads = {t1, t2}
    Timers = {1, 2}
    Periods = {1, 2}
    MaxTime = 2
SYMMETRY Symmetry
INVARIANTS
    ExactlyOnce
    PeriodIntact
    FrontAnnounced
PROPERTIES
    Drains
