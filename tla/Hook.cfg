SPECIFICATION FairSpec
CONSTANTS
    f1 = f1
    f2 = f2
    f3 = f3
    Pools = {{t1}, {t1, t2}}
    Fibers = {f1, f2, f3}
    Nobody = Nobody
    Kind <- ThreeCalls
    Timed = {f1, f2}
    MaxFailures = 2
INVARIANTS
    WokenOnce
    NobodyStranded
PROPERTIES
    CallsEnd
