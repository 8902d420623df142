SPECIFICATION Spec
CONSTANTS
    f1 = f1
    f2 = f2
    f3 = f3
    Pools = {{t1}}
    Fibers = {f1}
    Nobody = Nobody
    Kind <- OneConnect
    Timed = {f1}
    MaxFailures = 0
INVARIANTS
    TimeoutReturns
