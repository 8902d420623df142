SPECIFICATION FairSpec
CONSTANTS
    t1 = t1
    t2 = t2
    d1 = d1
    d2 = d2
    Setups <- OneAndTwo
    Fibers = {f1, f2}
    NoFiber = NoFiber
INVARIANTS
    Bookkeeping
    NoLostEdge
    TriggerAssertion
    CloseCancelsAll
PROPERTIES
    ReadyIsDelivered
