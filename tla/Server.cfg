SPECIFICATION FairSpec
CHECK_DEADLOCK FALSE
CONSTANTS
    t1 = t1
    t2 = t2
    l1 = l1
    l2 = l2
    c1 = c1
    c2 = c2
    Setups <- Instances
    Listeners = {l1, l2}
    Clients = {c1, c2}
    MaxFd = 3
    None = None
INVARIANTS
    DescriptorsOwned
    OrderlyLoops
PROPERTIES
    ThreadsStayFree
    LoopsEnd
