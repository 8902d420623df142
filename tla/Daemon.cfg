SPECIFICATION FairSpec
CHECK_DEADLOCK FALSE
CONSTANTS
    f1 = f1
    f2 = f2
    l1 = l1
    l2 = l2
    s1 = s1
    w1 = w1
    n0 = n0
    n1 = n1
    n2 = n2
    Setups <- Instances
    Nodes <- AllNodes
    Files = {f1, f2}
    Letters = {"timeout", "late", "logs", "name"}
    Early = {"timeout"}
    Late = {"late"}
    Listeners = {"static", "added"}
    Static = "static"
    Names = {"root", "system"}
    Numbers = {n0, n1, n2}
    Default = n0
    Values = {n1, n2}
    MaxLoads = 2
    MaxCalls = 3
    MaxFaults = 1
    None = None
INVARIANTS
    ListenersAgree
    LoadIsCurrent
PROPERTIES
    CrashHeals
