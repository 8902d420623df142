SPECIFICATION FairSpec
CHECK_DEADLOCK FALSE
CONSTANTS
    a1 = a1
    a2 = a2
    Callers = {a1, a2}
    Conns = {k1, k2, k3}
    None = None
    Works <- SharedOrAlone
    MaxRequest = 2
    MaxFailures = 1
    MaxCuts = 1
    ShortWrites = {7}
    Form16 = 3
    Form64 = 5
    MaxMessage = 9
INVARIANTS
    ServedAsSent
    AnswersOwn
    BrokenOnlyByReset
    SplitSafe
    FramesArrive
PROPERTIES
    RequestsEnd
