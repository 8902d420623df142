SPECIFICATION Spec
CHECK_DEADLOCK FALSE
CONSTANTS
    a1 = a1
    a2 = a2
    Callers = {a1}
    Conns = {k1}
    None = None
    Works <- OneRequest
    MaxRequest = 2
    MaxFailures = 0
    MaxCuts = 1
    ShortWrites = {7}
    Form16 = 3
    Form64 = 5
    MaxMessage = 9
INVARIANTS
    ServedWhole
