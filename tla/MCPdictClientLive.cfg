\* Liveness and the abstract promise: two callers, one handle.
SPECIFICATION FairSpec
CONSTANTS
    Callers = {k1, k2}
    Owners = {o1}
    NoOne = NoOne
    MaxCommands = 4
    MaxTimeouts = 0
    MaxLine = 2
CHECK_DEADLOCK FALSE
PROPERTIES
    CallsAreAnswered
    ServiceSpec
