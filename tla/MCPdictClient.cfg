\* Two callers, two handles, one command may time out.
SPECIFICATION Spec
CONSTANTS
    Callers = {k1, k2}
    Owners = {o1, o2}
    NoOne = NoOne
    MaxCommands = 5
    MaxTimeouts = 1
    MaxLine = 1
SYMMETRY BothSymmetry
CHECK_DEADLOCK FALSE
INVARIANTS
    TypeOK
    AnswersAreOwn
    ClosedIsForgotten
