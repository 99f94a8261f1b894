\* Liveness: one output, one setter; the plain device may fail or leave.
SPECIFICATION FairSpec
CONSTANTS
    o1 = o1
    o2 = o2
    s1 = s1
    s2 = s2
    Kinds <- With222
    Outputs = {o1}
    Setters = {s1}
    NoThread = NoThread
    Unknown = Unknown
    ReadTries = 1
    MaxCalls = 2
    Changes = {"plug", "fault"}
    MaxChanges <- PlainChange
    MaxAttach = 1
CHECK_DEADLOCK FALSE
PROPERTY
    SettersSucceed
