\* Two outputs, one setter, three kinds of device.
SPECIFICATION Spec
CONSTANTS
    o1 = o1
    o2 = o2
    s1 = s1
    s2 = s2
    Kinds <- AllAtOnce
    Outputs = {o1, o2}
    Setters = {s1}
    NoThread = NoThread
    Unknown = Unknown
    ReadTries = 2
    MaxCalls = 2
    Changes = {"input", "plug", "fault"}
    MaxChanges <- OneChange
    MaxAttach = 2
INVARIANTS
    TypeOK
    OutputsSettle
    ToldIsCurrent
    RatioIsOfValue
