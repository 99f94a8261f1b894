\* Every class of device.
SPECIFICATION Spec
CONSTANTS
    Values <- AllValues
    Instances <- AllClasses
    DevicesOf <- Devs
    Budget <- Bounds
    PublishOrder <- MiddleOut
    Changing <- OneOfEach
    Moments <- AtEnds
    MaxLine = 1
\* All chances are used up in the end.
CHECK_DEADLOCK FALSE
INVARIANTS
    TypeOK
    DictionaryIsSound
    AttachIsComplete
    SettledAgrees
