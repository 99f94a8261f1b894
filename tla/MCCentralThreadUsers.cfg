\* Two user threads, two handles that are opened for one device.
SPECIFICATION Spec
CONSTANTS
    h1 = h1
    h2 = h2
    d1 = d1
    d2 = d2
    Users = {u1, u2}
    Centrals = {c1, c2}
    Handles = {h1, h2}
    Managers = {}
    Devices = {d1, d2}
    NoThread = NoThread
    AnyPhidget = AnyPhidget
    Requests <- SameSerial
    Keepers = {}
    FastReplug = TRUE
    MaxCalls = 3
    MaxFaults = 1
SYMMETRY CentralSymmetry
CHECK_DEADLOCK FALSE
INVARIANTS
    TypeOK
    LifecycleIsExclusive
    ClosedStaysDetached
