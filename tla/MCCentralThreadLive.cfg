\* A handle that stays open, another and a manager that come and go; fair
\* threads.
SPECIFICATION FairSpec
CONSTANTS
    h1 = h1
    h2 = h2
    d1 = d1
    d2 = d2
    Users = {u1}
    Centrals = {c1}
    Handles = {h1, h2}
    Managers = {m1}
    Devices = {d1, d2}
    NoThread = NoThread
    AnyPhidget = AnyPhidget
    Requests <- OwnSerial
    Keepers = {h1}
    FastReplug = FALSE
    MaxCalls = 3
    MaxFaults = 1
CHECK_DEADLOCK FALSE
INVARIANT ManagersKeepUp
PROPERTIES
    CallsReturn
    DevicesAreNoticed
