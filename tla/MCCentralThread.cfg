\* One user thread, two handles with a device each that come and go, so that the
\* last close joins the central thread; an unplug or an error; fair threads.
SPECIFICATION FairSpec
CONSTANTS
    h1 = h1
    h2 = h2
    d1 = d1
    d2 = d2
    Users = {u1}
    Centrals = {c1, c2}
    Handles = {h1, h2}
    Managers = {}
    Devices = {d1, d2}
    NoThread = NoThread
    AnyPhidget = AnyPhidget
    Requests <- OwnSerial
    Keepers = {}
    FastReplug = TRUE
    MaxCalls = 3
    MaxFaults = 1
CHECK_DEADLOCK FALSE
INVARIANTS
    UsbOutlivesHandles
    HandlesAreListed
    PolledByOne
PROPERTY CallsReturn
