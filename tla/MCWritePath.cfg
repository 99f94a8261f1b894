\* Two setters, two packets, two attachments; the device may fail or go.
SPECIFICATION FairSpec
CONSTANTS
    Senders = {s1, s2}
    NoThread = NoThread
    MaxSends = 2
    MaxAttach = 2
    ClearsSlot = TRUE
    Unplugs = TRUE
    Failures = TRUE
INVARIANTS
    TypeOK
    PendingIsSignalled
    NeverResent
    ClosedIsQuiet
PROPERTIES
    CallsGetThrough
    AcceptedIsTaken
