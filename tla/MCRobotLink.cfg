\* Two attached motors, a motor and a servo to attach, two free pins.
SPECIFICATION Spec
CONSTANTS
    p1 = p1
    p2 = p2
    m1 = m1
    m2 = m2
    m3 = m3
    Motors = {m1, m2, m3}
    Servos = {s1}
    Encoded = {m1}
    PinList <- TwoPins
    Ready = {m1, m2}
    Elsewhere = Elsewhere
    Nothing = Nothing
    RunArguments <- SomeRuns
    Retries = 2
    MaxCalls = 3
    MaxLate = 2
CHECK_DEADLOCK FALSE
INVARIANTS
    TypeOK
    PinsAgree
    ValuesAreOwn
    MotorsAreCounted
    EncodedCanEnd
