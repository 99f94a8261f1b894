--------------------------- MODULE MCRemotePhidget ---------------------------
(* RemotePhidget on small instances. *)
EXTENDS RemotePhidget

Of(plugs, opens, losses, changes, sets) ==
    [plug |-> plugs, open |-> opens, loss |-> losses, change |-> changes, set |-> sets]

\* The middle of lo..hi, then what is below and above it.
MiddleOut ==
    LET from[b \in (1..60) \X (0..60)] ==
            IF b[1] > b[2] THEN <<>>
            ELSE LET mid == (b[1] + b[2]) \div 2
                 IN <<mid>> \o from[<<b[1], mid - 1>>] \o from[<<mid + 1, b[2]>>]
    IN [n \in 1..30 |-> from[<<1, n>>]]

\* Keys whose values change: Label and, for a GPS, Position and PositionFix.
\* One is counted each time, one never and one once.
OneOfEach == {1, 7, 8}

AllClasses == DOMAIN ClassKeys
AllValues == 1..27

\* Two devices of the smallest class, which a handle for any chooses from.
Devs == [c \in Classes |-> IF c = "Generic" THEN {1, 2} ELSE {1}]

\* When no key is there yet or all are.
AtEnds == [c \in Classes |-> {0, Len(KeysOf(c))}]

\* Every class but GPS goes through two attaches; a second open and the loss of
\* the server come with a small class, changing values with another. These, and
\* two of the largest classes, have no setter.
Bounds ==
    [c \in Classes |->
        CASE c = "WeightSensor" -> Of(2, 2, 1, 0, 0)
          [] c = "GPS" -> Of(1, 1, 1, 1, 0)
          [] c = "Generic" -> Of(2, 1, 0, 0, 0)
          [] c \in {"AdvancedServo", "Spatial"} -> Of(2, 1, 0, 0, 0)
          [] OTHER -> Of(2, 1, 0, 0, 1)]
=============================================================================
