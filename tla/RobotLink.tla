------------------------------- MODULE RobotLink -------------------------------
(***************************************************************************)
(* RXTXRobot: the calls one program thread makes on a robot, the text      *)
(* protocol over the serial line (sendRaw) and the Arduino at its end.  A  *)
(* command is written, a fixed time is slept, and whatever has arrived by  *)
(* then is taken for the reply; some calls write the command again when    *)
(* nothing has.  Commands and replies carry nothing that relates them.     *)
(*                                                                         *)
(* Data: a reply is a sequence of tokens, as split("\\s+") yields them.  A *)
(* measurement is told apart by what was measured and during which call.   *)
(* The Arduino firmware and the serial driver are not in the repository:   *)
(* they are modelled from what RXTXRobot expects of them.                  *)
(*                                                                         *)
(* Validation is not overridden and setResetOnClose keeps its default.     *)
(***************************************************************************)
EXTENDS Naturals, Sequences, FiniteSets, SequencesExt

CONSTANTS
    Motors,    \* DC motors
    Servos,    \* servos
    Encoded,   \* the motors with an encoder (MOTOR1, MOTOR2)
    PinList,   \* the free digital pins, in the order of getInitialFreeDigitalPins
    Ready,     \* motors the program attached, to pins before those, at the start
    Elsewhere, \* the pins of those motors
    Nothing,   \* no pin, no device, no value (-1)
    RunArguments, \* motors and speeds runMotor is called with
    Retries,   \* how often a command is written at most: 4 in sendRaw
    MaxCalls,  \* bound: calls the program makes before it closes
    MaxLate    \* bound: times the reply is not all there when the sleep ends

Devices == Motors \cup Servos
Pins == Range(PinList)

ASSUME DevicesAssumption ==
    Motors \cap Servos = {} /\ Encoded \subseteq Motors /\ Ready \subseteq Motors
ASSUME PinsAssumption ==
    /\ PinList \in Seq(Pins) /\ IsInjective(PinList)
    /\ {Elsewhere, Nothing} \cap Pins = {} /\ Elsewhere # Nothing
    /\ Nothing \notin Devices
Speeds == {"zero", "some"}

\* The arguments of runMotor and runEncodedMotor: one motor or two.
Runs == {<<<<m, v>>>> : m \in Motors, v \in Speeds}
        \cup {<<<<m, v>>, <<k, w>>>> : m, k \in Motors, v, w \in Speeds}
MotorsOf(runs) == {runs[i][1] : i \in DOMAIN runs}

\* Of two speeds for the same motor the second counts.
Speed(runs, m) ==
    runs[CHOOSE i \in DOMAIN runs :
            runs[i][1] = m /\ \A j \in DOMAIN runs : runs[j][1] = m => j <= i][2]
Moved(runs) == {m \in MotorsOf(runs) : Speed(runs, m) # "zero"}

ASSUME RunsAssumption == RunArguments \subseteq Runs
ASSUME RetriesAssumption == Retries \in Nat \ {0} /\ MaxCalls \in Nat /\ MaxLate \in Nat

VARIABLES
    \* the fields of RXTXRobot
    available,   \* digitalPinsAvailable
    attached,    \* devices with motorsAttached or servosAttached
    running,     \* motors with motorsRunning
    cache,       \* digitalPinCache, Nothing for -1
    \* the program thread
    pc,          \* where it is: "idle" between two calls
    req,         \* the command of the call, or the question last answered
    retries,     \* writes left to the call
    response,    \* what runEncodedMotor has read so far
    sleepFor,    \* motors whose time the call sleeps
    closing,     \* the call is one that close makes
    resets,      \* devices close has still to reset
    result,      \* what the last call returned, Nothing for -1
    \* the serial line
    toBoard,     \* commands written and not yet executed
    toHost,      \* tokens the Arduino has sent and sendRaw has not read
    \* the Arduino
    boardPin,    \* the pin each device is bound to
    boardRun,    \* "off", "timed", "on" until told otherwise, or "encoded"
    \* history
    callNo,      \* number of the call
    refreshed,   \* number and pins of the last refreshDigitalPins
    late,        \* how often a call has not found the whole of its reply
    miscounted   \* a motor call was refused after it had set motorsRunning

robotVars == <<available, attached, running, cache>>
threadVars == <<pc, req, retries, response, sleepFor>>
closeVars == <<closing, resets>>
lineVars == <<toBoard, toHost>>
boardVars == <<boardPin, boardRun>>
historyVars == <<callNo, refreshed, late, miscounted>>
vars == <<robotVars, threadVars, closeVars, result, lineVars, boardVars, historyVars>>

-----------------------------------------------------------------------------
(* Commands and replies.                                                    *)

\* A command: "attach" (a m, a s), "read" (r d), "ping" (q), "ticks" (p),
\* "servo" (v), "run" (d, D), "encoded" (e, E); runs is a sequence of motors
\* with their speeds.
Command(op, what, pin, runs, time) ==
    [op |-> op, what |-> what, pin |-> pin, runs |-> runs, time |-> time]

NoCommand == Command("none", Nothing, Nothing, <<>>, "none")

\* Tokens: text, an integer, or an integer that was measured.
Word(w) == [kind |-> "word", of |-> w, at |-> 0]
Number(x) == [kind |-> "number", of |-> x, at |-> 0]
Measured(x, n) == [kind |-> "measured", of |-> x, at |-> n]

RunTokens(runs) ==
    [i \in 1 .. 2 * Len(runs) |-> Number(runs[(i + 1) \div 2][2 - (i % 2)])]

\* The command itself, which is the reply to a command that measures nothing.
Echo(c) ==
    CASE c.op = "attach" -> <<Word("a"), Word(IF c.what \in Motors THEN "m" ELSE "s"),
                              Number(c.what), Number(c.pin)>>
      [] c.op = "servo" -> <<Word("v"), Number(c.what), Number("position")>>
      [] c.op \in {"run", "encoded"} ->
             <<Word(c.op)>> \o RunTokens(c.runs) \o <<Number(c.time)>>

\* The n-th smallest number of S.
Nth(S, n) == CHOOSE i \in S : Cardinality({j \in S : j <= i}) = n

\* The digital pins the Arduino reads: those nothing is bound to.
BoardFree ==
    LET free == {i \in DOMAIN PinList : \A d \in Devices : boardPin[d] # PinList[i]}
    IN  [n \in 1 .. Cardinality(free) |-> PinList[Nth(free, n)]]

Reply(c) ==
    CASE c.op = "read" ->
             <<Word("r")>> \o [i \in DOMAIN BoardFree |-> Measured(BoardFree[i], callNo)]
      [] c.op \in {"ping", "ticks"} ->
             <<Word(c.op), Number(c.what), Measured(c.what, callNo)>>
      [] OTHER -> Echo(c)

Init ==
    /\ available = PinList
    /\ attached = Ready /\ running = {}
    /\ cache = <<>>
    /\ pc = "idle" /\ req = NoCommand /\ retries = 0 /\ response = <<>>
    /\ sleepFor = {}
    /\ closing = FALSE /\ resets = {}
    /\ result = Nothing
    /\ toBoard = <<>> /\ toHost = <<>>
    /\ boardPin = [d \in Devices |-> IF d \in Ready THEN Elsewhere ELSE Nothing]
    /\ boardRun = [m \in Motors |-> "off"]
    /\ callNo = 0 /\ refreshed = [no |-> 0, pins |-> <<>>]
    /\ late = 0 /\ miscounted = FALSE

-----------------------------------------------------------------------------
(* sendRaw.                                                                 *)

\* attemptTryAgain of the call.
TriesAgain(c) == c.op \in {"attach", "read", "ping", "ticks"}

\* A call writes its command and sleeps.
Sends(c) ==
    /\ pc' = "sleep"
    /\ req' = c
    /\ retries' = Retries - 1
    /\ toBoard' = Append(toBoard, c)
    /\ result' = Nothing
    /\ callNo' = callNo + 1
    /\ UNCHANGED <<response, sleepFor, toHost, boardVars, late, miscounted>>

Calls(c) ==
    /\ pc = "idle" /\ callNo < MaxCalls
    /\ Sends(c)
    /\ UNCHANGED closeVars

\* Where the thread goes when a call returns.
Caller == IF closing THEN "closing" ELSE "idle"

\* Mutant: the writes are not counted.
SendAlways ==
    /\ pc = "sleep" /\ TriesAgain(req)
    /\ retries' = retries - 1
    /\ toBoard' = Append(toBoard, req)
    /\ late < MaxLate /\ late' = late + 1
    /\ UNCHANGED <<robotVars, pc, req, response, sleepFor, closeVars, result,
                   toHost, boardVars, callNo, refreshed, miscounted>>

\* in.available() is 0: the command is written once more.
SendAgain ==
    /\ pc = "sleep" /\ TriesAgain(req) /\ retries # 0
    /\ retries' = retries - 1
    /\ toBoard' = Append(toBoard, req)
    /\ late < MaxLate /\ late' = late + 1
    /\ UNCHANGED <<robotVars, pc, req, response, sleepFor, closeVars, result,
                   toHost, boardVars, callNo, refreshed, miscounted>>

\* n tokens have arrived and are read.  A read that finds nothing waits or
\* returns nothing: the driver's setting decides, and callers allow for both.
Arrived(n) == SubSeq(toHost, 1, n)

Receives(n) ==
    /\ pc = "sleep"
    /\ n \in 0 .. Len(toHost)
    /\ n = 0 => ~(TriesAgain(req) /\ retries # 0)
    /\ toHost' = SubSeq(toHost, n + 1, Len(toHost))
    /\ late' = IF toBoard # <<>> \/ n # Len(toHost) THEN late + 1 ELSE late
    /\ late' <= MaxLate
    /\ UNCHANGED <<retries, response, closeVars, toBoard, boardVars,
                   callNo, refreshed, miscounted>>

-----------------------------------------------------------------------------
(* The calls of RXTXRobot.  Calls whose arguments are refused before they   *)
(* have changed anything are left out.                                      *)

\* attachMotor and attachServo.
AttachDevice(d, p) ==
    /\ d \notin attached /\ p \in Range(available)
    /\ Calls(Command("attach", d, p, <<>>, "none"))
    /\ UNCHANGED <<robotVars, refreshed>>

\* Mutant: the pin stays in digitalPinsAvailable.
AttachKeepsPin(n) ==
    /\ req.op = "attach"
    /\ Receives(n)
    /\ attached' = IF Arrived(n) = Echo(req) THEN attached \cup {req.what} ELSE attached
    /\ pc' = Caller /\ req' = NoCommand
    /\ UNCHANGED <<available, running, cache, sleepFor, result>>

AttachReturns(n) ==
    /\ req.op = "attach"
    /\ Receives(n)
    /\ IF Arrived(n) = Echo(req)
       THEN /\ attached' = attached \cup {req.what}
            /\ available' = RemoveFirst(available, req.pin)
       ELSE UNCHANGED <<attached, available>>
    /\ pc' = Caller /\ req' = NoCommand
    /\ UNCHANGED <<running, cache, sleepFor, result>>

RefreshDigitalPins ==
    /\ Calls(Command("read", Nothing, Nothing, <<>>, "none"))
    /\ cache' = [i \in DOMAIN available |-> Nothing]
    /\ refreshed' = [no |-> callNo + 1, pins |-> available]
    /\ UNCHANGED <<available, attached, running>>

\* The first token is skipped and integers are stored up to the first token
\* that is none or the end of the cache, where the exception is caught; too
\* short a response is refused.
Parsed(tokens, i) ==
    /\ i + 1 <= Len(tokens)
    /\ \A j \in 2 .. i + 1 : tokens[j].kind # "word"

RefreshReturns(n) ==
    /\ req.op = "read"
    /\ Receives(n)
    /\ cache' = [i \in DOMAIN cache |->
                    IF n > 1 /\ n - 1 >= Len(cache) /\ Parsed(Arrived(n), i)
                    THEN Arrived(n)[i + 1] ELSE Nothing]
    /\ pc' = Caller /\ req' = NoCommand
    /\ UNCHANGED <<available, attached, running, sleepFor, result>>

\* getDigitalPin once there is a cache (without one it refreshes first): the
\* place of the pin among those available now, in the cache of the last refresh.
GetDigitalPin(p) ==
    /\ pc = "idle" /\ callNo < MaxCalls
    /\ refreshed.no # 0 /\ p \in Range(available)
    /\ result' = cache[CHOOSE i \in DOMAIN available : available[i] = p]
    /\ req' = Command("get", p, Nothing, <<>>, "none")
    /\ callNo' = callNo + 1
    /\ UNCHANGED <<robotVars, pc, retries, response, sleepFor, closeVars,
                   lineVars, boardVars, refreshed, late, miscounted>>

\* getPing of a free pin, getEncodedMotorPosition.
Ask(op, x) ==
    /\ IF op = "ping" THEN x \in Range(available) ELSE x \in Encoded
    /\ Calls(Command(op, x, Nothing, <<>>, "none"))
    /\ UNCHANGED <<robotVars, refreshed>>

\* Mutant: the reply is not matched by its length.
AskTakesLast(n) ==
    /\ req.op \in {"ping", "ticks"}
    /\ Receives(n)
    /\ result' = IF n >= 3 /\ Arrived(n)[2].kind # "word" THEN Arrived(n)[2] ELSE Nothing
    /\ pc' = Caller /\ req' = req
    /\ UNCHANGED <<robotVars, sleepFor>>

\* The third of exactly three tokens, if it is an integer (getPing returns -1
\* and getEncodedMotorPosition throws otherwise).
AskReturns(n) ==
    /\ req.op \in {"ping", "ticks"}
    /\ Receives(n)
    /\ result' = IF n = 3 /\ Arrived(n)[3].kind # "word" THEN Arrived(n)[3] ELSE Nothing
    /\ pc' = Caller /\ req' = req
    /\ UNCHANGED <<robotVars, sleepFor>>

MoveServo(s) ==
    /\ s \in attached
    /\ Calls(Command("servo", s, Nothing, <<>>, "none"))
    /\ UNCHANGED <<robotVars, refreshed>>

MoveServoReturns(n) ==
    /\ req.op = "servo"
    /\ Receives(n)
    /\ pc' = Caller /\ req' = NoCommand
    /\ UNCHANGED <<robotVars, sleepFor, result>>

-----------------------------------------------------------------------------
(* The DC motors.                                                           *)

\* motorsRunning with these runs counted.
Counted(runs) == (running \ MotorsOf(runs)) \cup Moved(runs)

\* Mutant: a third motor is let through.
CheckThree(runs) == Cardinality(Counted(runs)) <= 3

\* checkRunningMotors.
CheckRunningMotors(runs) == Cardinality(Counted(runs)) <= 2

RunMotor(runs, time) ==
    /\ CheckRunningMotors(runs)
    /\ MotorsOf(runs) \subseteq attached
    /\ Calls(Command("run", Nothing, Nothing, runs, time))
    /\ running' = Counted(runs)
    /\ UNCHANGED <<available, attached, cache, refreshed>>

\* The time, the number of ticks or an unattached motor is refused only after
\* the motors have been counted.
RunIsRefused(runs) ==
    /\ pc = "idle" /\ callNo < MaxCalls
    /\ CheckRunningMotors(runs)
    /\ running' = Counted(runs)
    /\ callNo' = callNo + 1
    /\ result' = Nothing /\ req' = NoCommand
    /\ miscounted' = TRUE
    /\ UNCHANGED <<available, attached, cache, pc, retries, response, sleepFor,
                   closeVars, lineVars, boardVars, refreshed, late>>

\* Without a reply the call does not sleep.
RunAnswers(n) ==
    /\ req.op = "run"
    /\ Receives(n)
    /\ IF n = 0
       THEN /\ pc' = Caller /\ req' = NoCommand
            /\ running' = IF req.time = "timed" THEN running \ MotorsOf(req.runs) ELSE running
            /\ sleepFor' = sleepFor
       ELSE /\ pc' = "settle" /\ req' = req
            /\ running' = running
            /\ sleepFor' = {m \in MotorsOf(req.runs) : req.time = "timed" /\ boardRun[m] = "timed"}
    /\ UNCHANGED <<available, attached, cache, result>>

\* sleep(time) ends: a run the Arduino had begun is over.
RunReturns ==
    /\ pc = "settle" /\ \A m \in sleepFor : boardRun[m] # "timed"
    /\ pc' = Caller /\ req' = NoCommand
    /\ sleepFor' = {}
    /\ running' = IF req.time = "timed" THEN running \ MotorsOf(req.runs) ELSE running
    /\ UNCHANGED <<available, attached, cache, retries, response, closeVars,
                   result, lineVars, boardVars, historyVars>>

\* runEncodedMotor, which does not ask whether the motors are attached; of two
\* it goes on with a motor that has no encoder.
RunEncodedMotor(runs) ==
    /\ Len(runs) = 1 => MotorsOf(runs) \subseteq Encoded
    /\ CheckRunningMotors(runs)
    /\ Calls(Command("encoded", Nothing, Nothing, runs, "ticks"))
    /\ running' = Counted(runs)
    /\ UNCHANGED <<available, attached, cache, refreshed>>

EncodedSleeps ==
    /\ pc = "sleep" /\ req.op = "encoded"
    /\ pc' = "loop"
    /\ UNCHANGED <<robotVars, req, retries, response, sleepFor, closeVars, result,
                   lineVars, boardVars, historyVars>>

\* Mutant: each read overwrites the one before.
EncodedOverwrites(n) ==
    /\ pc = "loop" /\ n \in 1 .. Len(toHost)
    /\ toHost' = SubSeq(toHost, n + 1, Len(toHost))
    /\ IF Arrived(n) = Echo(req)
       THEN /\ pc' = Caller /\ req' = NoCommand
            /\ response' = <<>>
            /\ running' = running \ MotorsOf(req.runs)
       ELSE /\ response' = Arrived(n)
            /\ UNCHANGED <<pc, req, running>>
    /\ UNCHANGED <<available, attached, cache, retries, sleepFor, closeVars,
                   result, toBoard, boardVars, historyVars>>

\* moveEncodedMotor: read until the response is the command.
EncodedReads(n) ==
    /\ pc = "loop" /\ n \in 1 .. Len(toHost)
    /\ toHost' = SubSeq(toHost, n + 1, Len(toHost))
    /\ IF response \o Arrived(n) = Echo(req)
       THEN /\ pc' = Caller /\ req' = NoCommand
            /\ response' = <<>>
            /\ running' = running \ MotorsOf(req.runs)
       ELSE /\ response' = response \o Arrived(n)
            /\ UNCHANGED <<pc, req, running>>
    /\ UNCHANGED <<available, attached, cache, retries, sleepFor, closeVars,
                   result, toBoard, boardVars, historyVars>>

-----------------------------------------------------------------------------
(* close.                                                                   *)

\* Mutant: only the servos are reset.
CloseForgetsMotors ==
    /\ pc = "idle"
    /\ pc' = "closing"
    /\ closing' = TRUE
    /\ resets' = attached \cap Servos
    /\ UNCHANGED <<robotVars, req, retries, response, sleepFor, result, lineVars,
                   boardVars, historyVars>>

Close ==
    /\ pc = "idle"
    /\ pc' = "closing"
    /\ closing' = TRUE
    /\ resets' = attached
    /\ UNCHANGED <<robotVars, req, retries, response, sleepFor, result, lineVars,
                   boardVars, historyVars>>

\* moveServo(i, 90) of each servo, then runMotor(i, 0, 0) of each motor.
CloseResets(d) ==
    /\ pc = "closing" /\ d \in resets
    /\ d \in Motors => resets \cap Servos = {}
    /\ IF d \in Servos
       THEN Sends(Command("servo", d, Nothing, <<>>, "none"))
       ELSE Sends(Command("run", Nothing, Nothing, <<<<d, "zero">>>>, "forever"))
    /\ running' = running \ {d}
    /\ resets' = resets \ {d}
    /\ UNCHANGED <<available, attached, cache, closing, refreshed>>

CloseReturns ==
    /\ pc = "closing" /\ resets = {}
    /\ pc' = "closed"
    /\ UNCHANGED <<robotVars, req, retries, response, sleepFor, closeVars, result,
                   lineVars, boardVars, historyVars>>

-----------------------------------------------------------------------------
(* The Arduino: commands are executed in the order they were written.       *)

BoardBinds(c) ==
    IF c.op = "attach" THEN [boardPin EXCEPT ![c.what] = c.pin] ELSE boardPin

\* The motors of a command run in this way, or stop if their speed is zero.
BoardMoves(c, way) ==
    [m \in Motors |-> IF m \notin MotorsOf(c.runs) THEN boardRun[m]
                      ELSE IF m \in Moved(c.runs) THEN way ELSE "off"]

BoardExecutes ==
    /\ toBoard # <<>> /\ Head(toBoard).op # "encoded"
    /\ boardPin' = BoardBinds(Head(toBoard))
    /\ boardRun' = BoardMoves(Head(toBoard),
                             IF Head(toBoard).time = "timed" THEN "timed" ELSE "on")
    /\ toHost' = toHost \o Reply(Head(toBoard))
    /\ toBoard' = Tail(toBoard)
    /\ UNCHANGED <<robotVars, threadVars, closeVars, result, historyVars>>

\* The time of a run is over.
BoardStops(m) ==
    /\ boardRun[m] = "timed"
    /\ boardRun' = [boardRun EXCEPT ![m] = "off"]
    /\ UNCHANGED <<robotVars, threadVars, closeVars, result, lineVars, boardPin,
                   historyVars>>

\* An encoded run starts ...
BoardStarts ==
    /\ toBoard # <<>> /\ Head(toBoard).op = "encoded"
    /\ boardRun # BoardMoves(Head(toBoard), "encoded")
    /\ boardRun' = BoardMoves(Head(toBoard), "encoded")
    /\ UNCHANGED <<robotVars, threadVars, closeVars, result, lineVars, boardPin,
                   historyVars>>

\* ... and is answered when it ends.
BoardFinishes ==
    /\ toBoard # <<>> /\ Head(toBoard).op = "encoded"
    /\ boardRun = BoardMoves(Head(toBoard), "encoded")
    /\ boardRun' = BoardMoves(Head(toBoard), "off")
    /\ toHost' = toHost \o Echo(Head(toBoard))
    /\ toBoard' = Tail(toBoard)
    /\ UNCHANGED <<robotVars, threadVars, closeVars, result, boardPin, historyVars>>

Board ==
    \/ BoardExecutes \/ BoardStarts \/ BoardFinishes
    \/ \E m \in Motors : BoardStops(m)

ProgramCalls ==
    \/ \E d \in Devices, p \in Pins : AttachDevice(d, p)
    \/ RefreshDigitalPins
    \/ \E p \in Pins : GetDigitalPin(p) \/ Ask("ping", p)
    \/ \E m \in Encoded : Ask("ticks", m)
    \/ \E s \in Servos : MoveServo(s)
    \/ \E runs \in RunArguments :
          \/ RunIsRefused(runs) \/ RunEncodedMotor(runs)
          \/ \E time \in {"timed", "forever"} : RunMotor(runs, time)
    \/ Close

CallContinues ==
    \/ SendAgain
    \/ \E n \in 0 .. Len(toHost) :
          \/ AttachReturns(n) \/ RefreshReturns(n) \/ AskReturns(n)
          \/ MoveServoReturns(n) \/ RunAnswers(n) \/ EncodedReads(n)
    \/ RunReturns \/ EncodedSleeps
    \/ (\E d \in Devices : CloseResets(d)) \/ CloseReturns

Next == ProgramCalls \/ CallContinues \/ Board

Spec == Init /\ [][Next]_vars

-----------------------------------------------------------------------------

Values == {Nothing} \cup [kind : {"number", "measured"},
                          of : Devices \cup Pins \cup {"zero", "some", "timed",
                               "forever", "ticks", "position"},
                          at : 0 .. MaxCalls]

\* So far every reply was there, whole, when its call looked for it.
Punctual == late = 0

\* Every variable has its type (the fields of RXTXRobot).
TypeOK ==
    /\ Range(available) \subseteq Pins /\ IsInjective(available)
    /\ attached \subseteq Devices /\ running \subseteq Motors
    /\ \A i \in DOMAIN cache : cache[i] \in Values
    /\ pc \in {"idle", "sleep", "settle", "loop", "closing", "closed"}
    /\ retries \in 0 .. Retries /\ sleepFor \subseteq Motors
    /\ closing \in BOOLEAN /\ resets \subseteq attached
    /\ result \in Values
    /\ boardPin \in [Devices -> Pins \cup {Elsewhere, Nothing}]
    /\ boardRun \in [Motors -> {"off", "timed", "on", "encoded"}]
    /\ refreshed.no \in 0 .. MaxCalls /\ late \in 0 .. MaxLate
    /\ miscounted \in BOOLEAN

\* "Invalid response from the arduino": however late replies come and however
\* often a command is repeated, a device that attachMotor or attachServo has
\* marked is bound to a pin by the Arduino.
AttachedIsBound == \A d \in attached : boardPin[d] # Nothing

\* "These are the pins that have not been attached" (getAvailableDigitalPins):
\* between two calls the Arduino agrees, as long as no reply was late.
AvailableIsFree == pc = "idle" /\ Punctual => available = BoardFree

\* refreshDigitalPins "sends the command to the Arduino to read the values on
\* all of the free digital pins": every entry is a value of its pin, measured
\* during that refresh, as long as no reply was late.
CacheIsOfRefresh ==
    pc = "idle" /\ Punctual =>
        cache = [i \in DOMAIN refreshed.pins |->
                    Measured(refreshed.pins[i], refreshed.no)]

\* "@return The distance from an object in centimeters" (getPing), "current
\* tick count of the encoder on the motor": what is returned was measured
\* there during the call, as long as no reply was late.
AnswerIsOwn ==
    pc = "idle" /\ Punctual /\ req.op \in {"ping", "ticks"} =>
        result = Measured(req.what, callNo)

\* "checks to make sure that only two DC motors are running": true
\* of the Arduino's motors, as long as no reply was late and no call was refused
\* after it had been counted.
TwoMotorsRun == Punctual /\ ~miscounted => Cardinality({m \in Motors : boardRun[m] # "off"}) <= 2

\* runEncodedMotor's loop for the echo can end, as long as no reply was late.
EncodedCanEnd == pc = "loop" /\ Punctual => IsPrefix(response, Echo(req))

\* "Resetting servos and motors..." (close): when the Arduino has executed all
\* it was sent before the port was closed, no motor runs on.
ClosedIsStopped ==
    pc = "closed" /\ toBoard = <<>> => \A m \in Motors : boardRun[m] # "on"

\* "This will get the value of the pin since the last time refreshDigitalPins()
\* was called" (getDigitalPin).
PinValueIsOfPin ==
    pc = "idle" /\ Punctual /\ req.op = "get" /\ result # Nothing =>
        result.of = req.what

\* Program and Arduino agree on what is attached and which pins are free.
PinsAgree == AttachedIsBound /\ AvailableIsFree

\* No more motors run than the program counts, and none after close.
MotorsAreCounted == TwoMotorsRun /\ ClosedIsStopped

\* A value, cached or returned, is of the pin, sensor or encoder asked for and
\* of the call that asked.
ValuesAreOwn == CacheIsOfRefresh /\ AnswerIsOwn
=============================================================================
