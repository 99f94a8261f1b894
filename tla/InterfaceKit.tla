---------------------------- MODULE InterfaceKit ----------------------------
(***************************************************************************)
(* A PhidgetInterfaceKit that is attached locally (cphidgetinterfacekit.c  *)
(* of the bundled libphidget21): setters leave output states in the        *)
(* handle, the write thread puts all of them into one packet               *)
(* (CPhidgetInterfaceKit_getPacket), the read thread stores what the       *)
(* device reports and fires events (CPhidgetInterfaceKit_dataInput), and   *)
(* the central thread attaches and detaches the device around them.        *)
(*                                                                         *)
(* The kind of device says which of the code's switches over deviceIDSpec  *)
(* and deviceVersion are taken.  Data: an output and the one input are     *)
(* Boolean; of a sensor value only the ratiometric state it was measured   *)
(* under is kept.  Attach, detach and close exclude each other, see        *)
(* CentralThread, and the flags and joins inside them are WritePath's.     *)
(***************************************************************************)
EXTENDS Naturals, FiniteSets

CONSTANTS
    Kinds,       \* the kinds of device a behaviour may be about
    Outputs,     \* the digital outputs
    Setters,     \* the user threads that call setters
    NoThread,    \* the owner of a free mutex
    Unknown,     \* PUNK_BOOL, PUNK_INT
    ReadTries,   \* readtries of initAfterOpen, 4 in the code
    MaxCalls,    \* bound: calls of setters
    Changes,     \* what may change: "input", "plug", "fault" of a transfer
    MaxChanges,  \* bound: how often, for each kind
    MaxAttach    \* bound: times the device is attached

\* echo: fullStateEcho; awdc: awdc_enabled; ratio: the device has a ratiometric
\* state and reports it; one: a packet holds a single output (4/8/8).
Kind == [echo : BOOLEAN, awdc : BOOLEAN, ratio : BOOLEAN, one : BOOLEAN]

\* The state of a device, and a report of it.
State == [outs : [Outputs -> BOOLEAN], input : BOOLEAN, mode : BOOLEAN,
          measured : BOOLEAN]

ASSUME KindsAssumption ==
    Kinds \subseteq Kind /\ Changes \subseteq {"input", "plug", "fault"}
ASSUME ThreadsAssumption ==
    NoThread \notin Setters /\ Unknown \notin BOOLEAN \cup State /\ Outputs # {}
ASSUME BoundsAssumption ==
    /\ ReadTries \in Nat \ {0} /\ MaxCalls \in Nat /\ MaxAttach \in Nat
    /\ MaxChanges \in [Kinds -> Nat]

VARIABLES
    kind,        \* the device's kind
    plugged,     \* the device is on the bus
    dev,         \* its outputs, its input, its ratiometric state and the one
                 \* its next sensor values were measured under
    report,      \* the report it holds for the next read, Unknown when none
    attached,    \* PHIDGET_ATTACHED_FLAG
    usbError,    \* PHIDGET_USB_ERROR_FLAG
    writelock,   \* the owner of phid->writelock
    writtenEv,   \* phid->writtenEvent
    availEv,     \* phid->writeAvailableEvent
    stop,        \* phid->writeStopFlag
    nextOutputStates,      \* the states setters have asked for
    changedOutputs,        \* the outputs for which they have
    outputStates,          \* the states last put into a packet
    outputEchoStates,      \* the states the device is believed to have
    lastChangedOutput,     \* the output of the last setter
    ratiometric,           \* the ratiometric state asked for
    ratiometricEcho,       \* the one the device is believed to have
    ratiometricSwitching,  \* reports that echo it still to be skipped
    physicalState,         \* the input
    sensorValue,           \* the ratiometric state a sensor's value is from
    life,        \* where attach or detach is
    tries,       \* reads initAfterOpen may still make
    spc,         \* where each setter is
    req,         \* what it sets
    wpc,         \* where the write thread is, "off" when there is none
    packet,      \* the local buffer of CPhidget_write
    reading,     \* the read thread runs
    rpc,         \* where CPhidget_read is, in the read or the central thread
    rbuf,        \* phid->lastReadPacket and the old values dataInput keeps
    told,        \* the last event handlers were called with, for the input and
                 \* the outputs of a device that reports them
    wanted,      \* history: the last state a setter was told is set
    stray,       \* history: a setter called before the last attach had not
                 \* returned when it began
    overlapped,  \* history: ratiometric was set before the last set had
                 \* settled, or presumed to be what it was not
    calls, changes, attaches   \* counted for the bounds

device == <<kind, plugged, dev, report>>
flags == <<attached, usbError, stop>>
events == <<writtenEv, availEv>>
outs == <<nextOutputStates, changedOutputs, outputStates, outputEchoStates,
          lastChangedOutput>>
ratio == <<ratiometric, ratiometricEcho, ratiometricSwitching>>
inputs == <<physicalState, sensorValue>>
setter == <<writelock, spc, req>>
writer == <<wpc, packet>>
reader == <<reading, rpc, rbuf>>
history == <<wanted, stray, overlapped>>
bounds == <<calls, changes, attaches>>
vars == <<device, flags, events, outs, ratio, inputs, life, tries, setter,
          writer, reader, told, history, bounds>>

Tri == BOOLEAN \cup {Unknown}
Input == "input"
Reported == {Input} \cup IF kind.echo THEN Outputs ELSE {}
AllUnknown == [o \in Outputs |-> Unknown]

\* What a device that has just been powered does: outputs off, ratiometric on.
Powered == [outs |-> [o \in Outputs |-> FALSE], input |-> FALSE,
            mode |-> TRUE, measured |-> TRUE]

\* Output 0.
First == CHOOSE o \in Outputs : TRUE

Idle == [what |-> "none"]
Requests ==
    [what : {"output"}, o : Outputs, v : BOOLEAN]
        \cup IF kind.ratio THEN [what : {"ratiometric"}, v : BOOLEAN] ELSE {}

SetterPc == {"idle", "lock", "test", "deposit", "wait", "signal", "event",
             "switching", "ratioSignal"}
WriterPc == {"off", "loop", "wait", "reset", "get", "send",
             "signal", "failed", "gone"}
ReaderPc == {"idle", "ratio", "count", "show", "store", "fire"}
LifePc == {"off", "init", "tell", "attached", "detach", "join"}

Init ==
    /\ kind \in Kinds
    /\ plugged = TRUE /\ dev = Powered /\ report = Unknown
    /\ attached = FALSE /\ usbError = FALSE /\ stop = FALSE
    /\ writtenEv = FALSE /\ availEv = FALSE
    /\ nextOutputStates = AllUnknown /\ changedOutputs = {}
    /\ outputStates = AllUnknown /\ outputEchoStates = AllUnknown
    /\ lastChangedOutput = First
    /\ ratiometric = Unknown /\ ratiometricEcho = Unknown
    /\ ratiometricSwitching = 0
    /\ physicalState = Unknown /\ sensorValue = Unknown
    /\ life = "off" /\ tries = 0
    /\ writelock = NoThread
    /\ spc = [s \in Setters |-> "idle"] /\ req = [s \in Setters |-> Idle]
    /\ wpc = "off" /\ packet = Unknown
    /\ reading = FALSE /\ rpc = "idle" /\ rbuf = Unknown
    /\ told = [x \in Reported |-> Unknown]
    /\ wanted = AllUnknown /\ stray = FALSE /\ overlapped = FALSE
    /\ calls = 0 /\ changes = 0 /\ attaches = 0

MayChange(what) == what \in Changes /\ changes < MaxChanges[kind]

-----------------------------------------------------------------------------
(* Setters: setOutputState with sendpacket, setRatiometric.                 *)

SetterAt(s, from, to) == spc[s] = from /\ spc' = [spc EXCEPT ![s] = to]

\* The setter releases writelock and returns.
Returns(s) ==
    /\ spc' = [spc EXCEPT ![s] = "idle"]
    /\ req' = [req EXCEPT ![s] = Idle]
    /\ writelock' = NoThread

\* outputLock is held over more than one step by setRatiometric only.
OutputLockFree == \A s \in Setters : spc[s] # "switching"

\* The setter is told that its output is set, or is being set.
Accepts(s) == wanted' = [wanted EXCEPT ![req[s].o] = req[s].v]

\* TESTATTACHED of the setter.
SetterCalls(s) ==
    /\ attached /\ calls < MaxCalls
    /\ SetterAt(s, "idle", "lock")
    /\ \E r \in Requests : req' = [req EXCEPT ![s] = r]
    /\ calls' = calls + 1
    /\ UNCHANGED <<device, flags, events, outs, ratio, inputs, life, tries,
                   writelock, writer, reader, told, history, changes, attaches>>

OutputLocks(s) ==
    /\ writelock = NoThread /\ req[s].what = "output"
    /\ SetterAt(s, "lock", "test")
    /\ writelock' = s
    /\ lastChangedOutput' = req[s].o
    /\ UNCHANGED <<device, flags, events, nextOutputStates, changedOutputs,
                   outputStates, outputEchoStates, ratio, inputs, life, tries,
                   req, writer, reader, told, history, bounds>>

OutputFindsAttached(s) ==
    /\ attached
    /\ SetterAt(s, "test", "deposit")
    /\ UNCHANGED <<device, flags, events, outs, ratio, inputs, life, tries,
                   writelock, req, writer, reader, told, history, bounds>>

\* Mutant: writelock is kept on the way out.
OutputLeavesLocked(s) ==
    /\ ~attached
    /\ SetterAt(s, "test", "idle")
    /\ UNCHANGED <<device, flags, events, outs, ratio, inputs, life, tries,
                   writelock, req, writer, reader, told, history, bounds>>

OutputNotAttached(s) ==
    /\ ~attached /\ spc[s] = "test"
    /\ Returns(s)
    /\ UNCHANGED <<device, flags, events, outs, ratio, inputs, life, tries,
                   writer, reader, told, history, bounds>>

\* Another state is queued for this output.
OutputMustWait(s) ==
    /\ OutputLockFree /\ SetterAt(s, "deposit", "wait")
    /\ req[s].o \in changedOutputs /\ nextOutputStates[req[s].o] # req[s].v
    /\ UNCHANGED <<device, flags, events, outs, ratio, inputs, life, tries,
                   writelock, req, writer, reader, told, history, bounds>>

\* The state is queued, or was in the last packet, already.
OutputIsSet(s) ==
    /\ OutputLockFree /\ spc[s] = "deposit"
    /\ req[s].v = IF req[s].o \in changedOutputs THEN nextOutputStates[req[s].o]
                  ELSE outputStates[req[s].o]
    /\ Accepts(s) /\ Returns(s)
    /\ UNCHANGED <<device, flags, events, outs, ratio, inputs, life, tries,
                   writer, reader, told, stray, overlapped, bounds>>

OutputDeposits(s) ==
    /\ OutputLockFree /\ SetterAt(s, "deposit", "signal")
    /\ req[s].o \notin changedOutputs /\ outputStates[req[s].o] # req[s].v
    /\ changedOutputs' = changedOutputs \cup {req[s].o}
    /\ nextOutputStates' = [nextOutputStates EXCEPT ![req[s].o] = req[s].v]
    /\ writtenEv' = FALSE
    /\ Accepts(s)
    /\ UNCHANGED <<device, flags, availEv, outputStates, outputEchoStates,
                   lastChangedOutput, ratio, inputs, life, tries, writelock,
                   req, writer, reader, told, stray, overlapped, bounds>>

OutputWaits(s) ==
    /\ writtenEv
    /\ SetterAt(s, "wait", "test")
    /\ UNCHANGED <<device, flags, events, outs, ratio, inputs, life, tries,
                   writelock, req, writer, reader, told, history, bounds>>

\* 2500 ms without writtenEvent.
OutputTimesOut(s) ==
    /\ ~writtenEv /\ spc[s] = "wait"
    /\ Returns(s)
    /\ UNCHANGED <<device, flags, events, outs, ratio, inputs, life, tries,
                   writer, reader, told, history, bounds>>

\* Mutant: sendpacket does not wake the write thread.
OutputSignalsNothing(s) ==
    /\ SetterAt(s, "signal", "event")
    /\ UNCHANGED <<device, flags, events, outs, ratio, inputs, life, tries,
                   writelock, req, writer, reader, told, history, bounds>>

OutputSignals(s) ==
    /\ SetterAt(s, "signal", "event")
    /\ availEv' = TRUE
    /\ UNCHANGED <<device, flags, writtenEv, outs, ratio, inputs, life, tries,
                   writelock, req, writer, reader, told, history, bounds>>

\* "send output events for devices that don't echo": unless getPacket has been
\* faster and has stored the echo itself.
OutputFires(s) ==
    /\ spc[s] = "event"
    /\ Returns(s)
    /\ outputEchoStates' = IF kind.echo THEN outputEchoStates
                           ELSE [outputEchoStates EXCEPT ![req[s].o] = req[s].v]
    /\ UNCHANGED <<device, flags, events, nextOutputStates, changedOutputs,
                   outputStates, lastChangedOutput, ratio, inputs, life, tries,
                   writer, reader, told, history, bounds>>

\* The last set has settled when its echo is there, with the sensor values of
\* that report, and no report is to be skipped.
RatioSettled ==
    ratiometricSwitching = 0 /\ ratiometricEcho = ratiometric /\ rpc # "store"

\* writelock and outputLock are taken, the first of the two assignments made.
RatioSets(s) ==
    /\ writelock = NoThread /\ req[s].what = "ratiometric"
    /\ SetterAt(s, "lock", "switching")
    /\ writelock' = s
    /\ ratiometric' = req[s].v
    /\ overlapped' = (overlapped \/ ~RatioSettled)
    /\ UNCHANGED <<device, flags, events, outs, ratiometricEcho,
                   ratiometricSwitching, inputs, life, tries, req, writer,
                   reader, told, wanted, stray, bounds>>

\* Mutant: no report is skipped.
RatioSkipsNone(s) ==
    /\ SetterAt(s, "switching", "ratioSignal")
    /\ ratiometricSwitching' = 1
    /\ UNCHANGED <<device, flags, events, outs, ratiometric, ratiometricEcho,
                   inputs, life, tries, writelock, req, writer, reader, told,
                   history, bounds>>

\* "this causes one data packet to be skipped for devices that echo
\* ratiometric".
RatioSwitches(s) ==
    /\ SetterAt(s, "switching", "ratioSignal")
    /\ ratiometricSwitching' = 2
    /\ UNCHANGED <<device, flags, events, outs, ratiometric, ratiometricEcho,
                   inputs, life, tries, writelock, req, writer, reader, told,
                   history, bounds>>

RatioSignals(s) ==
    /\ spc[s] = "ratioSignal"
    /\ Returns(s)
    /\ availEv' = TRUE
    /\ UNCHANGED <<device, flags, writtenEv, outs, ratio, inputs, life, tries,
                   writer, reader, told, history, bounds>>

SetterContinues(s) ==
    \/ OutputLocks(s) \/ OutputFindsAttached(s) \/ OutputNotAttached(s)
    \/ OutputMustWait(s) \/ OutputIsSet(s) \/ OutputDeposits(s)
    \/ OutputWaits(s) \/ OutputTimesOut(s) \/ OutputSignals(s) \/ OutputFires(s)
    \/ RatioSets(s) \/ RatioSwitches(s) \/ RatioSignals(s)

-----------------------------------------------------------------------------
(* The write thread: WriteThreadFunction, CPhidget_write, getPacket.        *)

WriterAt(from, to) == wpc = from /\ wpc' = to

WriterLoops ==
    /\ WriterAt("loop", IF attached THEN "wait" ELSE "off")
    /\ stop' = (stop /\ attached)
    /\ UNCHANGED <<device, attached, usbError, events, outs, ratio, inputs, life,
                   tries, setter, packet, reader, told, history, bounds>>

WriterWakes ==
    /\ availEv
    /\ WriterAt("wait", "reset")
    /\ UNCHANGED <<device, flags, events, outs, ratio, inputs, life, tries,
                   setter, packet, reader, told, history, bounds>>

\* 200 ms without a packet: "only fall through to writting out if awdc is set".
WriterTimesOut ==
    /\ ~availEv
    /\ WriterAt("wait", IF stop THEN "off" ELSE IF kind.awdc THEN "reset" ELSE "loop")
    /\ stop' = FALSE
    /\ UNCHANGED <<device, attached, usbError, events, outs, ratio, inputs, life,
                   tries, setter, packet, reader, told, history, bounds>>

WriterResets ==
    /\ WriterAt("reset", "get")
    /\ availEv' = FALSE
    /\ UNCHANGED <<device, flags, writtenEv, outs, ratio, inputs, life, tries,
                   setter, packet, reader, told, history, bounds>>

\* The states of the outputs in the next packet.
Merged ==
    [o \in Outputs |->
        IF o \in changedOutputs THEN nextOutputStates[o]
        ELSE IF outputStates[o] = Unknown THEN FALSE ELSE outputStates[o]]

\* getPacket knows of no ratiometric state and puts PTRUE into the packet: no
\* read since the attach has succeeded.
Presumes == kind.ratio /\ ratiometric = Unknown /\ ~dev.mode

WriterGets ==
    /\ OutputLockFree
    /\ WriterAt("get", "send")
    /\ outputStates' = Merged
    /\ changedOutputs' = {}
    /\ nextOutputStates' =
           [o \in Outputs |-> IF o \in changedOutputs THEN Unknown ELSE nextOutputStates[o]]
    /\ outputEchoStates' = IF kind.echo THEN outputEchoStates ELSE Merged
    /\ ratiometric' = IF kind.ratio /\ ratiometric = Unknown THEN TRUE ELSE ratiometric
    /\ packet' = [outs |-> Merged, ratio |-> ratiometric', last |-> lastChangedOutput]
    /\ overlapped' = (overlapped \/ Presumes)
    /\ UNCHANGED <<device, flags, events, lastChangedOutput, ratiometricEcho,
                   ratiometricSwitching, inputs, life, tries, setter, reader,
                   told, wanted, stray, bounds>>

\* What the device makes of a packet: a 4/8/8 sets the one output it names.
Executed(p) ==
    [dev EXCEPT
        !.outs = IF kind.one THEN [dev.outs EXCEPT ![p.last] = p.outs[p.last]]
                 ELSE p.outs,
        !.mode = IF kind.ratio THEN p.ratio ELSE @]

\* Mutant: the event is reset when the packet has been sent.
WriterSendsAndResets ==
    /\ attached /\ plugged
    /\ WriterAt("send", "signal")
    /\ dev' = Executed(packet)
    /\ packet' = Unknown
    /\ availEv' = FALSE
    /\ UNCHANGED <<kind, plugged, report, flags, writtenEv, outs, ratio, inputs,
                   life, tries, setter, reader, told, history, bounds>>

WriterSends ==
    /\ attached /\ plugged
    /\ WriterAt("send", "signal")
    /\ dev' = Executed(packet)
    /\ packet' = Unknown
    /\ UNCHANGED <<kind, plugged, report, flags, events, outs, ratio, inputs,
                   life, tries, setter, reader, told, history, bounds>>

\* EPHIDGET_NOTATTACHED: the flag is down, or the device is gone.
WriterNotAttached ==
    /\ ~attached \/ ~plugged
    /\ WriterAt("send", "gone")
    /\ packet' = Unknown
    /\ UNCHANGED <<device, flags, events, outs, ratio, inputs, life, tries,
                   setter, reader, told, history, bounds>>

\* A timeout or another error of the transfer.
WriterFails ==
    /\ attached /\ plugged /\ MayChange("fault")
    /\ WriterAt("send", "failed")
    /\ changes' = changes + 1
    /\ packet' = Unknown
    /\ UNCHANGED <<device, flags, events, outs, ratio, inputs, life, tries,
                   setter, reader, told, history, calls, attaches>>

\* "under all circumstances (especially failure), signal waiting writers".
WriterSignals ==
    /\ wpc \in {"signal", "failed", "gone"}
    /\ wpc' = IF wpc = "signal" THEN "loop" ELSE "off"
    /\ writtenEv' = TRUE
    /\ usbError' = (usbError \/ wpc = "failed")
    /\ stop' = (stop /\ wpc = "signal")
    /\ UNCHANGED <<device, attached, availEv, outs, ratio, inputs, life, tries,
                   setter, packet, reader, told, history, bounds>>

Writer ==
    \/ WriterLoops \/ WriterWakes \/ WriterTimesOut \/ WriterResets
    \/ WriterGets \/ WriterSends \/ WriterNotAttached \/ WriterSignals
-----------------------------------------------------------------------------
(* CPhidget_read and CPhidgetInterfaceKit_dataInput, in the read thread, or *)
(* in the central thread while initAfterOpen reads the first state.         *)

ReaderAt(from, to) == rpc = from /\ rpc' = to

\* What handlers hear of when the values in the handle are these.
Heard(x) == IF x = Input THEN physicalState ELSE outputEchoStates[x]

\* "Parse device packets - store data locally": outputs and ratiometric state
\* are read from the packets of some kinds only.
Parsed(p) ==
    [p EXCEPT !.outs = IF kind.echo THEN @ ELSE AllUnknown,
              !.mode = IF kind.ratio THEN @ ELSE Unknown]

\* Somebody is in a position to call CPhidget_read.
MayRead == rpc = "idle" /\ (reading \/ (life = "init" /\ tries > 0))

\* The transfer, and the old values dataInput keeps to tell what has changed.
ReaderReads ==
    /\ MayRead /\ plugged /\ report # Unknown
    /\ reading => attached
    /\ rpc' = "ratio"
    /\ rbuf' = [new |-> Parsed(report), old |-> [x \in Reported |-> Heard(x)], left |-> 0]
    /\ report' = Unknown
    /\ UNCHANGED <<kind, plugged, dev, flags, events, outs, ratio, inputs, life,
                   tries, setter, writer, reading, told, history, bounds>>

\* The loop test of the read thread, or EPHIDGET_NOTATTACHED.
ReaderStops ==
    /\ reading /\ rpc = "idle" /\ (~attached \/ ~plugged)
    /\ reading' = FALSE
    /\ UNCHANGED <<device, flags, events, outs, ratio, inputs, life, tries,
                   setter, writer, rpc, rbuf, told, history, bounds>>

\* initAfterOpen finds the device gone and goes on.
FirstReadFails ==
    /\ life = "init" /\ tries > 0 /\ rpc = "idle" /\ ~plugged
    /\ tries' = tries - 1
    /\ UNCHANGED <<device, flags, events, outs, ratio, inputs, life, setter,
                   writer, reader, told, history, bounds>>

\* A timeout or another error: the read thread sets PHIDGET_USB_ERROR_FLAG and
\* exits, initAfterOpen goes on as if nothing had happened.
ReaderFails ==
    /\ MayRead /\ plugged /\ MayChange("fault")
    /\ changes' = changes + 1
    /\ reading' = FALSE
    /\ usbError' = (usbError \/ reading)
    /\ tries' = IF reading THEN tries ELSE tries - 1
    /\ UNCHANGED <<device, attached, stop, events, outs, ratio, inputs, life,
                   setter, writer, rpc, rbuf, told, history, calls, attaches>>

\* The first echo is what is asked for until somebody sets another; whether
\* this report counts as one to be skipped.
RatioTests ==
    LET echo == rbuf.new.mode
        asked == IF ratiometric = Unknown THEN echo ELSE ratiometric
        counts == kind.ratio /\ ratiometricSwitching > 0 /\ echo = asked
    IN  /\ ReaderAt("ratio", IF counts THEN "count" ELSE IF kind.ratio THEN "show" ELSE "store")
        /\ ratiometric' = asked
        /\ rbuf' = IF counts THEN [rbuf EXCEPT !.left = ratiometricSwitching] ELSE rbuf
        /\ UNCHANGED <<device, flags, events, outs, ratiometricEcho,
                       ratiometricSwitching, inputs, life, tries, setter,
                       writer, reading, told, history, bounds>>

\* ratiometricSwitching--, which a setter may come in the middle of.
RatioCounts ==
    /\ ReaderAt("count", "show")
    /\ ratiometricSwitching' = rbuf.left - 1
    /\ rbuf' = [rbuf EXCEPT !.left = 0]
    /\ UNCHANGED <<device, flags, events, outs, ratiometric, ratiometricEcho,
                   inputs, life, tries, setter, writer, reading, told, history,
                   bounds>>

RatioShows ==
    /\ ReaderAt("show", "store")
    /\ ratiometricEcho' = IF ratiometricSwitching = 0 THEN rbuf.new.mode ELSE ratiometricEcho
    /\ UNCHANGED <<device, flags, events, outs, ratiometric,
                   ratiometricSwitching, inputs, life, tries, setter, writer,
                   reading, rbuf, told, history, bounds>>

\* "Make sure values are within defined range, and store to structure".
ReaderStores ==
    /\ OutputLockFree
    /\ ReaderAt("store", "fire")
    /\ sensorValue' = IF ratiometricSwitching = 0 THEN rbuf.new.measured ELSE sensorValue
    /\ physicalState' = rbuf.new.input
    /\ outputEchoStates' = IF kind.echo THEN rbuf.new.outs ELSE outputEchoStates
    /\ outputStates' =
           [o \in Outputs |-> IF outputStates[o] = Unknown
                              THEN rbuf.new.outs[o] ELSE outputStates[o]]
    /\ UNCHANGED <<device, flags, events, nextOutputStates, changedOutputs,
                   lastChangedOutput, ratio, life, tries, setter, writer,
                   reading, rbuf, told, history, bounds>>

\* "send out any events for changed data": FIRE does nothing unless the handle is
\* attached.
ReaderFires ==
    /\ ReaderAt("fire", "idle")
    /\ told' = [x \in Reported |->
                   IF /\ attached /\ Heard(x) # Unknown
                      /\ Heard(x) # rbuf.old[x]
                   THEN Heard(x) ELSE told[x]]
    /\ tries' = IF reading \/ sensorValue # Unknown THEN 0 ELSE tries - 1
    /\ rbuf' = Unknown
    /\ UNCHANGED <<device, flags, events, outs, ratio, inputs, life, setter,
                   writer, reading, history, bounds>>

Reader ==
    \/ ReaderReads \/ ReaderStops \/ RatioTests \/ RatioCounts \/ RatioShows
    \/ ReaderStores \/ ReaderFires \/ FirstReadFails

-----------------------------------------------------------------------------
(* The central thread: attachActiveDevice, CPhidgetDetachEvent.             *)

LifeAt(from, to) == life = from /\ life' = to

\* "don't issue reads on devices that block": how often initAfterOpen reads.
Reads == IF kind.ratio \/ kind.one THEN ReadTries ELSE IF kind.echo THEN 1 ELSE 0

\* CPhidgetInterfaceKit_initAfterOpen, up to its reads.  By now the device has
\* measured under the ratiometric state it is in.
AttachClears ==
    /\ plugged /\ attaches < MaxAttach
    /\ LifeAt("off", "init")
    /\ nextOutputStates' = AllUnknown /\ changedOutputs' = {}
    /\ outputEchoStates' = AllUnknown /\ lastChangedOutput' = First
    /\ ratiometric' = Unknown /\ ratiometricEcho' = Unknown
    /\ ratiometricSwitching' = 0
    /\ physicalState' = Unknown /\ sensorValue' = Unknown
    /\ tries' = Reads
    /\ wanted' = AllUnknown /\ overlapped' = FALSE
    /\ stray' = \E s \in Setters : spc[s] \notin {"idle", "lock", "test"}
    /\ attaches' = attaches + 1
    /\ dev' = [dev EXCEPT !.measured = dev.mode] /\ report' = Unknown
    /\ UNCHANGED <<kind, plugged, flags, events, outputStates, setter, writer,
                   reader, told, calls, changes>>

\* The end of initAfterOpen; "make sure the write events are in a good state";
\* "set phidget as attached"; "Start write thread".
AttachSetsFlag ==
    /\ tries = 0 /\ rpc = "idle"
    /\ LifeAt("init", "tell")
    /\ outputStates' = outputEchoStates
    /\ stop' = FALSE /\ writtenEv' = FALSE /\ availEv' = FALSE
    /\ attached' = TRUE /\ wpc' = "loop"
    /\ UNCHANGED <<device, usbError, nextOutputStates, changedOutputs,
                   outputEchoStates, lastChangedOutput, ratio, inputs, tries,
                   setter, packet, reader, told, history, bounds>>

\* Mutant: the read thread is started without eventsAfterOpen.
AttachTellsNothing ==
    /\ LifeAt("tell", "attached")
    /\ reading' = TRUE
    /\ UNCHANGED <<device, flags, events, outs, ratio, inputs, tries, setter,
                   writer, rpc, rbuf, told, history, bounds>>

\* The attach event and eventsAfterOpen; "Start read thread", "after the attach
\* event returns so that we can guarantee no data events".
AttachTells ==
    /\ LifeAt("tell", "attached")
    /\ told' = [x \in Reported |-> IF Heard(x) # Unknown THEN Heard(x) ELSE told[x]]
    /\ reading' = TRUE
    /\ UNCHANGED <<device, flags, events, outs, ratio, inputs, tries, setter,
                   writer, rpc, rbuf, history, bounds>>

\* CPhidgetDetachEvent of a device that is gone or has PHIDGET_USB_ERROR_FLAG:
\* writeStopFlag and writeAvailableEvent, then CUSBCloseHandle clears the flag.
DetachStops ==
    /\ ~plugged \/ usbError
    /\ LifeAt("attached", "detach")
    /\ stop' = TRUE /\ availEv' = TRUE
    /\ UNCHANGED <<device, attached, usbError, writtenEv, outs, ratio, inputs,
                   tries, setter, writer, reader, told, history, bounds>>

DetachClearsFlag ==
    /\ LifeAt("detach", "join")
    /\ attached' = FALSE
    /\ UNCHANGED <<device, usbError, stop, events, outs, ratio, inputs, tries,
                   setter, writer, reader, told, history, bounds>>

\* Both threads joined, the device closed.
DetachEnds ==
    /\ wpc = "off" /\ ~reading
    /\ LifeAt("join", "off")
    /\ usbError' = FALSE
    /\ UNCHANGED <<device, attached, stop, events, outs, ratio, inputs, tries,
                   setter, writer, reader, told, history, bounds>>

Life ==
    \/ AttachClears \/ AttachSetsFlag \/ AttachTells
    \/ DetachStops \/ DetachClearsFlag \/ DetachEnds

-----------------------------------------------------------------------------
(* The device.                                                              *)

\* It makes up a report; a sensor value in it was measured since the last one,
\* that is under the ratiometric state of then.
DeviceReports ==
    /\ plugged /\ report = Unknown
    /\ report' = dev
    /\ dev' = [dev EXCEPT !.measured = dev.mode]
    /\ UNCHANGED <<kind, plugged, flags, events, outs, ratio, inputs, life,
                   tries, setter, writer, reader, told, history, bounds>>

InputChanges ==
    /\ plugged /\ MayChange("input")
    /\ changes' = changes + 1
    /\ dev' = [dev EXCEPT !.input = ~@]
    /\ UNCHANGED <<kind, plugged, report, flags, events, outs, ratio, inputs,
                   life, tries, setter, writer, reader, told, history, calls,
                   attaches>>

Unplug ==
    /\ plugged /\ MayChange("plug")
    /\ changes' = changes + 1
    /\ plugged' = FALSE /\ report' = Unknown
    /\ UNCHANGED <<kind, dev, flags, events, outs, ratio, inputs, life, tries,
                   setter, writer, reader, told, history, calls, attaches>>

\* It is plugged in again after its detach.
Plug ==
    /\ ~plugged /\ life = "off"
    /\ plugged' = TRUE /\ dev' = Powered
    /\ UNCHANGED <<kind, report, flags, events, outs, ratio, inputs, life,
                   tries, setter, writer, reader, told, history, bounds>>

Environment == InputChanges \/ Unplug \/ Plug \/ WriterFails \/ ReaderFails

Next ==
    \/ \E s \in Setters : SetterCalls(s) \/ SetterContinues(s)
    \/ Writer \/ Reader \/ Life \/ DeviceReports \/ Environment

Spec == Init /\ [][Next]_vars

\* Threads run, the device reports.  Whether setters are called and what
\* becomes of the device is left open.
Fairness ==
    /\ \A s \in Setters : WF_vars(SetterContinues(s))
    /\ WF_vars(Writer) /\ WF_vars(Reader) /\ WF_vars(Life)
    /\ WF_vars(DeviceReports)

FairSpec == Spec /\ Fairness

-----------------------------------------------------------------------------
Packet == [outs : [Outputs -> BOOLEAN],
           ratio : IF kind.ratio THEN BOOLEAN ELSE Tri, last : Outputs]
Reading == [new : [outs : [Outputs -> Tri], input : BOOLEAN, mode : Tri,
                   measured : BOOLEAN],
            old : [Reported -> Tri], left : 0..2]

TypeOK ==
    /\ kind \in Kinds /\ plugged \in BOOLEAN
    /\ dev \in State /\ report \in State \cup {Unknown}
    /\ attached \in BOOLEAN /\ usbError \in BOOLEAN /\ stop \in BOOLEAN
    /\ writtenEv \in BOOLEAN /\ availEv \in BOOLEAN
    /\ nextOutputStates \in [Outputs -> Tri] /\ changedOutputs \subseteq Outputs
    /\ \A o \in changedOutputs : nextOutputStates[o] # Unknown
    /\ outputStates \in [Outputs -> Tri] /\ outputEchoStates \in [Outputs -> Tri]
    /\ lastChangedOutput \in Outputs
    /\ ratiometric \in Tri /\ ratiometricEcho \in Tri
    /\ ratiometricSwitching \in 0..2
    /\ physicalState \in Tri /\ sensorValue \in Tri
    /\ life \in LifePc /\ tries \in 0..ReadTries
    /\ writelock \in Setters \cup {NoThread}
    /\ spc \in [Setters -> SetterPc] /\ req \in [Setters -> Requests \cup {Idle}]
    /\ \A s \in Setters :
          /\ spc[s] \notin {"idle", "lock"} <=> writelock = s
          /\ spc[s] = "idle" <=> req[s] = Idle
    /\ wpc \in WriterPc /\ packet \in IF wpc = "send" THEN Packet ELSE {Unknown}
    /\ reading \in BOOLEAN /\ rpc \in ReaderPc
    /\ rbuf \in IF rpc = "idle" THEN {Unknown} ELSE Reading
    /\ rpc = "count" => rbuf.left > 0
    /\ told \in [Reported -> Tri] /\ wanted \in [Outputs -> Tri]
    /\ stray \in BOOLEAN /\ overlapped \in BOOLEAN

\* The write thread runs and has nothing to do or to finish.
WriterRests == wpc \in {"loop", "wait"} /\ ~availEv
Signalling == \E s \in Setters : spc[s] = "signal"

\* "adds output data to the packet in the queue if possible to combine up to
\* numoutput calls to setoutput into one sent packet" (sendpacket): when the
\* write thread rests, every output of the device is as it was last set, in
\* whatever order setters and packets have overtaken each other; unless a setter
\* has been on its way since before the device was attached.
OutputsSettle ==
    attached /\ WriterRests /\ ~Signalling /\ ~stray =>
        \A o \in Outputs : wanted[o] # Unknown => dev.outs[o] = wanted[o]

\* Between two reports the last event a handler was called with for the input,
\* or for an output of a device that reports outputs, gives the state the
\* getter returns: no change is lost between initAfterOpen, eventsAfterOpen and
\* the read thread.
ToldIsCurrent ==
    attached /\ life # "tell" /\ rpc = "idle" =>
        \A x \in Reported : Heard(x) # Unknown => told[x] = Heard(x)

\* "this causes one data packet to be skipped for devices that echo
\* ratiometric" (setRatiometric): between two reports the sensor value is one
\* measured under the ratiometric state the getter returns, unless ratiometric
\* was set again before an earlier set had settled, or a packet presumed PTRUE
\* of a device that was not ratiometric (getPacket).
RatioIsOfValue ==
    attached /\ rpc = "idle" /\ ~overlapped /\ Unknown \notin {ratiometricEcho, sensorValue}
        => sensorValue = ratiometricEcho

\* "this is set after the sensor data, so users can poll ratiometric after
\* changing it, to know when to to read sensors" (dataInput): in every state.
PolledRatioIsOfValue ==
    attached /\ ~overlapped /\ Unknown \notin {ratiometricEcho, sensorValue}
        => sensorValue = ratiometricEcho

\* A setter returns.
SetterReturns == \A s \in Setters : spc[s] # "idle" ~> spc[s] = "idle"

\* A state that was accepted gets to the device, unless it is set anew or the
\* device is detached.
AcceptedIsSent ==
    \A o \in Outputs : \A v \in BOOLEAN :
        wanted[o] = v /\ attached /\ ~stray
            ~> dev.outs[o] = v \/ wanted[o] # v \/ ~attached

\* A set of ratiometric comes to its end: the getter returns what was set.
SwitchEnds ==
    kind.ratio /\ attached /\ ratiometricSwitching > 0
        ~> RatioSettled \/ ~attached

\* Setters return, and what they set takes effect.
SettersSucceed == SetterReturns /\ AcceptedIsSent /\ SwitchEnds
=============================================================================
