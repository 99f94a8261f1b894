------------------------------ MODULE WritePath ------------------------------
(***************************************************************************)
(* The output path of one locally attached Phidget handle of the bundled   *)
(* libphidget21: user threads queue packets with <Class>_sendpacket (macro *)
(* CSENDPACKET_BUF) into a one-packet buffer, the write thread             *)
(* (WriteThreadFunction, CPhidget_write, CUSBSendPacket) takes them out    *)
(* and hands them to libusb, while the handle is attached                  *)
(* (attachActiveDevice), detached (CPhidgetDetachEvent) and closed         *)
(* (CPhidget_close) around them.                                           *)
(*                                                                         *)
(* Data: a packet is its acceptance number, 0 is "no packet" in the buffer *)
(* and the zeroed buffer of CPhidget_write on the wire.  Attach, detach    *)
(* and close of one handle exclude each other (openCloseLock between       *)
(* attach and close, activeDevicesLock and list membership between detach  *)
(* and close, one central thread for attach and detach), so one program    *)
(* counter, life, stands for whichever of them is running; module          *)
(* CentralThread models those locks.                                       *)
(***************************************************************************)
EXTENDS Naturals, FiniteSets

CONSTANTS
    Senders,     \* user threads that call a property setter of the handle
    NoThread,    \* the owner of a free mutex
    MaxSends,    \* bound: packets accepted in one behaviour
    MaxAttach,   \* bound: times the handle is attached in one behaviour
    ClearsSlot,  \* fptrInit sets outputPacketLen = 0 (all but FrequencyCounter)
    Unplugs,     \* the device may be unplugged, or cycled after a USB error
    Failures     \* USB transfers, initialisation and pthread_create may fail

ASSUME NoThreadAssumption == NoThread \notin Senders
ASSUME BoundsAssumption == MaxSends \in Nat /\ MaxAttach \in Nat
ASSUME FlagsAssumption ==
    ClearsSlot \in BOOLEAN /\ Unplugs \in BOOLEAN /\ Failures \in BOOLEAN
\* CPhidgetManager_poll cycles a handle with a USB error through a detach.
ASSUME ErrorsDetachAssumption == Failures => Unplugs

VARIABLES
    attached,   \* PHIDGET_ATTACHED_FLAG of phid->status
    usbError,   \* PHIDGET_USB_ERROR_FLAG of phid->status
    devHandle,  \* phid->deviceHandle is not NULL
    stop,       \* phid->writeStopFlag
    slot,       \* the packet in phid->outputPacket, 0 when outputPacketLen = 0
    writtenEv,  \* phid->writtenEvent.ready_to_go
    availEv,    \* phid->writeAvailableEvent.ready_to_go
    writelock,  \* the owner of phid->writelock
    spc,        \* where each sender is in SENDPACKET
    wpc,        \* where the write thread is, "none" when there is none
    wstatus,    \* phid->writeThread.thread_status
    wbuf,       \* the local buffer of CPhidget_write
    wres,       \* the result of CUSBSendPacket
    life,       \* where attach, detach or close of the handle is
    accepted,   \* number of packets sendpacket has accepted
    last,       \* the last packet libusb has transmitted
    era,        \* number of times the handle has been attached
    slotEra,    \* the era in which the packet in the buffer was accepted
    atClose     \* the packet whose sendpacket had returned and that was in the
                \* buffer when close began, 0 otherwise

flags == <<attached, usbError, devHandle, stop>>
queue == <<slot, writtenEv, availEv>>
writer == <<wpc, wstatus, wbuf, wres>>
history == <<accepted, last, era, slotEra, atClose>>
vars == <<attached, usbError, devHandle, stop, slot, writtenEv, availEv,
          writelock, spc, wpc, wstatus, wbuf, wres, life,
          accepted, last, era, slotEra, atClose>>

SenderPc == {"idle", "lock", "check", "deposit", "wait", "signal"}
WriterPc == {"none", "loop", "wait", "timedout", "reset", "get", "send",
             "transfer", "signal", "exit", "done"}
Result == {"ok", "notattached", "usberror"}
LifePc == {"closed", "opened",
           "init", "events", "flag", "create", "status", "readthread",
           "attached",
           "createfailed", "readfailed", "readjoin",
           "detachevent", "detachflag", "detachusb", "detachjoin",
           "closejoin", "closeflag", "closeusb"}

Init ==
    /\ attached = FALSE /\ usbError = FALSE /\ devHandle = FALSE
    /\ stop = FALSE
    /\ slot = 0 /\ writtenEv = FALSE /\ availEv = FALSE
    /\ writelock = NoThread
    /\ spc = [s \in Senders |-> "idle"]
    /\ wpc = "none" /\ wstatus = FALSE /\ wbuf = 0 /\ wres = "ok"
    /\ life = "closed"
    /\ accepted = 0 /\ last = 0
    /\ era = 0 /\ slotEra = 0 /\ atClose = 0

-----------------------------------------------------------------------------
(* A property setter: TESTATTACHED, then SENDPACKET around sendpacket.      *)

InFlight == {s \in Senders : spc[s] # "idle"}
Signalling == \E s \in Senders : spc[s] = "signal"

SenderAt(s, from, to) == spc[s] = from /\ spc' = [spc EXCEPT ![s] = to]

\* sendpacket returns: SENDPACKET releases writelock.
SenderReturns(s) == writelock' = NoThread

\* TESTATTACHED of the setter; the bound MaxSends is counted here.
SetterEnters(s) ==
    /\ attached
    /\ accepted + Cardinality(InFlight) < MaxSends
    /\ SenderAt(s, "idle", "lock")
    /\ UNCHANGED <<flags, queue, writelock, writer, life, history>>

SetterLocks(s) ==
    /\ writelock = NoThread
    /\ SenderAt(s, "lock", "check")
    /\ writelock' = s
    /\ UNCHANGED <<flags, queue, writer, life, history>>

SendChecksAttached(s) ==
    /\ attached
    /\ SenderAt(s, "check", "deposit")
    /\ UNCHANGED <<flags, queue, writelock, writer, life, history>>

SendNotAttached(s) ==
    /\ ~attached
    /\ SenderAt(s, "check", "idle")
    /\ SenderReturns(s)
    /\ UNCHANGED <<flags, queue, writer, life, history>>

\* Under outputLock: the buffer is full, wait for the write thread.
SendFindsFull(s) ==
    /\ slot # 0
    /\ SenderAt(s, "deposit", "wait")
    /\ UNCHANGED <<flags, queue, writelock, writer, life, history>>

\* Mutant: the packet is numbered before the count is advanced.
SendDepositsMisnumbers(s) ==
    /\ slot = 0
    /\ SenderAt(s, "deposit", "signal")
    /\ accepted' = accepted + 1
    /\ slot' = accepted - 1
    /\ slotEra' = era
    /\ writtenEv' = FALSE
    /\ UNCHANGED <<flags, availEv, writelock, writer, life,
                   last, era, atClose>>

\* Under outputLock: fill the buffer and reset writtenEvent.
SendDeposits(s) ==
    /\ slot = 0
    /\ SenderAt(s, "deposit", "signal")
    /\ accepted' = accepted + 1
    /\ slot' = accepted + 1
    /\ slotEra' = era
    /\ writtenEv' = FALSE
    /\ UNCHANGED <<flags, availEv, writelock, writer, life,
                   last, era, atClose>>

\* Mutant: sendpacket returns without setting writeAvailableEvent.
SendSignalsNothing(s) ==
    /\ SenderAt(s, "signal", "idle")
    /\ SenderReturns(s)
    /\ UNCHANGED <<flags, queue, writer, life, history>>

SendSignals(s) ==
    /\ SenderAt(s, "signal", "idle")
    /\ availEv' = TRUE
    /\ SenderReturns(s)
    /\ UNCHANGED <<flags, slot, writtenEv, writer, life, history>>

\* writtenEvent is ready: goto again.
SendWakes(s) ==
    /\ writtenEv
    /\ SenderAt(s, "wait", "check")
    /\ UNCHANGED <<flags, queue, writelock, writer, life, history>>

\* Mutant: sendpacket waits for writtenEvent without a timeout.
SendNeverTimesOut(s) ==
    /\ FALSE
    /\ SenderAt(s, "wait", "idle")
    /\ SenderReturns(s)
    /\ UNCHANGED <<flags, queue, writer, life, history>>

\* 1500 ms went by: EPHIDGET_TIMEOUT.
SendTimesOut(s) ==
    /\ ~writtenEv
    /\ SenderAt(s, "wait", "idle")
    /\ SenderReturns(s)
    /\ UNCHANGED <<flags, queue, writer, life, history>>

Sender(s) ==
    \/ SetterEnters(s) \/ SetterLocks(s)
    \/ SendChecksAttached(s) \/ SendNotAttached(s)
    \/ SendFindsFull(s) \/ SendDeposits(s) \/ SendSignals(s)
    \/ SendWakes(s) \/ SendTimesOut(s)

-----------------------------------------------------------------------------
(* WriteThreadFunction, for a class whose awdc_enabled is FALSE (every      *)
(* class that uses CSENDPACKET_BUF).                                        *)

WriterAt(from, to) == wpc = from /\ wpc' = to

WriterLoops ==
    /\ wpc = "loop"
    /\ wpc' = IF attached THEN "wait" ELSE "exit"
    /\ UNCHANGED <<flags, queue, writelock, spc, wstatus, wbuf, wres, life, history>>

\* CThread_wait_on_event returns WAIT_OBJECT_0.
WriterWakes ==
    /\ availEv
    /\ WriterAt("wait", "reset")
    /\ UNCHANGED <<flags, queue, writelock, spc, wstatus, wbuf, wres, life, history>>

\* The 200 ms of the wait went by; the event may be set before the thread
\* looks at writeStopFlag.
WriterTimesOut ==
    /\ ~availEv
    /\ WriterAt("wait", "timedout")
    /\ UNCHANGED <<flags, queue, writelock, spc, wstatus, wbuf, wres, life, history>>

\* Mutant: only the loop test of the attached flag ends the thread.
WriterForgetsStop ==
    /\ wpc = "timedout"
    /\ wpc' = "loop"
    /\ UNCHANGED <<flags, queue, writelock, spc, wstatus, wbuf, wres, life, history>>

WriterChecksStop ==
    /\ wpc = "timedout"
    /\ wpc' = IF stop THEN "exit" ELSE "loop"
    /\ UNCHANGED <<flags, queue, writelock, spc, wstatus, wbuf, wres, life, history>>

\* CPhidget_write: zero the local buffer, reset writeAvailableEvent.
WriteResets ==
    /\ WriterAt("reset", "get")
    /\ wbuf' = 0
    /\ availEv' = FALSE
    /\ UNCHANGED <<flags, slot, writtenEv, writelock, spc, wstatus, wres, life, history>>

\* Mutant: fptrGetPacket forgets outputPacketLen = 0.
WriteGetsKeeps ==
    /\ WriterAt("get", "send")
    /\ wbuf' = slot
    /\ UNCHANGED <<flags, queue, writelock, spc, wstatus, wres, life, history>>

\* fptrGetPacket, under outputLock: an empty buffer copies nothing and is OK.
WriteGets ==
    /\ WriterAt("get", "send")
    /\ wbuf' = slot
    /\ slot' = 0
    /\ UNCHANGED <<flags, writtenEv, availEv, writelock, spc, wstatus, wres, life, history>>

\* CUSBSendPacket: the flag and the handle are tested, ...
WriteChecksHandle ==
    /\ wpc = "send"
    /\ \/ attached /\ devHandle /\ wpc' = "transfer" /\ wres' = wres
       \/ ~attached /\ wpc' = "signal" /\ wres' = "notattached"
       \/ attached /\ ~devHandle /\ wpc' = "signal" /\ wres' = "usberror"
    /\ UNCHANGED <<flags, queue, writelock, spc, wstatus, wbuf, life, history>>

\* ... then libusb transfers the whole report, whatever was copied into it.
WriteTransmits ==
    /\ devHandle
    /\ WriterAt("transfer", "signal")
    /\ wres' = "ok"
    /\ last' = IF wbuf = 0 THEN last ELSE wbuf
    /\ UNCHANGED <<flags, queue, writelock, spc, wstatus, wbuf, life,
                   accepted, era, slotEra, atClose>>

\* LIBUSB_ERROR_NO_DEVICE, or any other error or short write; on a handle
\* closed meanwhile libusb may return either.
WriteFails ==
    /\ Unplugs \/ Failures \/ ~devHandle
    /\ WriterAt("transfer", "signal")
    /\ wres' \in (IF Failures THEN {"notattached", "usberror"} ELSE {"notattached"})
    /\ UNCHANGED <<flags, queue, writelock, spc, wstatus, wbuf, life, history>>

\* Mutant: writeAvailableEvent is reset after the write, not before it.
WriteSignalsAndResets ==
    /\ wpc = "signal"
    /\ wpc' = IF wres = "ok" THEN "loop" ELSE "exit"
    /\ writtenEv' = TRUE
    /\ availEv' = FALSE
    /\ usbError' = (usbError \/ wres = "usberror")
    /\ UNCHANGED <<attached, devHandle, stop, slot, writelock, spc,
                   wstatus, wbuf, wres, life, history>>

\* CPhidget_write signals writtenEvent whatever the result; any error makes
\* the thread exit, a USB error after setting PHIDGET_USB_ERROR_FLAG.
WriteSignals ==
    /\ wpc = "signal"
    /\ wpc' = IF wres = "ok" THEN "loop" ELSE "exit"
    /\ writtenEv' = TRUE
    /\ usbError' = (usbError \/ wres = "usberror")
    /\ UNCHANGED <<attached, devHandle, stop, slot, availEv, writelock, spc,
                   wstatus, wbuf, wres, life, history>>

WriterExits ==
    /\ WriterAt("exit", "done")
    /\ stop' = FALSE
    /\ wstatus' = FALSE
    /\ UNCHANGED <<attached, usbError, devHandle, queue, writelock, spc,
                   wbuf, wres, life, history>>

Writer ==
    \/ WriterLoops \/ WriterWakes \/ WriterTimesOut \/ WriterChecksStop
    \/ WriteResets \/ WriteGets \/ WriteChecksHandle \/ WriteTransmits
    \/ WriteFails \/ WriteSignals \/ WriterExits

-----------------------------------------------------------------------------
(* attachActiveDevice.                                                      *)

LifeAt(from, to) == life = from /\ life' = to

\* Mutant: the write thread is not waited for.
WriterNotJoined == wpc' = IF wpc = "done" THEN "none" ELSE wpc

\* CThread_join(&phid->writeThread) returns at once unless thread_status.
WriterJoined == /\ (wstatus => wpc = "done")
                /\ wpc' = IF wpc = "done" THEN "none" ELSE wpc

AttachOpensUsb ==
    /\ era < MaxAttach
    /\ LifeAt("opened", "init")
    /\ devHandle' = TRUE
    /\ UNCHANGED <<attached, usbError, stop, queue, writelock, spc, writer, history>>

\* fptrInit of the class.
AttachInits ==
    /\ LifeAt("init", "events")
    /\ slot' = IF ClearsSlot THEN 0 ELSE slot
    /\ UNCHANGED <<flags, writtenEv, availEv, writelock, spc, writer, history>>

AttachInitFails ==
    /\ Failures
    /\ LifeAt("init", "opened")
    /\ devHandle' = FALSE
    /\ UNCHANGED <<attached, usbError, stop, queue, writelock, spc, writer, history>>

AttachResetsEvents ==
    /\ LifeAt("events", "flag")
    /\ stop' = FALSE
    /\ writtenEv' = FALSE
    /\ availEv' = FALSE
    /\ UNCHANGED <<attached, usbError, devHandle, slot, writelock, spc, writer, history>>

AttachSetsFlag ==
    /\ LifeAt("flag", "create")
    /\ attached' = TRUE
    /\ era' = era + 1
    /\ UNCHANGED <<usbError, devHandle, stop, queue, writelock, spc, writer,
                   accepted, last, slotEra, atClose>>

AttachCreatesWriter ==
    /\ LifeAt("create", "status")
    /\ wpc' = "loop"
    /\ UNCHANGED <<flags, queue, writelock, spc, wstatus, wbuf, wres, history>>

AttachCreateFails ==
    /\ Failures
    /\ LifeAt("create", "createfailed")
    /\ attached' = FALSE
    /\ UNCHANGED <<usbError, devHandle, stop, queue, writelock, spc, writer, history>>

\* thread_status = TRUE is stored after CThread_create.
AttachSetsStatus ==
    /\ LifeAt("status", "readthread")
    /\ wstatus' = TRUE
    /\ UNCHANGED <<flags, queue, writelock, spc, wpc, wbuf, wres, history>>

\* The attach handler has run and the read thread is started.
AttachCompletes ==
    /\ LifeAt("readthread", "attached")
    /\ UNCHANGED <<flags, queue, writelock, spc, writer, history>>

\* The read thread cannot be created: clear the flag, stop and join the
\* write thread, close the handle.
AttachReadFails ==
    /\ Failures
    /\ LifeAt("readthread", "readfailed")
    /\ attached' = FALSE
    /\ UNCHANGED <<usbError, devHandle, stop, queue, writelock, spc, writer, history>>

AttachReadStops ==
    /\ LifeAt("readfailed", "readjoin")
    /\ stop' = TRUE
    /\ UNCHANGED <<attached, usbError, devHandle, queue, writelock, spc, writer, history>>

AttachReadJoins ==
    /\ LifeAt("readjoin", "createfailed")
    /\ WriterJoined
    /\ UNCHANGED <<flags, queue, writelock, spc, wstatus, wbuf, wres, history>>

\* CUSBCloseHandle of both failure paths.
AttachClosesUsb ==
    /\ LifeAt("createfailed", "opened")
    /\ devHandle' = FALSE
    /\ UNCHANGED <<attached, usbError, stop, queue, writelock, spc, writer, history>>

Attach ==
    \/ AttachOpensUsb \/ AttachInits \/ AttachInitFails \/ AttachResetsEvents
    \/ AttachSetsFlag \/ AttachCreatesWriter \/ AttachCreateFails
    \/ AttachSetsStatus \/ AttachCompletes \/ AttachReadFails
    \/ AttachReadStops \/ AttachReadJoins \/ AttachClosesUsb

-----------------------------------------------------------------------------
(* CPhidgetDetachEvent, for the handle it finds in ActiveDevices.           *)

DetachStops ==
    /\ Unplugs
    /\ LifeAt("attached", "detachevent")
    /\ stop' = TRUE
    /\ UNCHANGED <<attached, usbError, devHandle, queue, writelock, spc, writer, history>>

DetachSignals ==
    /\ LifeAt("detachevent", "detachflag")
    /\ availEv' = TRUE
    /\ UNCHANGED <<flags, slot, writtenEv, writelock, spc, writer, history>>

\* CUSBCloseHandle clears the flag, joins the read thread, ...
DetachClearsFlag ==
    /\ LifeAt("detachflag", "detachusb")
    /\ attached' = FALSE
    /\ UNCHANGED <<usbError, devHandle, stop, queue, writelock, spc, writer, history>>

\* ... and closes the libusb handle.
DetachClosesUsb ==
    /\ LifeAt("detachusb", "detachjoin")
    /\ devHandle' = FALSE
    /\ UNCHANGED <<attached, usbError, stop, queue, writelock, spc, writer, history>>

\* The write thread is joined, the detach handler runs, the error is cleared.
DetachJoins ==
    /\ LifeAt("detachjoin", "opened")
    /\ WriterJoined
    /\ usbError' = FALSE
    /\ UNCHANGED <<attached, devHandle, stop, queue, writelock, spc,
                   wstatus, wbuf, wres, history>>

Detach ==
    \/ DetachStops \/ DetachSignals \/ DetachClearsFlag \/ DetachClosesUsb
    \/ DetachJoins

-----------------------------------------------------------------------------
(* CPhidget_open and CPhidget_close of a local handle.                      *)

Open ==
    /\ LifeAt("closed", "opened")
    /\ UNCHANGED <<flags, queue, writelock, spc, writer, history>>

CloseUnattached ==
    /\ LifeAt("opened", "closed")
    /\ UNCHANGED <<flags, queue, writelock, spc, writer, history>>

CloseStops ==
    /\ LifeAt("attached", "closejoin")
    /\ stop' = TRUE
    /\ atClose' = IF Signalling THEN 0 ELSE slot
    /\ UNCHANGED <<attached, usbError, devHandle, queue, writelock, spc, writer,
                   accepted, last, era, slotEra>>

CloseJoins ==
    /\ LifeAt("closejoin", "closeflag")
    /\ WriterJoined
    /\ UNCHANGED <<flags, queue, writelock, spc, wstatus, wbuf, wres, history>>

CloseClearsFlag ==
    /\ LifeAt("closeflag", "closeusb")
    /\ attached' = FALSE
    /\ UNCHANGED <<usbError, devHandle, stop, queue, writelock, spc, writer, history>>

CloseClosesUsb ==
    /\ LifeAt("closeusb", "closed")
    /\ devHandle' = FALSE
    /\ atClose' = 0
    /\ UNCHANGED <<attached, usbError, stop, queue, writelock, spc, writer,
                   accepted, last, era, slotEra>>

Close ==
    \/ CloseUnattached \/ CloseStops \/ CloseJoins \/ CloseClearsFlag
    \/ CloseClosesUsb

-----------------------------------------------------------------------------

Next ==
    \/ \E s \in Senders : Sender(s)
    \/ Writer
    \/ Attach
    \/ Detach
    \/ Open
    \/ Close

Spec == Init /\ [][Next]_vars

\* What a thread does on its own once it has started: a setter until it
\* returns, attach, detach and close until they are over.
SenderContinues(s) ==
    \/ SetterLocks(s) \/ SendChecksAttached(s) \/ SendNotAttached(s)
    \/ SendFindsFull(s) \/ SendDeposits(s) \/ SendSignals(s)
    \/ SendWakes(s) \/ SendTimesOut(s)

LifeContinues ==
    /\ life \notin {"closed", "opened", "attached"}
    /\ Attach \/ Detach \/ Close

\* CPhidgetManager_poll runs every 250 ms and finds a handle whose device is
\* gone or whose USB error flag is set: a dead write thread is one of both.
PollDetaches == wpc = "done" /\ DetachStops

FairSpec ==
    /\ Spec
    /\ \A s \in Senders : WF_vars(SenderContinues(s))
    /\ WF_vars(Writer)
    /\ WF_vars(LifeContinues)
    /\ WF_vars(PollDetaches)

-----------------------------------------------------------------------------

FlagTypes ==
    /\ attached \in BOOLEAN /\ usbError \in BOOLEAN /\ devHandle \in BOOLEAN
    /\ stop \in BOOLEAN /\ writtenEv \in BOOLEAN /\ availEv \in BOOLEAN
    /\ wstatus \in BOOLEAN

DataTypes ==
    /\ slot \in Nat /\ wbuf \in Nat
    /\ writelock \in Senders \cup {NoThread}
    /\ spc \in [Senders -> SenderPc]
    /\ wpc \in WriterPc /\ wres \in Result
    /\ life \in LifePc
    /\ accepted \in Nat /\ last \in Nat
    /\ era \in Nat /\ slotEra \in Nat /\ atClose \in Nat

\* Every variable has its type (the fields CSENDPACKET_BUF, CPhidget_write
\* and attachActiveDevice assign).
TypeOK == FlagTypes /\ DataTypes

WriterAlive == wpc \notin {"none", "exit", "done"}

\* No lost wake-up (CSENDPACKET_BUF against CPhidget_write): a packet accepted
\* since the handle was attached is never left in the buffer with a live write
\* thread that nothing will wake: writeAvailableEvent is set, or about to be
\* set by the sender, or the thread is between resetting it and fptrGetPacket.
PendingIsSignalled ==
    slot # 0 /\ slotEra = era /\ WriterAlive
        => availEv \/ Signalling \/ wpc \in {"reset", "get"}

\* Packets leave in the order sendpacket accepted them, each at most once: the
\* packet CPhidget_write holds for libusb is newer than every transmitted one,
\* and the queued one is newer than both, across detach, close and reattach.
NeverResent ==
    /\ wpc \in {"send", "transfer"} /\ wbuf # 0 => last < wbuf
    /\ slot # 0 => last < slot
    /\ slot # 0 /\ wpc \in {"send", "transfer", "signal"} => wbuf < slot

\* When CPhidget_close or a detach is over (and while attach has not started)
\* the handle is quiet: no flag, no USB handle, and no write thread that could
\* touch the phid the user may now delete.
ClosedIsQuiet ==
    life \in {"closed", "opened"} => ~attached /\ ~devHandle /\ wpc = "none"

\* CUSBSendPacket never has a transfer under way on a libusb handle that
\* CUSBCloseHandle has closed.
TransferHasHandle == wpc = "transfer" => devHandle

\* "join before closing because we want to wait for outstanding writes to
\* complete": once CPhidget_close has joined the write thread, a packet whose
\* sendpacket had returned when it began has been taken.
CloseDrains == life = "closeflag" => atClose = 0 \/ slot # atClose

\* "make sure the write events are in a good state": PendingIsSignalled for
\* whatever packet is in the buffer, accepted in this attachment or before it.
AttachedQueueIsServed ==
    slot # 0 /\ attached /\ WriterAlive
        => availEv \/ Signalling \/ wpc \in {"reset", "get"}

\* Every property setter returns: sendpacket never loops or waits for ever,
\* whatever the write thread, a detach or a close does meanwhile.
SendReturns == \A s \in Senders : spc[s] # "idle" ~> spc[s] = "idle"

\* A packet accepted since the handle was attached is taken by the write
\* thread, unless the handle is detached or closed.
AcceptedIsTaken ==
    \A k \in 1..MaxSends :
        slot = k /\ attached /\ slotEra = era ~> slot # k \/ ~attached

\* CPhidgetDetachEvent and the failed attach get past CThread_join whatever
\* the setters do: they have cleared the attached flag before it, so that none
\* is called any more, and one that had tested the flag sets
\* writeAvailableEvent once more at most.
DetachReturns == life \in {"detachjoin", "readjoin"} ~> life = "opened"

\* CPhidget_close keeps the attached flag until after CThread_join, and the
\* write thread tests writeStopFlag only after 200 ms without a packet: a close
\* gets past the join, or another packet is accepted while it waits.
JoinWaitsForNew ==
    \A k \in 0..MaxSends :
        life = "closejoin" /\ accepted = k ~> life = "closed" \/ accepted # k

\* Setters return, and no stop of the write thread hangs but for packets that
\* keep coming.
CallsGetThrough == SendReturns /\ DetachReturns /\ JoinWaitsForNew
=============================================================================
