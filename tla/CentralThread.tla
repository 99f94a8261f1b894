---------------------------- MODULE CentralThread ----------------------------
(***************************************************************************)
(* How the bundled libphidget21 associates the local handles a program has *)
(* opened with the devices on the USB bus: CPhidget_open and               *)
(* CPhidget_close in any number of user threads, the central thread that   *)
(* polls the bus every 250 ms (CPhidgetManager_poll, findActiveDevices),   *)
(* and its start and join; and the local PhidgetManagers, which are told   *)
(* of every device.  Every lock the two sides take is here, and so are the *)
(* reads they do without one.                                              *)
(*                                                                         *)
(* All handles and devices are of one class and deviceIDSpec; openLabel    *)
(* behaves as an open by serial number.  A device is its serial number.    *)
(* The transfers of an attached handle, its two threads and the steps of   *)
(* attachActiveDevice are module WritePath.  Every manager has both        *)
(* handlers; no handler calls the library.                                 *)
(***************************************************************************)
EXTENDS Integers, FiniteSets

CONSTANTS
    Users,       \* threads of the program
    Centrals,    \* identities of central threads
    Handles,     \* phidget handles
    Managers,    \* local PhidgetManagers
    Devices,     \* devices, each with its serial number
    NoThread,    \* owner of a free mutex, CentralThread.m_ThreadHandle = 0
    AnyPhidget,  \* serialNumber -1
    Requests,    \* what may be opened with each handle: serials or AnyPhidget
    Keepers,     \* what the program opens before any close and never closes
    FastReplug,  \* a device may be back before a poll has missed it
    MaxCalls,    \* bound: calls of open and close in one behaviour
    MaxFaults    \* bound: unplugs, USB errors and failures after a handle was
                 \* opened in one behaviour

ASSUME RequestsAssumption == Requests \in [Handles -> SUBSET (Devices \cup {AnyPhidget})]
ASSUME AnyAssumption == AnyPhidget \notin Devices
ASSUME ThreadsAssumption ==
    /\ NoThread \notin Users \cup Centrals
    /\ Users \cap Centrals = {}
ASSUME CentralBounds ==
    /\ Handles \cap Managers = {}
    /\ Keepers \subseteq Handles \cup Managers
    /\ FastReplug \in BOOLEAN
    /\ MaxCalls \in Nat /\ MaxFaults \in Nat

VARIABLES
    \* the handles
    opened,          \* PHIDGET_OPENED_FLAG, of managers too
    attached,        \* PHIDGET_ATTACHED_FLAG
    usbError,        \* PHIDGET_USB_ERROR_FLAG
    specific,        \* specificDevice: "any", "serial" or "any_attached"
    serial,          \* serialNumber, AnyPhidget for -1
    request,         \* the serial number the last CPhidget_open asked for
    gone,            \* the device was unplugged since the handle was attached
    openCloseLock,   \* owner of each openCloseLock, of managers too
    \* the lists
    activeDevices,   \* the handles in ActiveDevices
    older,           \* for each of them the handles before it in the list
    activeLock,      \* owner of activeDevicesLock
    attachedDevices, \* the devices in AttachedDevices
    attachedLock,    \* owner of attachedDevicesLock
    \* the managers
    managers,        \* localPhidgetManagers
    activeManagers,  \* ActivePhidgetManagers
    mstate,          \* state of each: "inactive", "activating" or "active"
    managerLock,     \* owner of managerLock
    tell,            \* managers the poll has still to tell of a change
    told,            \* the devices each has heard of since it was opened
    \* the USB bus
    plugged,         \* devices on the bus
    usbReady,        \* libusbContext is not NULL
    \* the central thread
    mThread,         \* CentralThread.m_ThreadHandle
    mStatus,         \* CentralThread.thread_status
    cpc,             \* where each central thread is, "none" if never created
    polling,         \* the owner of attachedLock is in CPhidgetManager_poll
    todo,            \* devices it has still to look at
    detachList,      \* devices it will detach
    dev,             \* the device it is looking at
    matches,         \* handles findActiveDevice will try for that device
    hand,            \* the handle it attaches or detaches, the manager it tells
    \* the users
    upc,             \* where each user thread is, "idle" outside the library
    uh,              \* the handle or manager it opens or closes
    ureq,            \* the serial number it is about to open
    ujoin,           \* the central thread it joins
    calls, faults    \* counters for the bounds

handleVars == <<opened, attached, usbError, specific, serial, request, gone>>
listVars == <<activeDevices, older, attachedDevices>>
managerVars == <<managers, activeManagers, mstate, managerLock, tell, told>>
busVars == <<plugged, usbReady>>
threadVars == <<mThread, mStatus>>
pollVars == <<polling, todo, detachList, dev, matches, hand>>
userVars == <<upc, uh, ureq, ujoin>>
boundVars == <<calls, faults>>
\* All but the users' own, and all that few steps of a central thread change.
libraryVars == <<handleVars, openCloseLock, listVars, activeLock, attachedLock,
                 managerVars, busVars, threadVars, cpc, pollVars>>
otherVars == <<managerVars, busVars, threadVars, userVars, boundVars>>
vars == <<libraryVars, userVars, boundVars>>

Init ==
    /\ opened = [h \in Handles \cup Managers |-> FALSE]
    /\ attached = [h \in Handles |-> FALSE]
    /\ usbError = [h \in Handles |-> FALSE]
    /\ specific = [h \in Handles |-> "any"]
    /\ serial = [h \in Handles |-> AnyPhidget]
    /\ request = [h \in Handles |-> AnyPhidget]
    /\ gone = [h \in Handles |-> FALSE]
    /\ openCloseLock = [h \in Handles \cup Managers |-> NoThread]
    /\ activeDevices = {} /\ older = [h \in Handles |-> {}]
    /\ activeLock = NoThread
    /\ attachedDevices = {} /\ attachedLock = NoThread
    /\ managers = {} /\ activeManagers = 0
    /\ mstate = [m \in Managers |-> "inactive"]
    /\ managerLock = NoThread /\ tell = {}
    /\ told = [m \in Managers |-> {}]
    /\ plugged \in SUBSET Devices /\ usbReady = FALSE
    /\ mThread = NoThread /\ mStatus = FALSE
    /\ cpc = [c \in Centrals |-> "none"]
    /\ polling = FALSE /\ todo = {} /\ detachList = {}
    /\ dev = AnyPhidget /\ matches = {} /\ hand = NoThread
    /\ upc = [u \in Users |-> "idle"]
    /\ uh = [u \in Users |-> NoThread]
    /\ ureq = [u \in Users |-> AnyPhidget]
    /\ ujoin = [u \in Users |-> NoThread]
    /\ calls = 0 /\ faults = 0

UserAt(u, from, to) == upc[u] = from /\ upc' = [upc EXCEPT ![u] = to]
CentralAt(c, from, to) == cpc[c] = from /\ cpc' = [cpc EXCEPT ![c] = to]

-----------------------------------------------------------------------------
(* The list of active devices.                                              *)

\* CPhidget_areEqual of two handles of one class: a handle that waits for any
\* device equals every other, and any two that wait for no serial number do.
AreEqual(h, e) ==
    \/ specific[h] = "any" \/ specific[e] = "any"
    \/ serial[h] = serial[e]
    \/ specific[h] = "any_attached" /\ specific[e] = "any_attached"

\* CPhidget_areEqual of a device of the bus and a handle.
IsDevice(d, e) == specific[e] = "any" \/ serial[e] = d

\* The first in list order of a set of active devices.
FirstOf(e, S) == e \in S /\ older[e] \cap S = {}

\* Mutant: close empties the list.
RemovedAll(h) == activeDevices

\* What CList_removeFromList removes: the head alone if the head is equal to
\* the handle, every equal entry otherwise.
Removed(h) ==
    LET hits == {e \in activeDevices : AreEqual(h, e)}
        head == {e \in hits : older[e] = {}}
    IN IF head = {} THEN hits ELSE head

-----------------------------------------------------------------------------
(* CPhidget_open.                                                           *)

OpenCalls(u, h, r) ==
    /\ calls < MaxCalls
    /\ UserAt(u, "idle", "openlock")
    /\ uh' = [uh EXCEPT ![u] = h]
    /\ ureq' = [ureq EXCEPT ![u] = r]
    /\ calls' = calls + 1
    /\ UNCHANGED <<libraryVars, ujoin, faults>>

\* "Open was called on an already opened Phidget handle."
OpenIgnored(u) ==
    /\ UserAt(u, "openlock", "idle")
    /\ openCloseLock[uh[u]] = NoThread /\ opened[uh[u]]
    /\ uh' = [uh EXCEPT ![u] = NoThread]
    /\ ureq' = [ureq EXCEPT ![u] = AnyPhidget]
    /\ UNCHANGED <<libraryVars, ujoin, boundVars>>

OpenLocks(u) ==
    /\ UserAt(u, "openlock", "register") /\ uh[u] \in Handles
    /\ openCloseLock[uh[u]] = NoThread /\ ~opened[uh[u]]
    /\ openCloseLock' = [openCloseLock EXCEPT ![uh[u]] = u]
    /\ specific' = [specific EXCEPT ![uh[u]] =
                        IF ureq[u] = AnyPhidget THEN "any" ELSE "serial"]
    /\ serial' = [serial EXCEPT ![uh[u]] = ureq[u]]
    /\ request' = [request EXCEPT ![uh[u]] = ureq[u]]
    /\ ureq' = [ureq EXCEPT ![u] = AnyPhidget]
    /\ UNCHANGED <<opened, attached, usbError, gone, listVars, activeLock,
                   attachedLock, busVars, threadVars, managerVars, cpc,
                   pollVars, uh, ujoin, boundVars>>

\* RegisterLocalDevice finds an equal entry: EPHIDGET_DUPLICATE.
OpenIsDuplicate(u) ==
    /\ UserAt(u, "register", "flag")
    /\ activeLock = NoThread
    /\ IF specific[uh[u]] = "serial"
       THEN \E e \in activeDevices : AreEqual(uh[u], e)
       ELSE uh[u] \in activeDevices
    /\ UNCHANGED <<libraryVars, uh, ureq, ujoin, boundVars>>

\* Mutant: the wrong object is put on the list.
OpenRegistersThread(u) ==
    /\ UserAt(u, "register", "start")
    /\ activeLock = NoThread
    /\ IF specific[uh[u]] = "serial"
       THEN ~\E e \in activeDevices : AreEqual(uh[u], e)
       ELSE uh[u] \notin activeDevices
    /\ activeDevices' = activeDevices \cup {u}
    /\ older' = [older EXCEPT ![uh[u]] = activeDevices]
    /\ UNCHANGED <<handleVars, openCloseLock, activeLock, attachedDevices,
                   attachedLock, busVars, threadVars, managerVars, cpc,
                   pollVars, uh, ureq, ujoin, boundVars>>

OpenRegisters(u) ==
    /\ UserAt(u, "register", "start")
    /\ activeLock = NoThread
    /\ IF specific[uh[u]] = "serial"
       THEN ~\E e \in activeDevices : AreEqual(uh[u], e)
       ELSE uh[u] \notin activeDevices
    /\ activeDevices' = activeDevices \cup {uh[u]}
    /\ older' = [older EXCEPT ![uh[u]] = activeDevices]
    /\ UNCHANGED <<handleVars, openCloseLock, activeLock, attachedDevices,
                   attachedLock, busVars, threadVars, managerVars, cpc,
                   pollVars, uh, ureq, ujoin, boundVars>>

\* Mutant: StartCentralThread does not look for a running thread.
StartAlwaysCreates(u) ==
    /\ upc[u] = "start"
    /\ upc' = [upc EXCEPT ![u] =
                   "create"]
    /\ UNCHANGED <<libraryVars, uh, ureq, ujoin, boundVars>>

\* StartCentralThread, which takes no lock.
StartFindsThread(u) ==
    /\ upc[u] = "start"
    /\ upc' = [upc EXCEPT ![u] =
                   IF mThread = NoThread \/ ~mStatus THEN "create" ELSE "flag"]
    /\ UNCHANGED <<libraryVars, uh, ureq, ujoin, boundVars>>

StartCreates(u, c) ==
    /\ cpc[c] \in {"none", "done"} /\ \A v \in Users : ujoin[v] # c
    /\ UserAt(u, "create", "status")
    /\ cpc' = [cpc EXCEPT ![c] = "test"]
    /\ mThread' = c
    /\ UNCHANGED <<handleVars, openCloseLock, listVars, activeLock,
                   attachedLock, busVars, mStatus, managerVars, pollVars, uh,
                   ureq, ujoin, boundVars>>

\* thread_status = TRUE is stored after CThread_create.
StartSetsStatus(u) ==
    /\ UserAt(u, "status", "flag")
    /\ mStatus' = TRUE
    /\ UNCHANGED <<handleVars, openCloseLock, listVars, activeLock,
                   attachedLock, busVars, mThread, managerVars, cpc, pollVars,
                   uh, ureq, ujoin, boundVars>>

\* PHIDGET_OPENED_FLAG is set whatever RegisterLocalDevice returned.
OpenReturns(u) ==
    /\ UserAt(u, "flag", "idle")
    /\ opened' = [opened EXCEPT ![uh[u]] = TRUE]
    /\ openCloseLock' = [openCloseLock EXCEPT ![uh[u]] = NoThread]
    /\ uh' = [uh EXCEPT ![u] = NoThread]
    /\ UNCHANGED <<attached, usbError, specific, serial, request, gone,
                   listVars, activeLock, attachedLock, busVars, threadVars,
                   managerVars, cpc, pollVars, ureq, ujoin, boundVars>>

-----------------------------------------------------------------------------
(* CPhidget_close of a local handle.                                        *)

CloseCalls(u, h) ==
    /\ calls < MaxCalls
    /\ h \notin Keepers /\ \A k \in Keepers : opened[k]
    /\ UserAt(u, "idle", "closelock")
    /\ uh' = [uh EXCEPT ![u] = h]
    /\ calls' = calls + 1
    /\ UNCHANGED <<libraryVars, ureq, ujoin, faults>>

\* "Close was called on an already closed Phidget handle."
CloseIgnored(u) ==
    /\ UserAt(u, "closelock", "idle")
    /\ openCloseLock[uh[u]] = NoThread /\ ~opened[uh[u]]
    /\ uh' = [uh EXCEPT ![u] = NoThread]
    /\ UNCHANGED <<libraryVars, ureq, ujoin, boundVars>>

CloseLocks(u) ==
    /\ UserAt(u, "closelock", "remove") /\ uh[u] \in Handles
    /\ openCloseLock[uh[u]] = NoThread /\ opened[uh[u]]
    /\ openCloseLock' = [openCloseLock EXCEPT ![uh[u]] = u]
    /\ UNCHANGED <<handleVars, listVars, activeLock, attachedLock, busVars,
                   threadVars, managerVars, cpc, pollVars, uh, ureq, ujoin,
                   boundVars>>

CloseRemoves(u) ==
    /\ activeLock = NoThread
    /\ UserAt(u, "remove", "test")
    /\ activeDevices' = activeDevices \ Removed(uh[u])
    /\ older' = [h \in Handles |->
                    IF h \in Removed(uh[u]) THEN {} ELSE older[h] \ Removed(uh[u])]
    /\ UNCHANGED <<handleVars, openCloseLock, activeLock, attachedDevices,
                   attachedLock, busVars, threadVars, managerVars, cpc,
                   pollVars, uh, ureq, ujoin, boundVars>>

CloseTestsAttached(u) ==
    /\ upc[u] = "test"
    /\ upc' = [upc EXCEPT ![u] = IF attached[uh[u]] THEN "detach" ELSE "release"]
    /\ UNCHANGED <<libraryVars, uh, ureq, ujoin, boundVars>>

\* The handle was attached: its threads are joined, CUSBCloseHandle.
CloseDetaches(u) ==
    /\ UserAt(u, "detach", "release")
    /\ attached' = [attached EXCEPT ![uh[u]] = FALSE]
    /\ gone' = [gone EXCEPT ![uh[u]] = FALSE]
    /\ UNCHANGED <<opened, usbError, specific, serial, request, openCloseLock,
                   listVars, activeLock, attachedLock, busVars, threadVars,
                   managerVars, cpc, pollVars, uh, ureq, ujoin, boundVars>>

\* Mutant: USB is shut down whatever is still open.
CloseForgetsOthers(u) ==
    /\ upc[u] = "release"
    /\ IF specific[uh[u]] = "any_attached"
       THEN /\ specific' = [specific EXCEPT ![uh[u]] = "any"]
            /\ serial' = [serial EXCEPT ![uh[u]] = AnyPhidget]
       ELSE UNCHANGED <<specific, serial>>
    /\ upc' = [upc EXCEPT ![u] = "uninit"]
    /\ UNCHANGED <<opened, attached, usbError, request, gone, openCloseLock,
                   listVars, activeLock, attachedLock, busVars, threadVars,
                   managerVars, cpc, pollVars, uh, ureq, ujoin, boundVars>>

\* "if there are no more active phidgets or managers"
NothingActive == activeDevices = {} /\ activeManagers = 0

\* PHIDGETOPEN_ANY_ATTACHED goes back to PHIDGETOPEN_ANY, and the last close
\* goes on to JoinCentralThread.
CloseReleases(u) ==
    /\ upc[u] = "release"
    /\ IF specific[uh[u]] = "any_attached"
       THEN /\ specific' = [specific EXCEPT ![uh[u]] = "any"]
            /\ serial' = [serial EXCEPT ![uh[u]] = AnyPhidget]
       ELSE UNCHANGED <<specific, serial>>
    /\ upc' = [upc EXCEPT ![u] = IF NothingActive THEN "join" ELSE "unflag"]
    /\ UNCHANGED <<opened, attached, usbError, request, gone, openCloseLock,
                   listVars, activeLock, attachedLock, busVars, threadVars,
                   managerVars, cpc, pollVars, uh, ureq, ujoin, boundVars>>

\* JoinCentralThread: nothing to join, CThread_join returns at once, ...
JoinSkips(u) ==
    /\ mThread = NoThread \/ ~mStatus
    /\ UserAt(u, "join", "uninit")
    /\ mThread' = NoThread
    /\ UNCHANGED <<handleVars, openCloseLock, listVars, activeLock,
                   attachedLock, busVars, mStatus, managerVars, cpc, pollVars,
                   uh, ureq, ujoin, boundVars>>

\* ... or pthread_join waits for the thread it has read.
JoinStarts(u) ==
    /\ mThread # NoThread /\ mStatus
    /\ UserAt(u, "join", "joining")
    /\ ujoin' = [ujoin EXCEPT ![u] = mThread]
    /\ UNCHANGED <<libraryVars, uh, ureq, boundVars>>

JoinEnds(u) ==
    /\ UserAt(u, "joining", "uninit")
    /\ cpc[ujoin[u]] = "done"
    /\ ujoin' = [ujoin EXCEPT ![u] = NoThread]
    /\ mThread' = NoThread
    /\ UNCHANGED <<handleVars, openCloseLock, listVars, activeLock,
                   attachedLock, busVars, mStatus, managerVars, cpc, pollVars,
                   uh, ureq, boundVars>>

\* CUSBUninit.
CloseUninits(u) ==
    /\ UserAt(u, "uninit", "unflag")
    /\ usbReady' = FALSE
    /\ UNCHANGED <<handleVars, openCloseLock, listVars, activeLock,
                   attachedLock, plugged, threadVars, managerVars, cpc,
                   pollVars, uh, ureq, ujoin, boundVars>>

CloseReturns(u) ==
    /\ UserAt(u, "unflag", "idle")
    /\ opened' = [opened EXCEPT ![uh[u]] = FALSE]
    /\ openCloseLock' = [openCloseLock EXCEPT ![uh[u]] = NoThread]
    /\ uh' = [uh EXCEPT ![u] = NoThread]
    /\ UNCHANGED <<attached, usbError, specific, serial, request, gone,
                   listVars, activeLock, attachedLock, busVars, threadVars,
                   managerVars, cpc, pollVars, ureq, ujoin, boundVars>>

-----------------------------------------------------------------------------
(* CPhidgetManager_open and CPhidgetManager_close of a local manager.  They *)
(* start and join the central thread as CPhidget_open and CPhidget_close do *)
(* and share those steps.                                                   *)

ManagerOpenCalls(u, m) ==
    /\ calls < MaxCalls
    /\ m \notin Keepers => \A k \in Keepers : opened[k]
    /\ UserAt(u, "idle", "openlock")
    /\ uh' = [uh EXCEPT ![u] = m]
    /\ calls' = calls + 1
    /\ UNCHANGED <<libraryVars, ureq, ujoin, faults>>

\* A manager that is not inactive is not put on the list.
ManagerOpenLocks(u) ==
    /\ upc[u] = "openlock" /\ uh[u] \in Managers
    /\ openCloseLock[uh[u]] = NoThread /\ ~opened[uh[u]]
    /\ openCloseLock' = [openCloseLock EXCEPT ![uh[u]] = u]
    /\ upc' = [upc EXCEPT ![u] = IF mstate[uh[u]] = "inactive" THEN "madd" ELSE "flag"]
    /\ UNCHANGED <<handleVars, listVars, activeLock, attachedLock, busVars,
                   threadVars, managerVars, cpc, pollVars, uh, ureq, ujoin,
                   boundVars>>

\* Under managerLock: onto the list, to be activated by the next poll.
ManagerOpenAdds(u) ==
    /\ managerLock = NoThread
    /\ UserAt(u, "madd", "start")
    /\ managers' = managers \cup {uh[u]}
    /\ activeManagers' = activeManagers + 1
    /\ mstate' = [mstate EXCEPT ![uh[u]] = "activating"]
    /\ told' = [told EXCEPT ![uh[u]] = {}]
    /\ UNCHANGED <<handleVars, openCloseLock, listVars, activeLock,
                   attachedLock, managerLock, tell, busVars, threadVars, cpc,
                   pollVars, uh, ureq, ujoin, boundVars>>

ManagerCloseCalls(u, m) ==
    /\ calls < MaxCalls
    /\ m \notin Keepers /\ \A k \in Keepers : opened[k]
    /\ UserAt(u, "idle", "closelock")
    /\ uh' = [uh EXCEPT ![u] = m]
    /\ calls' = calls + 1
    /\ UNCHANGED <<libraryVars, ureq, ujoin, faults>>

\* The state is set before managerLock is asked for.
ManagerCloseLocks(u) ==
    /\ upc[u] = "closelock" /\ uh[u] \in Managers
    /\ openCloseLock[uh[u]] = NoThread /\ opened[uh[u]]
    /\ openCloseLock' = [openCloseLock EXCEPT ![uh[u]] = u]
    /\ upc' = [upc EXCEPT ![u] = IF mstate[uh[u]] = "inactive" THEN "mrelease"
                                                              ELSE "mremove"]
    /\ mstate' = [mstate EXCEPT ![uh[u]] = "inactive"]
    /\ UNCHANGED <<handleVars, listVars, activeLock, attachedLock, managers,
                   activeManagers, managerLock, tell, told, busVars,
                   threadVars, cpc, pollVars, uh, ureq, ujoin, boundVars>>

\* Mutant: the list is left without managerLock.
ManagerCloseGrabs(u) ==
    /\ UserAt(u, "mremove", "mrelease")
    /\ managers' = managers \ {uh[u]}
    /\ activeManagers' = activeManagers - 1
    /\ UNCHANGED <<handleVars, openCloseLock, listVars, activeLock,
                   attachedLock, mstate, managerLock, tell, told, busVars,
                   threadVars, cpc, pollVars, uh, ureq, ujoin, boundVars>>

ManagerCloseRemoves(u) ==
    /\ managerLock = NoThread
    /\ UserAt(u, "mremove", "mrelease")
    /\ managers' = managers \ {uh[u]}
    /\ activeManagers' = activeManagers - 1
    /\ UNCHANGED <<handleVars, openCloseLock, listVars, activeLock,
                   attachedLock, mstate, managerLock, tell, told, busVars,
                   threadVars, cpc, pollVars, uh, ureq, ujoin, boundVars>>

ManagerCloseReleases(u) ==
    /\ upc[u] = "mrelease"
    /\ upc' = [upc EXCEPT ![u] = IF NothingActive THEN "join" ELSE "unflag"]
    /\ UNCHANGED <<libraryVars, uh, ureq, ujoin, boundVars>>

UserContinues(u) ==
    \/ OpenIgnored(u) \/ OpenLocks(u) \/ OpenIsDuplicate(u) \/ OpenRegisters(u)
    \/ StartFindsThread(u) \/ (\E c \in Centrals : StartCreates(u, c))
    \/ StartSetsStatus(u) \/ OpenReturns(u)
    \/ CloseIgnored(u) \/ CloseLocks(u)
    \/ CloseRemoves(u) \/ CloseTestsAttached(u)
    \/ CloseDetaches(u) \/ CloseReleases(u)
    \/ JoinSkips(u) \/ JoinStarts(u) \/ JoinEnds(u)
    \/ CloseUninits(u) \/ CloseReturns(u)
    \/ ManagerOpenLocks(u) \/ ManagerOpenAdds(u)
    \/ ManagerCloseLocks(u) \/ ManagerCloseRemoves(u) \/ ManagerCloseReleases(u)

User(u) ==
    \/ \E h \in Handles : \E r \in Requests[h] : OpenCalls(u, h, r)
    \/ \E h \in Handles : CloseCalls(u, h)
    \/ \E m \in Managers : ManagerOpenCalls(u, m) \/ ManagerCloseCalls(u, m)
    \/ UserContinues(u)

-----------------------------------------------------------------------------
(* CentralThreadFunction.                                                   *)

\* while (ActiveDevices || ActivePhidgetManagers), read one after the other
\* without a lock.
LoopTests(c) ==
    /\ \/ /\ cpc[c] = "test"
          /\ cpc' = [cpc EXCEPT ![c] = IF activeDevices # {} THEN "poll" ELSE "test2"]
       \/ /\ cpc[c] = "test2"
          /\ cpc' = [cpc EXCEPT ![c] = IF activeManagers # 0 THEN "poll" ELSE "empty"]
    /\ UNCHANGED <<handleVars, openCloseLock, listVars, activeLock,
                   attachedLock, otherVars, pollVars>>

\* CPhidgetManager_poll takes managerLock, which it keeps, ...
PollLocks(c) ==
    /\ CentralAt(c, "poll", "locked")
    /\ managerLock = NoThread /\ managerLock' = c
    /\ UNCHANGED <<handleVars, openCloseLock, listVars, activeLock,
                   attachedLock, managers, activeManagers, mstate, tell, told,
                   busVars, threadVars, pollVars, userVars, boundVars>>

\* ... and attachedDevicesLock.
PollStarts(c) ==
    /\ CentralAt(c, "locked", "initial")
    /\ attachedLock = NoThread /\ attachedLock' = c
    /\ polling' = TRUE
    /\ UNCHANGED <<handleVars, openCloseLock, listVars, activeLock, otherVars,
                   todo, detachList, dev, matches, hand>>

\* sendInitialEvents finds a manager that is being activated, ...
InitialFinds(c, m) ==
    /\ m \in managers /\ mstate[m] = "activating"
    /\ CentralAt(c, "initial", "activate")
    /\ hand' = m
    /\ UNCHANGED <<handleVars, openCloseLock, listVars, activeLock,
                   attachedLock, otherVars, polling, todo, detachList, dev,
                   matches>>

\* ... sets its state and calls its attach handler for each device in
\* AttachedDevices, with attachedDevicesLock released.
InitialActivates(c) ==
    /\ CentralAt(c, "activate", "handler")
    /\ mstate' = [mstate EXCEPT ![hand] = "active"]
    /\ told' = [told EXCEPT ![hand] = attachedDevices]
    /\ attachedLock' = IF attachedDevices = {} THEN attachedLock ELSE NoThread
    /\ UNCHANGED <<handleVars, openCloseLock, listVars, activeLock, managers,
                   activeManagers, managerLock, tell, busVars, threadVars,
                   pollVars, userVars, boundVars>>

\* Mutant: what has left the bus is not put on the detach list.
PollDetachesNothing(c) ==
    /\ \A m \in managers : mstate[m] # "activating"
    /\ CentralAt(c, "initial", "scan")
    /\ usbReady' = TRUE
    /\ todo' = plugged
    /\ detachList' = {}
    /\ UNCHANGED <<handleVars, openCloseLock, listVars, activeLock,
                   attachedLock, plugged, threadVars, polling, dev, matches,
                   hand, managerVars, userVars, boundVars>>

\* CUSBBuildList (which initialises libusb), and what is in AttachedDevices but
\* no longer on the bus goes on the detach list.
PollBuildsList(c) ==
    /\ \A m \in managers : mstate[m] # "activating"
    /\ CentralAt(c, "initial", "scan")
    /\ usbReady' = TRUE
    /\ todo' = plugged
    /\ detachList' = attachedDevices \ plugged
    /\ UNCHANGED <<handleVars, openCloseLock, listVars, activeLock,
                   attachedLock, plugged, threadVars, polling, dev, matches,
                   hand, managerVars, userVars, boundVars>>

\* CPhidgetAttachEvent for a device that is new on the bus.
PollAttaches(c, d) ==
    /\ d \in todo /\ d \notin attachedDevices
    /\ CentralAt(c, "scan", "arrival")
    /\ dev' = d
    /\ todo' = todo \ {d}
    /\ attachedDevices' = attachedDevices \cup {d}
    /\ tell' = managers
    /\ UNCHANGED <<handleVars, openCloseLock, activeDevices, older, activeLock,
                   attachedLock, managers, activeManagers, mstate, managerLock,
                   told, busVars, threadVars, polling, detachList, matches,
                   hand, userVars, boundVars>>

\* The handler of an active manager is called, with attachedDevicesLock
\* released; a manager that is not active is passed over.
Tells(c, m) ==
    /\ m \in tell
    /\ cpc[c] \in {"arrival", "departure"}
    /\ tell' = tell \ {m}
    /\ IF mstate[m] = "active"
       THEN /\ cpc' = [cpc EXCEPT ![c] = "handler"]
            /\ hand' = m
            /\ told' = [told EXCEPT ![m] =
                            IF cpc[c] = "arrival" THEN @ \cup {dev} ELSE @ \ {dev}]
            /\ attachedLock' = NoThread
       ELSE UNCHANGED <<cpc, hand, told, attachedLock>>
    /\ UNCHANGED <<handleVars, openCloseLock, listVars, activeLock, managers,
                   activeManagers, mstate, managerLock, busVars, threadVars,
                   polling, todo, detachList, dev, matches, userVars, boundVars>>

\* The handler returns, and attachedDevicesLock is taken again.
HandlerReturns(c) ==
    /\ cpc[c] = "handler"
    /\ attachedLock \in {NoThread, c} /\ attachedLock' = c
    /\ cpc' = [cpc EXCEPT ![c] = IF dev = AnyPhidget THEN "initial"
                                 ELSE IF dev \in attachedDevices THEN "arrival"
                                 ELSE "departure"]
    /\ hand' = NoThread
    /\ UNCHANGED <<handleVars, openCloseLock, listVars, activeLock, otherVars,
                   polling, todo, detachList, dev, matches>>

\* All managers have been told.
TellingEnds(c) ==
    /\ cpc[c] \in {"arrival", "departure"} /\ tell = {}
    /\ cpc' = [cpc EXCEPT ![c] = IF cpc[c] = "arrival" THEN "match" ELSE "dfind"]
    /\ UNCHANGED <<handleVars, openCloseLock, listVars, activeLock,
                   attachedLock, otherVars, pollVars>>

PollKnows(c, d) ==
    /\ d \in todo /\ d \in attachedDevices
    /\ CentralAt(c, "scan", "check")
    /\ dev' = d
    /\ todo' = todo \ {d}
    /\ UNCHANGED <<handleVars, openCloseLock, listVars, activeLock,
                   attachedLock, otherVars, polling, detachList, matches,
                   hand>>

\* The handle that CList_findInList returns for the device, if any.
Found(e) == FirstOf(e, {h \in activeDevices : IsDevice(dev, h)})

\* "if PHIDGET_USB_ERROR_FLAG is set, cycle device through a detach"
PollChecksError(c) ==
    /\ activeLock = NoThread
    /\ CentralAt(c, "check", "scan")
    /\ detachList' = IF \E e \in activeDevices : Found(e) /\ attached[e] /\ usbError[e]
                     THEN detachList \cup {dev} ELSE detachList
    /\ UNCHANGED <<handleVars, openCloseLock, listVars, activeLock,
                   attachedLock, otherVars, polling, todo, dev, matches, hand>>

\* CPhidgetDetachEvent: the device leaves AttachedDevices, ...
DetachForgets(c, d) ==
    /\ todo = {} /\ d \in detachList
    /\ CentralAt(c, "scan", "departure")
    /\ dev' = d
    /\ detachList' = detachList \ {d}
    /\ attachedDevices' = attachedDevices \ {d}
    /\ tell' = managers
    /\ UNCHANGED <<handleVars, openCloseLock, activeDevices, older, activeLock,
                   attachedLock, managers, activeManagers, mstate, managerLock,
                   told, busVars, threadVars, polling, todo, matches, hand,
                   userVars, boundVars>>

AttachedTo(d) == {h \in activeDevices : attached[h] /\ serial[h] = d}

DetachFindsNone(c) ==
    /\ activeLock = NoThread
    /\ AttachedTo(dev) = {}
    /\ CentralAt(c, "dfind", "scan")
    /\ UNCHANGED <<handleVars, openCloseLock, listVars, activeLock,
                   attachedLock, otherVars, pollVars>>

\* ... the handle attached to it is looked for in ActiveDevices, ...
DetachFinds(c, h) ==
    /\ activeLock = NoThread
    /\ FirstOf(h, AttachedTo(dev))
    /\ CentralAt(c, "dfind", "dclose")
    /\ activeLock' = c
    /\ hand' = h
    /\ specific' = [specific EXCEPT ![h] = IF @ = "any_attached" THEN "any" ELSE @]
    /\ UNCHANGED <<opened, attached, usbError, serial, request, gone,
                   openCloseLock, listVars, attachedLock, otherVars, polling,
                   todo, detachList, dev, matches>>

\* ... and closed and joined while activeDevicesLock is held.
DetachCloses(c) ==
    /\ CentralAt(c, "dclose", "devent")
    /\ attached' = [attached EXCEPT ![hand] = FALSE]
    /\ gone' = [gone EXCEPT ![hand] = FALSE]
    /\ activeLock' = NoThread
    /\ UNCHANGED <<opened, usbError, specific, serial, request, openCloseLock,
                   listVars, attachedLock, otherVars, pollVars>>

\* The detach handler has run.
DetachEnds(c) ==
    /\ CentralAt(c, "devent", "scan")
    /\ usbError' = [usbError EXCEPT ![hand] = FALSE]
    /\ hand' = NoThread
    /\ UNCHANGED <<opened, attached, specific, serial, request, gone,
                   openCloseLock, listVars, activeLock, attachedLock,
                   otherVars, polling, todo, detachList, dev, matches>>

PollEnds(c) ==
    /\ todo = {} /\ detachList = {}
    /\ CentralAt(c, "scan", "find")
    /\ attachedLock' = NoThread /\ managerLock' = NoThread
    /\ dev' = AnyPhidget
    /\ UNCHANGED <<handleVars, openCloseLock, listVars, activeLock, managers,
                   activeManagers, mstate, tell, told, busVars, threadVars,
                   polling, todo, detachList, matches, hand, userVars,
                   boundVars>>

\* Mutant: findActiveDevices is left to the attach event.
FindLooksAtNothing(c) ==
    /\ CentralAt(c, "find", "each")
    /\ attachedLock = NoThread /\ attachedLock' = c
    /\ polling' = FALSE
    /\ todo' = {}
    /\ UNCHANGED <<handleVars, openCloseLock, listVars, activeLock, otherVars,
                   detachList, dev, matches, hand>>

\* findActiveDevices: findActiveDevice for every device in AttachedDevices.
FindStarts(c) ==
    /\ CentralAt(c, "find", "each")
    /\ attachedLock = NoThread /\ attachedLock' = c
    /\ polling' = FALSE
    /\ todo' = attachedDevices
    /\ UNCHANGED <<handleVars, openCloseLock, listVars, activeLock, otherVars,
                   detachList, dev, matches, hand>>

FindTakes(c, d) ==
    /\ d \in todo
    /\ CentralAt(c, "each", "match")
    /\ dev' = d
    /\ todo' = todo \ {d}
    /\ UNCHANGED <<handleVars, openCloseLock, listVars, activeLock,
                   attachedLock, otherVars, polling, detachList, matches,
                   hand>>

\* CThread_wait_on_event(&checkForDevicesEvent, 250) returns, ready or not.
FindEnds(c) ==
    /\ todo = {}
    /\ CentralAt(c, "each", "test")
    /\ attachedLock' = NoThread
    /\ dev' = AnyPhidget
    /\ UNCHANGED <<handleVars, openCloseLock, listVars, activeLock, otherVars,
                   polling, todo, detachList, matches, hand>>

-----------------------------------------------------------------------------
(* findActiveDevice and attachActiveDevice, for the device dev.             *)

\* Where findActiveDevice returns to.
Return(c) == [cpc EXCEPT ![c] = IF polling THEN "check" ELSE "each"]

Waiting(h, d) == /\ ~attached[h]
                 /\ \/ specific[h] = "serial" /\ serial[h] = d
                    \/ specific[h] = "any"

\* The list of matches is built under activeDevicesLock, which is released.
MatchBuilds(c) ==
    /\ activeLock = NoThread
    /\ CentralAt(c, "match", "try")
    /\ matches' = {h \in activeDevices : Waiting(h, dev)}
    /\ UNCHANGED <<handleVars, openCloseLock, listVars, activeLock,
                   attachedLock, otherVars, polling, todo, detachList, dev,
                   hand>>

\* Handles opened by serial number are tried before those opened for any
\* device; among them the model tries them in any order.
MatchTries(c, h) ==
    /\ h \in matches
    /\ specific[h] = "any" => \A e \in matches : specific[e] = "any"
    /\ CentralAt(c, "try", "lock")
    /\ hand' = h
    /\ matches' = matches \ {h}
    /\ UNCHANGED <<handleVars, openCloseLock, listVars, activeLock,
                   attachedLock, otherVars, polling, todo, detachList, dev>>

MatchNone(c) ==
    /\ cpc[c] = "try" /\ matches = {}
    /\ cpc' = Return(c)
    /\ UNCHANGED <<handleVars, openCloseLock, listVars, activeLock,
                   attachedLock, otherVars, pollVars>>

\* Mutant: findActiveDevice does not take the handle's openCloseLock.
MatchForgetsLock(c) ==
    /\ CentralAt(c, "lock", "attach")
    /\ UNCHANGED <<handleVars, openCloseLock, listVars, activeLock,
                   attachedLock, otherVars, pollVars>>

\* "Prevent close from being called during attachActiveDevice"
MatchLocks(c) ==
    /\ CentralAt(c, "lock", "attach")
    /\ openCloseLock[hand] = NoThread
    /\ openCloseLock' = [openCloseLock EXCEPT ![hand] = c]
    /\ UNCHANGED <<handleVars, listVars, activeLock, attachedLock, otherVars,
                   pollVars>>

\* libusb_claim_interface succeeds for one handle of the program only.
Claimed(d) == \E h \in Handles : attached[h] /\ serial[h] = d

\* The handle is not open, or CUSBOpenHandle fails; serialNumber keeps the
\* serial number of the device unless the handle is open for any device.
AttachFails(c) ==
    /\ CentralAt(c, "attach", "try")
    /\ ~opened[hand] \/ dev \notin plugged \/ Claimed(dev)
    /\ serial' = [serial EXCEPT ![hand] =
                      IF ~opened[hand] THEN @
                      ELSE IF specific[hand] = "any" THEN AnyPhidget ELSE dev]
    /\ openCloseLock' = [openCloseLock EXCEPT ![hand] = NoThread]
    /\ hand' = NoThread
    /\ UNCHANGED <<opened, attached, usbError, specific, request, gone,
                   listVars, activeLock, attachedLock, otherVars, polling,
                   todo, detachList, dev, matches>>

\* Mutant: attachActiveDevice does not test PHIDGET_OPENED_FLAG.
AttachOpensAnyway(c) ==
    /\ CentralAt(c, "attach", "started")
    /\ dev \in plugged /\ ~Claimed(dev)
    /\ attached' = [attached EXCEPT ![hand] = TRUE]
    /\ serial' = [serial EXCEPT ![hand] = dev]
    /\ specific' = [specific EXCEPT ![hand] = IF @ = "any" THEN "any_attached" ELSE @]
    /\ UNCHANGED <<opened, usbError, request, gone, openCloseLock, listVars,
                   activeLock, attachedLock, otherVars, pollVars>>

AttachOpens(c) ==
    /\ CentralAt(c, "attach", "started")
    /\ opened[hand] /\ dev \in plugged /\ ~Claimed(dev)
    /\ attached' = [attached EXCEPT ![hand] = TRUE]
    /\ serial' = [serial EXCEPT ![hand] = dev]
    /\ specific' = [specific EXCEPT ![hand] = IF @ = "any" THEN "any_attached" ELSE @]
    /\ UNCHANGED <<opened, usbError, request, gone, openCloseLock, listVars,
                   activeLock, attachedLock, otherVars, pollVars>>

\* fptrInit of the class or pthread_create of either thread fails, the latter
\* with the attached flag set: the handle is closed, and the next is tried.
AttachBreaks(c) ==
    /\ faults < MaxFaults
    /\ cpc[c] \in {"attach", "started"}
    /\ cpc[c] = "attach" => opened[hand] /\ dev \in plugged /\ ~Claimed(dev)
    /\ cpc' = [cpc EXCEPT ![c] = "try"]
    /\ attached' = [attached EXCEPT ![hand] = FALSE]
    /\ gone' = [gone EXCEPT ![hand] = FALSE]
    /\ specific' = [specific EXCEPT ![hand] = IF @ = "any_attached" THEN "any" ELSE @]
    /\ serial' = [serial EXCEPT ![hand] =
                      IF specific[hand] = "serial" THEN dev ELSE AnyPhidget]
    /\ openCloseLock' = [openCloseLock EXCEPT ![hand] = NoThread]
    /\ hand' = NoThread
    /\ faults' = faults + 1
    /\ UNCHANGED <<opened, usbError, request, listVars, activeLock, attachedLock,
                   managerVars, busVars, threadVars, polling, todo, detachList,
                   dev, matches, userVars, calls>>

\* Mutant: openCloseLock is not released.
AttachKeepsLock(c) ==
    /\ cpc[c] = "started"
    /\ cpc' = Return(c)
    /\ openCloseLock' = openCloseLock
    /\ matches' = {}
    /\ hand' = NoThread
    /\ UNCHANGED <<handleVars, listVars, activeLock, attachedLock, otherVars,
                   polling, todo, detachList, dev>>

\* The attach handler has run and both threads are started.
AttachReturns(c) ==
    /\ cpc[c] = "started"
    /\ cpc' = Return(c)
    /\ openCloseLock' = [openCloseLock EXCEPT ![hand] = NoThread]
    /\ matches' = {}
    /\ hand' = NoThread
    /\ UNCHANGED <<handleVars, listVars, activeLock, attachedLock, otherVars,
                   polling, todo, detachList, dev>>

-----------------------------------------------------------------------------

LoopEmpties(c) ==
    /\ attachedLock = NoThread
    /\ CentralAt(c, "empty", "exit")
    /\ attachedDevices' = {}
    /\ UNCHANGED <<handleVars, openCloseLock, activeDevices, older, activeLock,
                   attachedLock, otherVars, pollVars>>

LoopExits(c) ==
    /\ CentralAt(c, "exit", "done")
    /\ mStatus' = FALSE
    /\ UNCHANGED <<handleVars, openCloseLock, listVars, activeLock,
                   attachedLock, busVars, mThread, managerVars, pollVars,
                   userVars, boundVars>>

Poll(c) ==
    \/ PollLocks(c) \/ PollStarts(c) \/ InitialActivates(c)
    \/ (\E m \in Managers : InitialFinds(c, m) \/ Tells(c, m))
    \/ HandlerReturns(c) \/ TellingEnds(c)
    \/ PollBuildsList(c) \/ PollChecksError(c) \/ PollEnds(c)
    \/ \E d \in Devices : PollAttaches(c, d) \/ PollKnows(c, d) \/ DetachForgets(c, d)
    \/ DetachFindsNone(c) \/ (\E h \in Handles : DetachFinds(c, h))
    \/ DetachCloses(c) \/ DetachEnds(c)

Find(c) ==
    \/ FindStarts(c) \/ (\E d \in Devices : FindTakes(c, d)) \/ FindEnds(c)
    \/ MatchBuilds(c) \/ (\E h \in Handles : MatchTries(c, h)) \/ MatchNone(c)
    \/ MatchLocks(c) \/ AttachFails(c) \/ AttachOpens(c) \/ AttachReturns(c)
    \/ AttachBreaks(c)

Central(c) ==
    \/ LoopTests(c) \/ LoopEmpties(c) \/ LoopExits(c)
    \/ Poll(c) \/ Find(c)

-----------------------------------------------------------------------------
(* The devices.                                                             *)

\* A device is unplugged: the threads of its handle end with
\* EPHIDGET_NOTATTACHED and leave its flags alone.
Unplug(d) ==
    /\ faults < MaxFaults
    /\ d \in plugged
    /\ plugged' = plugged \ {d}
    /\ gone' = [h \in Handles |-> gone[h] \/ (attached[h] /\ serial[h] = d)]
    /\ faults' = faults + 1
    /\ UNCHANGED <<opened, attached, usbError, specific, serial, request,
                   openCloseLock, listVars, activeLock, attachedLock, usbReady,
                   threadVars, managerVars, cpc, pollVars, userVars, calls>>

Plug(d) ==
    /\ d \notin plugged
    /\ FastReplug \/ d \notin attachedDevices
    /\ plugged' = plugged \cup {d}
    /\ UNCHANGED <<handleVars, openCloseLock, listVars, activeLock,
                   attachedLock, usbReady, threadVars, managerVars, cpc,
                   pollVars, userVars, boundVars>>

\* A transfer of an attached handle fails: PHIDGET_USB_ERROR_FLAG.
TransferFails(h) ==
    /\ faults < MaxFaults
    /\ attached[h] /\ ~usbError[h] /\ ~gone[h]
    /\ usbError' = [usbError EXCEPT ![h] = TRUE]
    /\ faults' = faults + 1
    /\ UNCHANGED <<opened, attached, specific, serial, request, gone,
                   openCloseLock, listVars, activeLock, attachedLock, busVars,
                   threadVars, managerVars, cpc, pollVars, userVars, calls>>

Environment ==
    \/ \E d \in Devices : Unplug(d) \/ Plug(d)
    \/ \E h \in Handles : TransferFails(h)

Next ==
    \/ \E u \in Users : User(u)
    \/ \E c \in Centrals : Central(c)
    \/ Environment

Spec == Init /\ [][Next]_vars

\* The threads run until their calls return; whether the program makes another
\* call, and what happens to the devices, is up to them.  Who waits for
\* managerLock gets it in one of the 250 ms between two polls.
FairSpec ==
    /\ Spec
    /\ \A u \in Users :
        /\ WF_vars(UserContinues(u))
        /\ SF_vars(ManagerOpenAdds(u) \/ ManagerCloseRemoves(u))
    /\ \A c \in Centrals : WF_vars(Central(c))

-----------------------------------------------------------------------------

UserPc == {"idle", "openlock", "closelock",
           "register", "start", "create", "status", "flag",
           "remove", "test", "detach", "release", "join", "joining", "uninit",
           "unflag", "madd", "mremove", "mrelease"}
CentralPc == {"none", "test", "test2", "poll", "locked", "initial", "activate",
              "scan", "arrival", "handler", "check", "departure",
              "dfind", "dclose", "devent", "find", "each", "match", "try", "lock",
              "attach", "started", "empty", "exit", "done"}

\* Every variable has its type (the fields of CPhidget, the two lists and
\* CentralThread that the functions above assign).
TypeOK ==
    /\ opened \in [Handles \cup Managers -> BOOLEAN]
    /\ \A flag \in {attached, usbError, gone} : flag \in [Handles -> BOOLEAN]
    /\ specific \in [Handles -> {"any", "serial", "any_attached"}]
    /\ serial \in [Handles -> Devices \cup {AnyPhidget}]
    /\ request \in [Handles -> Devices \cup {AnyPhidget}]
    /\ openCloseLock \in
           [Handles \cup Managers -> Users \cup Centrals \cup {NoThread}]
    /\ activeDevices \subseteq Handles /\ older \in [Handles -> SUBSET Handles]
    /\ activeLock \in Centrals \cup {NoThread}
    /\ attachedDevices \subseteq Devices /\ attachedLock \in Centrals \cup {NoThread}
    /\ managers \subseteq Managers /\ activeManagers \in Int
    /\ mstate \in [Managers -> {"inactive", "activating", "active"}]
    /\ managerLock \in Centrals \cup {NoThread} /\ tell \subseteq Managers
    /\ told \in [Managers -> SUBSET Devices]
    /\ plugged \subseteq Devices /\ usbReady \in BOOLEAN
    /\ mThread \in Centrals \cup {NoThread} /\ mStatus \in BOOLEAN
    /\ cpc \in [Centrals -> CentralPc]
    /\ polling \in BOOLEAN /\ todo \subseteq Devices /\ detachList \subseteq Devices
    /\ dev \in Devices \cup {AnyPhidget} /\ matches \subseteq Handles
    /\ hand \in Handles \cup Managers \cup {NoThread}
    /\ upc \in [Users -> UserPc]
    /\ uh \in [Users -> Handles \cup Managers \cup {NoThread}]
    /\ ureq \in [Users -> Devices \cup {AnyPhidget}]
    /\ ujoin \in [Users -> Centrals \cup {NoThread}]
    /\ calls \in Nat /\ faults \in Nat

Attaching(h) == hand = h /\ \E c \in Centrals : cpc[c] \in {"attach", "started"}
Detaching(h) == hand = h /\ \E c \in Centrals : cpc[c] = "dclose"
Opening(h) == \E u \in Users : uh[u] = h /\ upc[u] \in
                  {"register", "start", "create", "status", "flag"}
Closing(h) == \E u \in Users : uh[u] = h /\ upc[u] \in {"detach", "release"}
Running == {c \in Centrals : cpc[c] \notin {"none", "exit", "done"}}

\* Attach, detach and close of one handle exclude each other, although no lock
\* is common to all three: attachActiveDevice and CPhidget_close hold
\* openCloseLock, CPhidgetDetachEvent holds activeDevicesLock and finds the
\* handle in ActiveDevices, which close has left.
LifecycleIsExclusive ==
    \A h \in Handles :
        /\ ~(Attaching(h) /\ Closing(h))
        /\ ~(Detaching(h) /\ Closing(h))
        /\ ~(Detaching(h) /\ Opening(h))

\* CPhidgetManager_poll can notice that the device of an attached handle is
\* gone: the device is in AttachedDevices and the handle in ActiveDevices,
\* unless the handle is being detached or closed.
AttachedIsListed ==
    \A h \in Handles : attached[h] =>
        \/ h \in activeDevices /\ serial[h] \in attachedDevices
        \/ \E c \in Centrals : cpc[c] \in {"departure", "handler", "dfind", "dclose"}
                                  /\ dev = serial[h]
        \/ \E u \in Users : uh[u] = h /\ upc[u] \in {"test", "detach"}

\* "Shut down USB": CUSBUninit never destroys the libusb context of a device
\* handle that is still open.
UsbOutlivesHandles == \A h \in Handles : attached[h] => usbReady

\* "This needs to start the central thread if it's not yet running."
\* (RegisterLocalDevice): no second one is started.
OneCentralThread == Cardinality(Running) <= 1

\* "registers a device to receive events and be polled by the central thread":
\* an open handle is in ActiveDevices.
OpenStaysRegistered ==
    \A h \in Handles : opened[h] /\ openCloseLock[h] = NoThread => h \in activeDevices

\* A handle stays detached from when CPhidget_close has tested its flag or
\* detached it until it is open again, although findActiveDevice may have put
\* it on its list of matches before close took it off ActiveDevices, and goes
\* on to it afterwards.
ClosedStaysDetached ==
    \A h \in Handles : attached[h] =>
        /\ opened[h]
        /\ \A u \in Users : uh[u] = h =>
               upc[u] \notin {"release", "join", "joining", "uninit", "unflag"}

\* "Specify -1 to open any": a handle that was opened by serial number is never
\* attached to a device with another one.  Not kept: findActiveDevice compares
\* the numbers before it takes openCloseLock, and attachActiveDevice does not
\* compare them again.
SerialIsHonoured ==
    \A h \in Handles : attached[h] /\ request[h] # AnyPhidget => serial[h] = request[h]

\* CPhidget_close, which holds openCloseLock while it waits "for the central
\* thread to exit", is not what the central thread is waiting for.  Not kept:
\* findActiveDevice may have the handle on its list of matches.
JoinCanEnd ==
    \A u \in Users :
        upc[u] = "joining" =>
            ~(cpc[ujoin[u]] = "lock" /\ openCloseLock[hand] = u)

\* "registers a device to ... be polled by the central thread": with a handle
\* in ActiveDevices and no open under way, a central thread runs.
RegisteredIsPolled ==
    /\ activeDevices # {} \/ managers # {}
    /\ \A u \in Users : upc[u] = "idle"
    => Running # {}

\* Between two polls an active manager has heard of exactly the devices in
\* AttachedDevices: of those sendInitialEvents found, and of each change since,
\* although CPhidgetAttachEvent and CPhidgetDetachEvent walk the managers with
\* attachedDevicesLock released and CPhidgetManager_close sets the state of one
\* while they do.
ManagersKnowDevices ==
    managerLock = NoThread =>
        \A m \in managers : mstate[m] = "active" => told[m] = attachedDevices

\* No manager is told twice that a device has come or gone ("if AddDevice
\* returns EPHIDGET_DUPLICATE, the user callback is not run").
ChangesAreNews ==
    \A m \in tell : mstate[m] = "active" =>
        \A c \in Centrals :
            /\ cpc[c] = "arrival" => dev \notin told[m]
            /\ cpc[c] = "departure" => dev \in told[m]

\* A manager's handler is running only while the manager is on the list: not
\* after CPhidgetManager_close has returned.
HandlersAreOfOpen ==
    \A c \in Centrals : cpc[c] = "handler" => hand \in managers

\* Not kept: an open manager is on the list.  sendInitialEvents reads
\* "activating" and stores "active" later; a close in between is forgotten, and
\* the next open takes the manager for one that is on the list.
OpenManagerIsListed ==
    \A m \in Managers : opened[m] /\ openCloseLock[m] = NoThread => m \in managers

\* CPhidget_open, CPhidget_close and those of managers return, the last close
\* with its join of the central thread included, unless that thread is in
\* findActiveDevice and waits for the lock of the very handle (~JoinCanEnd).
CallsReturn ==
    \A u \in Users : upc[u] # "idle" ~> upc[u] = "idle" \/ ~JoinCanEnd

\* Handles that are open for a device on the bus get attached to it, unless
\* they are closed, the device goes, or another handle has it.
OpenIsAttached ==
    LET Unserved == {h \in Handles : opened[h] /\ request[h] \in plugged
                                                /\ ~Claimed(request[h])}
    IN Unserved # {} ~> Unserved = {}

\* "sends out any initial attach events for new managers", and attach events
\* later: a manager on the list hears of the devices that stay on the bus.
ManagerHears ==
    \A m \in Managers :
        m \in managers /\ ~(plugged \subseteq told[m])
            ~> m \notin managers \/ plugged \subseteq told[m]

\* CPhidgetManager_poll "will update the list, as well as sending out attach
\* and detach events" and "if PHIDGET_USB_ERROR_FLAG is set, cycle device
\* through a detach": a handle whose device was unplugged, or has had a USB
\* error, does not stay attached so.
FaultIsDetached ==
    LET Faulty == {h \in Handles : attached[h] /\ (gone[h] \/ usbError[h])}
    IN Faulty # {} ~> Faulty = {}

\* Open handles are registered, and attached ones where a poll finds them.
HandlesAreListed == OpenStaysRegistered /\ AttachedIsListed

\* Registered handles are polled, by one central thread.
PolledByOne == RegisteredIsPolled /\ OneCentralThread

\* What managers hear is complete, news, and theirs.
ManagersKeepUp == ManagersKnowDevices /\ ChangesAreNews /\ HandlersAreOfOpen

\* What happens on the bus is noticed by whoever waits for it.
DevicesAreNoticed == OpenIsAttached /\ ManagerHears /\ FaultIsDetached
=============================================================================
