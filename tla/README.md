# TLA+ models of RXTXRobot and its bundled libphidget21

TLA+ specifications of the stateful parts of this repository, the TLC
configurations that check them on small instances, and TLAPS proofs that the
safety properties of all seven parts that are modelled hold in every instance, under
the hypotheses section 4 lists.

*LP* below is `src/RXTXRobot_INSTALL/INSTALL/Linux/libs/libphidget`.

1. [What the repository holds](#1-what-the-repository-holds)
2. [The modules and the code](#2-the-modules-and-the-code)
3. [The runs](#3-the-runs)
4. [What is proved](#4-what-is-proved)
5. [Where the code and its comments disagree](#5-where-the-code-and-its-comments-disagree)
6. [What is not modelled](#6-what-is-not-modelled)
7. [Plan](#7-plan)

## 1. What the repository holds

RXTXRobot is a Java API with which students drive an Arduino robot over a
serial line (`src/RXTXRobot.java`), scripts and menus that use it
(`src/src/*.java`), and an installer that carries the source of libphidget21
(LP), the C library through which programs reach Phidgets boards on USB or on
another host. The Java side is one thread talking to a board that answers when
it likes; nearly all threads and locks are in LP.

```
 course drivers ──> RXTXRobot ──serial──> Arduino            (RobotLink)

 program threads ──> CPhidget_open / close ──┐
        │                                    ├─ ActiveDevices, openCloseLock
        │            central thread (250 ms) ┘  AttachedDevices  (CentralThread)
        │                   │ attach, detach
        ├─ setters ─> one-packet buffer ─> write thread ─> libusb  (WritePath)
        └─ setters ─> output states ─> write thread ─> libusb
           handlers <── dataInput <─── read thread <──┘         (InterfaceKit)

 program threads ──> csocketopen.c: connect, authorize, monitor (SocketClient)
        │                   │ sessions
        └─ commands ─> dict/pdictclient.c ──TCP──> webservice  (PdictClient)
                                                       │ dict/pdict.c, ptree.c
 remote handle <── csocketevents.c <── reports ────────┘   (RemotePhidget)
```

### Components

| component | state | operations | talks to |
|---|---|---|---|
| **output path** of a local handle: `cphidgetmacros.h`, `cphidget.c`, `cthread.c`, `linux/cusblinux-1.0.c` | one-packet buffer (`outputPacket`, `outputPacketLen`), `writtenEvent`, `writeAvailableEvent`, `writelock`, `outputLock`, status flags, `writeStopFlag`, `deviceHandle`, write thread | property setters (`SENDPACKET`, `sendpacket`), `WriteThreadFunction`, `CPhidget_write`, `CUSBSendPacket` | attach creates the write thread; detach and close stop and join it |
| **central thread** and association of handles with devices: `cthread.c`, `cphidget.c`, `cphidgetmanager.c`, `cphidgetlist.c` | `ActiveDevices`, `AttachedDevices`, `CentralThread`, per handle flags, `specificDevice`, `serialNumber`, `openCloseLock` | `CPhidget_open`, `CPhidget_close`, `CPhidgetManager_poll`, `findActiveDevices`, `attachActiveDevice`, start and join of the thread, `CUSBUninit` | USB bus, user handlers, output path |
| **robot API**: `RXTXRobot.java` | `digitalPinsAvailable`, `digitalPinCache`, `motorsAttached`, `servosAttached`, `motorsRunning` | `sendRaw` with retries, attach, refresh and read pins, ask a sensor, run motors, encoded runs, `close` | Arduino firmware (not in the repository) through the RXTX driver |
| **interface kit** with the input path: `cphidgetinterfacekit.c`, `cthread.c`, `cphidget.c` | `nextOutputStates`, `changedOutputs`, `outputStates`, `outputEchoStates`, `ratiometric`, `ratiometricEcho`, `ratiometricSwitching`, input and sensor values; write and read thread | `setOutputState`, `setRatiometric`, `getPacket`, `dataInput`, `initAfterOpen`, `eventsAfterOpen`, `ReadThreadFunction`, `CPhidget_read` | the device, user handlers, attach and detach |
| **PhidgetManager**: `cphidgetmanager.c` | `localPhidgetManagers`, `ActivePhidgetManagers`, a manager's `state`, `managerLock` | `CPhidgetManager_open`, `CPhidgetManager_close`, `sendInitialEvents`, calls of attach and detach handlers | central thread |
| handle life cycle outside open and close | allocation, labels | create, delete, `waitForAttachment`, accessors | all of the above |
| **remote connections**: `csocketopen.c`, remote close of `cphidget.c` | `servers`, per server its handles, `pdcs`, status and threads; `activeRemotePhidgets`, `networkInfo->server`, `serverLock`, `serverLockLock` | open and close of a remote handle, `connectToServer`, authorization and error threads, `MonitorHeartbeats`, `closeServer`, `disconnectRemoteObject`, `cleanup_after_socket` | pdict client |
| **pdict client**: `dict/pdictclient.c` | `pdcs_pending` (a tree), `pdcs_listeners`, tags, the results of callers on their stacks | `cmd`, `jcmd`, asynchronous set and authorize, listen, ignore, `cleanup_pending`, `read_results` | webservice, remote connections |
| **pdict dictionary**: `dict/pdict.c`, `utils/ptree.c` | entries in a binary tree, each with its listeners; persistent listeners with their patterns | add, remove, listen, ignore, notification | the webservice, which holds it |
| **remote events**: `csocketevents.c`, `cphidget*.c` (`clearVars`), remote open and close | per remote handle `keyCount`, `initKeys`, some 150 counted variables, flags, `specificDevice`, `serialNumber` | `network_phidget_event_handler` with the keys of each class, `CPhidget_openRemoteIP`, close, loss of the server, network setters | pdict dictionary, remote connections, user handlers |
| dictionary API, zeroconf, device classes, bindings, back ends, logging, build | | see section 6 | |

### What is hard in it, and what must hold

* *Output path.* A setter, the write thread and one of attach, detach or close
  interleave on a buffer, two events and three flags, most of which are read
  without a lock. It must not lose a wake-up, reorder or repeat a packet, hang
  a setter or a join, or leave a thread behind that touches a closed handle.
* *Central thread.* Three locks and a list membership, none common to all of
  attach, detach and close; a thread that starts and exits with its last
  handle. Attach, detach and close of a handle must exclude each other; open
  handles must stay registered and polled; a handle must get the device asked
  for; USB must not be shut down under an open handle; calls must return. A
  manager must hear of each device once, while it is open.
* *Robot API.* No two messages on the line carry anything that relates them,
  replies are taken when a fixed sleep ends and commands are repeated when
  none is there. The program's and the Arduino's view of pins and motors must
  agree, and a value must be of what was asked for, in the call that asked.
* *Interface kit.* Output states live in four arrays that setters, the write
  and the read thread change under two locks, or none; a change of the
  ratiometric state is over some reports later. An accepted output must
  reach the device, handlers must have heard of the state getters return, and a
  sensor value must not be taken for one of the other ratiometric state.
* *Pdict client.* All synchronous commands share one tag, results live on the
  stacks of threads that may stop waiting, the tree of pending commands is
  searched in two orders. Each command must get its own answer, once, and
  nothing may reach a handle that has been closed.
* *Remote connections.* Up to five kinds of thread; locks are given up in the
  middle of closing a server; three threads may end a connection at once and
  one frees it. No thread may work on a freed server, handles and servers must
  agree, closes must return, and a silent server must be noticed.
* *Remote events.* A remote handle attaches when it has counted as many keys as
  the webservice announced. What counts a key, and what forgets it, lies in
  macros, 21 functions that count and 21 in other files that clear. A handle
  must attach when it has every value, again after each detach, and not be
  attached to a device that is gone or while it is closed.
* *Pdict dictionary.* Listeners meet entries whichever came first, in a tree
  that is walked by its parent pointers. The tree must stay a tree, and each
  entry must be heard by the listeners whose pattern matches it.

`PROJECT.json` lists each hazard at the line where it bites, with the
properties that cover it or the reason why none does yet.

## 2. The modules and the code

| module | models | checked by | lines of the code |
|---|---|---|---|
| `WritePath` | output path of one local handle | `MCWritePath` | LP `cphidgetmacros.h` 138-235, `cthread.c` 365-462, 519-687, `cphidget.c` 217-363, 408-518, 1269-1395, `cphidgetmanager.c` 82-147, 211-236, `linux/cusblinux-1.0.c` 16-128 |
| `WritePath_proofs` | theorems about it | TLAPS | |
| `CentralThread` | open, close, poll, association, start and join, managers | `MCCentralThread` | LP `cphidget.c` 104-139, 327-518, 1166-1396, `cthread.c` 41-244, `cphidgetmanager.c` 54-250, 276-320, 343-397, `cphidgetlist.c` 8-147, `linux/cusblinux-1.0.c` 403-765 |
| `CentralThread_proofs` | theorems about it | TLAPS | |
| `RobotLink` | RXTXRobot, serial line, Arduino | `MCRobotLink` | `RXTXRobot.java` 78-134, 356-631, 751-962, 1033-1066, 1324-1571, 1662-1930 |
| `RobotLink_proofs` | theorems about it | TLAPS | |
| `InterfaceKit` | an interface kit with its write and read thread | `MCInterfaceKit` | LP `cphidgetinterfacekit.c` 47-267, 303-867, 870-1054, 1101-1114, 1211-1236, `cthread.c` 286-463, `cphidget.c` 278-325, 1315-1395, `linux/cusblinux-1.0.c` 16-28, 62-128, 188-259 |
| `InterfaceKit_proofs` | theorems about it | TLAPS | |
| `PdictClient` | a session of the webservice protocol | `MCPdictClient` | LP `dict/pdictclient.c` 114-175, 238-451, 467-1106, 1160-1270, and its callers in `csocketopen.c` |
| `Commands` | what a session promises, abstractly | property of `PdictClient` | the same |
| `PdictClient_proofs` | theorems about it, and that it implements `Commands` | TLAPS | |
| `SocketClient` | remote handles and their connections | `MCSocketClient` | LP `csocketopen.c` 92-128, 457-562, 732-1017, 1040-1300, 1560-1880, `cphidget.c` 408-489 |
| `SocketClient_proofs` | theorems about it | TLAPS | |
| `RemoteKeys` | which keys each of the 21 classes counts, sets and clears | by `RemotePhidget` | LP `csocketevents.c` 38-1891, `cphidgetmacros.h` 206-248, 267-306, `clearVars` of the 21 `cphidget*.c` |
| `Ptree`, `Pdict` | the tree and the dictionary, as operators | by `RemotePhidget` | LP `utils/ptree.c` 8-132, 165-299, 354-460, `dict/pdict.c` 31-323, 406-423 |
| `Pdict_proofs` | theorems about `Ptree` and `Pdict`, for trees and dictionaries of any size | TLAPS | |
| `RemotePhidget` | a remote handle and the dictionary of its device | `MCRemotePhidget` | LP `csocketevents.c` 1892-2098, `csocketopen.c` 457-562, 616-699, 1756-1857, 2087-2161, `cphidget.c` 430-517 |
| `RemotePhidget_proofs` | theorems about it | TLAPS | |

The `map` of `PROJECT.json` names the exact lines for every definition.
Definitions commented "Mutant:" are not part of any specification: each is a
plausible wrong version of the definition that follows it, and shows that a
property can tell the two apart.

### WritePath

One handle. Each `Sender` is a user thread in a property setter: `TESTATTACHED`,
`SENDPACKET` takes `writelock`, `sendpacket` tests the flag, then under
`outputLock` either deposits (`SendDeposits`: fill the buffer, reset
`writtenEvent`) or finds it full and waits up to 1500 ms. A section under
`outputLock` is one action; every read of a flag outside a lock is a step of its
own. The write thread (`Writer*`, `Write*`) has one step for each of: loop
test, wait, timeout, test of `writeStopFlag`, reset of `writeAvailableEvent`,
`fptrGetPacket`, test of flag and handle in `CUSBSendPacket`, transfer, signal,
exit. `life` is where attach, detach or close of the handle is, one step per
assignment that another thread can see, with every error path (`fptrInit` or
`pthread_create` failing at either thread).

Abstractions:

* A packet is its acceptance number, 0 is the empty buffer; report contents
  (`makePacket`, `fptrGetPacket`) are left out. That suffices for order, loss and
  duplication.
* `life` is a single program counter because attach, detach and close of one
  handle exclude each other. That is not assumed lightly: it is the invariant
  `LifecycleIsExclusive` of `CentralThread`, where the locks are modelled, and
  it holds for handles opened by serial number; section 5 says when it fails.
* The read thread is left out (it is in `InterfaceKit`); where it would set an error flag the write
  thread can do the same. Spurious wake-ups of `pthread_cond_timedwait` are
  left out; `CThread_wait_on_event` does not test the event again after one.
* `ClearsSlot` distinguishes the classes: every class with
  `CSENDPACKET_BUF` sets `outputPacketLen = 0` in its `initAfterOpen` except
  FrequencyCounter.
* `accepted`, `last`, `era`, `slotEra` and `atClose` are history variables; none
  is in a guard except as the bounds `MaxSends` and `MaxAttach`.

### CentralThread

Any number of handles of one class, of devices (each its serial number), of
user threads in `CPhidget_open` or `CPhidget_close`, and of central threads,
since nothing in the code keeps a second one from being created.
`OpenCalls`..`OpenReturns` and `CloseCalls`..`CloseReturns` are the two calls,
split at every lock and at every read without one (`StartCentralThread` reads
`CentralThread` unlocked, `CPhidget_close` tests the attached flag unlocked).
`ManagerOpen*` and `ManagerClose*` are the calls of local managers, which share the
steps that start and join the central thread; `Initial*`, `Tells`, `HandlerReturns`
and `TellingEnds` are the poll's calls of their handlers.
`LoopTests`..`LoopExits` are `CentralThreadFunction`; `Poll*` and `Detach*` are
`CPhidgetManager_poll` with `CUSBBuildList` and `CPhidgetDetachEvent`; `Find*` and
`Match*` are `findActiveDevices` and `findActiveDevice`; `Attach*` are
`attachActiveDevice`, whose inner steps are `WritePath`: its failures are `AttachFails`
before the handle is open and `AttachBreaks` after that (`fptrInit`, `pthread_create`
of either thread), as one step. `Environment` plugs,
unplugs and breaks devices at any time.

* The two lists are sets, plus `older` for the list order, which decides what
  `CList_removeFromList` removes (`Removed`) and whom a device is given to.
* `AreEqual` is `CPhidget_areEqual` of two handles of one class, with the
  consequence that a handle waiting for any device equals every other.
* `libusb_claim_interface` succeeds once per device (`Claimed`).
* `serial` is never reset by a detach, as in the code; `request` (history)
  remembers what was asked for.
* The walks over devices and managers take them in any order; `told` (history)
  is what a manager has heard. The calls of one manager's handler for all the
  devices `sendInitialEvents` finds are one step and one wait for the lock.
* Allocation failures, other classes, `openLabel` as something other than open
  by serial, remote managers, and calls from handlers are left out.

### RobotLink

One program thread, as the API has no synchronisation, and a board that takes
commands off the line in order and answers at a time of its own. A call writes
(`Calls`, `Sends`), sleeps, and reads whatever has arrived by then (`Receives(n)`:
any prefix of what is on the line) or writes again (`SendAgain`, the
`attemptTryAgain` of `sendRaw`). `AttachReturns`, `RefreshReturns`, `AskReturns`,
`RunAnswers`, `EncodedReads`... are what the calls do with what they read:
comparison with the echo, token counts, `Integer.parseInt` with its exception.

* A reply is the sequence of tokens `split("\\s+")` yields. A measured integer
  is told apart by what was measured and in which call, so that a stale value
  shows.
* The firmware and the RXTX driver are external: the board echoes commands
  that measure nothing, answers `r d` with the values of the pins it has not
  bound, and an encoded run when it ends, as the Java code expects.
* `late` counts the times the whole reply was not there when a call looked.
  `Punctual` (`late = 0`) conditions those properties that only a prompt Arduino
  can give; `AttachedIsBound` and `ClosedIsStopped` hold however late replies are.
* `miscounted` records that a call was refused after it had set
  `motorsRunning`; with it `TwoMotorsRun` need not hold (section 5).
* Of two speeds for the same motor the last counts, in `motorsRunning` as on the
  board, and a motor told to run at speed zero stops, in an encoded run too. An encoded run of two
  motors goes on after "was not given a correct motor argument" (line 1780), so
  `RunEncodedMotor` asks for an encoder only when there is one motor.
* `overrideValidation`, and calls refused before they changed anything, are
  left out.

### InterfaceKit

One handle of one kind of device. `kind` is drawn from `Kinds` at the start and
stands for what the switches over `deviceIDSpec` and `deviceVersion` distinguish:
whether the device reports its outputs (`fullStateEcho`), whether the write
thread also sends when nothing is queued (`awdc_enabled`), whether it has a
ratiometric state, and whether a packet holds one output only. `Output*` are
`setOutputState` with `sendpacket`, `Ratio*` are `setRatiometric` and its part of
`dataInput`; `Writer*` are `WriteThreadFunction`, `CPhidget_write` and `getPacket`;
`Reader*` and `Ratio{Tests,Counts,Shows}` are `CPhidget_read` and `dataInput`, run
by the read thread or, while `life = "init"`, by `initAfterOpen`; `Attach*` and
`Detach*` are `attachActiveDevice` and `CPhidgetDetachEvent`.

* Unsynchronised reads and writes of `ratiometricSwitching` and the two halves
  of its decrement are steps of their own. What lies under `outputLock` is one
  step, but for the two assignments of `setRatiometric`, which the read thread
  looks at without the lock.
* An output and the one input are Boolean. Of a sensor value only the
  ratiometric state it was measured under is kept.
* The device is external: it executes packets in order, and makes up reports
  whose sensor values were measured since the report before, so that one report
  after a switch still holds a value of the old state (`measured`). That is what
  the code's "one data packet to be skipped" allows for.
* `stray` says that a setter was on its way when the device was attached anew;
  its output is then accepted for one attachment and sent, or not, in another.
  `overlapped` says that `setRatiometric` was called before the last change had
  settled, or that `getPacket` presumed a ratiometric state of which nothing had
  been read (`Presumes`). Both condition properties; neither is in a guard.
* Left out: sensor events with their triggers and data rates, the general
  packet protocol, retries after short reads, touch sensors, the paused bus, a
  close (see `WritePath`) and failures to create a thread.

### PdictClient and Commands

One session, any number of threads in synchronous commands and of handles. A
command is its number in the order of issue. `Cmd*` are `cmd` and, for `"get"`,
`jcmd`, which differs in what it holds when its write fails; `AsyncSet` and
`Authorize` are `async_cmd_callback`, with the text of a command formatted
(`Formats`) before its tag is counted; `Calls` and `CallReturns` are the callers in
`csocketopen.c`; `Reads*`, `Notifies*`, `Finishes*` and `Drain*` are the read thread
from `read_results` to the end of the socket; `Cleanup*` are `cleanup_pending`.

* `pending` and `root` stand for the tree: which command is at the root decides
  what `cleanup_pending` finds, since it searches by a comparison the tree is not
  sorted by (`CleanupSees`), and in which order the drain visits the commands.
* A result that was freed and is written to anyway has no effect in the model;
  that it does not happen is `NotifyIsOfLive`.
* The webservice is external: it answers in order, reports at any time to
  those who have subscribed, and may close the socket.
* Left out: parsing, md5, allocation failures, `pdc_remove`, flushing, periodic
  reports, `wait_pending` (a bounded sleep), handlers that call the library.

`Commands` is the abstract promise, with no tag, tree, lock or socket: a command
is carried out at most once, its end is reported at most once, and as a success
only if this very command was carried out. `PdictClient` implements it under the
refinement mapping `issued <- Len(cmds)`, the other two variables having the same
names (`ServiceSpec`), in the sessions section 4 names: without a timeout, and
with every command sent under its own tag. Section 5 says what happens else.

### SocketClient

Remote handles that are opened with one address, and the connections to it:
threads of users, the central remote thread, and per connection the read
thread, the authorization thread and the error thread. The actions carry the
names of the code's functions. The error thread (`Error*`) marks one handle after the
other under its lock and then clears `networkInfo->server` under no lock of the handle,
as a step of its own. `serverLock` and `serverLockLock` are variables;
`activeRemotePhidgetsLock` and the lock of a handle are held exactly while their
owner is at certain points (`ActiveLocked`, `PhidLocked`).

* A synchronous command of the session is one step that may fail at any time
  and succeeds only while the read thread reads an open socket.
* How late a heartbeat is is left to the clock: any wait may be too long. One
  pass of `MonitorHeartbeats` stands for two seconds.
* A freed server that a thread still works on: the thread stops there.
* `Handled` are the handles with an error handler. That decides what becomes of a handle whose
  listen fails: with one it leaves the list of its server, without one it keeps its place there and
  loses its server (`AuthListens`), so that the next connect finds it listed and fails
  (`ConnectTwice`). What `cleanup_after_socket` does with the `networkInfo` of such a handle once
  it is closed and freed is not defined, and is left out. Handlers make no calls.
* Also left out: managers and
  dictionaries, which the code treats as it does handles, handles found by
  Zeroconf, attach and detach reports, reuse of a descriptor, allocation failures.

### RemoteKeys, Ptree, Pdict and RemotePhidget

`RemoteKeys` is a table read off the source: for each class the keys its
`phidget*_set` handles, in the order of the code, with the variables whose
sentinel `INC_KEYCOUNT` tests before it counts, and the variables its `clearVars` sets
back. A key is counted each time it comes (`Each`), once while a variable is
unknown (`Once`), or not at all (`Never`). Arrays and their indices are one
variable: the elements of one array are counted and cleared by the same lines.

`Ptree` is `utils/ptree.c` pointer by pointer: a tree is its root and the three
pointers of each node, and `RemoveNode`, `Hang`, `Adopt` and `Replaced` are the
branches of `_remove_node`. A loop that goes down or up the tree (`_walk_to`,
`_find_min`, `_find_succ`) is `Follow`: the pointers it takes, one after the other, to the node without one. `Pdict` has an operator for each call of
`dict/pdict.c` (`PdictAdd`, `PdictRemove`, `PdictListen`, `PdictIgnore`), which yields the
dictionary the call leaves, and one for what listeners are told meanwhile.

`RemotePhidget` joins them. `Reader*` are `network_phidget_event_handler`, split
where the user's handler runs or a flag is tested before it is set; `Open`,
`Connect`, `Lose` and `Close*` are the life of the handle; `Setter*` are a network
setter, which writes the variable (`ADDNETWORKKEY`) some time after it has tested
the flag. The handle is of one class, drawn at the start, opened by serial
number or for any device.

* The webservice is external and is not in the repository: it publishes a
  device's keys in `dict/pdict.c`, changes and withdraws them, and answers an
  ignore after the reports before it. That it withdraws `Status` last, after
  setting it to "Detached", and the number it puts into `InitKeys` are taken from
  what the handler expects.
* Sessions, commands and connections are one step here; they are `PdictClient`
  and `SocketClient`. Reports arrive in order, as TCP has them.
* A pattern is the set of keys it matches, a value of a key only whether it is
  "Attached", "Detached" or another, a key its number in the order of `strcmp`.
* `lost`, `overwritten` and `caught` (history) say that the server was lost since
  the handle last started afresh, that a setter wrote a variable whose key had
  not come, and that a close met an attach half way; section 5 shows what each
  of them leads to. None is in a guard.
* Left out: the values and the user handlers for them, error events, labels,
  remote managers and dictionaries, allocation failures, handlers that call back.

## 3. The runs

Twelve runs; TLC finishes each within about three minutes with two workers.

### Properties that hold

| run | instance | what it shows |
|---|---|---|
| `write_path` | 2 setters, 2 packets, 2 attachments, unplugs and failures; `FairSpec`; 60 836 states | types; no lost wake-up (`PendingIsSignalled`); packets in order and once, across reattachments (`NeverResent`); nothing left behind (`ClosedIsQuiet`); setters return, and stops of the write thread get past their joins but for packets that keep coming (`CallsGetThrough`); accepted packets are taken (`AcceptedIsTaken`) |
| `central_own` | 1 user, 2 handles each with a device of its own that come and go, 3 calls, 1 fault, fast replug; `FairSpec`; 220 392 states | USB is not shut down under an open handle (`UsbOutlivesHandles`), open handles stay registered and attached ones are listed, so that a poll can miss their device (`HandlesAreListed`); registered handles are polled by one central thread (`PolledByOne`); calls return, with the join of the central thread by the last close, unless that thread waits for the lock of the very handle (`CallsReturn`) |
| `central_users` | 2 users, 2 handles opened by one and the same serial number, 2 devices, 3 calls, 1 fault, fast replug; 691 906 states | types; attach, detach and close of a handle exclude each other (`LifecycleIsExclusive`); a handle that is being closed or is closed stays detached, although the central thread may have matched it (`ClosedStaysDetached`) |
| `central_live` | 1 user, one handle stays, the other and a manager come and go, 3 calls, 1 fault, no fast replug; `FairSpec`; 113 440 states | what a manager hears is complete, news, and its own (`ManagersKeepUp`); calls return, those of managers too (`CallsReturn`); an open handle is attached to its device, a manager hears of devices, and a handle whose device is gone or has an error is detached (`DevicesAreNoticed`) |
| `robot_link` | 3 motors of which 2 attached, 1 servo, 2 pins, 2 writes per command, 3 calls and close, 2 late replies; 834 679 states | both sides agree on attached devices and free pins (`PinsAgree`); cached and returned values are of what was asked (`ValuesAreOwn`); two motors at most, and none after close (`MotorsAreCounted`); an encoded run can end (`EncodedCanEnd`) |
| `interface_kit` | three kinds of device, 2 outputs, 1 setter, 2 calls, 2 attachments, one change of input, unplug or failed transfer; 1 762 418 states | types; outputs end up as last set (`OutputsSettle`); handlers have heard of the state getters return (`ToldIsCurrent`); sensor values are of the ratiometric state shown (`RatioIsOfValue`) |
| `interface_live` | two kinds, 1 output, 1 setter, 2 calls, a plain device may fail or leave; `FairSpec`; 81 382 states | setters return, accepted outputs reach the device, a change of the ratiometric state comes to its end (`SettersSucceed`) |
| `pdict_client` | 2 callers, 2 handles, 5 commands, 1 timeout; 2 508 442 states | types; every command gets its own answer, once (`AnswersAreOwn`); nothing reaches a closed handle (`ClosedIsForgotten`) |
| `pdict_live` | 2 callers, 1 handle, 4 commands, no timeout; `FairSpec`; 54 875 states | callers return and commands are reported (`CallsAreAnswered`); the session of one handle implements `Commands` (`ServiceSpec`) |
| `socket_client` | 2 handles of which one stays open and has an error handler, the other not, 2 connections that may end; 2 062 336 states | types; no thread has a freed server or session, and handles and servers agree but for failed listens without an error handler (`ServersAgree`); a close tells a server that exists, unless its authorization has failed (`TellsLiveServer`) |
| `socket_live` | 1 handle, 1 connection that may end or fall silent; `FairSpec`; 13 989 states | a close returns (`CloseReturns`); a lost or silent server is noticed (`SilenceIsNoticed`) |
| `remote_phidget` | each of the 21 classes: 2 attaches (GPS: 1), in most 1 setter; for a small class 2 opens and the loss of the server, for another changing values, for another 2 devices; 603 678 states | types; tree and dictionary stay sound (`DictionaryIsSound`); an attached handle has every value its class counts (`AttachIsComplete`); when all reports are handled the handle is attached exactly if its device is there (`SettledAgrees`) |

Several properties are conjunctions of named parts, each with its comment in the
module: `HandlesAreListed` is `OpenStaysRegistered` and `AttachedIsListed`;
`PolledByOne` is `RegisteredIsPolled` and `OneCentralThread`;
`ManagersKeepUp` is `ManagersKnowDevices`, `ChangesAreNews` and `HandlersAreOfOpen`;
`DevicesAreNoticed` is `OpenIsAttached`, `ManagerHears` and `FaultIsDetached`;
`CallsGetThrough` is `SendReturns`, `DetachReturns` and `JoinWaitsForNew`; `PinsAgree` is `AttachedIsBound` and
`AvailableIsFree`; `ValuesAreOwn` is `CacheIsOfRefresh` and `AnswerIsOwn`; `MotorsAreCounted` is
`TwoMotorsRun` and `ClosedIsStopped`;
`SettersSucceed` is `SetterReturns`, `AcceptedIsSent` and `SwitchEnds`;
`AnswersAreOwn` is `TagIsFree`, `NotifyIsOfLive`, `AnswerIsOwn` and `ToldOnce`;
`ClosedIsForgotten` is `ReportReachesOpen` and `ClosedHasNoPending`;
`CallsAreAnswered` is `CallReturnsToCaller` and `CommandIsTold`;
`NothingOutlivesServer` is `ServerIsAlive`, `JoinerHasSession`, `ThreadsHaveServer`
and `ErrorThreadStartsOnce`; `ServersAgree` is `NothingOutlivesServer`, `ListsAgree`
and `OneConnection`; `SettledAgrees` is `PresentIsAttached` and `GoneIsDetached`;
`SilenceIsNoticed` is `LossIsTold` and `ConnectingEnds`.

### Bounds, and why they are enough

* `WritePath`: two setters are needed for one to hold `writelock` while the
  other waits; two packets for a full buffer; two attachments for a packet,
  an event or a setter to outlive one. The safety properties are proved for all
  values (section 4), so the bounds matter only to the liveness properties. The
  bound on packets ends nothing by itself in them: no setter is called any more when a
  detach or a failed attach has cleared the flag, and `JoinWaitsForNew` says of each number of packets accepted that
  a close gets past the join or another packet is accepted. The code has no such bound, and
  with setters that go on a close waits for ever (section 5).
* `CentralThread`: two handles for removal and join to concern another
  handle; two devices for a handle to be given the wrong one; two central
  threads for one to be started while another exits; three calls for
  open, close, open, or for two opens and a close; a fault for an
  unplug or an error during each step. With 5 calls and 2 faults (1 336 656 states,
  symmetry, no liveness) the invariants of `central_own` hold as well. Two
  users with two handles for one device give each lock two contenders besides
  the central thread, and let a close and a reopen come between match and
  attach. In `central_own` nothing is kept open, so that the last close joins the central thread in
  every behaviour that ends. The safety properties are proved for all bounds and for
  any number of threads, handles and devices (section 4).
  Symmetry is used over central threads only, in `central_users`.
* `RobotLink`: three motors for a third to be refused; two pins for one to
  shift; three calls so that a late reply passes from a call to the next but
  one; two late replies for a double repetition. `Retries` is 2 where the code
  has 4: that gives one repetition. The safety properties are proved for all
  bounds (section 4). With 5 calls and no late reply (42 072 states) two runs of a
  motor, an encoded one and a third motor fit in one behaviour: an earlier version, in
  which an encoded run at speed zero ran its motor, violated `TwoMotorsRun` there.
* `InterfaceKit`: two outputs for a packet to hold the change of one and miss
  the other; two calls for a set to come between the get and the send of the one
  before; two attachments for state to outlive one. `ReadTries` is 2 where the
  code has 4, `MaxChanges` is per kind and 0 for the 8/8/8, whose write thread
  sends every 200 ms and has the most states. The safety properties are proved
  for all bounds, changes of an 8/8/8 included (section 4).
* `PdictClient`: two callers for tag 0 to be used twice; two handles for a
  command to be taken for another handle's; five commands for a listen, two
  sets, an ignore and a synchronous command of another thread. `AnswersAreOwn` is
  proved for all bounds, `ClosedIsForgotten` is checked within these only.
* `SocketClient`: two handles for a server to be shared, one of which stays open
  once it is (`Keepers`); two connections for the next one to begin while the
  last is being taken down. The proofs need neither bound, nor `Keepers`. One of them has
  an error handler, so that a server may list one of each sort. Liveness
  has one of each: strong fairness over more is out of TLC's reach in reasonable
  time. With one handle a close also gets past the join of the central remote thread; with
  several, a handle that is opened before that join keeps the central thread
  running and the close waiting.
* `RemotePhidget`: two attaches for what a detach leaves to meet the next
  attach, in all classes but GPS; a setter in all but WeightSensor, GPS, Generic,
  AdvancedServo and Spatial; the loss of the server and a second open with
  WeightSensor, a changing value of each sort with GPS, a second device with
  Generic, which have few keys. With `MaxLine` 1 the service goes on when the
  handle has taken a report, but a connect, and what comes while the handler is
  in the middle, put more on the line. `Moments`: the user acts, and the server
  is lost, when none or all of the keys are published. With WeightSensor alone and
  `Moments` of every number of keys (133 065 states) the same properties hold. `PublishOrder` publishes the middle
  key first, so that the tree branches and nodes with two children are removed.
* Deadlock is not checked where the bounded program really stops: after
  `MaxCalls` in `CentralThread` (once no handle is open and the central thread has
  exited), after `close` in `RobotLink`, when all commands are issued in
  `PdictClient`, in `interface_live` when the device has left for good, and in `remote_phidget` when all
that may happen has. The
  other runs have it checked.

### Fairness, and why the code justifies it

* A thread that is inside a call, and the write and central threads, are
  scheduled: weak fairness of `SenderContinues`, `Writer`, `LifeContinues`,
  `UserContinues`, `Central`. Each has no wait without a timeout except for
  mutexes and joins, and those are guards of the model: a lock that is never
  given back, or a join that cannot end, shows as a violation.
* Who waits for `managerLock` gets it in the end (strong fairness of
  `ManagerOpenAdds` and `ManagerCloseRemoves`): it is free during the 250 ms between
  two polls, again and again.
* Whether the program calls again (`SetterEnters`, `OpenCalls`, `CloseCalls`),
  and what happens to the devices, is not fair.
* `PollDetaches` in `WritePath`: a dead write thread means that the device is gone
  or that the USB error flag is set, and `CPhidgetManager_poll`, every 250 ms,
  detaches the handle in both cases (`FaultIsDetached` of `CentralThread`).
* `InterfaceKit` assumes in addition that the device goes on reporting: the end
  of a change of the ratiometric state is counted in reports.
* `PdictClient` assumes that the webservice answers what has reached it, unless
  it closes the socket.
* `SocketClient` has strong fairness for each thread: `serverLock` and
  `serverLockLock` are taken and released again and again by threads that sleep
  between two rounds (`MonitorHeartbeats` every 2 s, connects every 250 ms), so that
  whoever contends gets its turn. `HeartbeatTimesOut` is fair for servers that
  cannot answer only.
* In the local modules contended mutexes get no strong fairness: the only lock a sender could be
  starved of is `writelock`, and with sends and attachments bounded the others
  cannot take it for ever: `SendReturns` says nothing of a mutex that is unfair to
  one of many setters. `central_own` and
  `central_live` have one user, so that only the central
  thread competes with it.

## 4. What is proved

Eight modules hold theorems, checked by TLAPS for every value of the constants
that satisfies the assumptions of the modules. Where a theorem has a hypothesis
of its own it stands in the table; section 5 has the behaviours of the code that
it excludes.

The assumptions only say of the constants what their types are: threads are not
handles, a value for "nobody" is none of the threads, bounds are natural numbers,
kinds of device are those of the code. In particular any number of threads,
handles, devices and connections is covered. `FiniteAssumption` of `PdictClient`
(finitely many threads and handles) is needed to count the commands they are about to issue,
`PublishAssumption` of `RemotePhidget` says that the webservice publishes every key of a
device once.

| theorem | statement | hypothesis |
|---|---|---|
| `WritePath_proofs!TypeCorrect` | `[]TypeOK` | |
| `PendingIsSignalledCorrect` | `[]PendingIsSignalled` | |
| `NeverResentCorrect` | `[]NeverResent` | |
| `ClosedIsQuietCorrect` | `[]ClosedIsQuiet` | |
| `CentralThread_proofs!TypeCorrect` | `[]TypeOK` | |
| `LifecyclesExclude` | `[]LifecycleIsExclusive` | `OneSerialEach` |
| `ClosedHandlesStay` | `[]ClosedStaysDetached` | |
| `HandlesArePolled` | `[]PolledByOne` | `OneUser`, no manager |
| `ListsAreComplete` | `[]HandlesAreListed` | `OneUser`, `OwnSerials` |
| `UsbIsKept` | `[]UsbOutlivesHandles` | `OneUser`, `OwnSerials` |
| `ManagersAreTold` | `[]ManagersKeepUp` | `OneUser`, `OwnSerials`, some handles and no managers are keepers |
| `RobotLink_proofs!TypeCorrect` | `[]TypeOK` | |
| `ProgramAgreesWithBoard` | `[]PinsAgree` | |
| `ValuesAreOfTheCall` | `[]ValuesAreOwn` | |
| `RunningMotorsAreCounted` | `[]MotorsAreCounted` | |
| `EncodedLoopCanEnd` | `[]EncodedCanEnd` | |
| `InterfaceKit_proofs!TypeCorrect` | `[]TypeOK` | |
| `ToldOfEveryState` | `[]ToldIsCurrent` | |
| `SetOutputsSettle` | `[]OutputsSettle` | `AllInOne` |
| `ValueIsOfRatio` | `[]RatioIsOfValue` | |
| `PdictClient_proofs!TypeCorrect` | `[]TypeOK` | |
| `EveryAnswerIsOwn` | `[]AnswersAreOwn` | |
| `ClosedHandlesAreForgotten` | `[]ClosedIsForgotten` | |
| `SessionServes` | `ServiceSpec`, that is, `Commands` is implemented | while nothing has timed out and no command was misnumbered |
| `OneHandleServes` | `ServiceSpec` | one handle, no timeout |
| `SocketClient_proofs!TypeCorrect` | `[]TypeOK` | |
| `ServersAlwaysAgree` | `[]ServersAgree` | |
| `TellersHaveServer` | `TellsLiveServer` | |
| `RemotePhidget_proofs!TypeCorrect` | `[]TypeOK` | |
| `DictionaryStaysSound` | `[]DictionaryIsSound` | |
| `AttachedHandleKnows` | `[]AttachIsComplete` | `OneDevice` |
| `HandleAndDeviceAgree` | `[](Devices = {1} => SettledAgrees)` | one device of the class |

In each case the property follows from an inductive invariant, a conjunction of
named parts, each with its comment in the module. TLC checked the invariant on a
small instance before it was proved. One lemma per part shows that a step
preserves it, with one step of the proof per action, or group of actions, that
can disturb it. Boolean-valued variables are Zenon's and arithmetic is Z3's, so
that the effect of the larger actions is first stated in lemmas of its own,
field by field.

### WritePath_proofs

`TypeOK` is inductive; none of the other three is. `Inductive` is the conjunction of

* `Lifecycle`: which flags, which USB handle and whether a write thread each
  step of attach, detach and close may leave behind. `ClosedIsQuiet` needs it
  because quietness at the end follows only from what each earlier step did;
  in particular a write thread that has not finished has `thread_status` set,
  except while `attachActiveDevice` is between creating it and storing the
  status, so that `CThread_join` does wait for it.
* `Signalled`: `PendingIsSignalled`, already at the step before the write
  thread is created. A packet of the present attachment can only be accepted
  after the flag is set, which is after both events were reset; without that
  conjunct the creation of the thread could expose an unsignalled packet.
* `Numbered`: nothing in the buffer, in the thread's hands or on the wire is
  numbered beyond `accepted`, so that the next packet is newer than all.
* `NeverResent` itself, which is inductive relative to `Numbered`.

### CentralThread_proofs

The types need to know that who works on a device or a handle has one, which the
central thread does because it holds `attachedDevicesLock` (`PollerHolds`,
`PollerKnows`, `UserKnows`).

`ClosedStaysDetached` needs only the lock of the handle. `Locked` says who has it from where to
where (`UserHolds`, `AttacherHolds`), and that from when a close has dealt with the attachment
a handle is attached only if it is open, the thread that attaches it having tested
`PHIDGET_OPENED_FLAG` under the lock (`OpenedIsKept`). It holds for every request.

For `LifecycleIsExclusive` it is not enough that `attachActiveDevice` and
`CPhidget_close` take the handle's `openCloseLock` (`Locked`): `CPhidgetDetachEvent`
does not. It is kept apart from a close because it works, under
`activeDevicesLock`, on a handle it has found on the list (`Detacher`), and a close
has taken its handle off the list before it goes on (`OffList`). That it has taken
off its own handle is what needs `OneSerialEach`: each handle is
opened by one serial number, however often and by however many threads. Then
the number a handle was given stays the one it was asked for (`Asks`), and as
equal handles are one on the list (`ListIsOfSerials`), what `CList_removeFromList`
takes off is what `CPhidget_areEqual` finds equal. Several handles may share
a number. A handle opened for any device, or by another number the next time, is
not covered: the property then fails.

What the lists promise fails if several threads open and close at a time, or if
two handles share a number, since the close of one removes both. So the
remaining theorems are about a program of one thread (`OneUser`) whose handles have
numbers of their own (`OwnSerials`). `OneThread` says that `CentralThread` names the thread that has not
ended; `Polled`, that what the thread and `StartCentralThread` have read without a
lock is still so when they act on it; `Stays`, that an open handle stays listed;
`Looks`, `UsbKept` and `Finds`, that libusb is initialised while a poll looks at the
bus or a handle is attached, and that the device of an attached handle is known to
the poll unless it is just being detached. For managers the program must keep a
handle open (`Keepers`), or the central thread may exit under a manager:
`Kept`, `NeverEnds`, `Telling` and `Told` follow who is told of what.

### RobotLink_proofs

Nothing on the line says to which call it belongs, so the invariant has to say what may be there.
However late replies are,
* `EchoesAreTrue`: a token "a" that has arrived begins a whole echo of an attach,
  of a device that is bound by then. Whatever pieces of replies a call reads, if
  they equal the echo it waits for they begin with that token; hence
  `AttachedIsBound`.
* `StopInv`: motors run only when attached, and once close has reset a motor
  the last command on the line that runs it stops it. Commands are executed in
  order; hence `ClosedIsStopped`.

As long as no reply was late,
* `LineInv`: the line is empty between two calls and during one holds its
  command or the whole of its reply. So a call that returns has read the reply
  to its own command (`PunctualReads`).
* `PinsInv`: `digitalPinsAvailable` is the list, in the order of the initial one,
  of the pins nothing is bound to and of the one that an attach under way has bound
  (`Bound`). `RemovesPlace`, that `List.remove` keeps that order, rests on lemmas about the
  n-th smallest element of a set (`Nth`, `Rank`).
* `CacheInv`: the cache is that of the last refresh; a refresh under way has noted the
  pins that are available, which are the ones the board reads.
* `MotorsInv`: a motor that runs is counted, or the command on the line takes it
  over. When the command is executed the motors of an encoded run are off, and those
  of a timed run are off or will be before the call has slept (`CallIsOver`). This part
  needs also that no call was refused after it had counted its motors.

### InterfaceKit_proofs

* `Hears`: between `eventsAfterOpen` and the detach the handlers were told of what
  the handle holds or, while `dataInput` is under way, of the old values it keeps.
* `OutsInv`: a set output is queued or in `outputStates` (`Queued`), what is in
  `outputStates` is in the packet or in the device (`Passed`), and whoever queues one
  leaves the event set for the write thread (`Noticed`). While not all states are known
  the device's outputs are what they were (`Unwritten`), so that a packet which fills the
  unknown ones with FALSE, or a report that comes late, does not count as a
  set. Before the attach is complete there is `Fresh`. The hypothesis
  `AllInOne` excludes the 4/8/8, whose packets hold one output.
* `RatioInv`: of the two modes one is old and one new, and handle, device, packet,
  report and read buffer are at one of five points of a switch: steady in the old
  mode; turned, with a mixed report to come; the mixed report made up; being
  read, with `ratiometricSwitching` at 2 so that it will be skipped; skipped. `Steady`
  also covers a set that is on its way and the unlocked moments of the counter.

### PdictClient_proofs

`Base` holds what the types rest on: a reply that is notified fits the command it is notified to
(`NotifyFits`, `LinesFit`), a caller has a command (`CommandOfCaller`), there is
room for the commands about to be issued (`Counted`), the root is pending
(`RootIsPending`), and until the session is authorized nothing but the authorization
goes on (`AuthorizationFirst`).

For `AnswersAreOwn` synchronous commands all have tag 0, so it matters that
`pdc_lock` is held from the call to its return (`LockIsHeld`) and that a pending
synchronous command belongs to a caller who still waits (`PendingIsLive`): there is never more
than one. `Tells` says that the end of a command is reported when its result is
given up and never again; `Lines` follows a command over the socket; as long as no caller has given up
(`Fresh`), a reply to a synchronous command on the line is one its caller awaits
(`RepliesAreAwaited`), and an answer is the caller's own (`AnswersAreTrue`).

The refinement maps `PdictClient` to `Commands` step by step: each step of a
session issues a command, carries one out, reports the end of some, or stutters.
Reporting a success needs that the command was carried out. A command that went
out under the tag another was registered with breaks that (section 5), therefore `SessionServes`
speaks of sessions in which it does not occur, and `OneHandleServes` shows that the sessions of
one handle are among them.

`ClosedIsForgotten` is about the order of things on the socket, and its invariant
`ClosedInv` goes along with it. The caller that closes a handle is alone with it,
and no set of it is under way then (`StagesAgree`: the flag that lets a set begin is cleared
under the handle's lock). `SetsAreSent`: while the socket is open, a command in the tree is
on its way to the webservice or its reply is on the way back. So the sets of the handle are
ahead of the ignore of its close (`SentBeforeIgnore`), and, since the webservice
answers in order, their replies ahead of its reply (`AnsweredBeforeIgnore`): when
`pdc_ignore` returns the tree holds none of them (`SetsEnd`), provided that each
reply finds its command, which is what `~Misnumbered` says. Reports: the webservice sends none
for the handle behind the reply to the ignore, and the read thread has returned from
the last one when it notifies that reply (`ReportsStop`). A handle that closes
after the session has ended is covered by `DrainedIsSync`: `finish_pending_async` has left
none but a synchronous command in the tree.

### SocketClient_proofs

`ServersAgree` is about threads that find things others may free. `LockInv` says who
holds `serverLock` and `serverLockLock` from where to where, that only one user,
one read thread and one authorization thread are inside. `ConnInv` ties a server to
its read thread: it is alive and listed exactly while that thread has not
finished, and has a live session then. `HandleInv` and `ListInv` say that a server lists the handles that
refer to it, but for those the authorization thread is about to drop (`ListenInv`). `OneInv`: a new server
is created only when none is listed. `OnceInv` follows the status of the
authorization so that its end is told once; `ThreadInv`, that the read thread
outlives the authorization thread and the error thread started by it, because it polls
their flags; `JoinInv`, that who joins a read thread has taken `pdcs` from the server, and is
alone in it; `HandlersInv`, that no handle of a server being cleaned up is being told of a close.
The last is what `TellsLiveServer` rests on: a user reads `networkInfo->server` without
`serverLock`, but `cleanup_after_socket` clears the flag under the handle's
lock, which that user holds. The error thread clears the pointer without that lock, so
the property is about servers whose authorization has not failed; from when the error thread is
started the authorization is known to have (`starts`). `ErrorLocked` says what holds while the error
thread walks the list under `serverLock`, `ListenServer` that the server of a connect that is listening stays.

### Pdict_proofs

`utils/ptree.c` orders its nodes by their keys alone and keeps no height, so that nothing
but the loops themselves says that a pointer leads anywhere. The module proves of trees with
any number of nodes what `pdict.c` relies on: `_walk_to` finds a value exactly
if the tree holds it, an insertion adds one and a removal takes away one, and a walk visits
each value once, in order, and ends.

`IsSearchTree` gives each node two bounds such that all that is held below it lies between
them, and nothing that is held lies between them and is not below it. The bounds of a child are those of
its parent, cut at the parent's value. That the bounds narrow with each pointer is the rank by which
`Follow` comes to its end, and with it the search, the successor and the walk. An
insertion divides the gap the search ended in (`WithIsSearched`). A removal of a node
with at most one child widens the bounds of what it moves up; a removal of a node with two is the
removal of its predecessor, which has no right child, followed by a change of name: the predecessor
takes the pointers and the bounds of the node removed (`WithoutIsSearched`).

`Upright` is the invariant of a dictionary: its entries are a search tree of the keys that have a
value, and each of these keys is heard by exactly the listeners whose pattern matches
it, in the order in which they came. One lemma per call of `pdict.c` shows that the call
leaves it upright (`AddedIsUpright`, `RemovedIsUpright`, `ListenedIsUpright`, `IgnoredIsUpright`), and
`UprightIsSound` that such a dictionary is sound.

### RemotePhidget_proofs

`TypeOK` and `DictionaryIsSound` are proved together, for any class and any number of
devices: the types of what goes to the handle follow the walk of the dictionary, and what
the dictionary is told follows the types. `GeneralInv` says besides that the dictionary has two
listeners, the observer of the service and the handle, while the handle listens, and else the
first of them alone, and that a handle listens from when it connects to when its
close removes the listener, so that it is never registered twice.

`AttachIsComplete` says that an attached handle has every counted variable. The handle only
counts, so the proof is that each key is counted once. `ServiceInv`: what the dictionary
holds is what the webservice has published, in its order, and who hears a key.
`HandleInv`: the flags of the handle and its listener go together. `ZeroInv`: a handle that starts afresh
starts with 0. `LineInv` follows a key from the webservice to the handle: it comes
as added once since the handle began to listen, a change comes when every variable
has a value, and a key that is held is known or on its way. `CountInv` is the
counting argument: until every counted variable is known, `keyCount` is at most the number of those
that are, plus the keys counted each time that may have come (`Spent`). The number in `initKeys` is what both
come to when all are known, so that `keyCount` cannot reach it before. That each of
the 21 classes has its keys so is `KeysAreCountable`, and that a setter only makes variables known
that a key counts once, `SettersDoNotCount`. `AttachInv`
carries that through the steps between the test and the flag.

`SettledAgrees` says that handle and dictionary agree when all reports are handled. That a
handle attaches needs that no count is missing: `LowInv` bounds `keyCount` from below, by
the variables that are known and the keys counted each time that have come since the
device did (`Come`), where `CountInv` bounds it from above. It rests on `CountedAreCleared`, that each
of the 21 clear functions clears what its class counts, and on `FreshInv`: the keys of a device that
came again come after the end of the last, so that a detach forgets none of them. When
no more are on their way all have come, `keyCount` has reached `initKeys` (`AllHaveCome`), and
`LastInv` carries that through the test and the flag. That a handle is not attached to a device that is gone is
`GoneInv`: no report that sets `initKeys` comes after the last end of the device, also not to a handle that connects
while the keys are withdrawn, because `InitKeys` is walked before `Status`
(`ConnectSays`); so the handle cannot attach again. `OpenInv` says that a handle that
has not heard of a device knows no number of keys.

`OneDevice` is needed for classes that count variables: a handle for any
device that has two may bind to the second while keys of the first are on their way. In
the runs only `Generic`, which counts nothing, has two. `HandleAndDeviceAgree` speaks of
the classes that have one device and needs nothing else.

### What stays with TLC

The liveness properties of all modules: liveness under fairness and `ENABLED` are out of
reach of this prover. And what the hypotheses above exclude: `AttachIsComplete` and `SettledAgrees` with
two devices of a class, which TLC checks for `Generic`.

## 5. Where the code and its comments disagree

Seen with TLC under other constants or as properties that no configuration
lists; each can be reproduced by adding the property to the configuration named
and changing the constants given. They are the reason why the passing runs have
the constants they have. For those about temporal and action properties the
symmetry is to be taken out.

| configuration, constants | property violated | at |
|---|---|---|
| `MCWritePath`, one setter | `TransferHasHandle`: `CPhidgetDetachEvent` closes the libusb handle before it joins the write thread, against `cphidget.c:493` "join before closing because we want to wait for outstanding writes to complete" | `cphidgetmanager.c:117` |
| `MCWritePath`, one number for all packets and no bound on them in `SetterEnters` | `life = "closejoin" ~> life = "closed"`: a close with setters that go on sending does not return: the write thread looks at `writeStopFlag` only after 200 ms without a packet, and the setters find the handle attached until after the join, against `cphidget.c:493` "join before closing because we want to wait for outstanding writes to complete" | `cphidget.c:492` |
| `MCWritePath` | `CloseDrains`: the write thread tests `writeStopFlag` after its wait timed out without looking at the buffer again, against `cthread.c:411` "putting this in the timeout so actual writes are not missed" | `cthread.c:412` |
| `MCWritePath`, `ClearsSlot = FALSE` (FrequencyCounter) | `AttachedQueueIsServed`: a packet of the last attachment stays in the buffer, the events are reset, nothing wakes the write thread | `cphidget.c:1336` |
| `MCCentralThread` | `JoinCanEnd`: the last close waits for the central thread with the lock that thread is waiting for, against `cphidget.c:503` "if there are no more active phidgets or managers, wait for the central thread to exit" | `cphidget.c:507` |
| `MCCentralThread`, `Requests <- BothAny` | `OpenStaysRegistered`: a close removes another handle from `ActiveDevices`, as `CPhidget_areEqual` confuses them; `LifecycleIsExclusive` in consequence | `cphidget.c:489` |
| `MCCentralThread`, two users, `MaxCalls` 2 | `OneCentralThread`: both find no thread | `cthread.c:78` |
| `MCCentralThread`, two users, `MaxCalls` 3 | `RegisteredIsPolled`: an open during the exit of the thread | `cthread.c:223` |
| `MCCentralThread`, two users, `Requests <- Reopened`, keeper `h2`, `MaxCalls` 4 | `SerialIsHonoured`: a handle is closed and opened by another serial number while matched, and gets the device of the first, against `cphidget.h:281` "Specify -1 to open any" | `cphidget.c:1292` |
| `MCCentralThread`, both handles by the same serial number, `MaxCalls` 4 | `UsbOutlivesHandles`: the duplicate's close removes the other | `cphidget.c:505` |
| `MCCentralThreadLive`, `Managers = {}`, `FastReplug = TRUE` | `FaultIsDetached`: the bus looks unchanged | `cphidgetmanager.c:199` |
| `MCCentralThreadLive`, `Managers = {}`, one handle for any device, one by serial | `FaultIsDetached`: the detach finds the other handle | `cphidgetmanager.c:215` |
| `MCCentralThread`, one handle, one manager, `MaxCalls` 4, no fault | `RegisteredIsPolled`: the central thread reads `ActiveDevices` before an open and `ActivePhidgetManagers` after the manager's close, and exits, against `cthread.c:233` "there are no active devices, and no phidgetmanagers" | `cthread.c:223` |
| the same | `OpenManagerIsListed`: `sendInitialEvents` tests for "activating", the close sets "inactive", `sendInitialEvents` stores "active"; the next open takes the manager for one that is on the list, and it never hears of a device | `cphidgetmanager.c:157` |
| `MCCentralThread`, one handle, two managers of which one is a keeper, `MaxCalls` 5, no fault | `ManagersKeepUp`: the close of that manager counts it a second time; with `ActivePhidgetManagers` at 0 the central thread exits and the other manager hears no more (`DevicesAreNoticed` in `MCCentralThreadLive` with one device) | `cphidgetmanager.c:303` |
| `MCRobotLink` | `PinValueIsOfPin`: after an attach `getDigitalPin` returns a neighbour's value | `RXTXRobot.java:954` |
| `MCInterfaceKit`, `Kinds <- With222`, `MaxChanges <- NoChange`, `MaxAttach` 1 | `PolledRatioIsOfValue`: the getter shows the new state before the sensor values of that report are stored, against the comment "this is set after the sensor data" | `cphidgetinterfacekit.c:703` |
| `MCInterfaceKit`, `Kinds <- Only488`, `MaxChanges <- NoChange`, `MaxAttach` 1 | `OutputsSettle`: a packet of a 4/8/8 holds one output; `getPacket` clears `changedOutputs` for all of them (885), so that of two outputs set before a packet is fetched one is never sent, and setting it again does nothing (1030), against the comment at 992 that `sendpacket` combines "up to numoutput calls to setoutput into one sent packet" | `cphidgetinterfacekit.c:906` |
| `MCInterfaceKit`, `Kinds <- With222`, `Changes = {"fault"}`, `MaxChanges` 2, `MaxAttach` 2, `ReadTries` 1 | `RatioIsOfValue` without `Presumes`: after a USB error the device is attached anew without losing its state, the first reads fail, and a packet makes `getPacket` take it for ratiometric with no report to skip; the next report shows the new state with a value of the old one | `cphidgetinterfacekit.c:924` |
| `MCPdictClientLive`, one caller | `DrainFinishes`: a `jcmd` whose write failed keeps `grcba_lock` and asks for `pdcs_pending_lock`, the read thread the other way round, against `pdictclient.c:381` "respond for any pending commands (failed)..." | `dict/pdictclient.c:705` |
| `MCPdictClient`, 1 caller, 2 handles | `ResponseFindsCommand`: a command goes out with the tag another was registered with | `dict/pdictclient.c:1089` |
| `MCPdictClient`, `MaxCommands` 6, no timeout | `CleanupLeavesNone`: `cleanup_pending` looks at the root only | `dict/pdictclient.c:1184` |
| `MCPdictClient`, 1 caller, 2 handles, `MaxCommands` 6, `MaxTimeouts` 0, `MaxLine` 1 | `ServiceSpec`: three sets are formatted before their tags are counted; one of them is refused, and its end is reported as a success, by the reply to another handle's set; the reason for the hypothesis `~Misnumbered` of `SessionServes` | `dict/pdictclient.c:1089` |
| `MCSocketClientLive`, 2 connections, `Failures = {"shut"}` | `ConnectedMeansServer`: the authorization sets the flag again after a close has cleared it; the handle opened next has the flag and no server, against `cphidgetconstantsinternal.h:46` "true: networkInfo->server is valid and connected" | `csocketopen.c:803` |
| `MCSocketClientLive`, `Keepers = {h1}`, `Handled = {}`, `Failures = {}` | `ListedRefers`: a handle without an error handler whose listen fails loses its server and stays in the server's list, against `csocketopen.c:809` "we have to remove this phid from the server list, and remove it's reference to the server, so that another connection attempt will be made"; that attempt finds it in the list and fails | `csocketopen.c:806` |
| `MCSocketClient`, `errT'[server[h]].starts = 0` left out of `TellsLiveServer` | `TellsLiveServer`: the error thread clears `networkInfo->server` of a handle whose close has tested SERVER_CONNECTED and is about to read the pointer; the lock of the handle, which the close holds, is not taken for it | `csocketopen.c:966` |
| `MCSocketClientLive`, `Failures = {"shut"}` | `ErrorThreadHasServer`: a failed write of the authorization starts an error thread for a server that is being freed | `csocketopen.c:1232` |
| `MCRemotePhidget`, `Instances = {"WeightSensor"}` | `AttachHasKeys`: the server is lost when the handle has some of the keys; `keyCount` stays, the keys counted each time are counted again, and the handle attaches with a value missing, against `cphidgetconstantsinternal.h:7` "you can call all commands on this handle" | `csocketopen.c:495` |
| `MCRemotePhidget`, `Instances = {"Stepper"}` | `PresentIsAttached`: a setter writes a variable between the clear and the next attach; its key is not counted, and the handle does not attach | `cphidgetmacros.h:271` |
| `MCRemotePhidget`, `Instances = {"Generic"}` | `PresentIsAttached`: a handle for any device has passed over the keys of the one it is left with | `csocketevents.c:1939` |
| `MCRemotePhidget`, `Instances = {"WeightSensor"}` | `ClosedIsDetached`: the handler sets the attached flag after a close has cleared it, against the same line of `cphidgetconstantsinternal.h` | `csocketevents.c:2074` |

Three comments in `csocketevents.c` say that a key is not counted and are followed
by an `INC_KEYCOUNT` that counts it: the brightness of an LED (865, 871), the
acceleration of a motor controller (1057, 1063) and the target position of a
stepper (1524, 1530). The model follows the code.

In `WritePath` a detach sets `writeAvailableEvent` while the handle still counts as
attached (`cphidgetmanager.c:115`): a live write thread then transmits a zeroed
report (`cphidget.c:314`). No comment says otherwise, so no property forbids it.

In `RobotLink` `TwoMotorsRun` fails once a call has been refused after counting:
`runMotor(m, 0, <invalid time>)` clears `motorsRunning` of a motor that runs. With
late replies `AvailableIsFree`, `CacheIsOfRefresh`, `AnswerIsOwn`, `TwoMotorsRun` and
`EncodedCanEnd` all fail, which is what `Punctual` stands for.

## 6. What is not modelled

| part | why |
|---|---|
| report layouts and unit conversions of the device classes, and the state of all but the interface kit | data; what the classes share is `WritePath` |
| sensor events, data rates, general packet protocol, firmware upgrade | data and timing inside one thread |
| handlers that call back, `CPhidget_delete`, remote managers | a handler may call anything: each of its calls would be a user thread nested in every callback, which is beyond the instances TLC can finish. Listed as hazards |
| listeners of a single key (`pdict_ent_add_change_listener`), `pdict_walk` by callers, freeing of a dictionary | called by nothing in the repository. `pdict_add` frees the old value (`dict/pdict.c:104`) before it hands it to the listeners (113) when the caller passes no place for it; no listener in the repository reads it |
| remote managers, dictionaries, SBC lists | `csocketopen.c` has each function three times; the handles' copy is `SocketClient` |
| values of remote events and the handlers called for them, dictionary API | parsing, thin calls |
| zeroconf | the order of events is the external daemon's |
| JNI and LabVIEW bindings, libusb-0.1 back end, vendored headers, logging, constants, build | conversion, duplicates, third-party code, tables |
| course drivers (`src/src/*.java`) | console menus and scripted calls |
| RXTXRobot: analog pins, one-value sensors, PCA9685 commands, mixer, second `connect` | the same exchange as the calls modelled, deprecated, or dependent on whether the board resets |

## 7. Plan

In this order; the first seven are done.

| module | models | composes with | abstract specification |
|---|---|---|---|
| 1 `WritePath` (done) | output path | | a queue of one that transmits each accepted packet at most once, in order |
| 2 `CentralThread` (done) | association of handles and devices, managers | its `LifecycleIsExclusive` justifies `life` of `WritePath` and `InterfaceKit` | a handle that is closed, open or attached to the device asked for |
| 3 `RobotLink` (done) | RXTXRobot and its line | external Arduino | a synchronous robot, while `Punctual` |
| 4 `PdictClient` (done) | pdict sessions | external webservice | `Commands` (done) |
| 5 `SocketClient` (done) | connections of remote handles | its sessions are `PdictClient` | |
| 6 `InterfaceKit` (done) | one device class with both data paths | threads and flags as in `WritePath` | |
| 7 `RemotePhidget` (done) | remote handles, their keys (`RemoteKeys`), the dictionary (`Pdict`, `Ptree`) | the reports are those of `PdictClient`, the connection is `SocketClient` | a dictionary whose entries are heard by whose pattern matches (`Sound`) |
| 8 `RobotLink` extended | second connect, analog pins, PCA9685 | | |

Theorems to come: for `RemotePhidget`, `SettledAgrees` with two devices;
for `CentralThread`, `LifecycleIsExclusive` with one handle for any device.

## Running

In this directory, `tlc -config MCWritePath.cfg MCWritePath` checks a run, and
`tlapm WritePath_proofs.tla` the proofs of a module; `SocketClient_proofs` takes
about ten minutes, `CentralThread_proofs`, `PdictClient_proofs` and `RemotePhidget_proofs`
between five and seven, the others less. `PROJECT.json` names the module and the
configuration of every run.
