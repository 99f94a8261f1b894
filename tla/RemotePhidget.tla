---------------------------- MODULE RemotePhidget ----------------------------
(***************************************************************************)
(* A remote handle and the dictionary its device is published in: the      *)
(* handler of csocketevents.c that counts keys until the handle attaches,  *)
(* open and close of the handle (csocketopen.c, cphidget.c), the loss of   *)
(* the server, a setter of a counted variable (cphidgetmacros.h), and the  *)
(* dictionary (Pdict) at the other end.                                    *)
(*                                                                         *)
(* The webservice that keeps the dictionary is external.  It publishes the *)
(* keys of a device, sets its Status to Detached when the device is gone   *)
(* and then withdraws the keys, Status last: that order, and the value of  *)
(* InitKeys, are read off what the handler expects.  Reports go to the     *)
(* handle in order.  A second listener, for Status keys, shares the        *)
(* dictionary.                                                             *)
(***************************************************************************)
EXTENDS RemoteKeys, Pdict

CONSTANTS
    Instances,   \* bound: the classes that are checked
    DevicesOf,   \* the devices of each class that there are
    Budget,      \* bounds: for each class how often what may happen
    PublishOrder, \* for a number of keys, the order they are published in
    Changing,    \* the numbers of keys whose value changes
    Moments,     \* bound: for each class how far the service is with a device
                 \* when the user begins to act or the server is lost
    MaxLine      \* bound: reports on their way when the service goes on

Chances == {"plug", "open", "loss", "change", "set"}

ASSUME InstancesAssumption ==
    /\ Instances \subseteq Classes
    /\ \A c \in Instances :
          /\ DevicesOf[c] \in {{1}, {1, 2}}
          /\ Budget[c] \in [Chances -> Nat]
          /\ 1..Len(KeysOf(c)) * Cardinality(DevicesOf[c]) \subseteq Values

\* Every key is published once.
ASSUME PublishAssumption ==
    \A c \in Instances :
        LET n == Len(KeysOf(c))
            order == PublishOrder[n]
        IN /\ order \in Seq(1..n) /\ Len(order) = n
           /\ \A i, j \in 1..n : order[i] = order[j] => i = j

VARIABLES
    class,       \* class of the handle and its devices
    left,        \* what may still happen
    \* the webservice
    dict,        \* the dictionary
    phase,       \* of each device: "absent", "adding", "present", "removing"
    done,        \* and how many of its keys that has reached
    line,        \* reports on their way to the handle
    \* the handle
    status,      \* its flags: "opened", "connected", "attached"
    specific,    \* specificDevice: "serial", "any" or "anyAttached"
    serial,      \* serialNumber
    keyCount,
    initKeys,    \* Unknown until its key came
    known,       \* the counted variables that are not at their unknown value
    listening,   \* it has a listener in the dictionary
    \* the threads
    reader,      \* "idle", "test", "set" or "clear" of the handler
    user,        \* "closed", "open", or where a close is
    setter,      \* a setter has passed TESTATTACHED
    \* history
    lost,        \* the server was lost since the handle last started afresh
    overwritten, \* a setter wrote a variable whose key had not come
    caught       \* a close has met an attach half way

serviceVars == <<dict, phase, done, line>>
handleVars == <<status, specific, serial, keyCount, initKeys, known, listening>>
threadVars == <<reader, user, setter>>
historyVars == <<lost, overwritten, caught>>
vars == <<class, left, serviceVars, handleVars, threadVars, historyVars>>

Unknown == 999
Handle == "handle"
Observer == "observer"

-----------------------------------------------------------------------------
(* Keys. *)

Keys == KeysOf(class)
KeyOf(dev, i) == (dev - 1) * Len(Keys) + i
DeviceOf(k) == ((k - 1) \div Len(Keys)) + 1
NumberOf(k) == ((k - 1) % Len(Keys)) + 1
Devices == DevicesOf[class]

Named(name) == CHOOSE i \in DOMAIN Keys : Keys[i].name = name
StatusKeys == {KeyOf(d, Named("Status")) : d \in Devices}

\* The order in which the keys are published, and withdrawn.
Published == PublishOrder[Len(Keys)]
Withdrawn == Append(RemoveFirst(Published, Named("Status")), Named("Status"))

\* setupKeysAndListeners_phidget: what a handle listens for.
Pattern ==
    IF specific = "serial" THEN {KeyOf(serial, i) : i \in DOMAIN Keys}
    ELSE {KeyOf(d, i) : d \in Devices, i \in DOMAIN Keys}

ForHandle(notes) == Chosen(notes, {i \in DOMAIN notes : notes[i].to = Handle})

Spend(chance) ==
    /\ left[chance] > 0
    /\ left' = [left EXCEPT ![chance] = @ - 1]

AtMoment == \A d \in Devices : done[d] \in Moments[class]

-----------------------------------------------------------------------------
(* The webservice. *)

ServiceGoesOn == Len(line) < MaxLine

Sets(k, v) ==
    /\ dict' = PdictAdd(dict, k, v)
    /\ line' = line \o ForHandle(AddNotes(dict, k, v))

Plug(d) ==
    /\ phase[d] = "absent"
    /\ Spend("plug")
    /\ phase' = [phase EXCEPT ![d] = "adding"]
    /\ done' = [done EXCEPT ![d] = 0]
    /\ UNCHANGED <<class, dict, line, handleVars, threadVars, historyVars>>

Publish(d) ==
    /\ phase[d] = "adding" /\ ServiceGoesOn
    /\ LET i == Published[done[d] + 1]
       IN Sets(KeyOf(d, i), IF i = Named("Status") THEN "Attached" ELSE "value")
    /\ done' = [done EXCEPT ![d] = @ + 1]
    /\ phase' = [phase EXCEPT ![d] = IF done'[d] = Len(Keys) THEN "present" ELSE @]
    /\ UNCHANGED <<class, left, handleVars, threadVars, historyVars>>

Change(d) ==
    /\ phase[d] = "present" /\ ServiceGoesOn
    /\ Spend("change")
    /\ \E i \in Changing \cap DOMAIN Keys : Sets(KeyOf(d, i), "value")
    /\ UNCHANGED <<class, phase, done, handleVars, threadVars, historyVars>>

Unplug(d) ==
    /\ phase[d] = "present" /\ ServiceGoesOn
    /\ Sets(KeyOf(d, Named("Status")), "Detached")
    /\ phase' = [phase EXCEPT ![d] = "removing"]
    /\ done' = [done EXCEPT ![d] = 0]
    /\ UNCHANGED <<class, left, handleVars, threadVars, historyVars>>

Withdraw(d) ==
    /\ phase[d] = "removing" /\ ServiceGoesOn
    /\ LET k == KeyOf(d, Withdrawn[done[d] + 1])
       IN /\ dict' = PdictRemove(dict, k)
          /\ line' = line \o ForHandle(RemoveNotes(dict, k))
    /\ done' = [done EXCEPT ![d] = @ + 1]
    /\ phase' = [phase EXCEPT ![d] = IF done'[d] = Len(Keys) THEN "absent" ELSE @]
    /\ UNCHANGED <<class, left, handleVars, threadVars, historyVars>>

Service == \E d \in Devices : Plug(d) \/ Publish(d) \/ Change(d) \/ Unplug(d) \/ Withdraw(d)

-----------------------------------------------------------------------------
(* network_phidget_event_handler, in the read thread of the session. *)

Counts(i) == Cardinality(Keys[i].vars \ known)

\* The first report is for another device, or for no handle.
Skips(r, dev) ==
    \/ "connected" \notin status
    \/ r.reason = "removing" /\ r.val /= "Detached"
    \/ dev /= serial /\ (specific /= "any" \/ r.val = "Detached")

ReaderSkips ==
    /\ reader = "idle" /\ line /= <<>>
    /\ Skips(Head(line), DeviceOf(Head(line).key))
    /\ line' = Tail(line)
    /\ UNCHANGED <<class, left, dict, phase, done, handleVars, threadVars, historyVars>>

\* A handle for any device takes the first that it hears of.
Binds(dev) ==
    /\ specific' = IF specific = "any" THEN "anyAttached" ELSE specific
    /\ serial' = dev

ReaderCounts ==
    /\ reader = "idle" /\ line /= <<>>
    /\ LET r == Head(line)
           i == NumberOf(r.key)
       IN /\ ~Skips(r, DeviceOf(r.key)) /\ r.val /= "Detached"
          /\ Binds(DeviceOf(r.key))
          /\ keyCount' = keyCount + Counts(i)
          /\ known' = known \cup (Keys[i].vars \ {EachTime})
          /\ initKeys' = IF Keys[i].name = "InitKeys" THEN InitKeysOf(class) ELSE initKeys
    /\ line' = Tail(line)
    /\ reader' = "test"
    /\ UNCHANGED <<class, left, dict, phase, done, status, listening, user, setter,
                   historyVars>>

\* Under the handle's lock.
ReaderDetaches ==
    /\ reader = "idle" /\ line /= <<>>
    /\ ~Skips(Head(line), DeviceOf(Head(line).key)) /\ Head(line).val = "Detached"
    /\ keyCount' = 0
    /\ specific' = IF specific = "anyAttached" THEN "any" ELSE specific
    /\ status' = status \ {"attached"}
    /\ line' = Tail(line)
    /\ reader' = "clear"
    /\ caught' = FALSE
    /\ UNCHANGED <<class, left, dict, phase, done, serial, initKeys, known, listening,
                   user, setter, lost, overwritten>>

\* After the user's handler.
ReaderClears ==
    /\ reader = "clear"
    /\ known' = known \ ClassClears[class]
    /\ initKeys' = Unknown
    /\ reader' = "idle"
    /\ lost' = FALSE /\ overwritten' = FALSE
    /\ UNCHANGED <<class, left, serviceVars, status, specific, serial, keyCount,
                   listening, user, setter, caught>>

HasAllKeys == initKeys /= Unknown /\ keyCount >= initKeys

ReaderTests ==
    /\ reader = "test"
    /\ reader' = IF HasAllKeys /\ "attached" \notin status
                       /\ {"opened", "connected"} \subseteq status
                 THEN "set" ELSE "idle"
    /\ UNCHANGED <<class, left, serviceVars, handleVars, user, setter, historyVars>>

ReaderAttaches ==
    /\ reader = "set"
    /\ status' = status \cup {"attached"}
    /\ reader' = "idle"
    /\ caught' = (user /= "open")
    /\ UNCHANGED <<class, left, serviceVars, specific, serial, keyCount, initKeys,
                   known, listening, user, setter, lost, overwritten>>

Reader == ReaderSkips \/ ReaderCounts \/ ReaderDetaches \/ ReaderClears
              \/ ReaderTests \/ ReaderAttaches

-----------------------------------------------------------------------------
(* Opening, connecting and losing the server. *)

\* CPhidget_openRemoteIP and RegisterRemotePhidget.
Open ==
    /\ user = "closed" /\ AtMoment /\ Spend("open")
    /\ \/ specific' = "serial" /\ serial' = 1
       \/ specific' = "any" /\ serial' = 0
    /\ status' = status \cup {"opened"}
    /\ known' = known \ ClassClears[class]
    /\ initKeys' = Unknown
    /\ user' = "open"
    /\ lost' = FALSE /\ overwritten' = FALSE
    /\ UNCHANGED <<class, serviceVars, keyCount, listening, reader, setter, caught>>

\* The central remote thread, when the server has let the client in.
Connect ==
    /\ user = "open" /\ "connected" \notin status /\ AtMoment
    /\ status' = status \cup {"connected"}
    /\ listening' = TRUE
    /\ dict' = PdictListen(dict, Handle, Pattern)
    /\ line' = line \o Current(dict, Handle, Pattern)
    /\ UNCHANGED <<class, left, phase, done, specific, serial, keyCount, initKeys,
                   known, threadVars, historyVars>>

\* cleanup_after_socket, at the end of the read thread.  A close that already
\* took the handle off the server's list keeps its flag.
Lose ==
    /\ listening /\ reader = "idle" /\ AtMoment /\ Spend("loss")
    /\ \/ status' = status \ {"connected", "attached"} /\ caught' = FALSE
       \/ /\ user = "ignore"
          /\ status' = status \ {"connected"}
          /\ UNCHANGED caught
    /\ listening' = FALSE
    /\ dict' = PdictIgnore(dict, Handle)
    /\ line' = <<>>
    /\ lost' = TRUE
    /\ UNCHANGED <<class, phase, done, specific, serial, keyCount, initKeys, known,
                   threadVars, overwritten>>

-----------------------------------------------------------------------------
(* CPhidget_close of a remote handle. *)

CloseStarts ==
    /\ user = "open" /\ AtMoment
    /\ status' = status \ {"connected"}
    /\ user' = "unregister"
    /\ UNCHANGED <<class, left, serviceVars, specific, serial, keyCount, initKeys,
                   known, listening, reader, setter, historyVars>>

CloseClears ==
    /\ user = "unregister"
    /\ status' = status \ {"attached"}
    /\ user' = "ignore"
    /\ caught' = FALSE
    /\ UNCHANGED <<class, left, serviceVars, specific, serial, keyCount, initKeys,
                   known, listening, reader, setter, lost, overwritten>>

\* Mutant: the listener stays with the dictionary.
CloseIgnoresNothing ==
    /\ user = "ignore"
    /\ listening => line = <<>> /\ reader = "idle"
    /\ listening' = FALSE
    /\ user' = "reset"
    /\ UNCHANGED <<class, left, serviceVars, status, specific, serial, keyCount,
                   initKeys, known, reader, setter, historyVars>>

\* disconnectRemoteObject: the reply to its ignore comes after the reports.
CloseIgnores ==
    /\ user = "ignore"
    /\ listening => line = <<>> /\ reader = "idle"
    /\ dict' = IF listening THEN PdictIgnore(dict, Handle) ELSE dict
    /\ listening' = FALSE
    /\ user' = "reset"
    /\ UNCHANGED <<class, left, phase, done, line, status, specific, serial, keyCount,
                   initKeys, known, reader, setter, historyVars>>

\* Mutant: keyCount is left to the next open.
CloseKeepsCount ==
    /\ user = "reset"
    /\ status' = status \ {"opened"}
    /\ user' = "closed"
    /\ UNCHANGED <<class, left, serviceVars, specific, serial, keyCount, initKeys, known,
                   listening, reader, setter, historyVars>>

CloseResets ==
    /\ user = "reset"
    /\ keyCount' = 0
    /\ status' = status \ {"opened"}
    /\ user' = "closed"
    /\ UNCHANGED <<class, left, serviceVars, specific, serial, initKeys, known,
                   listening, reader, setter, historyVars>>

User == Open \/ Connect \/ CloseStarts \/ CloseClears \/ CloseIgnores \/ CloseResets

-----------------------------------------------------------------------------
(* A setter of the user: TESTATTACHED, then ADDNETWORKKEY. *)

SetterTests ==
    /\ ~setter /\ "attached" \in status /\ ClassSets(class) /= {}
    /\ Spend("set")
    /\ setter' = TRUE
    /\ UNCHANGED <<class, serviceVars, handleVars, reader, user, historyVars>>

SetterWrites ==
    /\ setter /\ AtMoment
    /\ \E v \in ClassSets(class) :
          /\ known' = known \cup {v}
          /\ overwritten' = (overwritten \/ v \notin known)
    /\ setter' = FALSE
    /\ UNCHANGED <<class, left, serviceVars, status, specific, serial, keyCount,
                   initKeys, listening, reader, user, lost, caught>>

Setter == SetterTests \/ SetterWrites

-----------------------------------------------------------------------------

Init ==
    /\ class \in Instances
    /\ left = Budget[class]
    /\ dict = PdictListen(EmptyPdict, Observer, StatusKeys)
    /\ phase = [d \in Devices |-> "absent"]
    /\ done = [d \in Devices |-> 0]
    /\ line = <<>>
    /\ status = {} /\ specific = "serial" /\ serial = 0
    /\ keyCount = 0 /\ initKeys = Unknown
    /\ known = {} /\ listening = FALSE
    /\ reader = "idle" /\ user = "closed" /\ setter = FALSE
    /\ lost = FALSE /\ overwritten = FALSE /\ caught = FALSE

Next == Service \/ Reader \/ Lose \/ User \/ Setter

Spec == Init /\ [][Next]_vars

-----------------------------------------------------------------------------
(* Properties. *)

\* The types of the variables; the dictionary has a listener of the handle
\* exactly while the handle is known to have one (CPhidget_openRemoteIP,
\* CPhidget_close).
TypeOK ==
    /\ class \in Instances /\ left \in [Chances -> Nat]
    /\ IsTree(dict.ents)
    /\ \A d \in Devices : /\ phase[d] \in {"absent", "adding", "present", "removing"}
                           /\ done[d] \in 0..Len(Keys)
    /\ status \subseteq {"opened", "connected", "attached"}
    /\ specific \in {"serial", "any", "anyAttached"} /\ serial \in 0..2
    /\ keyCount \in Nat /\ initKeys \in {InitKeysOf(class), Unknown}
    /\ known \subseteq CountedVars(class)
    /\ listening = \E i \in DOMAIN dict.listeners : dict.listeners[i].who = Handle
    /\ reader \in {"idle", "test", "set", "clear"}
    /\ user \in {"closed", "open", "unregister", "ignore", "reset"}
    /\ {listening, setter, lost, overwritten, caught} \subseteq BOOLEAN
    /\ \A i \in DOMAIN line : line[i].key \in Values /\ line[i].to = Handle

\* The tree is one (VERIFY_TREE of utils/ptree.c) and holds the keys that
\* have a value, after every insertion and removal; an entry is heard by the
\* listeners whose pattern matches its key, whichever came first
\* (pdict_add, pdict_add_persistent_change_listener).
DictionaryIsSound == Sound(dict)

\* The handle of a user who has it open and connected, when no attach was on
\* its way during a close.
Undisturbed == user = "open" /\ "connected" \in status /\ ~caught

\* When the attach handler runs, every variable a key is counted for has its
\* value: keys of an earlier attach or open are not counted again
\* (network_phidget_event_handler).
AttachHasKeys ==
    "attached" \in status /\ Undisturbed => CountedVars(class) \subseteq known

\* So it is but for a server that was lost, which leaves keyCount as it was.
AttachIsComplete == ~lost => AttachHasKeys

Settled == Undisturbed /\ reader = "idle" /\ line = <<>>

\* A device that is published is attached to, however often it came and went:
\* CPHIDGETCLEARVARS of its class clears what INC_KEYCOUNT looks at.
PresentIsAttached ==
    Settled => \A d \in Devices :
        phase[d] = "present" /\ (specific = "serial" => serial = d) => "attached" \in status

\* A device that is gone, or going, is not attached to.
GoneIsDetached ==
    Settled /\ "attached" \in status => phase[serial] \in {"adding", "present"}

\* A handle for any of several devices may have passed over the keys of the
\* one it binds to later, which do not come again.
OneChoice == specific = "serial" \/ Cardinality(Devices) = 1

\* When all reports are handled, handle and dictionary agree about the device;
\* but for a variable that a setter wrote before its key came.
SettledAgrees == (OneChoice /\ ~overwritten => PresentIsAttached) /\ GoneIsDetached

\* PHIDGET_ATTACHED_FLAG, "Phidget is attached to computer, and you can call all
\* commands on this handle": not of a handle that is closed.
ClosedIsDetached == user = "closed" => "attached" \notin status
=============================================================================
