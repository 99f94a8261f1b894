-------------------------- MODULE CentralThread_proofs --------------------------
(***************************************************************************)
(* Theorems about CentralThread: the types for every instance; what the    *)
(* locks give, if every handle is opened by a serial number that is always *)
(* the same; and what holds if one thread of the program opens and closes  *)
(* the handles, each by a serial number of its own.                        *)
(***************************************************************************)
EXTENDS CentralThread, FiniteSetTheorems, TLAPS

USE DEF handleVars, listVars, managerVars, busVars, threadVars, pollVars,
        userVars, boundVars, libraryVars, otherVars

-----------------------------------------------------------------------------
(* Types.                                                                   *)

\* What the central thread works on, between taking attachedDevicesLock and
\* giving it back.
Holding == {"initial", "activate", "scan", "arrival", "check", "departure",
            "dfind", "dclose", "devent", "each", "match", "try", "lock",
            "attach", "started"}
WithDevice == {"arrival", "check", "departure", "dfind", "dclose", "devent",
               "match", "try", "lock", "attach", "started"}
WithHandle == {"dclose", "devent", "lock", "attach", "started"}

\* attachedDevicesLock is held while a thread looks at a device or a handle.
PollerHolds == \A c \in Centrals : cpc[c] \in Holding => attachedLock = c

\* There is a device, or a handle, to look at then.
PollerKnows ==
    \A c \in Centrals :
        /\ cpc[c] \in WithDevice => dev \in Devices
        /\ cpc[c] \in WithHandle => hand \in Handles
        /\ cpc[c] = "activate" => hand \in Managers

\* The steps of a call on a handle, and on a manager.
HandlePc == {"register", "remove", "test", "detach", "release"}
ManagerPc == {"madd", "mremove", "mrelease"}

\* A thread in a call has a handle or a manager.
UserKnows ==
    \A u \in Users :
        /\ upc[u] # "idle" => uh[u] \in Handles \cup Managers
        /\ upc[u] \in HandlePc => uh[u] \in Handles
        /\ upc[u] \in ManagerPc => uh[u] \in Managers

LEMMA PollerHoldsStep ==
  ASSUME TypeOK, PollerHolds, [Next]_vars
  PROVE  PollerHolds'
<1>1. /\ PollerHolds /\ NoThread \notin Centrals
      /\ cpc = [c \in Centrals |-> cpc[c]]
  BY ThreadsAssumption DEF TypeOK
<1>2. ASSUME UNCHANGED <<cpc, attachedLock>> PROVE PollerHolds'
  BY <1>1, <1>2 DEF PollerHolds
<1>3. ASSUME NEW c \in Centrals,
             \/ LoopTests(c) \/ LoopEmpties(c) \/ LoopExits(c) \/ PollLocks(c)
             \/ PollStarts(c) \/ InitialActivates(c)
      PROVE  PollerHolds'
  BY <1>3, <1>1
     DEF LoopTests, LoopEmpties, CentralAt, LoopExits, PollLocks, PollStarts,
         InitialActivates, PollerHolds, Holding
<1>4. ASSUME NEW c \in Centrals,
             \/ HandlerReturns(c) \/ TellingEnds(c) \/ PollBuildsList(c)
             \/ PollChecksError(c) \/ PollEnds(c) \/ DetachFindsNone(c)
             \/ DetachCloses(c) \/ DetachEnds(c)
      PROVE  PollerHolds'
  BY <1>4, <1>1
     DEF HandlerReturns, TellingEnds, PollBuildsList, CentralAt,
         PollChecksError, PollEnds, DetachFindsNone, DetachCloses, DetachEnds,
         PollerHolds, Holding
<1>5. ASSUME NEW c \in Centrals,
             \/ FindStarts(c) \/ FindEnds(c) \/ MatchBuilds(c) \/ MatchNone(c)
             \/ MatchLocks(c) \/ AttachFails(c) \/ AttachBreaks(c) \/ AttachOpens(c)
             \/ AttachReturns(c)
      PROVE  PollerHolds'
  BY <1>5, <1>1
     DEF FindStarts, CentralAt, FindEnds, MatchBuilds, MatchNone, Return,
         MatchLocks, AttachFails, AttachBreaks, AttachOpens, AttachReturns, PollerHolds,
         Holding
<1>6. ASSUME NEW c \in Centrals, NEW m \in Managers,
             \/ InitialFinds(c, m) \/ Tells(c, m)
      PROVE  PollerHolds'
  BY <1>6, <1>1
     DEF InitialFinds, CentralAt, Tells, PollerHolds, Holding
<1>7. ASSUME NEW c \in Centrals, NEW d \in Devices,
             \/ PollAttaches(c, d) \/ PollKnows(c, d) \/ DetachForgets(c, d)
             \/ FindTakes(c, d)
      PROVE  PollerHolds'
  BY <1>7, <1>1
     DEF PollAttaches, CentralAt, PollKnows, DetachForgets, FindTakes,
         PollerHolds, Holding
<1>8. ASSUME NEW c \in Centrals, NEW h \in Handles,
             \/ DetachFinds(c, h) \/ MatchTries(c, h)
      PROVE  PollerHolds'
  BY <1>8, <1>1
     DEF DetachFinds, CentralAt, MatchTries, PollerHolds, Holding
<1>9. ASSUME NEW u \in Users, NEW c \in Centrals, StartCreates(u, c)
      PROVE  PollerHolds'
  BY <1>9, <1>1
     DEF StartCreates, UserAt, PollerHolds, Holding
<1>10. ASSUME NEW u \in Users,
              \/ OpenIgnored(u) \/ OpenLocks(u) \/ OpenIsDuplicate(u)
              \/ OpenRegisters(u) \/ StartFindsThread(u) \/ StartSetsStatus(u)
              \/ OpenReturns(u) \/ CloseIgnored(u) \/ CloseLocks(u)
              \/ CloseRemoves(u) \/ CloseTestsAttached(u) \/ CloseDetaches(u)
              \/ CloseReleases(u) \/ JoinSkips(u) \/ JoinStarts(u)
              \/ JoinEnds(u) \/ CloseUninits(u) \/ CloseReturns(u)
              \/ ManagerOpenLocks(u) \/ ManagerOpenAdds(u)
              \/ ManagerCloseLocks(u) \/ ManagerCloseRemoves(u)
              \/ ManagerCloseReleases(u)
       PROVE  PollerHolds'
  BY <1>10, <1>2
     DEF OpenIgnored, UserAt, OpenLocks, OpenIsDuplicate, OpenRegisters,
         StartFindsThread, StartSetsStatus, OpenReturns, CloseIgnored,
         CloseLocks, CloseRemoves, CloseTestsAttached, CloseDetaches,
         CloseReleases, JoinSkips, JoinStarts, JoinEnds, CloseUninits,
         CloseReturns, ManagerOpenLocks, ManagerOpenAdds, ManagerCloseLocks,
         ManagerCloseRemoves, ManagerCloseReleases
<1>11. ASSUME NEW u \in Users, NEW h \in Handles, NEW r \in Requests[h], OpenCalls(u, h, r)
       PROVE  PollerHolds'
  BY <1>11, <1>2
     DEF OpenCalls, UserAt
<1>12. ASSUME NEW u \in Users, NEW h \in Handles, CloseCalls(u, h)
       PROVE  PollerHolds'
  BY <1>12, <1>2
     DEF CloseCalls, UserAt
<1>13. ASSUME NEW u \in Users, NEW m \in Managers,
              \/ ManagerOpenCalls(u, m) \/ ManagerCloseCalls(u, m)
       PROVE  PollerHolds'
  BY <1>13, <1>2
     DEF ManagerOpenCalls, UserAt, ManagerCloseCalls
<1>14. ASSUME NEW d \in Devices,
              \/ Unplug(d) \/ Plug(d)
       PROVE  PollerHolds'
  BY <1>14, <1>2
     DEF Unplug, Plug
<1>15. ASSUME NEW h \in Handles, TransferFails(h)
       PROVE  PollerHolds'
  BY <1>15, <1>2
     DEF TransferFails
<1>16. CASE UNCHANGED vars
  BY <1>16, <1>2
     DEF vars
<1>17. QED
  BY Zenon, <1>3, <1>4, <1>5, <1>6, <1>7, <1>8, <1>9, <1>10, <1>11, <1>12,
     <1>13, <1>14, <1>15, <1>16
     DEF Next, User, UserContinues, Central, Poll, Find, Environment

LEMMA UserKnowsStep ==
  ASSUME TypeOK, UserKnows, [Next]_vars
  PROVE  UserKnows'
<1>1. /\ UserKnows
      /\ upc = [u \in Users |-> upc[u]] /\ uh = [u \in Users |-> uh[u]]
  BY DEF TypeOK
<1>2. ASSUME UNCHANGED <<upc, uh>> PROVE UserKnows'
  BY <1>1, <1>2 DEF UserKnows
<1>3. ASSUME NEW u \in Users,
             \/ OpenIgnored(u) \/ OpenLocks(u) \/ OpenIsDuplicate(u)
             \/ OpenRegisters(u) \/ StartFindsThread(u) \/ StartSetsStatus(u)
             \/ OpenReturns(u)
      PROVE  UserKnows'
  BY <1>3, <1>1
     DEF OpenIgnored, UserAt, OpenLocks, OpenIsDuplicate, OpenRegisters,
         StartFindsThread, StartSetsStatus, OpenReturns, UserKnows, HandlePc,
         ManagerPc
<1>4. ASSUME NEW u \in Users,
             \/ CloseIgnored(u) \/ CloseLocks(u) \/ CloseRemoves(u)
             \/ CloseTestsAttached(u) \/ CloseDetaches(u) \/ CloseReleases(u)
      PROVE  UserKnows'
  BY <1>4, <1>1
     DEF CloseIgnored, UserAt, CloseLocks, CloseRemoves, CloseTestsAttached,
         CloseDetaches, CloseReleases, UserKnows, HandlePc, ManagerPc
<1>5. ASSUME NEW u \in Users,
             \/ JoinSkips(u) \/ JoinStarts(u) \/ JoinEnds(u)
             \/ CloseUninits(u) \/ CloseReturns(u)
      PROVE  UserKnows'
  BY <1>5, <1>1
     DEF JoinSkips, UserAt, JoinStarts, JoinEnds, CloseUninits, CloseReturns,
         UserKnows, HandlePc, ManagerPc
<1>6. ASSUME NEW u \in Users,
             \/ ManagerOpenLocks(u) \/ ManagerOpenAdds(u)
             \/ ManagerCloseLocks(u) \/ ManagerCloseRemoves(u)
             \/ ManagerCloseReleases(u)
      PROVE  UserKnows'
  BY <1>6, <1>1
     DEF ManagerOpenLocks, ManagerOpenAdds, UserAt, ManagerCloseLocks,
         ManagerCloseRemoves, ManagerCloseReleases, UserKnows, HandlePc,
         ManagerPc
<1>7. ASSUME NEW u \in Users, NEW h \in Handles, NEW r \in Requests[h], OpenCalls(u, h, r)
      PROVE  UserKnows'
  BY <1>7, <1>1
     DEF OpenCalls, UserAt, UserKnows, HandlePc, ManagerPc
<1>8. ASSUME NEW u \in Users, NEW h \in Handles, CloseCalls(u, h)
      PROVE  UserKnows'
  BY <1>8, <1>1
     DEF CloseCalls, UserAt, UserKnows, HandlePc, ManagerPc
<1>9. ASSUME NEW u \in Users, NEW m \in Managers,
             \/ ManagerOpenCalls(u, m) \/ ManagerCloseCalls(u, m)
      PROVE  UserKnows'
  BY <1>9, <1>1
     DEF ManagerOpenCalls, UserAt, ManagerCloseCalls, UserKnows, HandlePc,
         ManagerPc
<1>10. ASSUME NEW u \in Users, NEW c \in Centrals, StartCreates(u, c)
       PROVE  UserKnows'
  BY <1>10, <1>1
     DEF StartCreates, UserAt, UserKnows, HandlePc, ManagerPc
<1>11. ASSUME NEW c \in Centrals,
              \/ LoopTests(c) \/ LoopEmpties(c) \/ LoopExits(c)
              \/ PollLocks(c) \/ PollStarts(c) \/ InitialActivates(c)
              \/ HandlerReturns(c) \/ TellingEnds(c) \/ PollBuildsList(c)
              \/ PollChecksError(c) \/ PollEnds(c) \/ DetachFindsNone(c)
              \/ DetachCloses(c) \/ DetachEnds(c) \/ FindStarts(c)
              \/ FindEnds(c) \/ MatchBuilds(c) \/ MatchNone(c)
              \/ MatchLocks(c) \/ AttachFails(c) \/ AttachBreaks(c) \/ AttachOpens(c)
              \/ AttachReturns(c)
       PROVE  UserKnows'
  BY <1>11, <1>2
     DEF LoopTests, LoopEmpties, CentralAt, LoopExits, PollLocks, PollStarts,
         InitialActivates, HandlerReturns, TellingEnds, PollBuildsList,
         PollChecksError, PollEnds, DetachFindsNone, DetachCloses, DetachEnds,
         FindStarts, FindEnds, MatchBuilds, MatchNone, Return, MatchLocks,
         AttachFails, AttachBreaks, AttachOpens, AttachReturns
<1>12. ASSUME NEW c \in Centrals, NEW m \in Managers,
              \/ InitialFinds(c, m) \/ Tells(c, m)
       PROVE  UserKnows'
  BY <1>12, <1>2
     DEF InitialFinds, CentralAt, Tells
<1>13. ASSUME NEW c \in Centrals, NEW d \in Devices,
              \/ PollAttaches(c, d) \/ PollKnows(c, d) \/ DetachForgets(c, d)
              \/ FindTakes(c, d)
       PROVE  UserKnows'
  BY <1>13, <1>2
     DEF PollAttaches, CentralAt, PollKnows, DetachForgets, FindTakes
<1>14. ASSUME NEW c \in Centrals, NEW h \in Handles,
              \/ DetachFinds(c, h) \/ MatchTries(c, h)
       PROVE  UserKnows'
  BY <1>14, <1>2
     DEF DetachFinds, CentralAt, MatchTries
<1>15. ASSUME NEW d \in Devices,
              \/ Unplug(d) \/ Plug(d)
       PROVE  UserKnows'
  BY <1>15, <1>2
     DEF Unplug, Plug
<1>16. ASSUME NEW h \in Handles, TransferFails(h)
       PROVE  UserKnows'
  BY <1>16, <1>2
     DEF TransferFails
<1>17. CASE UNCHANGED vars
  BY <1>17, <1>2
     DEF vars
<1>18. QED
  BY Zenon, <1>3, <1>4, <1>5, <1>6, <1>7, <1>8, <1>9, <1>10, <1>11, <1>12,
     <1>13, <1>14, <1>15, <1>16, <1>17
     DEF Next, User, UserContinues, Central, Poll, Find, Environment

LEMMA PollerKnowsStep ==
  ASSUME TypeOK, PollerHolds, PollerKnows, [Next]_vars
  PROVE  PollerKnows'
<1>1. /\ PollerHolds /\ PollerKnows /\ NoThread \notin Centrals
      /\ cpc = [c \in Centrals |-> cpc[c]]
      /\ dev \in Devices \cup {AnyPhidget}
  BY ThreadsAssumption DEF TypeOK
<1>2. ASSUME UNCHANGED <<cpc, dev, hand>> PROVE PollerKnows'
  BY <1>1, <1>2 DEF PollerKnows
<1>3. ASSUME NEW c \in Centrals,
             \/ LoopTests(c) \/ LoopEmpties(c) \/ LoopExits(c) \/ PollLocks(c)
             \/ PollStarts(c) \/ InitialActivates(c)
      PROVE  PollerKnows'
  BY <1>3, <1>1
     DEF LoopTests, LoopEmpties, CentralAt, LoopExits, PollLocks, PollStarts,
         InitialActivates, PollerHolds, PollerKnows, Holding, WithDevice,
         WithHandle
<1>4. ASSUME NEW c \in Centrals, HandlerReturns(c)
      PROVE  PollerKnows'
  BY <1>4, <1>1
     DEF HandlerReturns, PollerHolds, PollerKnows, Holding, WithDevice,
         WithHandle
<1>5. ASSUME NEW c \in Centrals,
             \/ TellingEnds(c) \/ PollBuildsList(c) \/ PollChecksError(c)
             \/ PollEnds(c) \/ DetachFindsNone(c) \/ DetachCloses(c)
             \/ DetachEnds(c)
      PROVE  PollerKnows'
  BY <1>5, <1>1
     DEF TellingEnds, PollBuildsList, CentralAt, PollChecksError, PollEnds,
         DetachFindsNone, DetachCloses, DetachEnds, PollerHolds, PollerKnows,
         Holding, WithDevice, WithHandle
<1>6. ASSUME NEW c \in Centrals,
             \/ FindStarts(c) \/ FindEnds(c) \/ MatchBuilds(c) \/ MatchNone(c)
             \/ MatchLocks(c) \/ AttachFails(c) \/ AttachBreaks(c) \/ AttachOpens(c)
             \/ AttachReturns(c)
      PROVE  PollerKnows'
  BY <1>6, <1>1
     DEF FindStarts, CentralAt, FindEnds, MatchBuilds, MatchNone, Return,
         MatchLocks, AttachFails, AttachBreaks, AttachOpens, AttachReturns, PollerHolds,
         PollerKnows, Holding, WithDevice, WithHandle
<1>7. ASSUME NEW c \in Centrals, NEW m \in Managers, InitialFinds(c, m)
      PROVE  PollerKnows'
  BY <1>7, <1>1
     DEF InitialFinds, CentralAt, PollerHolds, PollerKnows, Holding,
         WithDevice, WithHandle
<1>8. ASSUME NEW c \in Centrals, NEW m \in Managers, Tells(c, m)
      PROVE  PollerKnows'
  BY <1>8, <1>1
     DEF Tells, PollerHolds, PollerKnows, Holding, WithDevice, WithHandle
<1>9. ASSUME NEW c \in Centrals, NEW d \in Devices,
             \/ PollAttaches(c, d) \/ PollKnows(c, d) \/ DetachForgets(c, d)
             \/ FindTakes(c, d)
      PROVE  PollerKnows'
  BY <1>9, <1>1
     DEF PollAttaches, CentralAt, PollKnows, DetachForgets, FindTakes,
         PollerHolds, PollerKnows, Holding, WithDevice, WithHandle
<1>10. ASSUME NEW c \in Centrals, NEW h \in Handles,
              \/ DetachFinds(c, h) \/ MatchTries(c, h)
       PROVE  PollerKnows'
  BY <1>10, <1>1
     DEF DetachFinds, CentralAt, MatchTries, PollerHolds, PollerKnows,
         Holding, WithDevice, WithHandle
<1>11. ASSUME NEW u \in Users, NEW c \in Centrals, StartCreates(u, c)
       PROVE  PollerKnows'
  BY <1>11, <1>1
     DEF StartCreates, UserAt, PollerHolds, PollerKnows, Holding, WithDevice,
         WithHandle
<1>12. ASSUME NEW u \in Users,
              \/ OpenIgnored(u) \/ OpenLocks(u) \/ OpenIsDuplicate(u)
              \/ OpenRegisters(u) \/ StartFindsThread(u) \/ StartSetsStatus(u)
              \/ OpenReturns(u) \/ CloseIgnored(u) \/ CloseLocks(u)
              \/ CloseRemoves(u) \/ CloseTestsAttached(u) \/ CloseDetaches(u)
              \/ CloseReleases(u) \/ JoinSkips(u) \/ JoinStarts(u)
              \/ JoinEnds(u) \/ CloseUninits(u) \/ CloseReturns(u)
              \/ ManagerOpenLocks(u) \/ ManagerOpenAdds(u)
              \/ ManagerCloseLocks(u) \/ ManagerCloseRemoves(u)
              \/ ManagerCloseReleases(u)
       PROVE  PollerKnows'
  BY <1>12, <1>2
     DEF OpenIgnored, UserAt, OpenLocks, OpenIsDuplicate, OpenRegisters,
         StartFindsThread, StartSetsStatus, OpenReturns, CloseIgnored,
         CloseLocks, CloseRemoves, CloseTestsAttached, CloseDetaches,
         CloseReleases, JoinSkips, JoinStarts, JoinEnds, CloseUninits,
         CloseReturns, ManagerOpenLocks, ManagerOpenAdds, ManagerCloseLocks,
         ManagerCloseRemoves, ManagerCloseReleases
<1>13. ASSUME NEW u \in Users, NEW h \in Handles, NEW r \in Requests[h], OpenCalls(u, h, r)
       PROVE  PollerKnows'
  BY <1>13, <1>2
     DEF OpenCalls, UserAt
<1>14. ASSUME NEW u \in Users, NEW h \in Handles, CloseCalls(u, h)
       PROVE  PollerKnows'
  BY <1>14, <1>2
     DEF CloseCalls, UserAt
<1>15. ASSUME NEW u \in Users, NEW m \in Managers,
              \/ ManagerOpenCalls(u, m) \/ ManagerCloseCalls(u, m)
       PROVE  PollerKnows'
  BY <1>15, <1>2
     DEF ManagerOpenCalls, UserAt, ManagerCloseCalls
<1>16. ASSUME NEW d \in Devices,
              \/ Unplug(d) \/ Plug(d)
       PROVE  PollerKnows'
  BY <1>16, <1>2
     DEF Unplug, Plug
<1>17. ASSUME NEW h \in Handles, TransferFails(h)
       PROVE  PollerKnows'
  BY <1>17, <1>2
     DEF TransferFails
<1>18. CASE UNCHANGED vars
  BY <1>18, <1>2
     DEF vars
<1>19. QED
  BY Zenon, <1>3, <1>4, <1>5, <1>6, <1>7, <1>8, <1>9, <1>10, <1>11, <1>12,
     <1>13, <1>14, <1>15, <1>16, <1>17, <1>18
     DEF Next, User, UserContinues, Central, Poll, Find, Environment

\* The types, one part for each group of variables.
FlagTypes ==
    /\ opened \in [Handles \cup Managers -> BOOLEAN]
    /\ attached \in [Handles -> BOOLEAN] /\ usbError \in [Handles -> BOOLEAN]
    /\ gone \in [Handles -> BOOLEAN]
HandleTypes ==
    /\ specific \in [Handles -> {"any", "serial", "any_attached"}]
    /\ serial \in [Handles -> Devices \cup {AnyPhidget}]
    /\ request \in [Handles -> Devices \cup {AnyPhidget}]
    /\ openCloseLock \in
           [Handles \cup Managers -> Users \cup Centrals \cup {NoThread}]
ListTypes ==
    /\ activeDevices \subseteq Handles /\ older \in [Handles -> SUBSET Handles]
    /\ activeLock \in Centrals \cup {NoThread}
    /\ attachedDevices \subseteq Devices /\ attachedLock \in Centrals \cup {NoThread}
ManagerTypes ==
    /\ managers \subseteq Managers /\ activeManagers \in Int
    /\ mstate \in [Managers -> {"inactive", "activating", "active"}]
    /\ managerLock \in Centrals \cup {NoThread} /\ tell \subseteq Managers
    /\ told \in [Managers -> SUBSET Devices]
CentralTypes ==
    /\ plugged \subseteq Devices /\ usbReady \in BOOLEAN
    /\ mThread \in Centrals \cup {NoThread} /\ mStatus \in BOOLEAN
    /\ cpc \in [Centrals -> CentralPc]
    /\ polling \in BOOLEAN /\ todo \subseteq Devices /\ detachList \subseteq Devices
    /\ dev \in Devices \cup {AnyPhidget} /\ matches \subseteq Handles
    /\ hand \in Handles \cup Managers \cup {NoThread}
UserTypes ==
    /\ upc \in [Users -> UserPc]
    /\ uh \in [Users -> Handles \cup Managers \cup {NoThread}]
    /\ ureq \in [Users -> Devices \cup {AnyPhidget}]
    /\ ujoin \in [Users -> Centrals \cup {NoThread}]
    /\ calls \in Nat /\ faults \in Nat

LEMMA TypesAreParts ==
  TypeOK <=> /\ FlagTypes /\ HandleTypes /\ ListTypes /\ ManagerTypes
             /\ CentralTypes /\ UserTypes
BY Zenon DEF TypeOK, FlagTypes, HandleTypes, ListTypes, ManagerTypes, CentralTypes,
       UserTypes

LEMMA FlagTypesStep ==
  ASSUME FlagTypes, [Next]_vars
  PROVE  FlagTypes'
<1>1. FlagTypes
  OBVIOUS
<1>2. ASSUME UNCHANGED <<opened, attached, usbError, gone>> PROVE FlagTypes'
  BY <1>1, <1>2 DEF FlagTypes
<1>3. ASSUME NEW u \in Users, OpenReturns(u)
      PROVE  FlagTypes'
  BY <1>3, <1>1
     DEF OpenReturns, UserAt, FlagTypes
<1>4. ASSUME NEW u \in Users, CloseDetaches(u)
      PROVE  FlagTypes'
  BY <1>4, <1>1
     DEF CloseDetaches, UserAt, FlagTypes
<1>5. ASSUME NEW u \in Users, CloseReturns(u)
      PROVE  FlagTypes'
  BY <1>5, <1>1
     DEF CloseReturns, UserAt, FlagTypes
<1>6. ASSUME NEW c \in Centrals, DetachCloses(c)
      PROVE  FlagTypes'
  BY <1>6, <1>1
     DEF DetachCloses, CentralAt, FlagTypes
<1>7. ASSUME NEW c \in Centrals, DetachEnds(c)
      PROVE  FlagTypes'
  BY <1>7, <1>1
     DEF DetachEnds, CentralAt, FlagTypes
<1>8. ASSUME NEW c \in Centrals, AttachOpens(c)
      PROVE  FlagTypes'
  BY <1>8, <1>1
     DEF AttachOpens, CentralAt, FlagTypes
<1>9. ASSUME NEW d \in Devices, Unplug(d)
      PROVE  FlagTypes'
  BY <1>9, <1>1
     DEF Unplug, FlagTypes
<1>10. ASSUME NEW h \in Handles, TransferFails(h)
       PROVE  FlagTypes'
  BY <1>10, <1>1
     DEF TransferFails, FlagTypes
<1>11. ASSUME NEW u \in Users,
              \/ OpenIgnored(u) \/ OpenLocks(u) \/ OpenIsDuplicate(u)
              \/ OpenRegisters(u) \/ StartFindsThread(u) \/ StartSetsStatus(u)
              \/ CloseIgnored(u) \/ CloseLocks(u) \/ CloseRemoves(u)
              \/ CloseTestsAttached(u) \/ CloseReleases(u) \/ JoinSkips(u)
              \/ JoinStarts(u) \/ JoinEnds(u) \/ CloseUninits(u)
              \/ ManagerOpenLocks(u) \/ ManagerOpenAdds(u)
              \/ ManagerCloseLocks(u) \/ ManagerCloseRemoves(u)
              \/ ManagerCloseReleases(u)
       PROVE  FlagTypes'
  BY <1>11, <1>2
     DEF OpenIgnored, UserAt, OpenLocks, OpenIsDuplicate, OpenRegisters,
         StartFindsThread, StartSetsStatus, CloseIgnored, CloseLocks,
         CloseRemoves, CloseTestsAttached, CloseReleases, JoinSkips,
         JoinStarts, JoinEnds, CloseUninits, ManagerOpenLocks,
         ManagerOpenAdds, ManagerCloseLocks, ManagerCloseRemoves,
         ManagerCloseReleases
<1>12. ASSUME NEW u \in Users, NEW h \in Handles, NEW r \in Requests[h], OpenCalls(u, h, r)
       PROVE  FlagTypes'
  BY <1>12, <1>2
     DEF OpenCalls, UserAt
<1>13. ASSUME NEW u \in Users, NEW h \in Handles, CloseCalls(u, h)
       PROVE  FlagTypes'
  BY <1>13, <1>2
     DEF CloseCalls, UserAt
<1>14. ASSUME NEW u \in Users, NEW m \in Managers,
              \/ ManagerOpenCalls(u, m) \/ ManagerCloseCalls(u, m)
       PROVE  FlagTypes'
  BY <1>14, <1>2
     DEF ManagerOpenCalls, UserAt, ManagerCloseCalls
<1>15. ASSUME NEW u \in Users, NEW c \in Centrals, StartCreates(u, c)
       PROVE  FlagTypes'
  BY <1>15, <1>2
     DEF StartCreates, UserAt
<1>15b. ASSUME NEW c \in Centrals, AttachBreaks(c)
       PROVE  FlagTypes'
  BY <1>15b, <1>1
     DEF AttachBreaks, FlagTypes
<1>16. ASSUME NEW c \in Centrals,
              \/ LoopTests(c) \/ LoopEmpties(c) \/ LoopExits(c)
              \/ PollLocks(c) \/ PollStarts(c) \/ InitialActivates(c)
              \/ HandlerReturns(c) \/ TellingEnds(c) \/ PollBuildsList(c)
              \/ PollChecksError(c) \/ PollEnds(c) \/ DetachFindsNone(c)
              \/ FindStarts(c) \/ FindEnds(c) \/ MatchBuilds(c)
              \/ MatchNone(c) \/ MatchLocks(c) \/ AttachFails(c)
              \/ AttachReturns(c)
       PROVE  FlagTypes'
  BY <1>16, <1>2
     DEF LoopTests, LoopEmpties, CentralAt, LoopExits, PollLocks, PollStarts,
         InitialActivates, HandlerReturns, TellingEnds, PollBuildsList,
         PollChecksError, PollEnds, DetachFindsNone, FindStarts, FindEnds,
         MatchBuilds, MatchNone, Return, MatchLocks, AttachFails,
         AttachReturns
<1>17. ASSUME NEW c \in Centrals, NEW m \in Managers,
              \/ InitialFinds(c, m) \/ Tells(c, m)
       PROVE  FlagTypes'
  BY <1>17, <1>2
     DEF InitialFinds, CentralAt, Tells
<1>18. ASSUME NEW c \in Centrals, NEW d \in Devices,
              \/ PollAttaches(c, d) \/ PollKnows(c, d) \/ DetachForgets(c, d)
              \/ FindTakes(c, d)
       PROVE  FlagTypes'
  BY <1>18, <1>2
     DEF PollAttaches, CentralAt, PollKnows, DetachForgets, FindTakes
<1>19. ASSUME NEW c \in Centrals, NEW h \in Handles,
              \/ DetachFinds(c, h) \/ MatchTries(c, h)
       PROVE  FlagTypes'
  BY <1>19, <1>2
     DEF DetachFinds, CentralAt, MatchTries
<1>20. ASSUME NEW d \in Devices, Plug(d)
       PROVE  FlagTypes'
  BY <1>20, <1>2
     DEF Plug
<1>21. CASE UNCHANGED vars
  BY <1>21, <1>2
     DEF vars
<1>22. QED
  BY Zenon, <1>15b, <1>3, <1>4, <1>5, <1>6, <1>7, <1>8, <1>9, <1>10, <1>11, <1>12,
     <1>13, <1>14, <1>15, <1>16, <1>17, <1>18, <1>19, <1>20, <1>21
     DEF Next, User, UserContinues, Central, Poll, Find, Environment

LEMMA HandleTypesStep ==
  ASSUME TypeOK, [Next]_vars
  PROVE  HandleTypes'
<1>1. /\ HandleTypes
      /\ dev \in Devices \cup {AnyPhidget} /\ ureq \in [Users -> Devices \cup {AnyPhidget}]
  BY DEF TypeOK, HandleTypes
<1>2. ASSUME UNCHANGED <<specific, serial, request, openCloseLock>> PROVE HandleTypes'
  BY <1>1, <1>2 DEF HandleTypes
<1>3. ASSUME NEW u \in Users, OpenLocks(u)
      PROVE  HandleTypes'
  BY <1>3, <1>1
     DEF OpenLocks, UserAt, HandleTypes
<1>4. ASSUME NEW u \in Users, OpenReturns(u)
      PROVE  HandleTypes'
  BY <1>4, <1>1
     DEF OpenReturns, UserAt, HandleTypes
<1>5. ASSUME NEW u \in Users, CloseLocks(u)
      PROVE  HandleTypes'
  BY <1>5, <1>1
     DEF CloseLocks, UserAt, HandleTypes
<1>6. ASSUME NEW u \in Users, CloseReleases(u)
      PROVE  HandleTypes'
  BY <1>6, <1>1
     DEF CloseReleases, HandleTypes
<1>7. ASSUME NEW u \in Users, CloseReturns(u)
      PROVE  HandleTypes'
  BY <1>7, <1>1
     DEF CloseReturns, UserAt, HandleTypes
<1>8. ASSUME NEW u \in Users,
             \/ ManagerOpenLocks(u) \/ ManagerCloseLocks(u)
      PROVE  HandleTypes'
  BY <1>8, <1>1
     DEF ManagerOpenLocks, ManagerCloseLocks, HandleTypes
<1>9. ASSUME NEW c \in Centrals, NEW h \in Handles, DetachFinds(c, h)
      PROVE  HandleTypes'
  BY <1>9, <1>1
     DEF DetachFinds, CentralAt, HandleTypes
<1>10. ASSUME NEW c \in Centrals, MatchLocks(c)
       PROVE  HandleTypes'
  BY <1>10, <1>1
     DEF MatchLocks, CentralAt, HandleTypes
<1>11. ASSUME NEW c \in Centrals, AttachFails(c)
       PROVE  HandleTypes'
  BY <1>11, <1>1
     DEF AttachFails, CentralAt, HandleTypes
<1>11b. ASSUME NEW c \in Centrals, AttachBreaks(c)
       PROVE  HandleTypes'
  BY <1>11b, <1>1
     DEF AttachBreaks, CentralAt, HandleTypes
<1>12. ASSUME NEW c \in Centrals, AttachOpens(c)
       PROVE  HandleTypes'
  BY <1>12, <1>1
     DEF AttachOpens, CentralAt, HandleTypes
<1>13. ASSUME NEW c \in Centrals, AttachReturns(c)
       PROVE  HandleTypes'
  BY <1>13, <1>1
     DEF AttachReturns, Return, HandleTypes
<1>14. ASSUME NEW u \in Users,
              \/ OpenIgnored(u) \/ OpenIsDuplicate(u) \/ OpenRegisters(u)
              \/ StartFindsThread(u) \/ StartSetsStatus(u) \/ CloseIgnored(u)
              \/ CloseRemoves(u) \/ CloseTestsAttached(u) \/ CloseDetaches(u)
              \/ JoinSkips(u) \/ JoinStarts(u) \/ JoinEnds(u)
              \/ CloseUninits(u) \/ ManagerOpenAdds(u)
              \/ ManagerCloseRemoves(u) \/ ManagerCloseReleases(u)
       PROVE  HandleTypes'
  BY <1>14, <1>2
     DEF OpenIgnored, UserAt, OpenIsDuplicate, OpenRegisters,
         StartFindsThread, StartSetsStatus, CloseIgnored, CloseRemoves,
         CloseTestsAttached, CloseDetaches, JoinSkips, JoinStarts, JoinEnds,
         CloseUninits, ManagerOpenAdds, ManagerCloseRemoves,
         ManagerCloseReleases
<1>15. ASSUME NEW u \in Users, NEW h \in Handles, NEW r \in Requests[h], OpenCalls(u, h, r)
       PROVE  HandleTypes'
  BY <1>15, <1>2
     DEF OpenCalls, UserAt
<1>16. ASSUME NEW u \in Users, NEW h \in Handles, CloseCalls(u, h)
       PROVE  HandleTypes'
  BY <1>16, <1>2
     DEF CloseCalls, UserAt
<1>17. ASSUME NEW u \in Users, NEW m \in Managers,
              \/ ManagerOpenCalls(u, m) \/ ManagerCloseCalls(u, m)
       PROVE  HandleTypes'
  BY <1>17, <1>2
     DEF ManagerOpenCalls, UserAt, ManagerCloseCalls
<1>18. ASSUME NEW u \in Users, NEW c \in Centrals, StartCreates(u, c)
       PROVE  HandleTypes'
  BY <1>18, <1>2
     DEF StartCreates, UserAt
<1>19. ASSUME NEW c \in Centrals,
              \/ LoopTests(c) \/ LoopEmpties(c) \/ LoopExits(c)
              \/ PollLocks(c) \/ PollStarts(c) \/ InitialActivates(c)
              \/ HandlerReturns(c) \/ TellingEnds(c) \/ PollBuildsList(c)
              \/ PollChecksError(c) \/ PollEnds(c) \/ DetachFindsNone(c)
              \/ DetachCloses(c) \/ DetachEnds(c) \/ FindStarts(c)
              \/ FindEnds(c) \/ MatchBuilds(c) \/ MatchNone(c)
       PROVE  HandleTypes'
  BY <1>19, <1>2
     DEF LoopTests, LoopEmpties, CentralAt, LoopExits, PollLocks, PollStarts,
         InitialActivates, HandlerReturns, TellingEnds, PollBuildsList,
         PollChecksError, PollEnds, DetachFindsNone, DetachCloses, DetachEnds,
         FindStarts, FindEnds, MatchBuilds, MatchNone, Return
<1>20. ASSUME NEW c \in Centrals, NEW m \in Managers,
              \/ InitialFinds(c, m) \/ Tells(c, m)
       PROVE  HandleTypes'
  BY <1>20, <1>2
     DEF InitialFinds, CentralAt, Tells
<1>21. ASSUME NEW c \in Centrals, NEW d \in Devices,
              \/ PollAttaches(c, d) \/ PollKnows(c, d) \/ DetachForgets(c, d)
              \/ FindTakes(c, d)
       PROVE  HandleTypes'
  BY <1>21, <1>2
     DEF PollAttaches, CentralAt, PollKnows, DetachForgets, FindTakes
<1>22. ASSUME NEW c \in Centrals, NEW h \in Handles, MatchTries(c, h)
       PROVE  HandleTypes'
  BY <1>22, <1>2
     DEF MatchTries, CentralAt
<1>23. ASSUME NEW d \in Devices,
              \/ Unplug(d) \/ Plug(d)
       PROVE  HandleTypes'
  BY <1>23, <1>2
     DEF Unplug, Plug
<1>24. ASSUME NEW h \in Handles, TransferFails(h)
       PROVE  HandleTypes'
  BY <1>24, <1>2
     DEF TransferFails
<1>25. CASE UNCHANGED vars
  BY <1>25, <1>2
     DEF vars
<1>26. QED
  BY Zenon, <1>3, <1>4, <1>5, <1>6, <1>7, <1>8, <1>9, <1>10, <1>11, <1>11b, <1>12,
     <1>13, <1>14, <1>15, <1>16, <1>17, <1>18, <1>19, <1>20, <1>21, <1>22,
     <1>23, <1>24, <1>25
     DEF Next, User, UserContinues, Central, Poll, Find, Environment

LEMMA ListTypesStep ==
  ASSUME TypeOK, UserKnows, [Next]_vars
  PROVE  ListTypes'
<1>1. /\ ListTypes
      /\ \A u \in Users : upc[u] = "register" => uh[u] \in Handles
  BY DEF TypeOK, ListTypes, UserKnows, HandlePc
<1>2. ASSUME UNCHANGED <<listVars, activeLock, attachedLock>> PROVE ListTypes'
  BY <1>1, <1>2 DEF ListTypes
<1>3. ASSUME NEW u \in Users, OpenRegisters(u)
      PROVE  ListTypes'
  BY <1>3, <1>1
     DEF OpenRegisters, UserAt, ListTypes
<1>4. ASSUME NEW u \in Users, CloseRemoves(u)
      PROVE  ListTypes'
  BY <1>4, <1>1
     DEF CloseRemoves, UserAt, ListTypes
<1>5. ASSUME NEW c \in Centrals,
             \/ PollStarts(c) \/ InitialActivates(c) \/ HandlerReturns(c)
             \/ PollEnds(c) \/ DetachCloses(c) \/ FindStarts(c) \/ FindEnds(c)
             \/ LoopEmpties(c)
      PROVE  ListTypes'
  BY <1>5, <1>1
     DEF PollStarts, CentralAt, InitialActivates, HandlerReturns, PollEnds,
         DetachCloses, FindStarts, FindEnds, LoopEmpties, ListTypes
<1>6. ASSUME NEW c \in Centrals, NEW m \in Managers, Tells(c, m)
      PROVE  ListTypes'
  BY <1>6, <1>1
     DEF Tells, ListTypes
<1>7. ASSUME NEW c \in Centrals, NEW d \in Devices,
             \/ PollAttaches(c, d) \/ DetachForgets(c, d)
      PROVE  ListTypes'
  BY <1>7, <1>1
     DEF PollAttaches, CentralAt, DetachForgets, ListTypes
<1>8. ASSUME NEW c \in Centrals, NEW h \in Handles, DetachFinds(c, h)
      PROVE  ListTypes'
  BY <1>8, <1>1
     DEF DetachFinds, CentralAt, ListTypes
<1>9. ASSUME NEW u \in Users,
             \/ OpenIgnored(u) \/ OpenLocks(u) \/ OpenIsDuplicate(u)
             \/ StartFindsThread(u) \/ StartSetsStatus(u) \/ OpenReturns(u)
             \/ CloseIgnored(u) \/ CloseLocks(u) \/ CloseTestsAttached(u)
             \/ CloseDetaches(u) \/ CloseReleases(u) \/ JoinSkips(u)
             \/ JoinStarts(u) \/ JoinEnds(u) \/ CloseUninits(u)
             \/ CloseReturns(u) \/ ManagerOpenLocks(u) \/ ManagerOpenAdds(u)
             \/ ManagerCloseLocks(u) \/ ManagerCloseRemoves(u)
             \/ ManagerCloseReleases(u)
      PROVE  ListTypes'
  BY <1>9, <1>2
     DEF OpenIgnored, UserAt, OpenLocks, OpenIsDuplicate, StartFindsThread,
         StartSetsStatus, OpenReturns, CloseIgnored, CloseLocks,
         CloseTestsAttached, CloseDetaches, CloseReleases, JoinSkips,
         JoinStarts, JoinEnds, CloseUninits, CloseReturns, ManagerOpenLocks,
         ManagerOpenAdds, ManagerCloseLocks, ManagerCloseRemoves,
         ManagerCloseReleases
<1>10. ASSUME NEW u \in Users, NEW h \in Handles, NEW r \in Requests[h], OpenCalls(u, h, r)
       PROVE  ListTypes'
  BY <1>10, <1>2
     DEF OpenCalls, UserAt
<1>11. ASSUME NEW u \in Users, NEW h \in Handles, CloseCalls(u, h)
       PROVE  ListTypes'
  BY <1>11, <1>2
     DEF CloseCalls, UserAt
<1>12. ASSUME NEW u \in Users, NEW m \in Managers,
              \/ ManagerOpenCalls(u, m) \/ ManagerCloseCalls(u, m)
       PROVE  ListTypes'
  BY <1>12, <1>2
     DEF ManagerOpenCalls, UserAt, ManagerCloseCalls
<1>13. ASSUME NEW u \in Users, NEW c \in Centrals, StartCreates(u, c)
       PROVE  ListTypes'
  BY <1>13, <1>2
     DEF StartCreates, UserAt
<1>14. ASSUME NEW c \in Centrals,
              \/ LoopTests(c) \/ LoopExits(c) \/ PollLocks(c)
              \/ TellingEnds(c) \/ PollBuildsList(c) \/ PollChecksError(c)
              \/ DetachFindsNone(c) \/ DetachEnds(c) \/ MatchBuilds(c)
              \/ MatchNone(c) \/ MatchLocks(c) \/ AttachFails(c) \/ AttachBreaks(c)
              \/ AttachOpens(c) \/ AttachReturns(c)
       PROVE  ListTypes'
  BY <1>14, <1>2
     DEF LoopTests, LoopExits, CentralAt, PollLocks, TellingEnds,
         PollBuildsList, PollChecksError, DetachFindsNone, DetachEnds,
         MatchBuilds, MatchNone, Return, MatchLocks, AttachFails, AttachBreaks, AttachOpens,
         AttachReturns
<1>15. ASSUME NEW c \in Centrals, NEW m \in Managers, InitialFinds(c, m)
       PROVE  ListTypes'
  BY <1>15, <1>2
     DEF InitialFinds, CentralAt
<1>16. ASSUME NEW c \in Centrals, NEW d \in Devices,
              \/ PollKnows(c, d) \/ FindTakes(c, d)
       PROVE  ListTypes'
  BY <1>16, <1>2
     DEF PollKnows, CentralAt, FindTakes
<1>17. ASSUME NEW c \in Centrals, NEW h \in Handles, MatchTries(c, h)
       PROVE  ListTypes'
  BY <1>17, <1>2
     DEF MatchTries, CentralAt
<1>18. ASSUME NEW d \in Devices,
              \/ Unplug(d) \/ Plug(d)
       PROVE  ListTypes'
  BY <1>18, <1>2
     DEF Unplug, Plug
<1>19. ASSUME NEW h \in Handles, TransferFails(h)
       PROVE  ListTypes'
  BY <1>19, <1>2
     DEF TransferFails
<1>20. CASE UNCHANGED vars
  BY <1>20, <1>2
     DEF vars
<1>21. QED
  BY Zenon, <1>3, <1>4, <1>5, <1>6, <1>7, <1>8, <1>9, <1>10, <1>11, <1>12,
     <1>13, <1>14, <1>15, <1>16, <1>17, <1>18, <1>19, <1>20
     DEF Next, User, UserContinues, Central, Poll, Find, Environment

LEMMA ManagerTypesStep ==
  ASSUME TypeOK, PollerKnows, UserKnows, [Next]_vars
  PROVE  ManagerTypes'
<1>1. /\ ManagerTypes /\ attachedDevices \subseteq Devices
      /\ \A u \in Users : upc[u] \in {"madd", "mremove"} => uh[u] \in Managers
      /\ \A c \in Centrals : cpc[c] \in {"arrival", "departure"} => dev \in Devices
  BY DEF TypeOK, ManagerTypes, UserKnows, ManagerPc, PollerKnows, WithDevice
<1>2. ASSUME UNCHANGED managerVars PROVE ManagerTypes'
  BY <1>1, <1>2 DEF ManagerTypes
<1>3. ASSUME NEW u \in Users, ManagerOpenAdds(u)
      PROVE  ManagerTypes'
  BY <1>3, <1>1
     DEF ManagerOpenAdds, UserAt, ManagerTypes
<1>4. ASSUME NEW u \in Users, ManagerCloseLocks(u)
      PROVE  ManagerTypes'
  BY <1>4, <1>1
     DEF ManagerCloseLocks, ManagerTypes
<1>5. ASSUME NEW u \in Users, ManagerCloseRemoves(u)
      PROVE  ManagerTypes'
  BY <1>5, <1>1
     DEF ManagerCloseRemoves, UserAt, ManagerTypes
<1>6. ASSUME NEW c \in Centrals,
             \/ PollLocks(c) \/ PollEnds(c)
      PROVE  ManagerTypes'
  BY <1>6, <1>1
     DEF PollLocks, CentralAt, PollEnds, ManagerTypes
<1>7. ASSUME NEW c \in Centrals, InitialActivates(c)
      PROVE  ManagerTypes'
  BY <1>7, <1>1
     DEF InitialActivates, CentralAt, ManagerTypes
<1>8. ASSUME NEW c \in Centrals, NEW m \in Managers, Tells(c, m)
      PROVE  ManagerTypes'
  BY <1>8, <1>1
     DEF Tells, ManagerTypes
<1>9. ASSUME NEW c \in Centrals, NEW d \in Devices,
             \/ PollAttaches(c, d) \/ DetachForgets(c, d)
      PROVE  ManagerTypes'
  BY <1>9, <1>1
     DEF PollAttaches, CentralAt, DetachForgets, ManagerTypes
<1>10. ASSUME NEW u \in Users,
              \/ OpenIgnored(u) \/ OpenLocks(u) \/ OpenIsDuplicate(u)
              \/ OpenRegisters(u) \/ StartFindsThread(u) \/ StartSetsStatus(u)
              \/ OpenReturns(u) \/ CloseIgnored(u) \/ CloseLocks(u)
              \/ CloseRemoves(u) \/ CloseTestsAttached(u) \/ CloseDetaches(u)
              \/ CloseReleases(u) \/ JoinSkips(u) \/ JoinStarts(u)
              \/ JoinEnds(u) \/ CloseUninits(u) \/ CloseReturns(u)
              \/ ManagerOpenLocks(u) \/ ManagerCloseReleases(u)
       PROVE  ManagerTypes'
  BY <1>10, <1>2
     DEF OpenIgnored, UserAt, OpenLocks, OpenIsDuplicate, OpenRegisters,
         StartFindsThread, StartSetsStatus, OpenReturns, CloseIgnored,
         CloseLocks, CloseRemoves, CloseTestsAttached, CloseDetaches,
         CloseReleases, JoinSkips, JoinStarts, JoinEnds, CloseUninits,
         CloseReturns, ManagerOpenLocks, ManagerCloseReleases
<1>11. ASSUME NEW u \in Users, NEW h \in Handles, NEW r \in Requests[h], OpenCalls(u, h, r)
       PROVE  ManagerTypes'
  BY <1>11, <1>2
     DEF OpenCalls, UserAt
<1>12. ASSUME NEW u \in Users, NEW h \in Handles, CloseCalls(u, h)
       PROVE  ManagerTypes'
  BY <1>12, <1>2
     DEF CloseCalls, UserAt
<1>13. ASSUME NEW u \in Users, NEW m \in Managers,
              \/ ManagerOpenCalls(u, m) \/ ManagerCloseCalls(u, m)
       PROVE  ManagerTypes'
  BY <1>13, <1>2
     DEF ManagerOpenCalls, UserAt, ManagerCloseCalls
<1>14. ASSUME NEW u \in Users, NEW c \in Centrals, StartCreates(u, c)
       PROVE  ManagerTypes'
  BY <1>14, <1>2
     DEF StartCreates, UserAt
<1>15. ASSUME NEW c \in Centrals,
              \/ LoopTests(c) \/ LoopEmpties(c) \/ LoopExits(c)
              \/ PollStarts(c) \/ HandlerReturns(c) \/ TellingEnds(c)
              \/ PollBuildsList(c) \/ PollChecksError(c) \/ DetachFindsNone(c)
              \/ DetachCloses(c) \/ DetachEnds(c) \/ FindStarts(c)
              \/ FindEnds(c) \/ MatchBuilds(c) \/ MatchNone(c)
              \/ MatchLocks(c) \/ AttachFails(c) \/ AttachBreaks(c) \/ AttachOpens(c)
              \/ AttachReturns(c)
       PROVE  ManagerTypes'
  BY <1>15, <1>2
     DEF LoopTests, LoopEmpties, CentralAt, LoopExits, PollStarts,
         HandlerReturns, TellingEnds, PollBuildsList, PollChecksError,
         DetachFindsNone, DetachCloses, DetachEnds, FindStarts, FindEnds,
         MatchBuilds, MatchNone, Return, MatchLocks, AttachFails, AttachBreaks, AttachOpens,
         AttachReturns
<1>16. ASSUME NEW c \in Centrals, NEW m \in Managers, InitialFinds(c, m)
       PROVE  ManagerTypes'
  BY <1>16, <1>2
     DEF InitialFinds, CentralAt
<1>17. ASSUME NEW c \in Centrals, NEW d \in Devices,
              \/ PollKnows(c, d) \/ FindTakes(c, d)
       PROVE  ManagerTypes'
  BY <1>17, <1>2
     DEF PollKnows, CentralAt, FindTakes
<1>18. ASSUME NEW c \in Centrals, NEW h \in Handles,
              \/ DetachFinds(c, h) \/ MatchTries(c, h)
       PROVE  ManagerTypes'
  BY <1>18, <1>2
     DEF DetachFinds, CentralAt, MatchTries
<1>19. ASSUME NEW d \in Devices,
              \/ Unplug(d) \/ Plug(d)
       PROVE  ManagerTypes'
  BY <1>19, <1>2
     DEF Unplug, Plug
<1>20. ASSUME NEW h \in Handles, TransferFails(h)
       PROVE  ManagerTypes'
  BY <1>20, <1>2
     DEF TransferFails
<1>21. CASE UNCHANGED vars
  BY <1>21, <1>2
     DEF vars
<1>22. QED
  BY Zenon, <1>3, <1>4, <1>5, <1>6, <1>7, <1>8, <1>9, <1>10, <1>11, <1>12,
     <1>13, <1>14, <1>15, <1>16, <1>17, <1>18, <1>19, <1>20, <1>21
     DEF Next, User, UserContinues, Central, Poll, Find, Environment

LEMMA CentralTypesStep ==
  ASSUME TypeOK, PollerKnows, [Next]_vars
  PROVE  CentralTypes'
<1>1. /\ CentralTypes /\ attachedDevices \subseteq Devices /\ activeDevices \subseteq Handles
      /\ \A c \in Centrals : cpc[c] = "check" => dev \in Devices
  BY DEF TypeOK, CentralTypes, PollerKnows, WithDevice
<1>2. ASSUME UNCHANGED <<plugged, usbReady, threadVars, cpc, pollVars>> PROVE CentralTypes'
  BY <1>1, <1>2 DEF CentralTypes
<1>3. ASSUME NEW u \in Users,
             \/ StartSetsStatus(u) \/ JoinSkips(u) \/ JoinEnds(u)
             \/ CloseUninits(u)
      PROVE  CentralTypes'
  BY <1>3, <1>1
     DEF StartSetsStatus, UserAt, JoinSkips, JoinEnds, CloseUninits,
         CentralTypes, CentralPc
<1>4. ASSUME NEW u \in Users, NEW c \in Centrals, StartCreates(u, c)
      PROVE  CentralTypes'
  BY <1>4, <1>1
     DEF StartCreates, UserAt, CentralTypes, CentralPc
<1>5. ASSUME NEW c \in Centrals,
             \/ LoopTests(c) \/ LoopEmpties(c) \/ LoopExits(c)
      PROVE  CentralTypes'
  BY <1>5, <1>1
     DEF LoopTests, LoopEmpties, CentralAt, LoopExits, CentralTypes, CentralPc
<1>6. ASSUME NEW c \in Centrals,
             \/ PollLocks(c) \/ PollStarts(c) \/ InitialActivates(c)
      PROVE  CentralTypes'
  BY <1>6, <1>1
     DEF PollLocks, CentralAt, PollStarts, InitialActivates, CentralTypes,
         CentralPc
<1>7. ASSUME NEW c \in Centrals,
             \/ HandlerReturns(c) \/ TellingEnds(c)
      PROVE  CentralTypes'
  BY <1>7, <1>1
     DEF HandlerReturns, TellingEnds, CentralTypes, CentralPc
<1>8. ASSUME NEW c \in Centrals, PollBuildsList(c)
      PROVE  CentralTypes'
  BY <1>8, <1>1
     DEF PollBuildsList, CentralAt, CentralTypes, CentralPc
<1>9. ASSUME NEW c \in Centrals, PollChecksError(c)
      PROVE  CentralTypes'
  BY <1>9, <1>1
     DEF PollChecksError, CentralAt, CentralTypes, CentralPc
<1>10. ASSUME NEW c \in Centrals,
              \/ PollEnds(c) \/ DetachFindsNone(c) \/ DetachCloses(c)
              \/ DetachEnds(c)
       PROVE  CentralTypes'
  BY <1>10, <1>1
     DEF PollEnds, CentralAt, DetachFindsNone, DetachCloses, DetachEnds,
         CentralTypes, CentralPc
<1>11. ASSUME NEW c \in Centrals,
              \/ FindStarts(c) \/ FindEnds(c)
       PROVE  CentralTypes'
  BY <1>11, <1>1
     DEF FindStarts, CentralAt, FindEnds, CentralTypes, CentralPc
<1>12. ASSUME NEW c \in Centrals, MatchBuilds(c)
       PROVE  CentralTypes'
  BY <1>12, <1>1
     DEF MatchBuilds, CentralAt, CentralTypes, CentralPc
<1>13. ASSUME NEW c \in Centrals,
              \/ MatchNone(c) \/ MatchLocks(c)
       PROVE  CentralTypes'
  BY <1>13, <1>1
     DEF MatchNone, Return, MatchLocks, CentralAt, CentralTypes, CentralPc
<1>14. ASSUME NEW c \in Centrals, AttachFails(c)
       PROVE  CentralTypes'
  BY <1>14, <1>1
     DEF AttachFails, CentralAt, CentralTypes, CentralPc
<1>14b. ASSUME NEW c \in Centrals, AttachBreaks(c)
       PROVE  CentralTypes'
  BY <1>14b, <1>1
     DEF AttachBreaks, CentralAt, CentralTypes, CentralPc
<1>15. ASSUME NEW c \in Centrals, AttachOpens(c)
       PROVE  CentralTypes'
  BY <1>15, <1>1
     DEF AttachOpens, CentralAt, CentralTypes, CentralPc
<1>16. ASSUME NEW c \in Centrals, AttachReturns(c)
       PROVE  CentralTypes'
  BY <1>16, <1>1
     DEF AttachReturns, Return, CentralTypes, CentralPc
<1>17. ASSUME NEW c \in Centrals, NEW m \in Managers, InitialFinds(c, m)
       PROVE  CentralTypes'
  BY <1>17, <1>1
     DEF InitialFinds, CentralAt, CentralTypes, CentralPc
<1>18. ASSUME NEW c \in Centrals, NEW m \in Managers, Tells(c, m)
       PROVE  CentralTypes'
  BY <1>18, <1>1
     DEF Tells, CentralTypes, CentralPc
<1>19. ASSUME NEW c \in Centrals, NEW d \in Devices,
              \/ PollAttaches(c, d) \/ PollKnows(c, d)
       PROVE  CentralTypes'
  BY <1>19, <1>1
     DEF PollAttaches, CentralAt, PollKnows, CentralTypes, CentralPc
<1>20. ASSUME NEW c \in Centrals, NEW d \in Devices,
              \/ DetachForgets(c, d) \/ FindTakes(c, d)
       PROVE  CentralTypes'
  BY <1>20, <1>1
     DEF DetachForgets, CentralAt, FindTakes, CentralTypes, CentralPc
<1>21. ASSUME NEW c \in Centrals, NEW h \in Handles, DetachFinds(c, h)
       PROVE  CentralTypes'
  BY <1>21, <1>1
     DEF DetachFinds, CentralAt, CentralTypes, CentralPc
<1>22. ASSUME NEW c \in Centrals, NEW h \in Handles, MatchTries(c, h)
       PROVE  CentralTypes'
  BY <1>22, <1>1
     DEF MatchTries, CentralAt, CentralTypes, CentralPc
<1>23. ASSUME NEW d \in Devices, Unplug(d)
       PROVE  CentralTypes'
  BY <1>23, <1>1
     DEF Unplug, CentralTypes, CentralPc
<1>24. ASSUME NEW d \in Devices, Plug(d)
       PROVE  CentralTypes'
  BY <1>24, <1>1
     DEF Plug, CentralTypes, CentralPc
<1>25. ASSUME NEW u \in Users,
              \/ OpenIgnored(u) \/ OpenLocks(u) \/ OpenIsDuplicate(u)
              \/ OpenRegisters(u) \/ StartFindsThread(u) \/ OpenReturns(u)
              \/ CloseIgnored(u) \/ CloseLocks(u) \/ CloseRemoves(u)
              \/ CloseTestsAttached(u) \/ CloseDetaches(u) \/ CloseReleases(u)
              \/ JoinStarts(u) \/ CloseReturns(u) \/ ManagerOpenLocks(u)
              \/ ManagerOpenAdds(u) \/ ManagerCloseLocks(u)
              \/ ManagerCloseRemoves(u) \/ ManagerCloseReleases(u)
       PROVE  CentralTypes'
  BY <1>25, <1>2
     DEF OpenIgnored, UserAt, OpenLocks, OpenIsDuplicate, OpenRegisters,
         StartFindsThread, OpenReturns, CloseIgnored, CloseLocks,
         CloseRemoves, CloseTestsAttached, CloseDetaches, CloseReleases,
         JoinStarts, CloseReturns, ManagerOpenLocks, ManagerOpenAdds,
         ManagerCloseLocks, ManagerCloseRemoves, ManagerCloseReleases
<1>26. ASSUME NEW u \in Users, NEW h \in Handles, NEW r \in Requests[h], OpenCalls(u, h, r)
       PROVE  CentralTypes'
  BY <1>26, <1>2
     DEF OpenCalls, UserAt
<1>27. ASSUME NEW u \in Users, NEW h \in Handles, CloseCalls(u, h)
       PROVE  CentralTypes'
  BY <1>27, <1>2
     DEF CloseCalls, UserAt
<1>28. ASSUME NEW u \in Users, NEW m \in Managers,
              \/ ManagerOpenCalls(u, m) \/ ManagerCloseCalls(u, m)
       PROVE  CentralTypes'
  BY <1>28, <1>2
     DEF ManagerOpenCalls, UserAt, ManagerCloseCalls
<1>29. ASSUME NEW h \in Handles, TransferFails(h)
       PROVE  CentralTypes'
  BY <1>29, <1>2
     DEF TransferFails
<1>30. CASE UNCHANGED vars
  BY <1>30, <1>2
     DEF vars
<1>31. QED
  BY Zenon, <1>3, <1>4, <1>5, <1>6, <1>7, <1>8, <1>9, <1>10, <1>11, <1>12,
     <1>13, <1>14, <1>14b, <1>15, <1>16, <1>17, <1>18, <1>19, <1>20, <1>21, <1>22,
     <1>23, <1>24, <1>25, <1>26, <1>27, <1>28, <1>29, <1>30
     DEF Next, User, UserContinues, Central, Poll, Find, Environment

LEMMA UserTypesStep ==
  ASSUME TypeOK, [Next]_vars
  PROVE  UserTypes'
<1>1. /\ UserTypes /\ mThread \in Centrals \cup {NoThread}
      /\ \A h \in Handles : Requests[h] \subseteq Devices \cup {AnyPhidget}
  BY RequestsAssumption DEF TypeOK, UserTypes
<1>2. ASSUME UNCHANGED <<userVars, boundVars>> PROVE UserTypes'
  BY <1>1, <1>2 DEF UserTypes
<1>3. ASSUME NEW u \in Users,
             \/ OpenIgnored(u) \/ OpenLocks(u)
      PROVE  UserTypes'
  BY <1>3, <1>1
     DEF OpenIgnored, UserAt, OpenLocks, UserTypes, UserPc
<1>4. ASSUME NEW u \in Users,
             \/ OpenIsDuplicate(u) \/ OpenRegisters(u)
      PROVE  UserTypes'
  BY <1>4, <1>1
     DEF OpenIsDuplicate, UserAt, OpenRegisters, UserTypes, UserPc
<1>5. ASSUME NEW u \in Users,
             \/ StartFindsThread(u) \/ StartSetsStatus(u) \/ OpenReturns(u)
      PROVE  UserTypes'
  BY <1>5, <1>1
     DEF StartFindsThread, StartSetsStatus, UserAt, OpenReturns, UserTypes,
         UserPc
<1>6. ASSUME NEW u \in Users,
             \/ CloseIgnored(u) \/ CloseLocks(u)
      PROVE  UserTypes'
  BY <1>6, <1>1
     DEF CloseIgnored, UserAt, CloseLocks, UserTypes, UserPc
<1>7. ASSUME NEW u \in Users, CloseRemoves(u)
      PROVE  UserTypes'
  BY <1>7, <1>1
     DEF CloseRemoves, UserAt, UserTypes, UserPc
<1>8. ASSUME NEW u \in Users,
             \/ CloseTestsAttached(u) \/ CloseDetaches(u) \/ CloseReleases(u)
      PROVE  UserTypes'
  BY <1>8, <1>1
     DEF CloseTestsAttached, CloseDetaches, UserAt, CloseReleases, UserTypes,
         UserPc
<1>9. ASSUME NEW u \in Users,
             \/ JoinSkips(u) \/ JoinStarts(u) \/ JoinEnds(u)
             \/ CloseUninits(u) \/ CloseReturns(u)
      PROVE  UserTypes'
  BY <1>9, <1>1
     DEF JoinSkips, UserAt, JoinStarts, JoinEnds, CloseUninits, CloseReturns,
         UserTypes, UserPc
<1>10. ASSUME NEW u \in Users,
              \/ ManagerOpenLocks(u) \/ ManagerOpenAdds(u)
              \/ ManagerCloseLocks(u) \/ ManagerCloseRemoves(u)
              \/ ManagerCloseReleases(u)
       PROVE  UserTypes'
  BY <1>10, <1>1
     DEF ManagerOpenLocks, ManagerOpenAdds, UserAt, ManagerCloseLocks,
         ManagerCloseRemoves, ManagerCloseReleases, UserTypes, UserPc
<1>11. ASSUME NEW u \in Users, NEW h \in Handles, NEW r \in Requests[h], OpenCalls(u, h, r)
       PROVE  UserTypes'
  BY <1>11, <1>1
     DEF OpenCalls, UserAt, UserTypes, UserPc
<1>12. ASSUME NEW u \in Users, NEW h \in Handles, CloseCalls(u, h)
       PROVE  UserTypes'
  BY <1>12, <1>1
     DEF CloseCalls, UserAt, UserTypes, UserPc
<1>13. ASSUME NEW u \in Users, NEW m \in Managers,
              \/ ManagerOpenCalls(u, m) \/ ManagerCloseCalls(u, m)
       PROVE  UserTypes'
  BY <1>13, <1>1
     DEF ManagerOpenCalls, UserAt, ManagerCloseCalls, UserTypes, UserPc
<1>14. ASSUME NEW u \in Users, NEW c \in Centrals, StartCreates(u, c)
       PROVE  UserTypes'
  BY <1>14, <1>1
     DEF StartCreates, UserAt, UserTypes, UserPc
<1>15. ASSUME NEW d \in Devices, Unplug(d)
       PROVE  UserTypes'
  BY <1>15, <1>1
     DEF Unplug, UserTypes, UserPc
<1>16. ASSUME NEW h \in Handles, TransferFails(h)
       PROVE  UserTypes'
  BY <1>16, <1>1
     DEF TransferFails, UserTypes, UserPc
<1>16b. ASSUME NEW c \in Centrals, AttachBreaks(c)
       PROVE  UserTypes'
  BY <1>16b, <1>1
     DEF AttachBreaks, UserTypes, UserPc
<1>17. ASSUME NEW c \in Centrals,
              \/ LoopTests(c) \/ LoopEmpties(c) \/ LoopExits(c)
              \/ PollLocks(c) \/ PollStarts(c) \/ InitialActivates(c)
              \/ HandlerReturns(c) \/ TellingEnds(c) \/ PollBuildsList(c)
              \/ PollChecksError(c) \/ PollEnds(c) \/ DetachFindsNone(c)
              \/ DetachCloses(c) \/ DetachEnds(c) \/ FindStarts(c)
              \/ FindEnds(c) \/ MatchBuilds(c) \/ MatchNone(c)
              \/ MatchLocks(c) \/ AttachFails(c) \/ AttachOpens(c)
              \/ AttachReturns(c)
       PROVE  UserTypes'
  BY <1>17, <1>2
     DEF LoopTests, LoopEmpties, CentralAt, LoopExits, PollLocks, PollStarts,
         InitialActivates, HandlerReturns, TellingEnds, PollBuildsList,
         PollChecksError, PollEnds, DetachFindsNone, DetachCloses, DetachEnds,
         FindStarts, FindEnds, MatchBuilds, MatchNone, Return, MatchLocks,
         AttachFails, AttachOpens, AttachReturns
<1>18. ASSUME NEW c \in Centrals, NEW m \in Managers,
              \/ InitialFinds(c, m) \/ Tells(c, m)
       PROVE  UserTypes'
  BY <1>18, <1>2
     DEF InitialFinds, CentralAt, Tells
<1>19. ASSUME NEW c \in Centrals, NEW d \in Devices,
              \/ PollAttaches(c, d) \/ PollKnows(c, d) \/ DetachForgets(c, d)
              \/ FindTakes(c, d)
       PROVE  UserTypes'
  BY <1>19, <1>2
     DEF PollAttaches, CentralAt, PollKnows, DetachForgets, FindTakes
<1>20. ASSUME NEW c \in Centrals, NEW h \in Handles,
              \/ DetachFinds(c, h) \/ MatchTries(c, h)
       PROVE  UserTypes'
  BY <1>20, <1>2
     DEF DetachFinds, CentralAt, MatchTries
<1>21. ASSUME NEW d \in Devices, Plug(d)
       PROVE  UserTypes'
  BY <1>21, <1>2
     DEF Plug
<1>22. CASE UNCHANGED vars
  BY <1>22, <1>2
     DEF vars
<1>23. QED
  BY Zenon, <1>16b, <1>3, <1>4, <1>5, <1>6, <1>7, <1>8, <1>9, <1>10, <1>11, <1>12,
     <1>13, <1>14, <1>15, <1>16, <1>17, <1>18, <1>19, <1>20, <1>21, <1>22
     DEF Next, User, UserContinues, Central, Poll, Find, Environment

Base == TypeOK /\ PollerHolds /\ PollerKnows /\ UserKnows

LEMMA BaseInit == Init => Base
<1> SUFFICES ASSUME Init PROVE Base
  OBVIOUS
<1>1. FlagTypes
  BY DEF Init, FlagTypes
<1>2. HandleTypes
  BY DEF Init, HandleTypes
<1>3. ListTypes
  BY DEF Init, ListTypes
<1>4. ManagerTypes
  BY DEF Init, ManagerTypes
<1>5. CentralTypes
  BY DEF Init, CentralTypes, CentralPc
<1>6. UserTypes
  BY DEF Init, UserTypes, UserPc
<1>7. PollerHolds /\ PollerKnows /\ UserKnows
  BY DEF Init, PollerHolds, PollerKnows, UserKnows, Holding, WithDevice,
     WithHandle, HandlePc, ManagerPc
<1>8. QED
  BY <1>1, <1>2, <1>3, <1>4, <1>5, <1>6, <1>7, TypesAreParts DEF Base

LEMMA BaseStep == Base /\ [Next]_vars => Base'
<1> SUFFICES ASSUME Base, [Next]_vars PROVE Base'
  OBVIOUS
<1>1. TypeOK /\ PollerHolds /\ PollerKnows /\ UserKnows
  BY DEF Base
<1>2. TypeOK'
  <2>1. FlagTypes'
    BY <1>1, TypesAreParts, FlagTypesStep
  <2>2. HandleTypes' /\ ListTypes' /\ ManagerTypes' /\ CentralTypes' /\ UserTypes'
    BY <1>1, HandleTypesStep, ListTypesStep, ManagerTypesStep, CentralTypesStep,
       UserTypesStep
  <2>3. QED
    BY <2>1, <2>2 DEF TypeOK, FlagTypes, HandleTypes, ListTypes, ManagerTypes,
          CentralTypes, UserTypes
<1>3. PollerHolds' /\ PollerKnows' /\ UserKnows'
  BY <1>1, PollerHoldsStep, PollerKnowsStep, UserKnowsStep
<1>4. QED
  BY <1>2, <1>3 DEF Base

\* Every field of a handle, of a manager, of the two lists and of CentralThread
\* keeps its type, whoever opens what and however many central threads run.
THEOREM TypeCorrect == Spec => []TypeOK
<1>1. Base => TypeOK
  BY DEF Base
<1>2. QED
  BY <1>1, BaseInit, BaseStep, PTL DEF Spec

-----------------------------------------------------------------------------
(* The openCloseLock.                                                       *)

\* A call holds the lock of its handle except where it waits for it.
Outside == {"idle", "openlock", "closelock"}
UserHolds == \A u \in Users : upc[u] \notin Outside => openCloseLock[uh[u]] = u

\* attachActiveDevice runs with the lock of its handle.
AttacherHolds ==
    \A c \in Centrals :
        cpc[c] \in {"attach", "started"} => openCloseLock[hand] = c

Registered == {"start", "create", "status", "flag"}
OpeningPc == {"register"} \cup Registered
ClosedPc == {"release", "join", "joining", "uninit", "unflag"}
RemovedPc == {"test", "detach"} \cup ClosedPc
ClosingPc == {"remove"} \cup RemovedPc

\* PHIDGET_OPENED_FLAG during open and close; an attached handle is open, and
\* is no longer attached when close has detached it.
OpenedIsKept ==
    /\ \A u \in Users : uh[u] \in Handles =>
        /\ upc[u] \in OpeningPc => ~opened[uh[u]]
        /\ upc[u] \in ClosingPc => opened[uh[u]]
        /\ upc[u] \in ClosedPc => ~attached[uh[u]]
    /\ \A h \in Handles : attached[h] => opened[h]

Locked == UserHolds /\ AttacherHolds /\ OpenedIsKept

\* Locks are given back by who took them.
LEMMA UserHoldsStep ==
  ASSUME Base, UserHolds, AttacherHolds, [Next]_vars
  PROVE  UserHolds'
<1>1. /\ UserHolds /\ AttacherHolds
      /\ NoThread \notin Users \cup Centrals /\ Users \cap Centrals = {}
      /\ upc = [u \in Users |-> upc[u]] /\ uh = [u \in Users |-> uh[u]]
      /\ openCloseLock = [h \in Handles \cup Managers |-> openCloseLock[h]]
      /\ \A u \in Users : upc[u] # "idle" => uh[u] \in Handles \cup Managers
      /\ \A c \in Centrals : cpc[c] \in WithHandle => hand \in Handles
  BY ThreadsAssumption DEF Base, TypeOK, UserKnows, PollerKnows
<1>2. ASSUME UNCHANGED <<upc, uh, openCloseLock>> PROVE UserHolds'
  BY <1>1, <1>2 DEF UserHolds
<1>3. ASSUME NEW u \in Users, OpenIgnored(u)
      PROVE  UserHolds'
  BY <1>3, <1>1
     DEF OpenIgnored, UserAt, UserHolds, AttacherHolds, Outside, WithHandle
<1>4. ASSUME NEW u \in Users, OpenLocks(u)
      PROVE  UserHolds'
  BY <1>4, <1>1
     DEF OpenLocks, UserAt, UserHolds, AttacherHolds, Outside, WithHandle
<1>5. ASSUME NEW u \in Users,
             \/ OpenIsDuplicate(u) \/ OpenRegisters(u)
      PROVE  UserHolds'
  BY <1>5, <1>1
     DEF OpenIsDuplicate, UserAt, OpenRegisters, UserHolds, AttacherHolds,
         Outside, WithHandle
<1>6. ASSUME NEW u \in Users, StartFindsThread(u)
      PROVE  UserHolds'
  BY <1>6, <1>1
     DEF StartFindsThread, UserHolds, AttacherHolds, Outside, WithHandle
<1>7. ASSUME NEW u \in Users, StartSetsStatus(u)
      PROVE  UserHolds'
  BY <1>7, <1>1
     DEF StartSetsStatus, UserAt, UserHolds, AttacherHolds, Outside,
         WithHandle
<1>8. ASSUME NEW u \in Users, OpenReturns(u)
      PROVE  UserHolds'
  BY <1>8, <1>1
     DEF OpenReturns, UserAt, UserHolds, AttacherHolds, Outside, WithHandle
<1>9. ASSUME NEW u \in Users, CloseIgnored(u)
      PROVE  UserHolds'
  BY <1>9, <1>1
     DEF CloseIgnored, UserAt, UserHolds, AttacherHolds, Outside, WithHandle
<1>10. ASSUME NEW u \in Users, CloseLocks(u)
       PROVE  UserHolds'
  BY <1>10, <1>1
     DEF CloseLocks, UserAt, UserHolds, AttacherHolds, Outside, WithHandle
<1>11. ASSUME NEW u \in Users, CloseRemoves(u)
       PROVE  UserHolds'
  BY <1>11, <1>1
     DEF CloseRemoves, UserAt, UserHolds, AttacherHolds, Outside, WithHandle
<1>12. ASSUME NEW u \in Users, CloseTestsAttached(u)
       PROVE  UserHolds'
  BY <1>12, <1>1
     DEF CloseTestsAttached, UserHolds, AttacherHolds, Outside, WithHandle
<1>13. ASSUME NEW u \in Users, CloseDetaches(u)
       PROVE  UserHolds'
  BY <1>13, <1>1
     DEF CloseDetaches, UserAt, UserHolds, AttacherHolds, Outside, WithHandle
<1>14. ASSUME NEW u \in Users, CloseReleases(u)
       PROVE  UserHolds'
  BY <1>14, <1>1
     DEF CloseReleases, UserHolds, AttacherHolds, Outside, WithHandle
<1>15. ASSUME NEW u \in Users, JoinSkips(u)
       PROVE  UserHolds'
  BY <1>15, <1>1
     DEF JoinSkips, UserAt, UserHolds, AttacherHolds, Outside, WithHandle
<1>16. ASSUME NEW u \in Users, JoinStarts(u)
       PROVE  UserHolds'
  BY <1>16, <1>1
     DEF JoinStarts, UserAt, UserHolds, AttacherHolds, Outside, WithHandle
<1>17. ASSUME NEW u \in Users, JoinEnds(u)
       PROVE  UserHolds'
  BY <1>17, <1>1
     DEF JoinEnds, UserAt, UserHolds, AttacherHolds, Outside, WithHandle
<1>18. ASSUME NEW u \in Users, CloseUninits(u)
       PROVE  UserHolds'
  BY <1>18, <1>1
     DEF CloseUninits, UserAt, UserHolds, AttacherHolds, Outside, WithHandle
<1>19. ASSUME NEW u \in Users, CloseReturns(u)
       PROVE  UserHolds'
  BY <1>19, <1>1
     DEF CloseReturns, UserAt, UserHolds, AttacherHolds, Outside, WithHandle
<1>20. ASSUME NEW u \in Users, ManagerOpenLocks(u)
       PROVE  UserHolds'
  BY <1>20, <1>1
     DEF ManagerOpenLocks, UserHolds, AttacherHolds, Outside, WithHandle
<1>21. ASSUME NEW u \in Users, ManagerOpenAdds(u)
       PROVE  UserHolds'
  BY <1>21, <1>1
     DEF ManagerOpenAdds, UserAt, UserHolds, AttacherHolds, Outside,
         WithHandle
<1>22. ASSUME NEW u \in Users, ManagerCloseLocks(u)
       PROVE  UserHolds'
  BY <1>22, <1>1
     DEF ManagerCloseLocks, UserHolds, AttacherHolds, Outside, WithHandle
<1>23. ASSUME NEW u \in Users, ManagerCloseRemoves(u)
       PROVE  UserHolds'
  BY <1>23, <1>1
     DEF ManagerCloseRemoves, UserAt, UserHolds, AttacherHolds, Outside,
         WithHandle
<1>24. ASSUME NEW u \in Users, ManagerCloseReleases(u)
       PROVE  UserHolds'
  BY <1>24, <1>1
     DEF ManagerCloseReleases, UserHolds, AttacherHolds, Outside, WithHandle
<1>25. ASSUME NEW u \in Users, NEW h \in Handles, NEW r \in Requests[h], OpenCalls(u, h, r)
       PROVE  UserHolds'
  BY <1>25, <1>1
     DEF OpenCalls, UserAt, UserHolds, AttacherHolds, Outside, WithHandle
<1>26. ASSUME NEW u \in Users, NEW h \in Handles, CloseCalls(u, h)
       PROVE  UserHolds'
  BY <1>26, <1>1
     DEF CloseCalls, UserAt, UserHolds, AttacherHolds, Outside, WithHandle
<1>27. ASSUME NEW u \in Users, NEW m \in Managers,
              \/ ManagerOpenCalls(u, m) \/ ManagerCloseCalls(u, m)
       PROVE  UserHolds'
  BY <1>27, <1>1
     DEF ManagerOpenCalls, UserAt, ManagerCloseCalls, UserHolds,
         AttacherHolds, Outside, WithHandle
<1>28. ASSUME NEW u \in Users, NEW c \in Centrals, StartCreates(u, c)
       PROVE  UserHolds'
  BY <1>28, <1>1
     DEF StartCreates, UserAt, UserHolds, AttacherHolds, Outside, WithHandle
<1>29. ASSUME NEW c \in Centrals, MatchLocks(c)
       PROVE  UserHolds'
  BY <1>29, <1>1
     DEF MatchLocks, CentralAt, UserHolds, AttacherHolds, Outside, WithHandle
<1>30. ASSUME NEW c \in Centrals, AttachFails(c)
       PROVE  UserHolds'
  <2>1. /\ openCloseLock[hand] = c /\ c \notin Users /\ hand \in Handles
        /\ UNCHANGED <<upc, uh>>
        /\ openCloseLock' = [openCloseLock EXCEPT ![hand] = NoThread]
    BY <1>30, <1>1 DEF AttachFails, CentralAt, AttacherHolds, WithHandle
  <2>2. \A h \in Handles \cup Managers :
            openCloseLock[h] \in Users => openCloseLock'[h] = openCloseLock[h]
    BY <2>1, <1>1
  <2>3. QED
    BY <2>1, <2>2, <1>1 DEF UserHolds, Outside
<1>30b. ASSUME NEW c \in Centrals, AttachBreaks(c)
       PROVE  UserHolds'
  <2>1. /\ openCloseLock[hand] = c /\ c \notin Users /\ hand \in Handles
        /\ UNCHANGED <<upc, uh>>
        /\ openCloseLock' = [openCloseLock EXCEPT ![hand] = NoThread]
    BY <1>30b, <1>1 DEF AttachBreaks, CentralAt, AttacherHolds, WithHandle
  <2>2. \A h \in Handles \cup Managers :
            openCloseLock[h] \in Users => openCloseLock'[h] = openCloseLock[h]
    BY <2>1, <1>1
  <2>3. QED
    BY <2>1, <2>2, <1>1 DEF UserHolds, Outside
<1>31. ASSUME NEW c \in Centrals, AttachReturns(c)
       PROVE  UserHolds'
  <2>1. /\ openCloseLock[hand] = c /\ c \notin Users /\ hand \in Handles
        /\ UNCHANGED <<upc, uh>>
        /\ openCloseLock' = [openCloseLock EXCEPT ![hand] = NoThread]
    BY <1>31, <1>1 DEF AttachReturns, Return, AttacherHolds, WithHandle
  <2>2. \A h \in Handles \cup Managers :
            openCloseLock[h] \in Users => openCloseLock'[h] = openCloseLock[h]
    BY <2>1, <1>1
  <2>3. QED
    BY <2>1, <2>2, <1>1 DEF UserHolds, Outside
<1>32. ASSUME NEW c \in Centrals,
              \/ LoopTests(c) \/ LoopEmpties(c) \/ LoopExits(c)
              \/ PollLocks(c) \/ PollStarts(c) \/ InitialActivates(c)
              \/ HandlerReturns(c) \/ TellingEnds(c) \/ PollBuildsList(c)
              \/ PollChecksError(c) \/ PollEnds(c) \/ DetachFindsNone(c)
              \/ DetachCloses(c) \/ DetachEnds(c) \/ FindStarts(c)
              \/ FindEnds(c) \/ MatchBuilds(c) \/ MatchNone(c)
              \/ AttachOpens(c)
       PROVE  UserHolds'
  BY <1>32, <1>2
     DEF LoopTests, LoopEmpties, CentralAt, LoopExits, PollLocks, PollStarts,
         InitialActivates, HandlerReturns, TellingEnds, PollBuildsList,
         PollChecksError, PollEnds, DetachFindsNone, DetachCloses, DetachEnds,
         FindStarts, FindEnds, MatchBuilds, MatchNone, Return, AttachOpens
<1>33. ASSUME NEW c \in Centrals, NEW m \in Managers,
              \/ InitialFinds(c, m) \/ Tells(c, m)
       PROVE  UserHolds'
  BY <1>33, <1>2
     DEF InitialFinds, CentralAt, Tells
<1>34. ASSUME NEW c \in Centrals, NEW d \in Devices,
              \/ PollAttaches(c, d) \/ PollKnows(c, d) \/ DetachForgets(c, d)
              \/ FindTakes(c, d)
       PROVE  UserHolds'
  BY <1>34, <1>2
     DEF PollAttaches, CentralAt, PollKnows, DetachForgets, FindTakes
<1>35. ASSUME NEW c \in Centrals, NEW h \in Handles,
              \/ DetachFinds(c, h) \/ MatchTries(c, h)
       PROVE  UserHolds'
  BY <1>35, <1>2
     DEF DetachFinds, CentralAt, MatchTries
<1>36. ASSUME NEW d \in Devices,
              \/ Unplug(d) \/ Plug(d)
       PROVE  UserHolds'
  BY <1>36, <1>2
     DEF Unplug, Plug
<1>37. ASSUME NEW h \in Handles, TransferFails(h)
       PROVE  UserHolds'
  BY <1>37, <1>2
     DEF TransferFails
<1>38. CASE UNCHANGED vars
  BY <1>38, <1>2
     DEF vars
<1>39. QED
  BY Zenon, <1>3, <1>4, <1>5, <1>6, <1>7, <1>8, <1>9, <1>10, <1>11, <1>12,
     <1>13, <1>14, <1>15, <1>16, <1>17, <1>18, <1>19, <1>20, <1>21, <1>22,
     <1>23, <1>24, <1>25, <1>26, <1>27, <1>28, <1>29, <1>30, <1>30b, <1>31, <1>32,
     <1>33, <1>34, <1>35, <1>36, <1>37, <1>38
     DEF Next, User, UserContinues, Central, Poll, Find, Environment

LEMMA AttacherHoldsStep ==
  ASSUME Base, UserHolds, AttacherHolds, [Next]_vars
  PROVE  AttacherHolds'
<1>1. /\ UserHolds /\ AttacherHolds /\ PollerHolds
      /\ NoThread \notin Users \cup Centrals /\ Users \cap Centrals = {}
      /\ cpc = [c \in Centrals |-> cpc[c]]
      /\ openCloseLock = [h \in Handles \cup Managers |-> openCloseLock[h]]
      /\ \A u \in Users : upc[u] # "idle" => uh[u] \in Handles \cup Managers
      /\ \A c \in Centrals : cpc[c] \in WithHandle => hand \in Handles
  BY ThreadsAssumption DEF Base, TypeOK, UserKnows, PollerKnows
<1>2. ASSUME UNCHANGED <<cpc, hand, openCloseLock>> PROVE AttacherHolds'
  BY <1>1, <1>2 DEF AttacherHolds
<1>3. ASSUME NEW u \in Users, OpenLocks(u)
      PROVE  AttacherHolds'
  BY <1>3, <1>1
     DEF OpenLocks, UserAt, UserHolds, AttacherHolds, PollerHolds, Outside,
         Holding, WithHandle
<1>4. ASSUME NEW u \in Users, OpenReturns(u)
      PROVE  AttacherHolds'
  BY <1>4, <1>1
     DEF OpenReturns, UserAt, UserHolds, AttacherHolds, PollerHolds, Outside,
         Holding, WithHandle
<1>5. ASSUME NEW u \in Users, CloseLocks(u)
      PROVE  AttacherHolds'
  BY <1>5, <1>1
     DEF CloseLocks, UserAt, UserHolds, AttacherHolds, PollerHolds, Outside,
         Holding, WithHandle
<1>6. ASSUME NEW u \in Users, CloseReturns(u)
      PROVE  AttacherHolds'
  BY <1>6, <1>1
     DEF CloseReturns, UserAt, UserHolds, AttacherHolds, PollerHolds, Outside,
         Holding, WithHandle
<1>7. ASSUME NEW u \in Users, ManagerOpenLocks(u)
      PROVE  AttacherHolds'
  BY <1>7, <1>1
     DEF ManagerOpenLocks, UserHolds, AttacherHolds, PollerHolds, Outside,
         Holding, WithHandle
<1>8. ASSUME NEW u \in Users, ManagerCloseLocks(u)
      PROVE  AttacherHolds'
  BY <1>8, <1>1
     DEF ManagerCloseLocks, UserHolds, AttacherHolds, PollerHolds, Outside,
         Holding, WithHandle
<1>9. ASSUME NEW u \in Users, NEW c \in Centrals, StartCreates(u, c)
      PROVE  AttacherHolds'
  BY <1>9, <1>1
     DEF StartCreates, UserAt, UserHolds, AttacherHolds, PollerHolds, Outside,
         Holding, WithHandle
<1>10. ASSUME NEW c \in Centrals,
              \/ LoopTests(c) \/ LoopEmpties(c) \/ LoopExits(c)
              \/ PollLocks(c) \/ PollStarts(c) \/ InitialActivates(c)
       PROVE  AttacherHolds'
  BY <1>10, <1>1
     DEF LoopTests, LoopEmpties, CentralAt, LoopExits, PollLocks, PollStarts,
         InitialActivates, UserHolds, AttacherHolds, PollerHolds, Outside,
         Holding, WithHandle
<1>11. ASSUME NEW c \in Centrals,
              \/ HandlerReturns(c) \/ TellingEnds(c)
       PROVE  AttacherHolds'
  BY <1>11, <1>1
     DEF HandlerReturns, TellingEnds, UserHolds, AttacherHolds, PollerHolds,
         Outside, Holding, WithHandle
<1>12. ASSUME NEW c \in Centrals,
              \/ PollBuildsList(c) \/ PollChecksError(c) \/ PollEnds(c)
              \/ DetachFindsNone(c) \/ DetachCloses(c) \/ DetachEnds(c)
       PROVE  AttacherHolds'
  BY <1>12, <1>1
     DEF PollBuildsList, CentralAt, PollChecksError, PollEnds,
         DetachFindsNone, DetachCloses, DetachEnds, UserHolds, AttacherHolds,
         PollerHolds, Outside, Holding, WithHandle
<1>13. ASSUME NEW c \in Centrals,
              \/ FindStarts(c) \/ FindEnds(c) \/ MatchBuilds(c)
              \/ MatchNone(c)
       PROVE  AttacherHolds'
  BY <1>13, <1>1
     DEF FindStarts, CentralAt, FindEnds, MatchBuilds, MatchNone, Return,
         UserHolds, AttacherHolds, PollerHolds, Outside, Holding, WithHandle
<1>14. ASSUME NEW c \in Centrals, MatchLocks(c)
       PROVE  AttacherHolds'
  BY <1>14, <1>1
     DEF MatchLocks, CentralAt, UserHolds, AttacherHolds, PollerHolds,
         Outside, Holding, WithHandle
<1>15. ASSUME NEW c \in Centrals, AttachFails(c)
       PROVE  AttacherHolds'
  BY <1>15, <1>1
     DEF AttachFails, CentralAt, UserHolds, AttacherHolds, PollerHolds,
         Outside, Holding, WithHandle
<1>15b. ASSUME NEW c \in Centrals, AttachBreaks(c)
       PROVE  AttacherHolds'
  BY <1>15b, <1>1
     DEF AttachBreaks, CentralAt, UserHolds, AttacherHolds, PollerHolds,
         Outside, Holding, WithHandle
<1>16. ASSUME NEW c \in Centrals, AttachOpens(c)
       PROVE  AttacherHolds'
  BY <1>16, <1>1
     DEF AttachOpens, CentralAt, UserHolds, AttacherHolds, PollerHolds,
         Outside, Holding, WithHandle
<1>17. ASSUME NEW c \in Centrals, AttachReturns(c)
       PROVE  AttacherHolds'
  BY <1>17, <1>1
     DEF AttachReturns, Return, UserHolds, AttacherHolds, PollerHolds,
         Outside, Holding, WithHandle
<1>18. ASSUME NEW c \in Centrals, NEW m \in Managers, InitialFinds(c, m)
       PROVE  AttacherHolds'
  BY <1>18, <1>1
     DEF InitialFinds, CentralAt, UserHolds, AttacherHolds, PollerHolds,
         Outside, Holding, WithHandle
<1>19. ASSUME NEW c \in Centrals, NEW m \in Managers, Tells(c, m)
       PROVE  AttacherHolds'
  BY <1>19, <1>1
     DEF Tells, UserHolds, AttacherHolds, PollerHolds, Outside, Holding,
         WithHandle
<1>20. ASSUME NEW c \in Centrals, NEW d \in Devices,
              \/ PollAttaches(c, d) \/ PollKnows(c, d) \/ DetachForgets(c, d)
              \/ FindTakes(c, d)
       PROVE  AttacherHolds'
  BY <1>20, <1>1
     DEF PollAttaches, CentralAt, PollKnows, DetachForgets, FindTakes,
         UserHolds, AttacherHolds, PollerHolds, Outside, Holding, WithHandle
<1>21. ASSUME NEW c \in Centrals, NEW h \in Handles,
              \/ DetachFinds(c, h) \/ MatchTries(c, h)
       PROVE  AttacherHolds'
  BY <1>21, <1>1
     DEF DetachFinds, CentralAt, MatchTries, UserHolds, AttacherHolds,
         PollerHolds, Outside, Holding, WithHandle
<1>22. ASSUME NEW u \in Users,
              \/ OpenIgnored(u) \/ OpenIsDuplicate(u) \/ OpenRegisters(u)
              \/ StartFindsThread(u) \/ StartSetsStatus(u) \/ CloseIgnored(u)
              \/ CloseRemoves(u) \/ CloseTestsAttached(u) \/ CloseDetaches(u)
              \/ CloseReleases(u) \/ JoinSkips(u) \/ JoinStarts(u)
              \/ JoinEnds(u) \/ CloseUninits(u) \/ ManagerOpenAdds(u)
              \/ ManagerCloseRemoves(u) \/ ManagerCloseReleases(u)
       PROVE  AttacherHolds'
  BY <1>22, <1>2
     DEF OpenIgnored, UserAt, OpenIsDuplicate, OpenRegisters,
         StartFindsThread, StartSetsStatus, CloseIgnored, CloseRemoves,
         CloseTestsAttached, CloseDetaches, CloseReleases, JoinSkips,
         JoinStarts, JoinEnds, CloseUninits, ManagerOpenAdds,
         ManagerCloseRemoves, ManagerCloseReleases
<1>23. ASSUME NEW u \in Users, NEW h \in Handles, NEW r \in Requests[h], OpenCalls(u, h, r)
       PROVE  AttacherHolds'
  BY <1>23, <1>2
     DEF OpenCalls, UserAt
<1>24. ASSUME NEW u \in Users, NEW h \in Handles, CloseCalls(u, h)
       PROVE  AttacherHolds'
  BY <1>24, <1>2
     DEF CloseCalls, UserAt
<1>25. ASSUME NEW u \in Users, NEW m \in Managers,
              \/ ManagerOpenCalls(u, m) \/ ManagerCloseCalls(u, m)
       PROVE  AttacherHolds'
  BY <1>25, <1>2
     DEF ManagerOpenCalls, UserAt, ManagerCloseCalls
<1>26. ASSUME NEW d \in Devices,
              \/ Unplug(d) \/ Plug(d)
       PROVE  AttacherHolds'
  BY <1>26, <1>2
     DEF Unplug, Plug
<1>27. ASSUME NEW h \in Handles, TransferFails(h)
       PROVE  AttacherHolds'
  BY <1>27, <1>2
     DEF TransferFails
<1>28. CASE UNCHANGED vars
  BY <1>28, <1>2
     DEF vars
<1>29. QED
  BY Zenon, <1>3, <1>4, <1>5, <1>6, <1>7, <1>8, <1>9, <1>10, <1>11, <1>12,
     <1>13, <1>14, <1>15, <1>15b, <1>16, <1>17, <1>18, <1>19, <1>20, <1>21, <1>22,
     <1>23, <1>24, <1>25, <1>26, <1>27, <1>28
     DEF Next, User, UserContinues, Central, Poll, Find, Environment

LEMMA OpenedStep ==
  ASSUME Base, UserHolds, AttacherHolds, OpenedIsKept, [Next]_vars
  PROVE  OpenedIsKept'
<1>1. /\ UserHolds /\ AttacherHolds /\ OpenedIsKept
      /\ NoThread \notin Users \cup Centrals /\ Users \cap Centrals = {}
      /\ Handles \cap Managers = {}
      /\ upc = [u \in Users |-> upc[u]] /\ uh = [u \in Users |-> uh[u]]
      /\ opened = [h \in Handles \cup Managers |-> opened[h]]
      /\ attached = [h \in Handles |-> attached[h]]
      /\ \A u \in Users : upc[u] \in ManagerPc => uh[u] \in Managers
      /\ \A u \in Users : upc[u] # "idle" => uh[u] \in Handles \cup Managers
      /\ \A u \in Users : upc[u] \in HandlePc => uh[u] \in Handles
      /\ \A c \in Centrals : cpc[c] \in WithHandle => hand \in Handles
  BY ThreadsAssumption, CentralBounds DEF Base, TypeOK, UserKnows, PollerKnows
<1>2. ASSUME UNCHANGED <<upc, uh, opened, attached>> PROVE OpenedIsKept'
  BY <1>1, <1>2 DEF OpenedIsKept
<1>3. ASSUME NEW u \in Users,
             \/ OpenIgnored(u) \/ OpenLocks(u)
      PROVE  OpenedIsKept'
  BY <1>3, <1>1
     DEF OpenIgnored, UserAt, OpenLocks, UserHolds, AttacherHolds,
         OpenedIsKept, Outside, OpeningPc, ClosingPc, RemovedPc, ClosedPc,
         Registered, HandlePc, ManagerPc, WithHandle
<1>4. ASSUME NEW u \in Users,
             \/ OpenIsDuplicate(u) \/ OpenRegisters(u)
      PROVE  OpenedIsKept'
  BY <1>4, <1>1
     DEF OpenIsDuplicate, UserAt, OpenRegisters, UserHolds, AttacherHolds,
         OpenedIsKept, Outside, OpeningPc, ClosingPc, RemovedPc, ClosedPc,
         Registered, HandlePc, ManagerPc, WithHandle
<1>5. ASSUME NEW u \in Users,
             \/ StartFindsThread(u) \/ StartSetsStatus(u)
      PROVE  OpenedIsKept'
  BY <1>5, <1>1
     DEF StartFindsThread, StartSetsStatus, UserAt, UserHolds, AttacherHolds,
         OpenedIsKept, Outside, OpeningPc, ClosingPc, RemovedPc, ClosedPc,
         Registered, HandlePc, ManagerPc, WithHandle
<1>6. ASSUME NEW u \in Users, OpenReturns(u)
      PROVE  OpenedIsKept'
  BY <1>6, <1>1
     DEF OpenReturns, UserAt, UserHolds, AttacherHolds, OpenedIsKept, Outside,
         OpeningPc, ClosingPc, RemovedPc, ClosedPc, Registered, HandlePc,
         ManagerPc, WithHandle
<1>7. ASSUME NEW u \in Users,
             \/ CloseIgnored(u) \/ CloseLocks(u)
      PROVE  OpenedIsKept'
  BY <1>7, <1>1
     DEF CloseIgnored, UserAt, CloseLocks, UserHolds, AttacherHolds,
         OpenedIsKept, Outside, OpeningPc, ClosingPc, RemovedPc, ClosedPc,
         Registered, HandlePc, ManagerPc, WithHandle
<1>8. ASSUME NEW u \in Users, CloseRemoves(u)
      PROVE  OpenedIsKept'
  BY <1>8, <1>1
     DEF CloseRemoves, UserAt, UserHolds, AttacherHolds, OpenedIsKept,
         Outside, OpeningPc, ClosingPc, RemovedPc, ClosedPc, Registered,
         HandlePc, ManagerPc, WithHandle
<1>9. ASSUME NEW u \in Users,
             \/ CloseTestsAttached(u) \/ CloseReleases(u)
      PROVE  OpenedIsKept'
  BY <1>9, <1>1
     DEF CloseTestsAttached, CloseReleases, UserHolds, AttacherHolds,
         OpenedIsKept, Outside, OpeningPc, ClosingPc, RemovedPc, ClosedPc,
         Registered, HandlePc, ManagerPc, WithHandle
<1>10. ASSUME NEW u \in Users, CloseDetaches(u)
       PROVE  OpenedIsKept'
  BY <1>10, <1>1
     DEF CloseDetaches, UserAt, UserHolds, AttacherHolds, OpenedIsKept,
         Outside, OpeningPc, ClosingPc, RemovedPc, ClosedPc, Registered,
         HandlePc, ManagerPc, WithHandle
<1>11. ASSUME NEW u \in Users,
              \/ JoinSkips(u) \/ JoinStarts(u) \/ JoinEnds(u)
              \/ CloseUninits(u)
       PROVE  OpenedIsKept'
  BY <1>11, <1>1
     DEF JoinSkips, UserAt, JoinStarts, JoinEnds, CloseUninits, UserHolds,
         AttacherHolds, OpenedIsKept, Outside, OpeningPc, ClosingPc,
         RemovedPc, ClosedPc, Registered, HandlePc, ManagerPc, WithHandle
<1>12. ASSUME NEW u \in Users, CloseReturns(u)
       PROVE  OpenedIsKept'
  BY <1>12, <1>1
     DEF CloseReturns, UserAt, UserHolds, AttacherHolds, OpenedIsKept,
         Outside, OpeningPc, ClosingPc, RemovedPc, ClosedPc, Registered,
         HandlePc, ManagerPc, WithHandle
<1>13. ASSUME NEW u \in Users,
              \/ ManagerOpenLocks(u) \/ ManagerOpenAdds(u)
              \/ ManagerCloseLocks(u) \/ ManagerCloseRemoves(u)
              \/ ManagerCloseReleases(u)
       PROVE  OpenedIsKept'
  BY <1>13, <1>1
     DEF ManagerOpenLocks, ManagerOpenAdds, UserAt, ManagerCloseLocks,
         ManagerCloseRemoves, ManagerCloseReleases, UserHolds, AttacherHolds,
         OpenedIsKept, Outside, OpeningPc, ClosingPc, RemovedPc, ClosedPc,
         Registered, HandlePc, ManagerPc, WithHandle
<1>14. ASSUME NEW u \in Users, NEW h \in Handles, NEW r \in Requests[h], OpenCalls(u, h, r)
       PROVE  OpenedIsKept'
  BY <1>14, <1>1
     DEF OpenCalls, UserAt, UserHolds, AttacherHolds, OpenedIsKept, Outside,
         OpeningPc, ClosingPc, RemovedPc, ClosedPc, Registered, HandlePc,
         ManagerPc, WithHandle
<1>15. ASSUME NEW u \in Users, NEW h \in Handles, CloseCalls(u, h)
       PROVE  OpenedIsKept'
  BY <1>15, <1>1
     DEF CloseCalls, UserAt, UserHolds, AttacherHolds, OpenedIsKept, Outside,
         OpeningPc, ClosingPc, RemovedPc, ClosedPc, Registered, HandlePc,
         ManagerPc, WithHandle
<1>16. ASSUME NEW u \in Users, NEW m \in Managers,
              \/ ManagerOpenCalls(u, m) \/ ManagerCloseCalls(u, m)
       PROVE  OpenedIsKept'
  BY <1>16, <1>1
     DEF ManagerOpenCalls, UserAt, ManagerCloseCalls, UserHolds,
         AttacherHolds, OpenedIsKept, Outside, OpeningPc, ClosingPc,
         RemovedPc, ClosedPc, Registered, HandlePc, ManagerPc, WithHandle
<1>17. ASSUME NEW u \in Users, NEW c \in Centrals, StartCreates(u, c)
       PROVE  OpenedIsKept'
  BY <1>17, <1>1
     DEF StartCreates, UserAt, UserHolds, AttacherHolds, OpenedIsKept,
         Outside, OpeningPc, ClosingPc, RemovedPc, ClosedPc, Registered,
         HandlePc, ManagerPc, WithHandle
<1>18. ASSUME NEW c \in Centrals, DetachCloses(c)
       PROVE  OpenedIsKept'
  BY <1>18, <1>1
     DEF DetachCloses, CentralAt, UserHolds, AttacherHolds, OpenedIsKept,
         Outside, OpeningPc, ClosingPc, RemovedPc, ClosedPc, Registered,
         HandlePc, ManagerPc, WithHandle
<1>19. ASSUME NEW c \in Centrals, AttachOpens(c)
       PROVE  OpenedIsKept'
  BY <1>19, <1>1
     DEF AttachOpens, CentralAt, UserHolds, AttacherHolds, OpenedIsKept,
         Outside, OpeningPc, ClosingPc, RemovedPc, ClosedPc, Registered,
         HandlePc, ManagerPc, WithHandle
<1>19b. ASSUME NEW c \in Centrals, AttachBreaks(c)
       PROVE  OpenedIsKept'
  BY <1>19b, <1>1
     DEF AttachBreaks, UserHolds, AttacherHolds, OpenedIsKept, Outside,
         OpeningPc, ClosingPc, RemovedPc, ClosedPc, Registered, HandlePc,
         ManagerPc, WithHandle
<1>20. ASSUME NEW c \in Centrals,
              \/ LoopTests(c) \/ LoopEmpties(c) \/ LoopExits(c)
              \/ PollLocks(c) \/ PollStarts(c) \/ InitialActivates(c)
              \/ HandlerReturns(c) \/ TellingEnds(c) \/ PollBuildsList(c)
              \/ PollChecksError(c) \/ PollEnds(c) \/ DetachFindsNone(c)
              \/ DetachEnds(c) \/ FindStarts(c) \/ FindEnds(c)
              \/ MatchBuilds(c) \/ MatchNone(c) \/ MatchLocks(c)
              \/ AttachFails(c) \/ AttachReturns(c)
       PROVE  OpenedIsKept'
  BY <1>20, <1>2
     DEF LoopTests, LoopEmpties, CentralAt, LoopExits, PollLocks, PollStarts,
         InitialActivates, HandlerReturns, TellingEnds, PollBuildsList,
         PollChecksError, PollEnds, DetachFindsNone, DetachEnds, FindStarts,
         FindEnds, MatchBuilds, MatchNone, Return, MatchLocks, AttachFails,
         AttachReturns
<1>21. ASSUME NEW c \in Centrals, NEW m \in Managers,
              \/ InitialFinds(c, m) \/ Tells(c, m)
       PROVE  OpenedIsKept'
  BY <1>21, <1>2
     DEF InitialFinds, CentralAt, Tells
<1>22. ASSUME NEW c \in Centrals, NEW d \in Devices,
              \/ PollAttaches(c, d) \/ PollKnows(c, d) \/ DetachForgets(c, d)
              \/ FindTakes(c, d)
       PROVE  OpenedIsKept'
  BY <1>22, <1>2
     DEF PollAttaches, CentralAt, PollKnows, DetachForgets, FindTakes
<1>23. ASSUME NEW c \in Centrals, NEW h \in Handles,
              \/ DetachFinds(c, h) \/ MatchTries(c, h)
       PROVE  OpenedIsKept'
  BY <1>23, <1>2
     DEF DetachFinds, CentralAt, MatchTries
<1>24. ASSUME NEW d \in Devices,
              \/ Unplug(d) \/ Plug(d)
       PROVE  OpenedIsKept'
  BY <1>24, <1>2
     DEF Unplug, Plug
<1>25. ASSUME NEW h \in Handles, TransferFails(h)
       PROVE  OpenedIsKept'
  BY <1>25, <1>2
     DEF TransferFails
<1>26. CASE UNCHANGED vars
  BY <1>26, <1>2
     DEF vars
<1>27. QED
  BY Zenon, <1>19b, <1>3, <1>4, <1>5, <1>6, <1>7, <1>8, <1>9, <1>10, <1>11, <1>12,
     <1>13, <1>14, <1>15, <1>16, <1>17, <1>18, <1>19, <1>20, <1>21, <1>22,
     <1>23, <1>24, <1>25, <1>26
     DEF Next, User, UserContinues, Central, Poll, Find, Environment


LEMMA LockedInit == Init => Locked
BY DEF Init, Locked, UserHolds, AttacherHolds, OpenedIsKept, Outside, OpeningPc,
   ClosingPc, RemovedPc, ClosedPc, Registered

LEMMA LockedStep ==
  ASSUME Base, Locked, [Next]_vars
  PROVE  Locked'
<1>1. UserHolds' /\ AttacherHolds' /\ OpenedIsKept'
  BY UserHoldsStep, AttacherHoldsStep, OpenedStep DEF Locked
<1>2. QED
  BY <1>1 DEF Locked

\* A handle that CPhidget_close has detached, or found detached, stays so until
\* it is open again, whatever findActiveDevice has on its list of matches, with
\* any number of threads and whatever the handles are opened for:
\* attachActiveDevice tests PHIDGET_OPENED_FLAG under the lock that the close
\* gives back with the flag clear.
THEOREM ClosedHandlesStay == Spec => []ClosedStaysDetached
<1>1. Locked => ClosedStaysDetached
  BY DEF Locked, OpenedIsKept, ClosedPc, ClosedStaysDetached
<1>2. Base /\ Locked /\ [Next]_vars => Base' /\ Locked'
  BY BaseStep, LockedStep
<1>3. QED
  BY <1>1, <1>2, BaseInit, LockedInit, PTL DEF Spec

-----------------------------------------------------------------------------
(* Handles opened by serial number, each always by the same one.            *)

OneSerialEach == \A h \in Handles : \E d \in Devices : Requests[h] \subseteq {d}

\* A handle keeps the serial number it was opened with: in specificDevice and
\* serialNumber from CPhidget_open on, in ActiveDevices, and in what
\* findActiveDevice will try for a device.
UserAsks ==
    /\ \A u \in Users :
           upc[u] = "openlock" /\ uh[u] \in Handles => ureq[u] \in Requests[uh[u]]
    /\ \A u \in Users :
           upc[u] \in OpeningPc /\ uh[u] \in Handles => specific[uh[u]] = "serial"
HandleAsks ==
    \A h \in Handles :
        /\ specific[h] # "any_attached"
        /\ specific[h] = "serial" => serial[h] \in Requests[h]
        /\ opened[h] \/ h \in activeDevices => specific[h] = "serial"
        /\ request[h] \in Requests[h] \cup {AnyPhidget}
MatchAsks ==
    \A c \in Centrals :
        /\ cpc[c] \in {"try", "lock", "attach", "started"} =>
               \A h \in matches : dev \in Requests[h] /\ specific[h] = "serial"
        /\ cpc[c] \in {"lock", "attach", "started"} =>
               dev \in Requests[hand] /\ specific[hand] = "serial"
Asks == UserAsks /\ HandleAsks /\ MatchAsks

\* What is in ActiveDevices is open or being opened, has a serial number of its
\* own, and is not being closed any more once close has taken it off.
InList ==
    \A h \in activeDevices :
        opened[h] \/ \E u \in Users : uh[u] = h /\ upc[u] \in Registered
OffList ==
    \A u \in Users :
        uh[u] \in Handles /\ upc[u] \in RemovedPc => uh[u] \notin activeDevices
ListIsOfSerials == \A g, h \in activeDevices : serial[g] = serial[h] => g = h

\* CPhidgetDetachEvent closes a handle it has found attached in ActiveDevices.
Detacher ==
    \A c \in Centrals :
        cpc[c] = "dclose" => activeLock = c /\ hand \in activeDevices /\ attached[hand]

\* A serial number that has been asked for is not forgotten or replaced.
LEMMA SerialsStay ==
  ASSUME OneSerialEach, Base, Asks, [Next]_vars,
         NEW g \in Handles, specific[g] = "serial"
  PROVE  specific'[g] = "serial" /\ serial'[g] = serial[g] /\ serial[g] \in Requests[g]
<1>1. /\ UserAsks /\ HandleAsks /\ MatchAsks /\ specific[g] = "serial"
      /\ specific = [e \in Handles |-> specific[e]]
      /\ serial = [e \in Handles |-> serial[e]]
      /\ \A u \in Users : upc[u] \in HandlePc => uh[u] \in Handles
      /\ \A c \in Centrals : cpc[c] \in WithHandle => hand \in Handles
      /\ \A c \in Centrals : cpc[c] \in {"lock", "attach", "started"} =>
             dev \in Requests[hand] /\ specific[hand] = "serial"
  BY DEF Base, TypeOK, UserKnows, PollerKnows, Asks, MatchAsks
<1>2. PICK s \in Devices : Requests[g] \subseteq {s}
  BY DEF OneSerialEach
<1>3. s # AnyPhidget /\ \A e \in Handles : specific[e] # "any_attached"
  BY <1>1, AnyAssumption DEF HandleAsks
<1>4. serial[g] \in Requests[g] /\ serial[g] = s
  BY <1>1, <1>2 DEF HandleAsks
<1>5. ASSUME UNCHANGED <<specific, serial>>
      PROVE  specific'[g] = "serial" /\ serial'[g] = serial[g] /\ serial[g] \in Requests[g]
  BY <1>1, <1>4, <1>5
<1>6. ASSUME NEW u \in Users, OpenLocks(u)
      PROVE  specific'[g] = "serial" /\ serial'[g] = serial[g] /\ serial[g] \in Requests[g]
  BY <1>6, <1>1, <1>2, <1>3, <1>4
     DEF OpenLocks, UserAt, UserAsks, HandlePc, WithHandle
<1>7. ASSUME NEW u \in Users, CloseReleases(u)
      PROVE  specific'[g] = "serial" /\ serial'[g] = serial[g] /\ serial[g] \in Requests[g]
  BY <1>7, <1>1, <1>2, <1>3, <1>4
     DEF CloseReleases, UserAsks, HandlePc, WithHandle
<1>8. ASSUME NEW c \in Centrals, NEW h \in Handles, DetachFinds(c, h)
      PROVE  specific'[g] = "serial" /\ serial'[g] = serial[g] /\ serial[g] \in Requests[g]
  BY <1>8, <1>1, <1>2, <1>3, <1>4
     DEF DetachFinds, CentralAt, UserAsks, HandlePc, WithHandle
<1>9. ASSUME NEW c \in Centrals, AttachFails(c)
      PROVE  specific'[g] = "serial" /\ serial'[g] = serial[g] /\ serial[g] \in Requests[g]
  BY <1>9, <1>1, <1>2, <1>3, <1>4
     DEF AttachFails, CentralAt, UserAsks, HandlePc, WithHandle
<1>9b. ASSUME NEW c \in Centrals, AttachBreaks(c)
      PROVE  specific'[g] = "serial" /\ serial'[g] = serial[g] /\ serial[g] \in Requests[g]
  BY <1>9b, <1>1, <1>2, <1>3, <1>4
     DEF AttachBreaks, CentralAt, UserAsks, HandlePc, WithHandle
<1>10. ASSUME NEW c \in Centrals, AttachOpens(c)
       PROVE  specific'[g] = "serial" /\ serial'[g] = serial[g] /\ serial[g] \in Requests[g]
  BY <1>10, <1>1, <1>2, <1>3, <1>4
     DEF AttachOpens, CentralAt, UserAsks, HandlePc, WithHandle
<1>11. ASSUME NEW u \in Users,
              \/ OpenIgnored(u) \/ OpenIsDuplicate(u) \/ OpenRegisters(u)
              \/ StartFindsThread(u) \/ StartSetsStatus(u) \/ OpenReturns(u)
              \/ CloseIgnored(u) \/ CloseLocks(u) \/ CloseRemoves(u)
              \/ CloseTestsAttached(u) \/ CloseDetaches(u) \/ JoinSkips(u)
              \/ JoinStarts(u) \/ JoinEnds(u) \/ CloseUninits(u)
              \/ CloseReturns(u) \/ ManagerOpenLocks(u) \/ ManagerOpenAdds(u)
              \/ ManagerCloseLocks(u) \/ ManagerCloseRemoves(u)
              \/ ManagerCloseReleases(u)
       PROVE  specific'[g] = "serial" /\ serial'[g] = serial[g] /\ serial[g] \in Requests[g]
  BY <1>11, <1>5
     DEF OpenIgnored, UserAt, OpenIsDuplicate, OpenRegisters,
         StartFindsThread, StartSetsStatus, OpenReturns, CloseIgnored,
         CloseLocks, CloseRemoves, CloseTestsAttached, CloseDetaches,
         JoinSkips, JoinStarts, JoinEnds, CloseUninits, CloseReturns,
         ManagerOpenLocks, ManagerOpenAdds, ManagerCloseLocks,
         ManagerCloseRemoves, ManagerCloseReleases
<1>12. ASSUME NEW u \in Users, NEW h \in Handles, NEW r \in Requests[h], OpenCalls(u, h, r)
       PROVE  specific'[g] = "serial" /\ serial'[g] = serial[g] /\ serial[g] \in Requests[g]
  BY <1>12, <1>5
     DEF OpenCalls, UserAt
<1>13. ASSUME NEW u \in Users, NEW h \in Handles, CloseCalls(u, h)
       PROVE  specific'[g] = "serial" /\ serial'[g] = serial[g] /\ serial[g] \in Requests[g]
  BY <1>13, <1>5
     DEF CloseCalls, UserAt
<1>14. ASSUME NEW u \in Users, NEW m \in Managers,
              \/ ManagerOpenCalls(u, m) \/ ManagerCloseCalls(u, m)
       PROVE  specific'[g] = "serial" /\ serial'[g] = serial[g] /\ serial[g] \in Requests[g]
  BY <1>14, <1>5
     DEF ManagerOpenCalls, UserAt, ManagerCloseCalls
<1>15. ASSUME NEW u \in Users, NEW c \in Centrals, StartCreates(u, c)
       PROVE  specific'[g] = "serial" /\ serial'[g] = serial[g] /\ serial[g] \in Requests[g]
  BY <1>15, <1>5
     DEF StartCreates, UserAt
<1>16. ASSUME NEW c \in Centrals,
              \/ LoopTests(c) \/ LoopEmpties(c) \/ LoopExits(c)
              \/ PollLocks(c) \/ PollStarts(c) \/ InitialActivates(c)
              \/ HandlerReturns(c) \/ TellingEnds(c) \/ PollBuildsList(c)
              \/ PollChecksError(c) \/ PollEnds(c) \/ DetachFindsNone(c)
              \/ DetachCloses(c) \/ DetachEnds(c) \/ FindStarts(c)
              \/ FindEnds(c) \/ MatchBuilds(c) \/ MatchNone(c)
              \/ MatchLocks(c) \/ AttachReturns(c)
       PROVE  specific'[g] = "serial" /\ serial'[g] = serial[g] /\ serial[g] \in Requests[g]
  BY <1>16, <1>5
     DEF LoopTests, LoopEmpties, CentralAt, LoopExits, PollLocks, PollStarts,
         InitialActivates, HandlerReturns, TellingEnds, PollBuildsList,
         PollChecksError, PollEnds, DetachFindsNone, DetachCloses, DetachEnds,
         FindStarts, FindEnds, MatchBuilds, MatchNone, Return, MatchLocks,
         AttachReturns
<1>17. ASSUME NEW c \in Centrals, NEW m \in Managers,
              \/ InitialFinds(c, m) \/ Tells(c, m)
       PROVE  specific'[g] = "serial" /\ serial'[g] = serial[g] /\ serial[g] \in Requests[g]
  BY <1>17, <1>5
     DEF InitialFinds, CentralAt, Tells
<1>18. ASSUME NEW c \in Centrals, NEW d \in Devices,
              \/ PollAttaches(c, d) \/ PollKnows(c, d) \/ DetachForgets(c, d)
              \/ FindTakes(c, d)
       PROVE  specific'[g] = "serial" /\ serial'[g] = serial[g] /\ serial[g] \in Requests[g]
  BY <1>18, <1>5
     DEF PollAttaches, CentralAt, PollKnows, DetachForgets, FindTakes
<1>19. ASSUME NEW c \in Centrals, NEW h \in Handles, MatchTries(c, h)
       PROVE  specific'[g] = "serial" /\ serial'[g] = serial[g] /\ serial[g] \in Requests[g]
  BY <1>19, <1>5
     DEF MatchTries, CentralAt
<1>20. ASSUME NEW d \in Devices,
              \/ Unplug(d) \/ Plug(d)
       PROVE  specific'[g] = "serial" /\ serial'[g] = serial[g] /\ serial[g] \in Requests[g]
  BY <1>20, <1>5
     DEF Unplug, Plug
<1>21. ASSUME NEW h \in Handles, TransferFails(h)
       PROVE  specific'[g] = "serial" /\ serial'[g] = serial[g] /\ serial[g] \in Requests[g]
  BY <1>21, <1>5
     DEF TransferFails
<1>22. CASE UNCHANGED vars
  BY <1>22, <1>5
     DEF vars
<1>23. QED
  BY Zenon, <1>6, <1>7, <1>8, <1>9, <1>9b, <1>10, <1>11, <1>12, <1>13, <1>14, <1>15,
     <1>16, <1>17, <1>18, <1>19, <1>20, <1>21, <1>22
     DEF Next, User, UserContinues, Central, Poll, Find, Environment

LEMMA UserAsksStep ==
  ASSUME OneSerialEach, Base, Locked, Asks, [Next]_vars
  PROVE  UserAsks'
<1>1. /\ UserHolds /\ UserAsks
      /\ upc = [u \in Users |-> upc[u]] /\ uh = [u \in Users |-> uh[u]]
      /\ ureq = [u \in Users |-> ureq[u]]
      /\ specific = [h \in Handles |-> specific[h]] /\ Handles \cap Managers = {}
      /\ \A u \in Users : upc[u] \in HandlePc => uh[u] \in Handles
      /\ \A u \in Users : upc[u] \in ManagerPc => uh[u] \in Managers
  BY CentralBounds DEF Base, TypeOK, UserKnows, Locked, Asks
<1>2. /\ \A h \in Handles : specific[h] = "serial" => specific'[h] = "serial"
      /\ \A h \in Handles : AnyPhidget \notin Requests[h]
  BY SerialsStay, AnyAssumption DEF OneSerialEach
<1>3. ASSUME UNCHANGED <<upc, uh, ureq>> PROVE UserAsks'
  BY <1>1, <1>2, <1>3 DEF UserAsks, HandlePc, ManagerPc, OpeningPc, Registered
<1>4. ASSUME NEW u \in Users, OpenIgnored(u)
      PROVE  UserAsks'
  BY <1>4, <1>1, <1>2
     DEF OpenIgnored, UserAt, UserAsks, HandlePc, ManagerPc, OpeningPc,
         Registered
<1>5. ASSUME NEW u \in Users, OpenLocks(u)
      PROVE  UserAsks'
  BY <1>5, <1>1, <1>2
     DEF OpenLocks, UserAt, UserHolds, UserAsks, HandlePc, ManagerPc,
         OpeningPc, Registered
<1>6. ASSUME NEW u \in Users,
             \/ OpenIsDuplicate(u) \/ OpenRegisters(u)
      PROVE  UserAsks'
  BY <1>6, <1>1, <1>2
     DEF OpenIsDuplicate, UserAt, OpenRegisters, UserAsks, HandlePc,
         ManagerPc, OpeningPc, Registered
<1>7. ASSUME NEW u \in Users,
             \/ StartFindsThread(u) \/ StartSetsStatus(u) \/ OpenReturns(u)
      PROVE  UserAsks'
  BY <1>7, <1>1, <1>2
     DEF StartFindsThread, StartSetsStatus, UserAt, OpenReturns, UserAsks,
         HandlePc, ManagerPc, OpeningPc, Registered
<1>8. ASSUME NEW u \in Users,
             \/ CloseIgnored(u) \/ CloseLocks(u) \/ CloseRemoves(u)
      PROVE  UserAsks'
  BY <1>8, <1>1, <1>2
     DEF CloseIgnored, UserAt, CloseLocks, CloseRemoves, UserAsks, HandlePc,
         ManagerPc, OpeningPc, Registered
<1>9. ASSUME NEW u \in Users,
             \/ CloseTestsAttached(u) \/ CloseDetaches(u) \/ CloseReleases(u)
      PROVE  UserAsks'
  BY <1>9, <1>1, <1>2
     DEF CloseTestsAttached, CloseDetaches, UserAt, CloseReleases, UserAsks,
         HandlePc, ManagerPc, OpeningPc, Registered
<1>10. ASSUME NEW u \in Users,
              \/ JoinSkips(u) \/ JoinStarts(u) \/ JoinEnds(u)
              \/ CloseUninits(u) \/ CloseReturns(u)
       PROVE  UserAsks'
  BY <1>10, <1>1, <1>2
     DEF JoinSkips, UserAt, JoinStarts, JoinEnds, CloseUninits, CloseReturns,
         UserAsks, HandlePc, ManagerPc, OpeningPc, Registered
<1>11. ASSUME NEW u \in Users,
              \/ ManagerOpenLocks(u) \/ ManagerOpenAdds(u)
              \/ ManagerCloseLocks(u) \/ ManagerCloseRemoves(u)
              \/ ManagerCloseReleases(u)
       PROVE  UserAsks'
  BY <1>11, <1>1, <1>2
     DEF ManagerOpenLocks, ManagerOpenAdds, UserAt, ManagerCloseLocks,
         ManagerCloseRemoves, ManagerCloseReleases, UserAsks, HandlePc,
         ManagerPc, OpeningPc, Registered
<1>12. ASSUME NEW u \in Users, NEW h \in Handles, NEW r \in Requests[h], OpenCalls(u, h, r)
       PROVE  UserAsks'
  BY <1>12, <1>1, <1>2
     DEF OpenCalls, UserAt, UserAsks, HandlePc, ManagerPc, OpeningPc,
         Registered
<1>13. ASSUME NEW u \in Users, NEW h \in Handles, CloseCalls(u, h)
       PROVE  UserAsks'
  BY <1>13, <1>1, <1>2
     DEF CloseCalls, UserAt, UserAsks, HandlePc, ManagerPc, OpeningPc,
         Registered
<1>14. ASSUME NEW u \in Users, NEW m \in Managers,
              \/ ManagerOpenCalls(u, m) \/ ManagerCloseCalls(u, m)
       PROVE  UserAsks'
  BY <1>14, <1>1, <1>2
     DEF ManagerOpenCalls, UserAt, ManagerCloseCalls, UserAsks, HandlePc,
         ManagerPc, OpeningPc, Registered
<1>15. ASSUME NEW u \in Users, NEW c \in Centrals, StartCreates(u, c)
       PROVE  UserAsks'
  BY <1>15, <1>1, <1>2
     DEF StartCreates, UserAt, UserAsks, HandlePc, ManagerPc, OpeningPc,
         Registered
<1>16. ASSUME NEW c \in Centrals,
              \/ LoopTests(c) \/ LoopEmpties(c) \/ LoopExits(c)
              \/ PollLocks(c) \/ PollStarts(c) \/ InitialActivates(c)
              \/ HandlerReturns(c) \/ TellingEnds(c) \/ PollBuildsList(c)
              \/ PollChecksError(c) \/ PollEnds(c) \/ DetachFindsNone(c)
              \/ DetachCloses(c) \/ DetachEnds(c) \/ FindStarts(c)
              \/ FindEnds(c) \/ MatchBuilds(c) \/ MatchNone(c)
              \/ MatchLocks(c) \/ AttachFails(c) \/ AttachBreaks(c) \/ AttachOpens(c)
              \/ AttachReturns(c)
       PROVE  UserAsks'
  BY <1>16, <1>3
     DEF LoopTests, LoopEmpties, CentralAt, LoopExits, PollLocks, PollStarts,
         InitialActivates, HandlerReturns, TellingEnds, PollBuildsList,
         PollChecksError, PollEnds, DetachFindsNone, DetachCloses, DetachEnds,
         FindStarts, FindEnds, MatchBuilds, MatchNone, Return, MatchLocks,
         AttachFails, AttachBreaks, AttachOpens, AttachReturns
<1>17. ASSUME NEW c \in Centrals, NEW m \in Managers,
              \/ InitialFinds(c, m) \/ Tells(c, m)
       PROVE  UserAsks'
  BY <1>17, <1>3
     DEF InitialFinds, CentralAt, Tells
<1>18. ASSUME NEW c \in Centrals, NEW d \in Devices,
              \/ PollAttaches(c, d) \/ PollKnows(c, d) \/ DetachForgets(c, d)
              \/ FindTakes(c, d)
       PROVE  UserAsks'
  BY <1>18, <1>3
     DEF PollAttaches, CentralAt, PollKnows, DetachForgets, FindTakes
<1>19. ASSUME NEW c \in Centrals, NEW h \in Handles,
              \/ DetachFinds(c, h) \/ MatchTries(c, h)
       PROVE  UserAsks'
  BY <1>19, <1>3
     DEF DetachFinds, CentralAt, MatchTries
<1>20. ASSUME NEW d \in Devices,
              \/ Unplug(d) \/ Plug(d)
       PROVE  UserAsks'
  BY <1>20, <1>3
     DEF Unplug, Plug
<1>21. ASSUME NEW h \in Handles, TransferFails(h)
       PROVE  UserAsks'
  BY <1>21, <1>3
     DEF TransferFails
<1>22. CASE UNCHANGED vars
  BY <1>22, <1>3
     DEF vars
<1>23. QED
  BY Zenon, <1>4, <1>5, <1>6, <1>7, <1>8, <1>9, <1>10, <1>11, <1>12, <1>13,
     <1>14, <1>15, <1>16, <1>17, <1>18, <1>19, <1>20, <1>21, <1>22
     DEF Next, User, UserContinues, Central, Poll, Find, Environment

LEMMA HandleAsksStep ==
  ASSUME OneSerialEach, Base, Locked, Asks, [Next]_vars
  PROVE  HandleAsks'
<1>1. /\ UserAsks /\ HandleAsks /\ Handles \cap Managers = {}
      /\ specific = [h \in Handles |-> specific[h]]
      /\ serial = [h \in Handles |-> serial[h]]
      /\ request = [h \in Handles |-> request[h]]
      /\ opened = [h \in Handles \cup Managers |-> opened[h]]
      /\ \A u \in Users : upc[u] \in HandlePc => uh[u] \in Handles
      /\ \A u \in Users : upc[u] # "idle" => uh[u] \in Handles \cup Managers
      /\ \A c \in Centrals : cpc[c] \in WithHandle => hand \in Handles
      /\ \A c \in Centrals : cpc[c] \in {"attach", "started"} => specific[hand] = "serial"
  BY CentralBounds DEF Base, TypeOK, UserKnows, PollerKnows, Asks, MatchAsks
<1>2. /\ \A h \in Handles : specific[h] = "serial" =>
             specific'[h] = "serial" /\ serial'[h] = serial[h] /\ serial[h] \in Requests[h]
      /\ \A h \in Handles : AnyPhidget \notin Requests[h]
  BY SerialsStay, AnyAssumption DEF OneSerialEach
<1>3. ASSUME UNCHANGED <<specific, serial, request, opened, activeDevices>>
      PROVE  HandleAsks'
  BY <1>1, <1>3 DEF HandleAsks
<1>4. ASSUME NEW u \in Users, OpenLocks(u)
      PROVE  HandleAsks'
  <2>1. /\ uh[u] \in Handles /\ ureq[u] \in Requests[uh[u]]
        /\ specific' = [specific EXCEPT ![uh[u]] = "serial"]
        /\ serial' = [serial EXCEPT ![uh[u]] = ureq[u]]
        /\ request' = [request EXCEPT ![uh[u]] = ureq[u]]
        /\ UNCHANGED <<opened, activeDevices>>
    <3>1. uh[u] \in Handles /\ ureq[u] \in Requests[uh[u]]
      BY <1>4, <1>1 DEF OpenLocks, UserAt, UserAsks
    <3>2. ureq[u] # AnyPhidget
      BY <3>1, <1>2
    <3>3. QED
      BY <1>4, <3>1, <3>2 DEF OpenLocks
  <2>2. QED
    BY <2>1, <1>1, <1>2 DEF HandleAsks
<1>5. ASSUME NEW u \in Users, OpenRegisters(u)
      PROVE  HandleAsks'
  BY <1>5, <1>1, <1>2
     DEF OpenRegisters, UserAt, UserAsks, HandleAsks, HandlePc, OpeningPc,
         Registered, WithHandle
<1>6. ASSUME NEW u \in Users, OpenReturns(u)
      PROVE  HandleAsks'
  <2>1. /\ uh[u] \in Handles => specific[uh[u]] = "serial"
        /\ opened' = [opened EXCEPT ![uh[u]] = TRUE]
        /\ UNCHANGED <<specific, serial, request, activeDevices>>
    BY <1>6, <1>1 DEF OpenReturns, UserAt, UserAsks, OpeningPc, Registered
  <2>2. \A h \in Handles : opened'[h] => opened[h] \/ h = uh[u]
    BY <2>1, <1>1
  <2>3. QED
    BY <2>1, <2>2, <1>1 DEF HandleAsks
<1>7. ASSUME NEW u \in Users, CloseRemoves(u)
      PROVE  HandleAsks'
  BY <1>7, <1>1, <1>2
     DEF CloseRemoves, UserAt, UserAsks, HandleAsks, HandlePc, OpeningPc,
         Registered, WithHandle
<1>8. ASSUME NEW u \in Users, CloseReleases(u)
      PROVE  HandleAsks'
  BY <1>8, <1>1, <1>2
     DEF CloseReleases, UserAsks, HandleAsks, HandlePc, OpeningPc, Registered,
         WithHandle
<1>9. ASSUME NEW u \in Users, CloseReturns(u)
      PROVE  HandleAsks'
  BY <1>9, <1>1, <1>2
     DEF CloseReturns, UserAt, UserAsks, HandleAsks, HandlePc, OpeningPc,
         Registered, WithHandle
<1>10. ASSUME NEW c \in Centrals, NEW h \in Handles, DetachFinds(c, h)
       PROVE  HandleAsks'
  BY <1>10, <1>1, <1>2
     DEF DetachFinds, CentralAt, UserAsks, HandleAsks, HandlePc, OpeningPc,
         Registered, WithHandle
<1>11. ASSUME NEW c \in Centrals, AttachFails(c)
       PROVE  HandleAsks'
  BY <1>11, <1>1, <1>2
     DEF AttachFails, CentralAt, UserAsks, HandleAsks, HandlePc, OpeningPc,
         Registered, WithHandle
<1>11b. ASSUME NEW c \in Centrals, AttachBreaks(c)
       PROVE  HandleAsks'
  BY <1>11b, <1>1, <1>2
     DEF AttachBreaks, CentralAt, UserAsks, HandleAsks, HandlePc, OpeningPc,
         Registered, WithHandle
<1>12. ASSUME NEW c \in Centrals, AttachOpens(c)
       PROVE  HandleAsks'
  BY <1>12, <1>1, <1>2
     DEF AttachOpens, CentralAt, UserAsks, HandleAsks, HandlePc, OpeningPc,
         Registered, WithHandle
<1>13. ASSUME NEW u \in Users,
              \/ OpenIgnored(u) \/ OpenIsDuplicate(u) \/ StartFindsThread(u)
              \/ StartSetsStatus(u) \/ CloseIgnored(u) \/ CloseLocks(u)
              \/ CloseTestsAttached(u) \/ CloseDetaches(u) \/ JoinSkips(u)
              \/ JoinStarts(u) \/ JoinEnds(u) \/ CloseUninits(u)
              \/ ManagerOpenLocks(u) \/ ManagerOpenAdds(u)
              \/ ManagerCloseLocks(u) \/ ManagerCloseRemoves(u)
              \/ ManagerCloseReleases(u)
       PROVE  HandleAsks'
  BY <1>13, <1>3
     DEF OpenIgnored, UserAt, OpenIsDuplicate, StartFindsThread,
         StartSetsStatus, CloseIgnored, CloseLocks, CloseTestsAttached,
         CloseDetaches, JoinSkips, JoinStarts, JoinEnds, CloseUninits,
         ManagerOpenLocks, ManagerOpenAdds, ManagerCloseLocks,
         ManagerCloseRemoves, ManagerCloseReleases
<1>14. ASSUME NEW u \in Users, NEW h \in Handles, NEW r \in Requests[h], OpenCalls(u, h, r)
       PROVE  HandleAsks'
  BY <1>14, <1>3
     DEF OpenCalls, UserAt
<1>15. ASSUME NEW u \in Users, NEW h \in Handles, CloseCalls(u, h)
       PROVE  HandleAsks'
  BY <1>15, <1>3
     DEF CloseCalls, UserAt
<1>16. ASSUME NEW u \in Users, NEW m \in Managers,
              \/ ManagerOpenCalls(u, m) \/ ManagerCloseCalls(u, m)
       PROVE  HandleAsks'
  BY <1>16, <1>3
     DEF ManagerOpenCalls, UserAt, ManagerCloseCalls
<1>17. ASSUME NEW u \in Users, NEW c \in Centrals, StartCreates(u, c)
       PROVE  HandleAsks'
  BY <1>17, <1>3
     DEF StartCreates, UserAt
<1>18. ASSUME NEW c \in Centrals,
              \/ LoopTests(c) \/ LoopEmpties(c) \/ LoopExits(c)
              \/ PollLocks(c) \/ PollStarts(c) \/ InitialActivates(c)
              \/ HandlerReturns(c) \/ TellingEnds(c) \/ PollBuildsList(c)
              \/ PollChecksError(c) \/ PollEnds(c) \/ DetachFindsNone(c)
              \/ DetachCloses(c) \/ DetachEnds(c) \/ FindStarts(c)
              \/ FindEnds(c) \/ MatchBuilds(c) \/ MatchNone(c)
              \/ MatchLocks(c) \/ AttachReturns(c)
       PROVE  HandleAsks'
  BY <1>18, <1>3
     DEF LoopTests, LoopEmpties, CentralAt, LoopExits, PollLocks, PollStarts,
         InitialActivates, HandlerReturns, TellingEnds, PollBuildsList,
         PollChecksError, PollEnds, DetachFindsNone, DetachCloses, DetachEnds,
         FindStarts, FindEnds, MatchBuilds, MatchNone, Return, MatchLocks,
         AttachReturns
<1>19. ASSUME NEW c \in Centrals, NEW m \in Managers,
              \/ InitialFinds(c, m) \/ Tells(c, m)
       PROVE  HandleAsks'
  BY <1>19, <1>3
     DEF InitialFinds, CentralAt, Tells
<1>20. ASSUME NEW c \in Centrals, NEW d \in Devices,
              \/ PollAttaches(c, d) \/ PollKnows(c, d) \/ DetachForgets(c, d)
              \/ FindTakes(c, d)
       PROVE  HandleAsks'
  BY <1>20, <1>3
     DEF PollAttaches, CentralAt, PollKnows, DetachForgets, FindTakes
<1>21. ASSUME NEW c \in Centrals, NEW h \in Handles, MatchTries(c, h)
       PROVE  HandleAsks'
  BY <1>21, <1>3
     DEF MatchTries, CentralAt
<1>22. ASSUME NEW d \in Devices,
              \/ Unplug(d) \/ Plug(d)
       PROVE  HandleAsks'
  BY <1>22, <1>3
     DEF Unplug, Plug
<1>23. ASSUME NEW h \in Handles, TransferFails(h)
       PROVE  HandleAsks'
  BY <1>23, <1>3
     DEF TransferFails
<1>24. CASE UNCHANGED vars
  BY <1>24, <1>3
     DEF vars
<1>25. QED
  BY Zenon, <1>4, <1>5, <1>6, <1>7, <1>8, <1>9, <1>10, <1>11, <1>11b, <1>12, <1>13,
     <1>14, <1>15, <1>16, <1>17, <1>18, <1>19, <1>20, <1>21, <1>22, <1>23,
     <1>24
     DEF Next, User, UserContinues, Central, Poll, Find, Environment

LEMMA MatchAsksStep ==
  ASSUME OneSerialEach, Base, Locked, Asks, [Next]_vars
  PROVE  MatchAsks'
<1>1. /\ HandleAsks /\ MatchAsks /\ PollerHolds /\ cpc = [c \in Centrals |-> cpc[c]]
      /\ activeDevices \subseteq Handles /\ matches \subseteq Handles
      /\ \A c \in Centrals : cpc[c] \in WithHandle => hand \in Handles
      /\ NoThread \notin Centrals
  BY ThreadsAssumption DEF Base, TypeOK, PollerKnows, Asks
<1>2. \A h \in Handles : specific[h] = "serial" =>
          specific'[h] = "serial" /\ serial'[h] = serial[h] /\ serial[h] \in Requests[h]
  BY SerialsStay
<1>3. ASSUME UNCHANGED <<cpc, dev, hand, matches>> PROVE MatchAsks'
  BY <1>1, <1>2, <1>3 DEF MatchAsks, WithHandle
<1>4. ASSUME NEW u \in Users, NEW c \in Centrals, StartCreates(u, c)
      PROVE  MatchAsks'
  BY <1>4, <1>1, <1>2
     DEF StartCreates, UserAt, MatchAsks, PollerHolds, Holding, WithHandle
<1>5. ASSUME NEW c \in Centrals,
             \/ LoopTests(c) \/ LoopEmpties(c) \/ LoopExits(c) \/ PollLocks(c)
             \/ PollStarts(c) \/ InitialActivates(c)
      PROVE  MatchAsks'
  BY <1>5, <1>1, <1>2
     DEF LoopTests, LoopEmpties, CentralAt, LoopExits, PollLocks, PollStarts,
         InitialActivates, MatchAsks, PollerHolds, Holding, WithHandle
<1>6. ASSUME NEW c \in Centrals, HandlerReturns(c)
      PROVE  MatchAsks'
  BY <1>6, <1>1, <1>2
     DEF HandlerReturns, MatchAsks, PollerHolds, Holding, WithHandle
<1>7. ASSUME NEW c \in Centrals,
             \/ TellingEnds(c) \/ PollBuildsList(c) \/ PollChecksError(c)
             \/ PollEnds(c) \/ DetachFindsNone(c) \/ DetachCloses(c)
             \/ DetachEnds(c)
      PROVE  MatchAsks'
  BY <1>7, <1>1, <1>2
     DEF TellingEnds, PollBuildsList, CentralAt, PollChecksError, PollEnds,
         DetachFindsNone, DetachCloses, DetachEnds, MatchAsks, PollerHolds,
         Holding, WithHandle
<1>8. ASSUME NEW c \in Centrals,
             \/ FindStarts(c) \/ FindEnds(c)
      PROVE  MatchAsks'
  BY <1>8, <1>1, <1>2
     DEF FindStarts, CentralAt, FindEnds, MatchAsks, PollerHolds, Holding,
         WithHandle
<1>9. ASSUME NEW c \in Centrals, MatchBuilds(c)
      PROVE  MatchAsks'
  BY <1>9, <1>1, <1>2
     DEF MatchBuilds, CentralAt, Waiting, HandleAsks, MatchAsks, PollerHolds,
         Holding, WithHandle
<1>10. ASSUME NEW c \in Centrals, MatchNone(c)
       PROVE  MatchAsks'
  BY <1>10, <1>1, <1>2
     DEF MatchNone, Return, MatchAsks, PollerHolds, Holding, WithHandle
<1>11. ASSUME NEW c \in Centrals,
              \/ MatchLocks(c) \/ AttachFails(c) \/ AttachBreaks(c)
       PROVE  MatchAsks'
  BY <1>11, <1>1, <1>2
     DEF MatchLocks, CentralAt, AttachFails, AttachBreaks, MatchAsks, PollerHolds, Holding,
         WithHandle
<1>12. ASSUME NEW c \in Centrals, AttachOpens(c)
       PROVE  MatchAsks'
  BY <1>12, <1>1, <1>2
     DEF AttachOpens, CentralAt, MatchAsks, PollerHolds, Holding, WithHandle
<1>13. ASSUME NEW c \in Centrals, AttachReturns(c)
       PROVE  MatchAsks'
  BY <1>13, <1>1, <1>2
     DEF AttachReturns, Return, MatchAsks, PollerHolds, Holding, WithHandle
<1>14. ASSUME NEW c \in Centrals, NEW m \in Managers, InitialFinds(c, m)
       PROVE  MatchAsks'
  BY <1>14, <1>1, <1>2
     DEF InitialFinds, CentralAt, MatchAsks, PollerHolds, Holding, WithHandle
<1>15. ASSUME NEW c \in Centrals, NEW m \in Managers, Tells(c, m)
       PROVE  MatchAsks'
  BY <1>15, <1>1, <1>2
     DEF Tells, MatchAsks, PollerHolds, Holding, WithHandle
<1>16. ASSUME NEW c \in Centrals, NEW d \in Devices,
              \/ PollAttaches(c, d) \/ PollKnows(c, d) \/ DetachForgets(c, d)
              \/ FindTakes(c, d)
       PROVE  MatchAsks'
  BY <1>16, <1>1, <1>2
     DEF PollAttaches, CentralAt, PollKnows, DetachForgets, FindTakes,
         MatchAsks, PollerHolds, Holding, WithHandle
<1>17. ASSUME NEW c \in Centrals, NEW h \in Handles, DetachFinds(c, h)
       PROVE  MatchAsks'
  BY <1>17, <1>1, <1>2
     DEF DetachFinds, CentralAt, MatchAsks, PollerHolds, Holding, WithHandle
<1>18. ASSUME NEW c \in Centrals, NEW h \in Handles, MatchTries(c, h)
       PROVE  MatchAsks'
  BY <1>18, <1>1, <1>2
     DEF MatchTries, CentralAt, MatchAsks, PollerHolds, Holding, WithHandle
<1>19. ASSUME NEW u \in Users,
              \/ OpenIgnored(u) \/ OpenLocks(u) \/ OpenIsDuplicate(u)
              \/ OpenRegisters(u) \/ StartFindsThread(u) \/ StartSetsStatus(u)
              \/ OpenReturns(u) \/ CloseIgnored(u) \/ CloseLocks(u)
              \/ CloseRemoves(u) \/ CloseTestsAttached(u) \/ CloseDetaches(u)
              \/ CloseReleases(u) \/ JoinSkips(u) \/ JoinStarts(u)
              \/ JoinEnds(u) \/ CloseUninits(u) \/ CloseReturns(u)
              \/ ManagerOpenLocks(u) \/ ManagerOpenAdds(u)
              \/ ManagerCloseLocks(u) \/ ManagerCloseRemoves(u)
              \/ ManagerCloseReleases(u)
       PROVE  MatchAsks'
  BY <1>19, <1>3
     DEF OpenIgnored, UserAt, OpenLocks, OpenIsDuplicate, OpenRegisters,
         StartFindsThread, StartSetsStatus, OpenReturns, CloseIgnored,
         CloseLocks, CloseRemoves, CloseTestsAttached, CloseDetaches,
         CloseReleases, JoinSkips, JoinStarts, JoinEnds, CloseUninits,
         CloseReturns, ManagerOpenLocks, ManagerOpenAdds, ManagerCloseLocks,
         ManagerCloseRemoves, ManagerCloseReleases
<1>20. ASSUME NEW u \in Users, NEW h \in Handles, NEW r \in Requests[h], OpenCalls(u, h, r)
       PROVE  MatchAsks'
  BY <1>20, <1>3
     DEF OpenCalls, UserAt
<1>21. ASSUME NEW u \in Users, NEW h \in Handles, CloseCalls(u, h)
       PROVE  MatchAsks'
  BY <1>21, <1>3
     DEF CloseCalls, UserAt
<1>22. ASSUME NEW u \in Users, NEW m \in Managers,
              \/ ManagerOpenCalls(u, m) \/ ManagerCloseCalls(u, m)
       PROVE  MatchAsks'
  BY <1>22, <1>3
     DEF ManagerOpenCalls, UserAt, ManagerCloseCalls
<1>23. ASSUME NEW d \in Devices,
              \/ Unplug(d) \/ Plug(d)
       PROVE  MatchAsks'
  BY <1>23, <1>3
     DEF Unplug, Plug
<1>24. ASSUME NEW h \in Handles, TransferFails(h)
       PROVE  MatchAsks'
  BY <1>24, <1>3
     DEF TransferFails
<1>25. CASE UNCHANGED vars
  BY <1>25, <1>3
     DEF vars
<1>26. QED
  BY Zenon, <1>4, <1>5, <1>6, <1>7, <1>8, <1>9, <1>10, <1>11, <1>12, <1>13,
     <1>14, <1>15, <1>16, <1>17, <1>18, <1>19, <1>20, <1>21, <1>22, <1>23,
     <1>24, <1>25
     DEF Next, User, UserContinues, Central, Poll, Find, Environment

LEMMA InListStep ==
  ASSUME Base, OffList, InList, [Next]_vars
  PROVE  InList'
<1>1. /\ InList /\ OffList /\ activeDevices \subseteq Handles
      /\ Handles \cap Managers = {}
      /\ upc = [u \in Users |-> upc[u]] /\ uh = [u \in Users |-> uh[u]]
      /\ opened = [h \in Handles \cup Managers |-> opened[h]]
      /\ \A u \in Users : upc[u] # "idle" => uh[u] \in Handles \cup Managers
      /\ \A u \in Users : upc[u] \in HandlePc => uh[u] \in Handles
  BY CentralBounds DEF Base, TypeOK, UserKnows
<1>2. ASSUME UNCHANGED <<activeDevices, opened, upc, uh>> PROVE InList'
  BY <1>1, <1>2 DEF InList
<1>3. ASSUME NEW u \in Users,
             \/ OpenIgnored(u) \/ OpenLocks(u)
      PROVE  InList'
  BY <1>3, <1>1
     DEF OpenIgnored, UserAt, OpenLocks, InList, OffList, Registered,
         RemovedPc, ClosedPc, HandlePc
<1>4. ASSUME NEW u \in Users, OpenIsDuplicate(u)
      PROVE  InList'
  BY <1>4, <1>1
     DEF OpenIsDuplicate, UserAt, InList, OffList, Registered, RemovedPc,
         ClosedPc, HandlePc
<1>5. ASSUME NEW u \in Users, OpenRegisters(u)
      PROVE  InList'
  BY <1>5, <1>1
     DEF OpenRegisters, UserAt, InList, OffList, Registered, RemovedPc,
         ClosedPc, HandlePc
<1>6. ASSUME NEW u \in Users,
             \/ StartFindsThread(u) \/ StartSetsStatus(u)
      PROVE  InList'
  BY <1>6, <1>1
     DEF StartFindsThread, StartSetsStatus, UserAt, InList, OffList,
         Registered, RemovedPc, ClosedPc, HandlePc
<1>7. ASSUME NEW u \in Users, OpenReturns(u)
      PROVE  InList'
  BY <1>7, <1>1
     DEF OpenReturns, UserAt, InList, OffList, Registered, RemovedPc,
         ClosedPc, HandlePc
<1>8. ASSUME NEW u \in Users,
             \/ CloseIgnored(u) \/ CloseLocks(u)
      PROVE  InList'
  BY <1>8, <1>1
     DEF CloseIgnored, UserAt, CloseLocks, InList, OffList, Registered,
         RemovedPc, ClosedPc, HandlePc
<1>9. ASSUME NEW u \in Users, CloseRemoves(u)
      PROVE  InList'
  BY <1>9, <1>1
     DEF CloseRemoves, UserAt, InList, OffList, Registered, RemovedPc,
         ClosedPc, HandlePc
<1>10. ASSUME NEW u \in Users,
              \/ CloseTestsAttached(u) \/ CloseDetaches(u) \/ CloseReleases(u)
       PROVE  InList'
  BY <1>10, <1>1
     DEF CloseTestsAttached, CloseDetaches, UserAt, CloseReleases, InList,
         OffList, Registered, RemovedPc, ClosedPc, HandlePc
<1>11. ASSUME NEW u \in Users,
              \/ JoinSkips(u) \/ JoinStarts(u) \/ JoinEnds(u)
              \/ CloseUninits(u)
       PROVE  InList'
  BY <1>11, <1>1
     DEF JoinSkips, UserAt, JoinStarts, JoinEnds, CloseUninits, InList,
         OffList, Registered, RemovedPc, ClosedPc, HandlePc
<1>12. ASSUME NEW u \in Users, CloseReturns(u)
       PROVE  InList'
  <2>1. /\ uh[u] \notin activeDevices /\ upc[u] = "unflag" /\ uh[u] \in Handles \cup Managers
        /\ opened' = [opened EXCEPT ![uh[u]] = FALSE]
        /\ uh' = [uh EXCEPT ![u] = NoThread] /\ upc' = [upc EXCEPT ![u] = "idle"]
        /\ UNCHANGED activeDevices
    BY <1>12, <1>1 DEF CloseReturns, UserAt, OffList, RemovedPc, ClosedPc
  <2>2. \A h \in activeDevices : opened'[h] = opened[h]
    BY <2>1, <1>1
  <2>3. \A h \in activeDevices, v \in Users :
            uh[v] = h /\ upc[v] \in Registered => uh'[v] = h /\ upc'[v] \in Registered
    BY <2>1, <1>1 DEF Registered
  <2>4. QED
    BY <2>1, <2>2, <2>3, <1>1 DEF InList
<1>13. ASSUME NEW u \in Users,
              \/ ManagerOpenLocks(u) \/ ManagerOpenAdds(u)
              \/ ManagerCloseLocks(u) \/ ManagerCloseRemoves(u)
              \/ ManagerCloseReleases(u)
       PROVE  InList'
  BY <1>13, <1>1
     DEF ManagerOpenLocks, ManagerOpenAdds, UserAt, ManagerCloseLocks,
         ManagerCloseRemoves, ManagerCloseReleases, InList, OffList,
         Registered, RemovedPc, ClosedPc, HandlePc
<1>14. ASSUME NEW u \in Users, NEW h \in Handles, NEW r \in Requests[h], OpenCalls(u, h, r)
       PROVE  InList'
  BY <1>14, <1>1
     DEF OpenCalls, UserAt, InList, OffList, Registered, RemovedPc, ClosedPc,
         HandlePc
<1>15. ASSUME NEW u \in Users, NEW h \in Handles, CloseCalls(u, h)
       PROVE  InList'
  BY <1>15, <1>1
     DEF CloseCalls, UserAt, InList, OffList, Registered, RemovedPc, ClosedPc,
         HandlePc
<1>16. ASSUME NEW u \in Users, NEW m \in Managers,
              \/ ManagerOpenCalls(u, m) \/ ManagerCloseCalls(u, m)
       PROVE  InList'
  BY <1>16, <1>1
     DEF ManagerOpenCalls, UserAt, ManagerCloseCalls, InList, OffList,
         Registered, RemovedPc, ClosedPc, HandlePc
<1>17. ASSUME NEW u \in Users, NEW c \in Centrals, StartCreates(u, c)
       PROVE  InList'
  BY <1>17, <1>1
     DEF StartCreates, UserAt, InList, OffList, Registered, RemovedPc,
         ClosedPc, HandlePc
<1>18. ASSUME NEW c \in Centrals,
              \/ LoopTests(c) \/ LoopEmpties(c) \/ LoopExits(c)
              \/ PollLocks(c) \/ PollStarts(c) \/ InitialActivates(c)
              \/ HandlerReturns(c) \/ TellingEnds(c) \/ PollBuildsList(c)
              \/ PollChecksError(c) \/ PollEnds(c) \/ DetachFindsNone(c)
              \/ DetachCloses(c) \/ DetachEnds(c) \/ FindStarts(c)
              \/ FindEnds(c) \/ MatchBuilds(c) \/ MatchNone(c)
              \/ MatchLocks(c) \/ AttachFails(c) \/ AttachBreaks(c) \/ AttachOpens(c)
              \/ AttachReturns(c)
       PROVE  InList'
  BY <1>18, <1>2
     DEF LoopTests, LoopEmpties, CentralAt, LoopExits, PollLocks, PollStarts,
         InitialActivates, HandlerReturns, TellingEnds, PollBuildsList,
         PollChecksError, PollEnds, DetachFindsNone, DetachCloses, DetachEnds,
         FindStarts, FindEnds, MatchBuilds, MatchNone, Return, MatchLocks,
         AttachFails, AttachBreaks, AttachOpens, AttachReturns
<1>19. ASSUME NEW c \in Centrals, NEW m \in Managers,
              \/ InitialFinds(c, m) \/ Tells(c, m)
       PROVE  InList'
  BY <1>19, <1>2
     DEF InitialFinds, CentralAt, Tells
<1>20. ASSUME NEW c \in Centrals, NEW d \in Devices,
              \/ PollAttaches(c, d) \/ PollKnows(c, d) \/ DetachForgets(c, d)
              \/ FindTakes(c, d)
       PROVE  InList'
  BY <1>20, <1>2
     DEF PollAttaches, CentralAt, PollKnows, DetachForgets, FindTakes
<1>21. ASSUME NEW c \in Centrals, NEW h \in Handles,
              \/ DetachFinds(c, h) \/ MatchTries(c, h)
       PROVE  InList'
  BY <1>21, <1>2
     DEF DetachFinds, CentralAt, MatchTries
<1>22. ASSUME NEW d \in Devices,
              \/ Unplug(d) \/ Plug(d)
       PROVE  InList'
  BY <1>22, <1>2
     DEF Unplug, Plug
<1>23. ASSUME NEW h \in Handles, TransferFails(h)
       PROVE  InList'
  BY <1>23, <1>2
     DEF TransferFails
<1>24. CASE UNCHANGED vars
  BY <1>24, <1>2
     DEF vars
<1>25. QED
  BY Zenon, <1>3, <1>4, <1>5, <1>6, <1>7, <1>8, <1>9, <1>10, <1>11, <1>12,
     <1>13, <1>14, <1>15, <1>16, <1>17, <1>18, <1>19, <1>20, <1>21, <1>22,
     <1>23, <1>24
     DEF Next, User, UserContinues, Central, Poll, Find, Environment

\* CList_removeFromList takes the handle off the list if its serial number is
\* not on it twice.
LEMMA RemovedIsOff ==
  ASSUME NEW h \in activeDevices, HandleAsks, ListIsOfSerials, activeDevices \subseteq Handles
  PROVE  h \in Removed(h)
<1>1. \A e \in activeDevices : AreEqual(h, e) => e = h
  BY DEF HandleAsks, ListIsOfSerials, AreEqual
<1>2. h \in {e \in activeDevices : AreEqual(h, e)}
  BY DEF AreEqual
<1>3. QED
  BY <1>1, <1>2 DEF Removed

LEMMA OffListStep ==
  ASSUME Base, Locked, Asks, OffList, ListIsOfSerials, [Next]_vars
  PROVE  OffList'
<1>1. /\ UserHolds /\ OffList /\ Handles \cap Managers = {}
      /\ upc = [u \in Users |-> upc[u]] /\ uh = [u \in Users |-> uh[u]]
      /\ \A u \in Users : upc[u] # "idle" => uh[u] \in Handles \cup Managers
      /\ \A u \in Users : upc[u] \in HandlePc => uh[u] \in Handles
      /\ \A u \in Users : upc[u] \in ManagerPc => uh[u] \in Managers
  BY CentralBounds DEF Base, TypeOK, UserKnows, Locked
<1>2. \A h \in activeDevices : h \in Removed(h)
  BY RemovedIsOff DEF Base, TypeOK, Asks
<1>3. ASSUME UNCHANGED <<activeDevices, upc, uh>> PROVE OffList'
  BY <1>1, <1>3 DEF OffList
<1>4. ASSUME NEW u \in Users,
             \/ OpenIgnored(u) \/ OpenLocks(u)
      PROVE  OffList'
  BY <1>4, <1>1
     DEF OpenIgnored, UserAt, OpenLocks, OffList, RemovedPc, ClosedPc,
         HandlePc, ManagerPc
<1>5. ASSUME NEW u \in Users, OpenIsDuplicate(u)
      PROVE  OffList'
  BY <1>5, <1>1
     DEF OpenIsDuplicate, UserAt, OffList, RemovedPc, ClosedPc, HandlePc,
         ManagerPc
<1>6. ASSUME NEW u \in Users, OpenRegisters(u)
      PROVE  OffList'
  BY <1>6, <1>1
     DEF OpenRegisters, UserAt, UserHolds, Outside, OffList, RemovedPc,
         ClosedPc, HandlePc, ManagerPc
<1>7. ASSUME NEW u \in Users,
             \/ StartFindsThread(u) \/ StartSetsStatus(u) \/ OpenReturns(u)
      PROVE  OffList'
  BY <1>7, <1>1
     DEF StartFindsThread, StartSetsStatus, UserAt, OpenReturns, OffList,
         RemovedPc, ClosedPc, HandlePc, ManagerPc
<1>8. ASSUME NEW u \in Users,
             \/ CloseIgnored(u) \/ CloseLocks(u)
      PROVE  OffList'
  BY <1>8, <1>1
     DEF CloseIgnored, UserAt, CloseLocks, OffList, RemovedPc, ClosedPc,
         HandlePc, ManagerPc
<1>9. ASSUME NEW u \in Users, CloseRemoves(u)
      PROVE  OffList'
  BY <1>9, <1>2, <1>1
     DEF CloseRemoves, UserAt, OffList, RemovedPc, ClosedPc, HandlePc,
         ManagerPc
<1>10. ASSUME NEW u \in Users,
              \/ CloseTestsAttached(u) \/ CloseDetaches(u) \/ CloseReleases(u)
       PROVE  OffList'
  BY <1>10, <1>1
     DEF CloseTestsAttached, CloseDetaches, UserAt, CloseReleases, OffList,
         RemovedPc, ClosedPc, HandlePc, ManagerPc
<1>11. ASSUME NEW u \in Users,
              \/ JoinSkips(u) \/ JoinStarts(u) \/ JoinEnds(u)
              \/ CloseUninits(u) \/ CloseReturns(u)
       PROVE  OffList'
  BY <1>11, <1>1
     DEF JoinSkips, UserAt, JoinStarts, JoinEnds, CloseUninits, CloseReturns,
         OffList, RemovedPc, ClosedPc, HandlePc, ManagerPc
<1>12. ASSUME NEW u \in Users,
              \/ ManagerOpenLocks(u) \/ ManagerOpenAdds(u)
              \/ ManagerCloseLocks(u) \/ ManagerCloseRemoves(u)
              \/ ManagerCloseReleases(u)
       PROVE  OffList'
  BY <1>12, <1>1
     DEF ManagerOpenLocks, ManagerOpenAdds, UserAt, ManagerCloseLocks,
         ManagerCloseRemoves, ManagerCloseReleases, OffList, RemovedPc,
         ClosedPc, HandlePc, ManagerPc
<1>13. ASSUME NEW u \in Users, NEW h \in Handles, NEW r \in Requests[h], OpenCalls(u, h, r)
       PROVE  OffList'
  BY <1>13, <1>1
     DEF OpenCalls, UserAt, OffList, RemovedPc, ClosedPc, HandlePc, ManagerPc
<1>14. ASSUME NEW u \in Users, NEW h \in Handles, CloseCalls(u, h)
       PROVE  OffList'
  BY <1>14, <1>1
     DEF CloseCalls, UserAt, OffList, RemovedPc, ClosedPc, HandlePc, ManagerPc
<1>15. ASSUME NEW u \in Users, NEW m \in Managers,
              \/ ManagerOpenCalls(u, m) \/ ManagerCloseCalls(u, m)
       PROVE  OffList'
  BY <1>15, <1>1
     DEF ManagerOpenCalls, UserAt, ManagerCloseCalls, OffList, RemovedPc,
         ClosedPc, HandlePc, ManagerPc
<1>16. ASSUME NEW u \in Users, NEW c \in Centrals, StartCreates(u, c)
       PROVE  OffList'
  BY <1>16, <1>1
     DEF StartCreates, UserAt, OffList, RemovedPc, ClosedPc, HandlePc,
         ManagerPc
<1>17. ASSUME NEW c \in Centrals,
              \/ LoopTests(c) \/ LoopEmpties(c) \/ LoopExits(c)
              \/ PollLocks(c) \/ PollStarts(c) \/ InitialActivates(c)
              \/ HandlerReturns(c) \/ TellingEnds(c) \/ PollBuildsList(c)
              \/ PollChecksError(c) \/ PollEnds(c) \/ DetachFindsNone(c)
              \/ DetachCloses(c) \/ DetachEnds(c) \/ FindStarts(c)
              \/ FindEnds(c) \/ MatchBuilds(c) \/ MatchNone(c)
              \/ MatchLocks(c) \/ AttachFails(c) \/ AttachBreaks(c) \/ AttachOpens(c)
              \/ AttachReturns(c)
       PROVE  OffList'
  BY <1>17, <1>3
     DEF LoopTests, LoopEmpties, CentralAt, LoopExits, PollLocks, PollStarts,
         InitialActivates, HandlerReturns, TellingEnds, PollBuildsList,
         PollChecksError, PollEnds, DetachFindsNone, DetachCloses, DetachEnds,
         FindStarts, FindEnds, MatchBuilds, MatchNone, Return, MatchLocks,
         AttachFails, AttachBreaks, AttachOpens, AttachReturns
<1>18. ASSUME NEW c \in Centrals, NEW m \in Managers,
              \/ InitialFinds(c, m) \/ Tells(c, m)
       PROVE  OffList'
  BY <1>18, <1>3
     DEF InitialFinds, CentralAt, Tells
<1>19. ASSUME NEW c \in Centrals, NEW d \in Devices,
              \/ PollAttaches(c, d) \/ PollKnows(c, d) \/ DetachForgets(c, d)
              \/ FindTakes(c, d)
       PROVE  OffList'
  BY <1>19, <1>3
     DEF PollAttaches, CentralAt, PollKnows, DetachForgets, FindTakes
<1>20. ASSUME NEW c \in Centrals, NEW h \in Handles,
              \/ DetachFinds(c, h) \/ MatchTries(c, h)
       PROVE  OffList'
  BY <1>20, <1>3
     DEF DetachFinds, CentralAt, MatchTries
<1>21. ASSUME NEW d \in Devices,
              \/ Unplug(d) \/ Plug(d)
       PROVE  OffList'
  BY <1>21, <1>3
     DEF Unplug, Plug
<1>22. ASSUME NEW h \in Handles, TransferFails(h)
       PROVE  OffList'
  BY <1>22, <1>3
     DEF TransferFails
<1>23. CASE UNCHANGED vars
  BY <1>23, <1>3
     DEF vars
<1>24. QED
  BY Zenon, <1>4, <1>5, <1>6, <1>7, <1>8, <1>9, <1>10, <1>11, <1>12, <1>13,
     <1>14, <1>15, <1>16, <1>17, <1>18, <1>19, <1>20, <1>21, <1>22, <1>23
     DEF Next, User, UserContinues, Central, Poll, Find, Environment

LEMMA ListOfSerialsStep ==
  ASSUME OneSerialEach, Base, Asks, ListIsOfSerials, [Next]_vars
  PROVE  ListIsOfSerials'
<1>1. /\ ListIsOfSerials /\ UserAsks /\ HandleAsks
      /\ activeDevices \subseteq Handles
      /\ \A u \in Users : upc[u] \in HandlePc => uh[u] \in Handles
  BY DEF Base, TypeOK, UserKnows, Asks
<1>2. \A h \in Handles : specific[h] = "serial" => serial'[h] = serial[h]
  BY SerialsStay
<1>3. ASSUME activeDevices' \subseteq activeDevices PROVE ListIsOfSerials'
  BY <1>1, <1>2, <1>3 DEF ListIsOfSerials, HandleAsks
<1>4. ASSUME NEW u \in Users, OpenRegisters(u)
      PROVE  ListIsOfSerials'
  BY <1>4, <1>1, <1>2, <1>3
     DEF OpenRegisters, UserAt, AreEqual, UserAsks, HandleAsks,
         ListIsOfSerials, HandlePc, OpeningPc
<1>5. ASSUME NEW u \in Users, CloseRemoves(u)
      PROVE  ListIsOfSerials'
  BY <1>5, <1>3
     DEF CloseRemoves, UserAt
<1>6. ASSUME NEW u \in Users,
             \/ OpenIgnored(u) \/ OpenLocks(u) \/ OpenIsDuplicate(u)
             \/ StartFindsThread(u) \/ StartSetsStatus(u) \/ OpenReturns(u)
             \/ CloseIgnored(u) \/ CloseLocks(u) \/ CloseTestsAttached(u)
             \/ CloseDetaches(u) \/ CloseReleases(u) \/ JoinSkips(u)
             \/ JoinStarts(u) \/ JoinEnds(u) \/ CloseUninits(u)
             \/ CloseReturns(u) \/ ManagerOpenLocks(u) \/ ManagerOpenAdds(u)
             \/ ManagerCloseLocks(u) \/ ManagerCloseRemoves(u)
             \/ ManagerCloseReleases(u)
      PROVE  ListIsOfSerials'
  BY <1>6, <1>3
     DEF OpenIgnored, UserAt, OpenLocks, OpenIsDuplicate, StartFindsThread,
         StartSetsStatus, OpenReturns, CloseIgnored, CloseLocks,
         CloseTestsAttached, CloseDetaches, CloseReleases, JoinSkips,
         JoinStarts, JoinEnds, CloseUninits, CloseReturns, ManagerOpenLocks,
         ManagerOpenAdds, ManagerCloseLocks, ManagerCloseRemoves,
         ManagerCloseReleases
<1>7. ASSUME NEW u \in Users, NEW h \in Handles, NEW r \in Requests[h], OpenCalls(u, h, r)
      PROVE  ListIsOfSerials'
  BY <1>7, <1>3
     DEF OpenCalls, UserAt
<1>8. ASSUME NEW u \in Users, NEW h \in Handles, CloseCalls(u, h)
      PROVE  ListIsOfSerials'
  BY <1>8, <1>3
     DEF CloseCalls, UserAt
<1>9. ASSUME NEW u \in Users, NEW m \in Managers,
             \/ ManagerOpenCalls(u, m) \/ ManagerCloseCalls(u, m)
      PROVE  ListIsOfSerials'
  BY <1>9, <1>3
     DEF ManagerOpenCalls, UserAt, ManagerCloseCalls
<1>10. ASSUME NEW u \in Users, NEW c \in Centrals, StartCreates(u, c)
       PROVE  ListIsOfSerials'
  BY <1>10, <1>3
     DEF StartCreates, UserAt
<1>11. ASSUME NEW c \in Centrals,
              \/ LoopTests(c) \/ LoopEmpties(c) \/ LoopExits(c)
              \/ PollLocks(c) \/ PollStarts(c) \/ InitialActivates(c)
              \/ HandlerReturns(c) \/ TellingEnds(c) \/ PollBuildsList(c)
              \/ PollChecksError(c) \/ PollEnds(c) \/ DetachFindsNone(c)
              \/ DetachCloses(c) \/ DetachEnds(c) \/ FindStarts(c)
              \/ FindEnds(c) \/ MatchBuilds(c) \/ MatchNone(c)
              \/ MatchLocks(c) \/ AttachFails(c) \/ AttachBreaks(c) \/ AttachOpens(c)
              \/ AttachReturns(c)
       PROVE  ListIsOfSerials'
  BY <1>11, <1>3
     DEF LoopTests, LoopEmpties, CentralAt, LoopExits, PollLocks, PollStarts,
         InitialActivates, HandlerReturns, TellingEnds, PollBuildsList,
         PollChecksError, PollEnds, DetachFindsNone, DetachCloses, DetachEnds,
         FindStarts, FindEnds, MatchBuilds, MatchNone, Return, MatchLocks,
         AttachFails, AttachBreaks, AttachOpens, AttachReturns
<1>12. ASSUME NEW c \in Centrals, NEW m \in Managers,
              \/ InitialFinds(c, m) \/ Tells(c, m)
       PROVE  ListIsOfSerials'
  BY <1>12, <1>3
     DEF InitialFinds, CentralAt, Tells
<1>13. ASSUME NEW c \in Centrals, NEW d \in Devices,
              \/ PollAttaches(c, d) \/ PollKnows(c, d) \/ DetachForgets(c, d)
              \/ FindTakes(c, d)
       PROVE  ListIsOfSerials'
  BY <1>13, <1>3
     DEF PollAttaches, CentralAt, PollKnows, DetachForgets, FindTakes
<1>14. ASSUME NEW c \in Centrals, NEW h \in Handles,
              \/ DetachFinds(c, h) \/ MatchTries(c, h)
       PROVE  ListIsOfSerials'
  BY <1>14, <1>3
     DEF DetachFinds, CentralAt, MatchTries
<1>15. ASSUME NEW d \in Devices,
              \/ Unplug(d) \/ Plug(d)
       PROVE  ListIsOfSerials'
  BY <1>15, <1>3
     DEF Unplug, Plug
<1>16. ASSUME NEW h \in Handles, TransferFails(h)
       PROVE  ListIsOfSerials'
  BY <1>16, <1>3
     DEF TransferFails
<1>17. CASE UNCHANGED vars
  BY <1>17, <1>3
     DEF vars
<1>18. QED
  BY Zenon, <1>4, <1>5, <1>6, <1>7, <1>8, <1>9, <1>10, <1>11, <1>12, <1>13,
     <1>14, <1>15, <1>16, <1>17
     DEF Next, User, UserContinues, Central, Poll, Find, Environment

LEMMA DetacherStep ==
  ASSUME Base, Locked, Detacher, OffList, [Next]_vars
  PROVE  Detacher'
<1>1. /\ PollerHolds /\ Detacher /\ OffList
      /\ NoThread \notin Centrals /\ activeDevices \subseteq Handles
      /\ cpc = [c \in Centrals |-> cpc[c]]
      /\ attached = [h \in Handles |-> attached[h]]
      /\ \A u \in Users : upc[u] \in HandlePc => uh[u] \in Handles
      /\ \A c \in Centrals : cpc[c] \in WithHandle => hand \in Handles
  BY ThreadsAssumption DEF Base, TypeOK, UserKnows, PollerKnows
<1>2. ASSUME UNCHANGED <<cpc, activeLock, hand, activeDevices, attached>> PROVE Detacher'
  BY <1>1, <1>2 DEF Detacher
<1>3. ASSUME NEW u \in Users, OpenRegisters(u)
      PROVE  Detacher'
  BY <1>3, <1>1
     DEF OpenRegisters, UserAt, Detacher, PollerHolds, Holding, WithHandle
<1>4. ASSUME NEW u \in Users, CloseRemoves(u)
      PROVE  Detacher'
  BY <1>4, <1>1
     DEF CloseRemoves, UserAt, Detacher, PollerHolds, Holding, WithHandle
<1>5. ASSUME NEW u \in Users, CloseDetaches(u)
      PROVE  Detacher'
  BY <1>5, <1>1
     DEF CloseDetaches, UserAt, OffList, RemovedPc, HandlePc, Detacher,
         PollerHolds, Holding, WithHandle
<1>6. ASSUME NEW u \in Users, NEW c \in Centrals, StartCreates(u, c)
      PROVE  Detacher'
  BY <1>6, <1>1
     DEF StartCreates, UserAt, Detacher, PollerHolds, Holding, WithHandle
<1>7. ASSUME NEW c \in Centrals,
             \/ LoopTests(c) \/ LoopEmpties(c) \/ LoopExits(c) \/ PollLocks(c)
             \/ PollStarts(c) \/ InitialActivates(c)
      PROVE  Detacher'
  BY <1>7, <1>1
     DEF LoopTests, LoopEmpties, CentralAt, LoopExits, PollLocks, PollStarts,
         InitialActivates, Detacher, PollerHolds, Holding, WithHandle
<1>8. ASSUME NEW c \in Centrals, HandlerReturns(c)
      PROVE  Detacher'
  BY <1>8, <1>1
     DEF HandlerReturns, Detacher, PollerHolds, Holding, WithHandle
<1>9. ASSUME NEW c \in Centrals,
             \/ TellingEnds(c) \/ PollBuildsList(c) \/ PollChecksError(c)
             \/ PollEnds(c)
      PROVE  Detacher'
  BY <1>9, <1>1
     DEF TellingEnds, PollBuildsList, CentralAt, PollChecksError, PollEnds,
         Detacher, PollerHolds, Holding, WithHandle
<1>10. ASSUME NEW c \in Centrals, DetachFindsNone(c)
       PROVE  Detacher'
  BY <1>10, <1>1
     DEF DetachFindsNone, CentralAt, Detacher, PollerHolds, Holding,
         WithHandle
<1>11. ASSUME NEW c \in Centrals,
              \/ DetachCloses(c) \/ DetachEnds(c)
       PROVE  Detacher'
  BY <1>11, <1>1
     DEF DetachCloses, CentralAt, DetachEnds, Detacher, PollerHolds, Holding,
         WithHandle
<1>12. ASSUME NEW c \in Centrals,
              \/ FindStarts(c) \/ FindEnds(c)
       PROVE  Detacher'
  BY <1>12, <1>1
     DEF FindStarts, CentralAt, FindEnds, Detacher, PollerHolds, Holding,
         WithHandle
<1>13. ASSUME NEW c \in Centrals,
              \/ MatchBuilds(c) \/ MatchNone(c)
       PROVE  Detacher'
  BY <1>13, <1>1
     DEF MatchBuilds, CentralAt, MatchNone, Return, Detacher, PollerHolds,
         Holding, WithHandle
<1>14. ASSUME NEW c \in Centrals,
              \/ MatchLocks(c) \/ AttachFails(c) \/ AttachBreaks(c)
       PROVE  Detacher'
  BY <1>14, <1>1
     DEF MatchLocks, CentralAt, AttachFails, AttachBreaks, Detacher, PollerHolds, Holding,
         WithHandle
<1>15. ASSUME NEW c \in Centrals, AttachOpens(c)
       PROVE  Detacher'
  BY <1>15, <1>1
     DEF AttachOpens, CentralAt, Detacher, PollerHolds, Holding, WithHandle
<1>16. ASSUME NEW c \in Centrals, AttachReturns(c)
       PROVE  Detacher'
  BY <1>16, <1>1
     DEF AttachReturns, Return, Detacher, PollerHolds, Holding, WithHandle
<1>17. ASSUME NEW c \in Centrals, NEW m \in Managers, InitialFinds(c, m)
       PROVE  Detacher'
  BY <1>17, <1>1
     DEF InitialFinds, CentralAt, Detacher, PollerHolds, Holding, WithHandle
<1>18. ASSUME NEW c \in Centrals, NEW m \in Managers, Tells(c, m)
       PROVE  Detacher'
  BY <1>18, <1>1
     DEF Tells, Detacher, PollerHolds, Holding, WithHandle
<1>19. ASSUME NEW c \in Centrals, NEW d \in Devices,
              \/ PollAttaches(c, d) \/ PollKnows(c, d) \/ DetachForgets(c, d)
              \/ FindTakes(c, d)
       PROVE  Detacher'
  BY <1>19, <1>1
     DEF PollAttaches, CentralAt, PollKnows, DetachForgets, FindTakes,
         Detacher, PollerHolds, Holding, WithHandle
<1>20. ASSUME NEW c \in Centrals, NEW h \in Handles, DetachFinds(c, h)
       PROVE  Detacher'
  BY <1>20, <1>1
     DEF DetachFinds, CentralAt, FirstOf, AttachedTo, Detacher, PollerHolds,
         Holding, WithHandle
<1>21. ASSUME NEW c \in Centrals, NEW h \in Handles, MatchTries(c, h)
       PROVE  Detacher'
  BY <1>21, <1>1
     DEF MatchTries, CentralAt, Detacher, PollerHolds, Holding, WithHandle
<1>22. ASSUME NEW u \in Users,
              \/ OpenIgnored(u) \/ OpenLocks(u) \/ OpenIsDuplicate(u)
              \/ StartFindsThread(u) \/ StartSetsStatus(u) \/ OpenReturns(u)
              \/ CloseIgnored(u) \/ CloseLocks(u) \/ CloseTestsAttached(u)
              \/ CloseReleases(u) \/ JoinSkips(u) \/ JoinStarts(u)
              \/ JoinEnds(u) \/ CloseUninits(u) \/ CloseReturns(u)
              \/ ManagerOpenLocks(u) \/ ManagerOpenAdds(u)
              \/ ManagerCloseLocks(u) \/ ManagerCloseRemoves(u)
              \/ ManagerCloseReleases(u)
       PROVE  Detacher'
  BY <1>22, <1>2
     DEF OpenIgnored, UserAt, OpenLocks, OpenIsDuplicate, StartFindsThread,
         StartSetsStatus, OpenReturns, CloseIgnored, CloseLocks,
         CloseTestsAttached, CloseReleases, JoinSkips, JoinStarts, JoinEnds,
         CloseUninits, CloseReturns, ManagerOpenLocks, ManagerOpenAdds,
         ManagerCloseLocks, ManagerCloseRemoves, ManagerCloseReleases
<1>23. ASSUME NEW u \in Users, NEW h \in Handles, NEW r \in Requests[h], OpenCalls(u, h, r)
       PROVE  Detacher'
  BY <1>23, <1>2
     DEF OpenCalls, UserAt
<1>24. ASSUME NEW u \in Users, NEW h \in Handles, CloseCalls(u, h)
       PROVE  Detacher'
  BY <1>24, <1>2
     DEF CloseCalls, UserAt
<1>25. ASSUME NEW u \in Users, NEW m \in Managers,
              \/ ManagerOpenCalls(u, m) \/ ManagerCloseCalls(u, m)
       PROVE  Detacher'
  BY <1>25, <1>2
     DEF ManagerOpenCalls, UserAt, ManagerCloseCalls
<1>26. ASSUME NEW d \in Devices,
              \/ Unplug(d) \/ Plug(d)
       PROVE  Detacher'
  BY <1>26, <1>2
     DEF Unplug, Plug
<1>27. ASSUME NEW h \in Handles, TransferFails(h)
       PROVE  Detacher'
  BY <1>27, <1>2
     DEF TransferFails
<1>28. CASE UNCHANGED vars
  BY <1>28, <1>2
     DEF vars
<1>29. QED
  BY Zenon, <1>3, <1>4, <1>5, <1>6, <1>7, <1>8, <1>9, <1>10, <1>11, <1>12,
     <1>13, <1>14, <1>15, <1>16, <1>17, <1>18, <1>19, <1>20, <1>21, <1>22,
     <1>23, <1>24, <1>25, <1>26, <1>27, <1>28
     DEF Next, User, UserContinues, Central, Poll, Find, Environment

SerialInv == Base /\ Locked /\ Asks /\ InList /\ OffList /\ ListIsOfSerials /\ Detacher

LEMMA SerialInvInit == Init => SerialInv
<1> SUFFICES ASSUME Init PROVE SerialInv
  OBVIOUS
<1>1. Base /\ Locked
  BY BaseInit, LockedInit
<1>2. Asks
  BY DEF Init, Asks, UserAsks, HandleAsks, MatchAsks, OpeningPc, Registered
<1>3. InList /\ OffList /\ ListIsOfSerials /\ Detacher
  BY DEF Init, InList, OffList, ListIsOfSerials, Detacher, RemovedPc, ClosedPc
<1>4. QED
  BY <1>1, <1>2, <1>3 DEF SerialInv

LEMMA SerialInvStep ==
  ASSUME OneSerialEach, SerialInv, [Next]_vars
  PROVE  SerialInv'
<1>1. Base' /\ Locked'
  BY BaseStep, LockedStep DEF SerialInv
<1>2. Asks'
  BY UserAsksStep, HandleAsksStep, MatchAsksStep DEF SerialInv, Asks
<1>3. InList' /\ OffList' /\ ListIsOfSerials' /\ Detacher'
  BY InListStep, OffListStep, ListOfSerialsStep, DetacherStep DEF SerialInv
<1>4. QED
  BY <1>1, <1>2, <1>3 DEF SerialInv

LEMMA SerialInvHolds == ASSUME OneSerialEach PROVE Spec => []SerialInv
<1>1. SerialInv /\ [Next]_vars => SerialInv'
  BY SerialInvStep
<1>2. QED
  BY <1>1, SerialInvInit, PTL DEF Spec

LEMMA LifecycleFromLocks == SerialInv => LifecycleIsExclusive
<1> SUFFICES ASSUME SerialInv, NEW h \in Handles
             PROVE  /\ ~(Attaching(h) /\ Closing(h))
                    /\ ~(Detaching(h) /\ Closing(h))
                    /\ ~(Detaching(h) /\ Opening(h))
  BY DEF LifecycleIsExclusive
<1>1. ~(Attaching(h) /\ Closing(h))
  BY ThreadsAssumption
     DEF SerialInv, Locked, UserHolds, AttacherHolds, Outside, Attaching, Closing
<1>2. ~(Detaching(h) /\ Closing(h))
  BY DEF SerialInv, Detacher, OffList, Detaching, Closing, RemovedPc, ClosedPc
<1>3. ~(Detaching(h) /\ Opening(h))
  BY DEF SerialInv, Locked, OpenedIsKept, Detacher, Detaching, Opening,
         OpeningPc, Registered
<1>4. QED
  BY <1>1, <1>2, <1>3

\* attachActiveDevice, CPhidgetDetachEvent and CPhidget_close of a handle never
\* run at the same time, with any number of threads of the program and of
\* central threads, if every handle is opened by one serial number.
THEOREM LifecyclesExclude == ASSUME OneSerialEach PROVE Spec => []LifecycleIsExclusive
BY SerialInvHolds, LifecycleFromLocks, PTL

-----------------------------------------------------------------------------
(* One thread that opens and closes.                                        *)

\* One thread of the program opens and closes.
OneUser == \A u, v \in Users : u = v

-----------------------------------------------------------------------------
(* The central thread.                                                      *)

Unfinished(c) == cpc[c] \notin {"none", "done"}

\* CentralThread is the thread that has not ended, and says so, but for the
\* moment between CThread_create and the store of thread_status.
OneThread ==
    /\ \A c \in Centrals :
           Unfinished(c) => mThread = c /\ (mStatus \/ \E u \in Users : upc[u] = "status")
    /\ \A u \in Users : upc[u] \in {"create", "uninit"} => \A c \in Centrals : ~Unfinished(c)
    /\ \A u \in Users : upc[u] = "joining" => ujoin[u] = mThread /\ ujoin[u] \in Centrals

LEMMA OneThreadStep ==
  ASSUME OneUser, TypeOK, OneThread, [Next]_vars
  PROVE  OneThread'
<1>1. /\ OneUser /\ OneThread /\ NoThread \notin Centrals
      /\ cpc = [c \in Centrals |-> cpc[c]] /\ upc = [u \in Users |-> upc[u]]
      /\ ujoin = [u \in Users |-> ujoin[u]] /\ mThread \in Centrals \cup {NoThread}
  BY ThreadsAssumption DEF TypeOK
<1>2. ASSUME UNCHANGED <<mThread, mStatus, ujoin, cpc, upc>> PROVE OneThread'
  BY <1>1, <1>2 DEF OneThread, Unfinished
<1>3. ASSUME NEW u \in Users,
             \/ OpenIgnored(u) \/ OpenLocks(u)
      PROVE  OneThread'
  BY <1>3, <1>1
     DEF OpenIgnored, UserAt, OpenLocks, OneThread, Unfinished
<1>4. ASSUME NEW u \in Users,
             \/ OpenIsDuplicate(u) \/ OpenRegisters(u)
      PROVE  OneThread'
  BY <1>4, <1>1
     DEF OpenIsDuplicate, UserAt, OpenRegisters, OneThread, Unfinished
<1>5. ASSUME NEW u \in Users, StartFindsThread(u)
      PROVE  OneThread'
  BY <1>5, <1>1
     DEF StartFindsThread, OneUser, OneThread, Unfinished
<1>6. ASSUME NEW u \in Users,
             \/ StartSetsStatus(u) \/ OpenReturns(u)
      PROVE  OneThread'
  BY <1>6, <1>1
     DEF StartSetsStatus, UserAt, OpenReturns, OneThread, Unfinished
<1>7. ASSUME NEW u \in Users,
             \/ CloseIgnored(u) \/ CloseLocks(u) \/ CloseRemoves(u)
      PROVE  OneThread'
  BY <1>7, <1>1
     DEF CloseIgnored, UserAt, CloseLocks, CloseRemoves, OneThread, Unfinished
<1>8. ASSUME NEW u \in Users,
             \/ CloseTestsAttached(u) \/ CloseDetaches(u) \/ CloseReleases(u)
      PROVE  OneThread'
  BY <1>8, <1>1
     DEF CloseTestsAttached, CloseDetaches, UserAt, CloseReleases, OneThread,
         Unfinished
<1>9. ASSUME NEW u \in Users, JoinSkips(u)
      PROVE  OneThread'
  BY <1>9, <1>1
     DEF JoinSkips, UserAt, OneUser, OneThread, Unfinished
<1>10. ASSUME NEW u \in Users, JoinStarts(u)
       PROVE  OneThread'
  BY <1>10, <1>1
     DEF JoinStarts, UserAt, OneThread, Unfinished
<1>11. ASSUME NEW u \in Users, JoinEnds(u)
       PROVE  OneThread'
  BY <1>11, <1>1
     DEF JoinEnds, UserAt, OneUser, OneThread, Unfinished
<1>12. ASSUME NEW u \in Users,
              \/ CloseUninits(u) \/ CloseReturns(u)
       PROVE  OneThread'
  BY <1>12, <1>1
     DEF CloseUninits, UserAt, CloseReturns, OneThread, Unfinished
<1>13. ASSUME NEW u \in Users,
              \/ ManagerOpenLocks(u) \/ ManagerOpenAdds(u)
       PROVE  OneThread'
  BY <1>13, <1>1
     DEF ManagerOpenLocks, ManagerOpenAdds, UserAt, OneThread, Unfinished
<1>14. ASSUME NEW u \in Users,
              \/ ManagerCloseLocks(u) \/ ManagerCloseRemoves(u)
              \/ ManagerCloseReleases(u)
       PROVE  OneThread'
  BY <1>14, <1>1
     DEF ManagerCloseLocks, ManagerCloseRemoves, UserAt, ManagerCloseReleases,
         OneThread, Unfinished
<1>15. ASSUME NEW u \in Users, NEW h \in Handles, NEW r \in Requests[h], OpenCalls(u, h, r)
       PROVE  OneThread'
  BY <1>15, <1>1
     DEF OpenCalls, UserAt, OneThread, Unfinished
<1>16. ASSUME NEW u \in Users, NEW h \in Handles, CloseCalls(u, h)
       PROVE  OneThread'
  BY <1>16, <1>1
     DEF CloseCalls, UserAt, OneThread, Unfinished
<1>17. ASSUME NEW u \in Users, NEW m \in Managers,
              \/ ManagerOpenCalls(u, m) \/ ManagerCloseCalls(u, m)
       PROVE  OneThread'
  BY <1>17, <1>1
     DEF ManagerOpenCalls, UserAt, ManagerCloseCalls, OneThread, Unfinished
<1>18. ASSUME NEW u \in Users, NEW c \in Centrals, StartCreates(u, c)
       PROVE  OneThread'
  BY <1>18, <1>1
     DEF StartCreates, UserAt, OneUser, OneThread, Unfinished
<1>19. ASSUME NEW c \in Centrals, LoopTests(c)
       PROVE  OneThread'
  BY <1>19, <1>1
     DEF LoopTests, OneThread, Unfinished
<1>20. ASSUME NEW c \in Centrals, LoopEmpties(c)
       PROVE  OneThread'
  BY <1>20, <1>1
     DEF LoopEmpties, CentralAt, OneThread, Unfinished
<1>21. ASSUME NEW c \in Centrals, LoopExits(c)
       PROVE  OneThread'
  BY <1>21, <1>1
     DEF LoopExits, CentralAt, OneThread, Unfinished
<1>22. ASSUME NEW c \in Centrals,
              \/ PollLocks(c) \/ PollStarts(c) \/ InitialActivates(c)
       PROVE  OneThread'
  BY <1>22, <1>1
     DEF PollLocks, CentralAt, PollStarts, InitialActivates, OneThread,
         Unfinished
<1>23. ASSUME NEW c \in Centrals,
              \/ HandlerReturns(c) \/ TellingEnds(c)
       PROVE  OneThread'
  BY <1>23, <1>1
     DEF HandlerReturns, TellingEnds, OneThread, Unfinished
<1>24. ASSUME NEW c \in Centrals,
              \/ PollBuildsList(c) \/ PollChecksError(c) \/ PollEnds(c)
              \/ DetachFindsNone(c) \/ DetachCloses(c) \/ DetachEnds(c)
       PROVE  OneThread'
  BY <1>24, <1>1
     DEF PollBuildsList, CentralAt, PollChecksError, PollEnds,
         DetachFindsNone, DetachCloses, DetachEnds, OneThread, Unfinished
<1>25. ASSUME NEW c \in Centrals,
              \/ FindStarts(c) \/ FindEnds(c) \/ MatchBuilds(c)
              \/ MatchNone(c) \/ MatchLocks(c) \/ AttachFails(c) \/ AttachBreaks(c)
              \/ AttachOpens(c) \/ AttachReturns(c)
       PROVE  OneThread'
  BY <1>25, <1>1
     DEF FindStarts, CentralAt, FindEnds, MatchBuilds, MatchNone, Return,
         MatchLocks, AttachFails, AttachBreaks, AttachOpens, AttachReturns, OneThread,
         Unfinished
<1>26. ASSUME NEW c \in Centrals, NEW m \in Managers, InitialFinds(c, m)
       PROVE  OneThread'
  BY <1>26, <1>1
     DEF InitialFinds, CentralAt, OneThread, Unfinished
<1>27. ASSUME NEW c \in Centrals, NEW m \in Managers, Tells(c, m)
       PROVE  OneThread'
  BY <1>27, <1>1
     DEF Tells, OneThread, Unfinished
<1>28. ASSUME NEW c \in Centrals, NEW d \in Devices,
              \/ PollAttaches(c, d) \/ PollKnows(c, d) \/ DetachForgets(c, d)
              \/ FindTakes(c, d)
       PROVE  OneThread'
  BY <1>28, <1>1
     DEF PollAttaches, CentralAt, PollKnows, DetachForgets, FindTakes,
         OneThread, Unfinished
<1>29. ASSUME NEW c \in Centrals, NEW h \in Handles,
              \/ DetachFinds(c, h) \/ MatchTries(c, h)
       PROVE  OneThread'
  BY <1>29, <1>1
     DEF DetachFinds, CentralAt, MatchTries, OneThread, Unfinished
<1>30. ASSUME NEW d \in Devices,
              \/ Unplug(d) \/ Plug(d)
       PROVE  OneThread'
  BY <1>30, <1>2
     DEF Unplug, Plug
<1>31. ASSUME NEW h \in Handles, TransferFails(h)
       PROVE  OneThread'
  BY <1>31, <1>2
     DEF TransferFails
<1>32. CASE UNCHANGED vars
  BY <1>32, <1>2
     DEF vars
<1>33. QED
  BY Zenon, <1>3, <1>4, <1>5, <1>6, <1>7, <1>8, <1>9, <1>10, <1>11, <1>12,
     <1>13, <1>14, <1>15, <1>16, <1>17, <1>18, <1>19, <1>20, <1>21, <1>22,
     <1>23, <1>24, <1>25, <1>26, <1>27, <1>28, <1>29, <1>30, <1>31, <1>32
     DEF Next, User, UserContinues, Central, Poll, Find, Environment

LEMMA OneThreadHolds == ASSUME OneUser PROVE Spec => [](Base /\ OneThread)
<1>1. Init => Base /\ OneThread
  <2>1. Init => OneThread
    BY DEF Init, OneThread, Unfinished
  <2>2. QED
    BY <2>1, BaseInit
<1>2. Base /\ OneThread /\ [Next]_vars => (Base /\ OneThread)'
  <2>1. Base => TypeOK
    BY DEF Base
  <2>2. QED
    BY <2>1, BaseStep, OneThreadStep
<1>3. QED
  BY <1>1, <1>2, PTL DEF Spec

LEMMA RunningIsOne == ASSUME TypeOK, OneThread PROVE OneCentralThread
<1>1. Running \subseteq {mThread}
  BY DEF OneThread, Unfinished, Running
<1>2. IsFiniteSet({mThread}) /\ Cardinality({mThread}) = 1
  BY FS_Singleton
<1>3. IsFiniteSet(Running) /\ Cardinality(Running) <= 1
  BY <1>1, <1>2, FS_Subset
<1>4. QED
  BY <1>3 DEF OneCentralThread

\* RegisterLocalDevice never starts a second central thread, although
\* StartCentralThread and JoinCentralThread take no lock, if one thread of the
\* program opens and closes.
THEOREM OneCentral == ASSUME OneUser PROVE Spec => []OneCentralThread
<1>1. Base /\ OneThread => OneCentralThread
  BY RunningIsOne DEF Base
<1>2. QED
  BY <1>1, OneThreadHolds, PTL

\* What CentralThreadFunction and StartCentralThread read without a lock, the
\* list and thread_status, is still so when they act on it.
Polled ==
    /\ activeManagers = 0
    /\ \A u \in Users : upc[u] \in {"start", "create", "status"} => activeDevices # {}
    /\ activeDevices = {} /\ (\E c \in Centrals : Unfinished(c)) =>
           \E u \in Users : upc[u] \in {"test", "detach", "release", "join", "joining"}
    /\ \A c \in Centrals : cpc[c] \in {"test2", "empty", "exit"} => activeDevices = {}
    /\ mStatus /\ mThread # NoThread => Unfinished(mThread)
    /\ \A u \in Users : upc[u] = "status" => mThread # NoThread /\ Unfinished(mThread)
    /\ activeDevices # {} =>
           \/ \E u \in Users : upc[u] \in {"start", "create"}
           \/ \E c \in Centrals : cpc[c] \notin {"none", "exit", "done"}

LEMMA PolledStep ==
  ASSUME OneUser, Managers = {}, Base, OneThread, Polled, [Next]_vars
  PROVE  Polled'
<1>1. /\ OneUser /\ OneThread /\ Polled /\ NoThread \notin Centrals
      /\ cpc = [c \in Centrals |-> cpc[c]] /\ upc = [u \in Users |-> upc[u]]
      /\ mThread \in Centrals \cup {NoThread} /\ Managers = {}
      /\ \A u \in Users : upc[u] \notin {"madd", "mremove"}
  BY ThreadsAssumption DEF Base, TypeOK, UserKnows, ManagerPc
<1>2. ASSUME UNCHANGED <<activeManagers, activeDevices, cpc, upc, mThread, mStatus>>
      PROVE  Polled'
  BY <1>1, <1>2 DEF Polled, Unfinished
<1>3. ASSUME NEW u \in Users,
             \/ OpenIgnored(u) \/ OpenLocks(u)
      PROVE  Polled'
  BY <1>3, <1>1
     DEF OpenIgnored, UserAt, OpenLocks, OneUser, Polled, Unfinished
<1>4. ASSUME NEW u \in Users, OpenIsDuplicate(u)
      PROVE  Polled'
  BY <1>4, <1>1
     DEF OpenIsDuplicate, UserAt, Polled, Unfinished
<1>5. ASSUME NEW u \in Users, OpenRegisters(u)
      PROVE  Polled'
  BY <1>5, <1>1
     DEF OpenRegisters, UserAt, OneUser, Polled, Unfinished
<1>6. ASSUME NEW u \in Users, StartFindsThread(u)
      PROVE  Polled'
  BY <1>6, <1>1
     DEF StartFindsThread, OneUser, Polled, Unfinished
<1>7. ASSUME NEW u \in Users, StartSetsStatus(u)
      PROVE  Polled'
  BY <1>7, <1>1
     DEF StartSetsStatus, UserAt, Polled, Unfinished
<1>8. ASSUME NEW u \in Users, OpenReturns(u)
      PROVE  Polled'
  BY <1>8, <1>1
     DEF OpenReturns, UserAt, Polled, Unfinished
<1>9. ASSUME NEW u \in Users, CloseIgnored(u)
      PROVE  Polled'
  BY <1>9, <1>1
     DEF CloseIgnored, UserAt, Polled, Unfinished
<1>10. ASSUME NEW u \in Users, CloseLocks(u)
       PROVE  Polled'
  BY <1>10, <1>1
     DEF CloseLocks, UserAt, Polled, Unfinished
<1>11. ASSUME NEW u \in Users, CloseRemoves(u)
       PROVE  Polled'
  BY <1>11, <1>1
     DEF CloseRemoves, UserAt, OneUser, Polled, Unfinished
<1>12. ASSUME NEW u \in Users,
              \/ CloseTestsAttached(u) \/ CloseDetaches(u)
       PROVE  Polled'
  BY <1>12, <1>1
     DEF CloseTestsAttached, CloseDetaches, UserAt, Polled, Unfinished
<1>13. ASSUME NEW u \in Users, CloseReleases(u)
       PROVE  Polled'
  BY <1>13, <1>1
     DEF CloseReleases, OneUser, NothingActive, Polled, Unfinished
<1>14. ASSUME NEW u \in Users, JoinSkips(u)
       PROVE  Polled'
  BY <1>14, <1>1
     DEF JoinSkips, UserAt, OneUser, OneThread, Polled, Unfinished
<1>15. ASSUME NEW u \in Users, JoinStarts(u)
       PROVE  Polled'
  BY <1>15, <1>1
     DEF JoinStarts, UserAt, Polled, Unfinished
<1>16. ASSUME NEW u \in Users, JoinEnds(u)
       PROVE  Polled'
  BY <1>16, <1>1
     DEF JoinEnds, UserAt, OneUser, OneThread, Polled, Unfinished
<1>17. ASSUME NEW u \in Users, CloseUninits(u)
       PROVE  Polled'
  BY <1>17, <1>1
     DEF CloseUninits, UserAt, OneUser, OneThread, Polled, Unfinished
<1>18. ASSUME NEW u \in Users, CloseReturns(u)
       PROVE  Polled'
  BY <1>18, <1>1
     DEF CloseReturns, UserAt, Polled, Unfinished
<1>19. ASSUME NEW u \in Users,
              \/ ManagerOpenLocks(u) \/ ManagerOpenAdds(u)
       PROVE  Polled'
  BY <1>19, <1>1
     DEF ManagerOpenLocks, ManagerOpenAdds, UserAt, Polled, Unfinished
<1>20. ASSUME NEW u \in Users,
              \/ ManagerCloseLocks(u) \/ ManagerCloseRemoves(u)
       PROVE  Polled'
  BY <1>20, <1>1
     DEF ManagerCloseLocks, ManagerCloseRemoves, UserAt, Polled, Unfinished
<1>21. ASSUME NEW u \in Users, ManagerCloseReleases(u)
       PROVE  Polled'
  BY <1>21, <1>1
     DEF ManagerCloseReleases, Polled, Unfinished
<1>22. ASSUME NEW u \in Users, NEW h \in Handles, NEW r \in Requests[h], OpenCalls(u, h, r)
       PROVE  Polled'
  BY <1>22, <1>1
     DEF OpenCalls, UserAt, Polled, Unfinished
<1>23. ASSUME NEW u \in Users, NEW h \in Handles, CloseCalls(u, h)
       PROVE  Polled'
  BY <1>23, <1>1
     DEF CloseCalls, UserAt, Polled, Unfinished
<1>24. ASSUME NEW u \in Users, NEW m \in Managers,
              \/ ManagerOpenCalls(u, m) \/ ManagerCloseCalls(u, m)
       PROVE  Polled'
  BY <1>24, <1>1
     DEF ManagerOpenCalls, UserAt, ManagerCloseCalls, Polled, Unfinished
<1>25. ASSUME NEW u \in Users, NEW c \in Centrals, StartCreates(u, c)
       PROVE  Polled'
  BY <1>25, <1>1
     DEF StartCreates, UserAt, OneUser, OneThread, Polled, Unfinished
<1>26. ASSUME NEW c \in Centrals, LoopTests(c)
       PROVE  Polled'
  BY <1>26, <1>1
     DEF LoopTests, Polled, Unfinished
<1>27. ASSUME NEW c \in Centrals, LoopEmpties(c)
       PROVE  Polled'
  BY <1>27, <1>1
     DEF LoopEmpties, CentralAt, Polled, Unfinished
<1>28. ASSUME NEW c \in Centrals, LoopExits(c)
       PROVE  Polled'
  BY <1>28, <1>1
     DEF LoopExits, CentralAt, Polled, Unfinished
<1>29. ASSUME NEW c \in Centrals,
              \/ PollLocks(c) \/ PollStarts(c) \/ InitialActivates(c)
       PROVE  Polled'
  BY <1>29, <1>1
     DEF PollLocks, CentralAt, PollStarts, InitialActivates, Polled,
         Unfinished
<1>30. ASSUME NEW c \in Centrals,
              \/ HandlerReturns(c) \/ TellingEnds(c)
       PROVE  Polled'
  BY <1>30, <1>1
     DEF HandlerReturns, TellingEnds, Polled, Unfinished
<1>31. ASSUME NEW c \in Centrals,
              \/ PollBuildsList(c) \/ PollChecksError(c) \/ PollEnds(c)
              \/ DetachFindsNone(c) \/ DetachCloses(c) \/ DetachEnds(c)
       PROVE  Polled'
  BY <1>31, <1>1
     DEF PollBuildsList, CentralAt, PollChecksError, PollEnds,
         DetachFindsNone, DetachCloses, DetachEnds, Polled, Unfinished
<1>32. ASSUME NEW c \in Centrals,
              \/ FindStarts(c) \/ FindEnds(c) \/ MatchBuilds(c)
       PROVE  Polled'
  BY <1>32, <1>1
     DEF FindStarts, CentralAt, FindEnds, MatchBuilds, Polled, Unfinished
<1>33. ASSUME NEW c \in Centrals,
              \/ MatchNone(c) \/ MatchLocks(c) \/ AttachFails(c) \/ AttachBreaks(c)
              \/ AttachOpens(c) \/ AttachReturns(c)
       PROVE  Polled'
  BY <1>33, <1>1
     DEF MatchNone, Return, MatchLocks, CentralAt, AttachFails, AttachBreaks, AttachOpens,
         AttachReturns, Polled, Unfinished
<1>34. ASSUME NEW c \in Centrals, NEW m \in Managers, InitialFinds(c, m)
       PROVE  Polled'
  BY <1>34, <1>1
     DEF InitialFinds, CentralAt, Polled, Unfinished
<1>35. ASSUME NEW c \in Centrals, NEW m \in Managers, Tells(c, m)
       PROVE  Polled'
  BY <1>35, <1>1
     DEF Tells, Polled, Unfinished
<1>36. ASSUME NEW c \in Centrals, NEW d \in Devices,
              \/ PollAttaches(c, d) \/ PollKnows(c, d) \/ DetachForgets(c, d)
              \/ FindTakes(c, d)
       PROVE  Polled'
  BY <1>36, <1>1
     DEF PollAttaches, CentralAt, PollKnows, DetachForgets, FindTakes, Polled,
         Unfinished
<1>37. ASSUME NEW c \in Centrals, NEW h \in Handles,
              \/ DetachFinds(c, h) \/ MatchTries(c, h)
       PROVE  Polled'
  BY <1>37, <1>1
     DEF DetachFinds, CentralAt, MatchTries, Polled, Unfinished
<1>38. ASSUME NEW d \in Devices,
              \/ Unplug(d) \/ Plug(d)
       PROVE  Polled'
  BY <1>38, <1>2
     DEF Unplug, Plug
<1>39. ASSUME NEW h \in Handles, TransferFails(h)
       PROVE  Polled'
  BY <1>39, <1>2
     DEF TransferFails
<1>40. CASE UNCHANGED vars
  BY <1>40, <1>2
     DEF vars
<1>41. QED
  BY Zenon, <1>3, <1>4, <1>5, <1>6, <1>7, <1>8, <1>9, <1>10, <1>11, <1>12,
     <1>13, <1>14, <1>15, <1>16, <1>17, <1>18, <1>19, <1>20, <1>21, <1>22,
     <1>23, <1>24, <1>25, <1>26, <1>27, <1>28, <1>29, <1>30, <1>31, <1>32,
     <1>33, <1>34, <1>35, <1>36, <1>37, <1>38, <1>39, <1>40
     DEF Next, User, UserContinues, Central, Poll, Find, Environment

\* A handle on the list is polled: RegisterLocalDevice starts a central thread
\* or finds one that will not end.
LEMMA PolledIsPolled ==
  ASSUME TypeOK, Managers = {}, Polled
  PROVE  RegisteredIsPolled
<1>1. managers = {}
  BY DEF TypeOK
<1>2. QED
  BY <1>1 DEF RegisteredIsPolled, Polled, Running

\* With a handle on the list and no open under way exactly one central thread
\* polls the bus, for a program of one thread that opens no PhidgetManager.
THEOREM HandlesArePolled ==
  ASSUME OneUser, Managers = {}
  PROVE  Spec => []PolledByOne
<1>1. Init => Polled
  BY DEF Init, Polled, Unfinished
<1>2. Base /\ OneThread /\ Polled /\ [Next]_vars => Polled'
  BY PolledStep
<1>3. Base /\ OneThread /\ Polled => PolledByOne
  BY PolledIsPolled, RunningIsOne DEF Base, PolledByOne
<1>4. QED
  BY <1>1, <1>2, <1>3, OneThreadHolds, PTL DEF Spec

-----------------------------------------------------------------------------
(* Handles opened by serial numbers of their own.                           *)

OwnSerials ==
    /\ OneSerialEach
    /\ \A g, h \in Handles : Requests[g] \cap Requests[h] # {} => g = h

\* CPhidget_areEqual then tells the handles apart.
LEMMA OwnEqual ==
  ASSUME OwnSerials, HandleAsks, NEW h \in Handles, NEW e \in Handles,
         specific[h] = "serial", specific[e] = "serial", AreEqual(h, e)
  PROVE  e = h
<1>1. serial[h] \in Requests[h] /\ serial[e] \in Requests[e]
  BY DEF HandleAsks
<1>2. serial[h] = serial[e]
  BY DEF AreEqual
<1>3. QED
  BY <1>1, <1>2 DEF OwnSerials

LEMMA RemovesOnlyItself ==
  ASSUME OwnSerials, HandleAsks, activeDevices \subseteq Handles,
         NEW h \in Handles, specific[h] = "serial"
  PROVE  Removed(h) \subseteq {h}
<1>1. \A e \in activeDevices : AreEqual(h, e) => e = h
  BY OwnEqual DEF HandleAsks
<1>2. QED
  BY <1>1 DEF Removed

\* An open handle is on the list until its close has taken it off.
Stays ==
    /\ \A h \in Handles : opened[h] =>
           h \in activeDevices \/ \E u \in Users : uh[u] = h /\ upc[u] \in RemovedPc
    /\ \A u \in Users : uh[u] \in Handles /\ upc[u] \in Registered => uh[u] \in activeDevices

LEMMA StaysStep ==
  ASSUME OwnSerials, SerialInv, Stays, [Next]_vars
  PROVE  Stays'
<1>1. /\ Stays /\ UserHolds /\ Handles \cap Managers = {}
      /\ upc = [u \in Users |-> upc[u]] /\ uh = [u \in Users |-> uh[u]]
      /\ opened = [h \in Handles \cup Managers |-> opened[h]]
      /\ \A u \in Users : upc[u] # "idle" => uh[u] \in Handles \cup Managers
      /\ \A u \in Users : upc[u] \in HandlePc => uh[u] \in Handles
      /\ \A u \in Users : upc[u] \in ManagerPc => uh[u] \in Managers
  BY CentralBounds DEF SerialInv, Base, TypeOK, UserKnows, Locked
<1>2. \A u \in Users : upc[u] = "remove" => Removed(uh[u]) \subseteq {uh[u]}
  BY RemovesOnlyItself, <1>1
     DEF SerialInv, Base, TypeOK, Locked, OpenedIsKept, Asks, HandleAsks, ClosingPc,
         HandlePc
<1>3. ASSUME NEW u \in Users, OpenIsDuplicate(u) PROVE uh[u] \in activeDevices
  <2>1. uh[u] \in Handles /\ specific[uh[u]] = "serial"
    BY <1>1, <1>3
       DEF OpenIsDuplicate, UserAt, SerialInv, Asks, UserAsks, HandlePc, OpeningPc
  <2>2. PICK e \in activeDevices : AreEqual(uh[u], e)
    BY <1>3, <2>1 DEF OpenIsDuplicate
  <2>3. e \in Handles /\ specific[e] = "serial"
    BY DEF SerialInv, Base, TypeOK, Asks, HandleAsks
  <2>4. QED
    BY <2>1, <2>2, <2>3, OwnEqual DEF SerialInv, Asks
<1>4. ASSUME UNCHANGED <<activeDevices, opened, upc, uh>> PROVE Stays'
  BY <1>1, <1>4 DEF Stays
<1>5. ASSUME NEW u \in Users, OpenIgnored(u)
      PROVE  Stays'
  BY <1>5, <1>1
     DEF OpenIgnored, UserAt, Stays, Registered, RemovedPc, ClosedPc,
         HandlePc, ManagerPc
<1>6. ASSUME NEW u \in Users, OpenLocks(u)
      PROVE  Stays'
  BY <1>6, <1>1
     DEF OpenLocks, UserAt, Stays, Registered, RemovedPc, ClosedPc, HandlePc,
         ManagerPc
<1>7. ASSUME NEW u \in Users, OpenIsDuplicate(u)
      PROVE  Stays'
  BY <1>7, <1>3, <1>1
     DEF OpenIsDuplicate, UserAt, Stays, Registered, RemovedPc, ClosedPc,
         HandlePc, ManagerPc
<1>8. ASSUME NEW u \in Users, OpenRegisters(u)
      PROVE  Stays'
  BY <1>8, <1>1
     DEF OpenRegisters, UserAt, Stays, Registered, RemovedPc, ClosedPc,
         HandlePc, ManagerPc
<1>9. ASSUME NEW u \in Users,
             \/ StartFindsThread(u) \/ StartSetsStatus(u)
      PROVE  Stays'
  BY <1>9, <1>1
     DEF StartFindsThread, StartSetsStatus, UserAt, Stays, Registered,
         RemovedPc, ClosedPc, HandlePc, ManagerPc
<1>10. ASSUME NEW u \in Users, OpenReturns(u)
       PROVE  Stays'
  <2>1. /\ upc[u] = "flag" /\ upc' = [upc EXCEPT ![u] = "idle"]
        /\ uh' = [uh EXCEPT ![u] = NoThread] /\ opened' = [opened EXCEPT ![uh[u]] = TRUE]
        /\ activeDevices' = activeDevices
        /\ uh[u] \in Handles => uh[u] \in activeDevices
    BY <1>10, <1>1 DEF OpenReturns, UserAt, Stays, Registered
  <2>2. \A h \in Handles : opened'[h] => opened[h] \/ h = uh[u]
    BY <2>1, <1>1
  <2>3. \A v \in Users : v # u => upc'[v] = upc[v] /\ uh'[v] = uh[v]
    BY <2>1, <1>1
  <2>4. upc[u] \notin RemovedPc /\ upc'[u] \notin Registered
    BY <2>1, <1>1 DEF RemovedPc, ClosedPc, Registered
  <2>5. QED
    BY <2>1, <2>2, <2>3, <2>4, <1>1 DEF Stays
<1>11. ASSUME NEW u \in Users,
              \/ CloseIgnored(u) \/ CloseLocks(u)
       PROVE  Stays'
  BY <1>11, <1>1
     DEF CloseIgnored, UserAt, CloseLocks, Stays, Registered, RemovedPc,
         ClosedPc, HandlePc, ManagerPc
<1>12. ASSUME NEW u \in Users, CloseRemoves(u)
       PROVE  Stays'
  BY <1>12, <1>2, <1>1
     DEF CloseRemoves, UserAt, UserHolds, Outside, Stays, Registered,
         RemovedPc, ClosedPc, HandlePc, ManagerPc
<1>13. ASSUME NEW u \in Users,
              \/ CloseTestsAttached(u) \/ CloseDetaches(u) \/ CloseReleases(u)
       PROVE  Stays'
  BY <1>13, <1>1
     DEF CloseTestsAttached, CloseDetaches, UserAt, CloseReleases, Stays,
         Registered, RemovedPc, ClosedPc, HandlePc, ManagerPc
<1>14. ASSUME NEW u \in Users,
              \/ JoinSkips(u) \/ JoinStarts(u) \/ JoinEnds(u)
              \/ CloseUninits(u)
       PROVE  Stays'
  BY <1>14, <1>1
     DEF JoinSkips, UserAt, JoinStarts, JoinEnds, CloseUninits, Stays,
         Registered, RemovedPc, ClosedPc, HandlePc, ManagerPc
<1>15. ASSUME NEW u \in Users, CloseReturns(u)
       PROVE  Stays'
  BY <1>15, <1>1
     DEF CloseReturns, UserAt, Stays, Registered, RemovedPc, ClosedPc,
         HandlePc, ManagerPc
<1>16. ASSUME NEW u \in Users, ManagerOpenLocks(u)
       PROVE  Stays'
  BY <1>16, <1>1
     DEF ManagerOpenLocks, Stays, Registered, RemovedPc, ClosedPc, HandlePc,
         ManagerPc
<1>17. ASSUME NEW u \in Users,
              \/ ManagerOpenAdds(u) \/ ManagerCloseLocks(u)
              \/ ManagerCloseRemoves(u) \/ ManagerCloseReleases(u)
       PROVE  Stays'
  BY <1>17, <1>1
     DEF ManagerOpenAdds, UserAt, ManagerCloseLocks, ManagerCloseRemoves,
         ManagerCloseReleases, Stays, Registered, RemovedPc, ClosedPc,
         HandlePc, ManagerPc
<1>18. ASSUME NEW u \in Users, NEW h \in Handles, NEW r \in Requests[h], OpenCalls(u, h, r)
       PROVE  Stays'
  BY <1>18, <1>1
     DEF OpenCalls, UserAt, Stays, Registered, RemovedPc, ClosedPc, HandlePc,
         ManagerPc
<1>19. ASSUME NEW u \in Users, NEW h \in Handles, CloseCalls(u, h)
       PROVE  Stays'
  BY <1>19, <1>1
     DEF CloseCalls, UserAt, Stays, Registered, RemovedPc, ClosedPc, HandlePc,
         ManagerPc
<1>20. ASSUME NEW u \in Users, NEW m \in Managers,
              \/ ManagerOpenCalls(u, m) \/ ManagerCloseCalls(u, m)
       PROVE  Stays'
  BY <1>20, <1>1
     DEF ManagerOpenCalls, UserAt, ManagerCloseCalls, Stays, Registered,
         RemovedPc, ClosedPc, HandlePc, ManagerPc
<1>21. ASSUME NEW u \in Users, NEW c \in Centrals, StartCreates(u, c)
       PROVE  Stays'
  BY <1>21, <1>1
     DEF StartCreates, UserAt, Stays, Registered, RemovedPc, ClosedPc,
         HandlePc, ManagerPc
<1>22. ASSUME NEW c \in Centrals,
              \/ LoopTests(c) \/ LoopEmpties(c) \/ LoopExits(c)
              \/ PollLocks(c) \/ PollStarts(c) \/ InitialActivates(c)
              \/ HandlerReturns(c) \/ TellingEnds(c) \/ PollBuildsList(c)
              \/ PollChecksError(c) \/ PollEnds(c) \/ DetachFindsNone(c)
              \/ DetachCloses(c) \/ DetachEnds(c) \/ FindStarts(c)
              \/ FindEnds(c) \/ MatchBuilds(c) \/ MatchNone(c)
              \/ MatchLocks(c) \/ AttachFails(c) \/ AttachBreaks(c) \/ AttachOpens(c)
              \/ AttachReturns(c)
       PROVE  Stays'
  BY <1>22, <1>4
     DEF LoopTests, LoopEmpties, CentralAt, LoopExits, PollLocks, PollStarts,
         InitialActivates, HandlerReturns, TellingEnds, PollBuildsList,
         PollChecksError, PollEnds, DetachFindsNone, DetachCloses, DetachEnds,
         FindStarts, FindEnds, MatchBuilds, MatchNone, Return, MatchLocks,
         AttachFails, AttachBreaks, AttachOpens, AttachReturns
<1>23. ASSUME NEW c \in Centrals, NEW m \in Managers,
              \/ InitialFinds(c, m) \/ Tells(c, m)
       PROVE  Stays'
  BY <1>23, <1>4
     DEF InitialFinds, CentralAt, Tells
<1>24. ASSUME NEW c \in Centrals, NEW d \in Devices,
              \/ PollAttaches(c, d) \/ PollKnows(c, d) \/ DetachForgets(c, d)
              \/ FindTakes(c, d)
       PROVE  Stays'
  BY <1>24, <1>4
     DEF PollAttaches, CentralAt, PollKnows, DetachForgets, FindTakes
<1>25. ASSUME NEW c \in Centrals, NEW h \in Handles,
              \/ DetachFinds(c, h) \/ MatchTries(c, h)
       PROVE  Stays'
  BY <1>25, <1>4
     DEF DetachFinds, CentralAt, MatchTries
<1>26. ASSUME NEW d \in Devices,
              \/ Unplug(d) \/ Plug(d)
       PROVE  Stays'
  BY <1>26, <1>4
     DEF Unplug, Plug
<1>27. ASSUME NEW h \in Handles, TransferFails(h)
       PROVE  Stays'
  BY <1>27, <1>4
     DEF TransferFails
<1>28. CASE UNCHANGED vars
  BY <1>28, <1>4
     DEF vars
<1>29. QED
  BY Zenon, <1>5, <1>6, <1>7, <1>8, <1>9, <1>10, <1>11, <1>12, <1>13, <1>14,
     <1>15, <1>16, <1>17, <1>18, <1>19, <1>20, <1>21, <1>22, <1>23, <1>24,
     <1>25, <1>26, <1>27, <1>28
     DEF Next, User, UserContinues, Central, Poll, Find, Environment

LEMMA StaysHolds == ASSUME OwnSerials PROVE Spec => [](SerialInv /\ Stays)
<1>1. Init => Stays
  BY DEF Init, Stays, Registered
<1>2. SerialInv /\ Stays /\ [Next]_vars => Stays'
  BY StaysStep
<1>3. Spec => []SerialInv
  BY SerialInvHolds DEF OwnSerials
<1>4. QED
  BY <1>1, <1>2, <1>3, PTL DEF Spec

LEMMA StaysIsRegistered == ASSUME SerialInv, Stays PROVE OpenStaysRegistered
BY ThreadsAssumption
   DEF SerialInv, Locked, UserHolds, Outside, Stays, OpenStaysRegistered, RemovedPc, ClosedPc

\* RegisterLocalDevice and UnregisterLocalDevice keep an open handle in
\* ActiveDevices, and leave those of other handles alone, with any number of
\* threads of the program, if no two handles are opened by one serial number.
THEOREM OpenHandlesStay == ASSUME OwnSerials PROVE Spec => []OpenStaysRegistered
<1>1. SerialInv /\ Stays => OpenStaysRegistered
  BY StaysIsRegistered
<1>2. QED
  BY <1>1, StaysHolds, PTL

-----------------------------------------------------------------------------
(* Attached handles, the devices a poll knows, and libusb.                  *)

\* Where the central thread looks at the devices of the bus.
Trying == {"match", "try", "lock", "attach", "started"}
Detecting == {"scan", "arrival", "handler", "check", "departure", "dfind",
              "dclose", "devent"}
Looking == Trying \cup Detecting \cup {"each"}
PollPc == {"initial", "activate"} \cup Detecting

\* What it attaches is in AttachedDevices, what it detaches has left it.
Looks ==
    \A c \in Centrals :
        /\ cpc[c] \in Trying \cup {"arrival", "check"} => dev \in attachedDevices
        /\ cpc[c] = "departure" => dev \notin attachedDevices
        /\ cpc[c] \in Trying \cup {"each"} /\ ~polling => todo \subseteq attachedDevices
        /\ cpc[c] = "each" => ~polling
        /\ cpc[c] \in PollPc => polling
        /\ cpc[c] = "dclose" => serial[hand] = dev

\* libusb is initialised while it looks, and while a handle is attached.
UsbKept ==
    /\ dev # AnyPhidget => usbReady /\ \E c \in Centrals : cpc[c] \in Looking
    /\ \A c \in Centrals : cpc[c] \in (Looking \ {"handler"}) \cup {"find"} => usbReady
    /\ \A u \in Users : upc[u] \in {"join", "joining", "uninit"} => activeDevices = {}
    /\ \A h \in Handles : attached[h] => usbReady

\* An attached handle on the list has its device in AttachedDevices, or is
\* about to be detached.
Missed(h) == \E c \in Centrals : cpc[c] \in {"departure", "handler", "dfind", "dclose"}
                                    /\ dev = serial[h]
Finds ==
    /\ \A h \in activeDevices :
           attached[h] => serial[h] \in attachedDevices \/ Missed(h)
    /\ \A c \in Centrals : cpc[c] \in {"test2", "empty"} =>
           \A h \in activeDevices : ~attached[h]

LEMMA OnlyOne ==
  ASSUME OneThread, NEW c \in Centrals, NEW e \in Centrals,
         cpc[c] \notin {"none", "done"}, cpc[e] \notin {"none", "done"}
  PROVE  c = e
BY DEF OneThread, Unfinished

LEMMA LooksStep ==
  ASSUME OneSerialEach, SerialInv, OneThread, Looks, [Next]_vars
  PROVE  Looks'
<1>1. /\ Looks /\ cpc = [c \in Centrals |-> cpc[c]]
      /\ \A c, e \in Centrals : cpc[c] \notin {"none", "done"}
                                 /\ cpc[e] \notin {"none", "done"} => c = e
      /\ activeDevices \subseteq Handles /\ todo \subseteq Devices
      /\ \A c \in Centrals : cpc[c] \in WithHandle => hand \in Handles
  BY OnlyOne DEF SerialInv, Base, TypeOK, PollerKnows
<1>2. \A c \in Centrals : cpc[c] = "dclose" => serial'[hand] = serial[hand]
  <2>1. \A c \in Centrals : cpc[c] = "dclose" => hand \in Handles /\ specific[hand] = "serial"
    BY <1>1 DEF SerialInv, Detacher, Asks, HandleAsks
  <2>2. QED
    BY <2>1, SerialsStay DEF SerialInv
<1>3. ASSUME UNCHANGED <<cpc, dev, attachedDevices, polling, todo, hand>> PROVE Looks'
  BY <1>1, <1>2, <1>3 DEF Looks
<1>4. ASSUME NEW u \in Users, NEW c \in Centrals, StartCreates(u, c)
      PROVE  Looks'
  BY <1>4, <1>1, <1>2
     DEF StartCreates, UserAt, Looks, Trying, PollPc, Detecting
<1>5. ASSUME NEW c \in Centrals, LoopTests(c)
      PROVE  Looks'
  BY <1>5, <1>1, <1>2
     DEF LoopTests, Looks, Trying, PollPc, Detecting
<1>6. ASSUME NEW c \in Centrals, LoopEmpties(c)
      PROVE  Looks'
  BY <1>6, <1>1, <1>2
     DEF LoopEmpties, CentralAt, Looks, Trying, PollPc, Detecting
<1>7. ASSUME NEW c \in Centrals, LoopExits(c)
      PROVE  Looks'
  BY <1>7, <1>1, <1>2
     DEF LoopExits, CentralAt, Looks, Trying, PollPc, Detecting
<1>8. ASSUME NEW c \in Centrals,
             \/ PollLocks(c) \/ InitialActivates(c)
      PROVE  Looks'
  BY <1>8, <1>1, <1>2
     DEF PollLocks, CentralAt, InitialActivates, Looks, Trying, PollPc,
         Detecting
<1>9. ASSUME NEW c \in Centrals, PollStarts(c)
      PROVE  Looks'
  BY <1>9, <1>1, <1>2
     DEF PollStarts, CentralAt, Looks, Trying, PollPc, Detecting
<1>10. ASSUME NEW c \in Centrals, HandlerReturns(c)
       PROVE  Looks'
  <2>1. /\ \A e \in Centrals : e # c => cpc'[e] = cpc[e] /\ cpc[e] \in {"none", "done"}
        /\ UNCHANGED <<dev, attachedDevices, polling, todo>> /\ cpc[c] = "handler"
        /\ cpc' = [cpc EXCEPT ![c] = IF dev = AnyPhidget THEN "initial"
                                     ELSE IF dev \in attachedDevices THEN "arrival"
                                     ELSE "departure"]
    BY <1>10, <1>1 DEF HandlerReturns
  <2>2. \/ cpc'[c] = "initial"
        \/ cpc'[c] = "arrival" /\ dev \in attachedDevices
        \/ cpc'[c] = "departure" /\ dev \notin attachedDevices
    BY <2>1, <1>1
  <2>3. QED
    BY <2>1, <2>2 DEF Looks, Trying, PollPc, Detecting
<1>11. ASSUME NEW c \in Centrals, TellingEnds(c)
       PROVE  Looks'
  <2>1. /\ \A e \in Centrals : e # c => cpc'[e] = cpc[e] /\ cpc[e] \in {"none", "done"}
        /\ UNCHANGED <<dev, attachedDevices>> /\ cpc[c] \in {"arrival", "departure"}
        /\ cpc'[c] = IF cpc[c] = "arrival" THEN "match" ELSE "dfind"
        /\ UNCHANGED <<polling, todo>>
    BY <1>11, <1>1 DEF TellingEnds
  <2>2. QED
    BY <2>1, <1>1 DEF Looks, Trying, PollPc, Detecting
<1>12. ASSUME NEW c \in Centrals, PollBuildsList(c)
       PROVE  Looks'
  BY <1>12, <1>1, <1>2
     DEF PollBuildsList, CentralAt, Looks, Trying, PollPc, Detecting
<1>13. ASSUME NEW c \in Centrals,
              \/ PollChecksError(c) \/ PollEnds(c) \/ DetachFindsNone(c)
       PROVE  Looks'
  BY <1>13, <1>1, <1>2
     DEF PollChecksError, CentralAt, PollEnds, DetachFindsNone, Looks, Trying,
         PollPc, Detecting
<1>14. ASSUME NEW c \in Centrals,
              \/ DetachCloses(c) \/ DetachEnds(c)
       PROVE  Looks'
  BY <1>14, <1>1, <1>2
     DEF DetachCloses, CentralAt, DetachEnds, Looks, Trying, PollPc, Detecting
<1>15. ASSUME NEW c \in Centrals, FindStarts(c)
       PROVE  Looks'
  BY <1>15, <1>1, <1>2
     DEF FindStarts, CentralAt, Looks, Trying, PollPc, Detecting
<1>16. ASSUME NEW c \in Centrals, FindEnds(c)
       PROVE  Looks'
  BY <1>16, <1>1, <1>2
     DEF FindEnds, CentralAt, Looks, Trying, PollPc, Detecting
<1>17. ASSUME NEW c \in Centrals, MatchBuilds(c)
       PROVE  Looks'
  BY <1>17, <1>1, <1>2
     DEF MatchBuilds, CentralAt, Looks, Trying, PollPc, Detecting
<1>18. ASSUME NEW c \in Centrals, MatchNone(c)
       PROVE  Looks'
  BY <1>18, <1>1, <1>2
     DEF MatchNone, Return, Looks, Trying, PollPc, Detecting
<1>19. ASSUME NEW c \in Centrals,
              \/ MatchLocks(c) \/ AttachFails(c) \/ AttachBreaks(c)
       PROVE  Looks'
  BY <1>19, <1>1, <1>2
     DEF MatchLocks, CentralAt, AttachFails, AttachBreaks, Looks, Trying, PollPc, Detecting
<1>20. ASSUME NEW c \in Centrals, AttachOpens(c)
       PROVE  Looks'
  BY <1>20, <1>1, <1>2
     DEF AttachOpens, CentralAt, Looks, Trying, PollPc, Detecting
<1>21. ASSUME NEW c \in Centrals, AttachReturns(c)
       PROVE  Looks'
  BY <1>21, <1>1, <1>2
     DEF AttachReturns, Return, Looks, Trying, PollPc, Detecting
<1>22. ASSUME NEW c \in Centrals, NEW m \in Managers, InitialFinds(c, m)
       PROVE  Looks'
  BY <1>22, <1>1, <1>2
     DEF InitialFinds, CentralAt, Looks, Trying, PollPc, Detecting
<1>23. ASSUME NEW c \in Centrals, NEW m \in Managers, Tells(c, m)
       PROVE  Looks'
  BY <1>23, <1>1, <1>2
     DEF Tells, Looks, Trying, PollPc, Detecting
<1>24. ASSUME NEW c \in Centrals, NEW d \in Devices, PollAttaches(c, d)
       PROVE  Looks'
  BY <1>24, <1>1, <1>2
     DEF PollAttaches, CentralAt, Looks, Trying, PollPc, Detecting
<1>25. ASSUME NEW c \in Centrals, NEW d \in Devices,
              \/ PollKnows(c, d) \/ DetachForgets(c, d)
       PROVE  Looks'
  BY <1>25, <1>1, <1>2
     DEF PollKnows, CentralAt, DetachForgets, Looks, Trying, PollPc, Detecting
<1>26. ASSUME NEW c \in Centrals, NEW d \in Devices, FindTakes(c, d)
       PROVE  Looks'
  BY <1>26, <1>1, <1>2
     DEF FindTakes, CentralAt, Looks, Trying, PollPc, Detecting
<1>27. ASSUME NEW c \in Centrals, NEW h \in Handles, DetachFinds(c, h)
       PROVE  Looks'
  BY <1>27, <1>1, <1>2
     DEF DetachFinds, CentralAt, FirstOf, AttachedTo, Looks, Trying, PollPc,
         Detecting
<1>28. ASSUME NEW c \in Centrals, NEW h \in Handles, MatchTries(c, h)
       PROVE  Looks'
  BY <1>28, <1>1, <1>2
     DEF MatchTries, CentralAt, Looks, Trying, PollPc, Detecting
<1>29. ASSUME NEW u \in Users,
              \/ OpenIgnored(u) \/ OpenLocks(u) \/ OpenIsDuplicate(u)
              \/ OpenRegisters(u) \/ StartFindsThread(u) \/ StartSetsStatus(u)
              \/ OpenReturns(u) \/ CloseIgnored(u) \/ CloseLocks(u)
              \/ CloseRemoves(u) \/ CloseTestsAttached(u) \/ CloseDetaches(u)
              \/ CloseReleases(u) \/ JoinSkips(u) \/ JoinStarts(u)
              \/ JoinEnds(u) \/ CloseUninits(u) \/ CloseReturns(u)
              \/ ManagerOpenLocks(u) \/ ManagerOpenAdds(u)
              \/ ManagerCloseLocks(u) \/ ManagerCloseRemoves(u)
              \/ ManagerCloseReleases(u)
       PROVE  Looks'
  BY <1>29, <1>3
     DEF OpenIgnored, UserAt, OpenLocks, OpenIsDuplicate, OpenRegisters,
         StartFindsThread, StartSetsStatus, OpenReturns, CloseIgnored,
         CloseLocks, CloseRemoves, CloseTestsAttached, CloseDetaches,
         CloseReleases, JoinSkips, JoinStarts, JoinEnds, CloseUninits,
         CloseReturns, ManagerOpenLocks, ManagerOpenAdds, ManagerCloseLocks,
         ManagerCloseRemoves, ManagerCloseReleases
<1>30. ASSUME NEW u \in Users, NEW h \in Handles, NEW r \in Requests[h], OpenCalls(u, h, r)
       PROVE  Looks'
  BY <1>30, <1>3
     DEF OpenCalls, UserAt
<1>31. ASSUME NEW u \in Users, NEW h \in Handles, CloseCalls(u, h)
       PROVE  Looks'
  BY <1>31, <1>3
     DEF CloseCalls, UserAt
<1>32. ASSUME NEW u \in Users, NEW m \in Managers,
              \/ ManagerOpenCalls(u, m) \/ ManagerCloseCalls(u, m)
       PROVE  Looks'
  BY <1>32, <1>3
     DEF ManagerOpenCalls, UserAt, ManagerCloseCalls
<1>33. ASSUME NEW d \in Devices,
              \/ Unplug(d) \/ Plug(d)
       PROVE  Looks'
  BY <1>33, <1>3
     DEF Unplug, Plug
<1>34. ASSUME NEW h \in Handles, TransferFails(h)
       PROVE  Looks'
  BY <1>34, <1>3
     DEF TransferFails
<1>35. CASE UNCHANGED vars
  BY <1>35, <1>3
     DEF vars
<1>36. QED
  BY Zenon, <1>4, <1>5, <1>6, <1>7, <1>8, <1>9, <1>10, <1>11, <1>12, <1>13,
     <1>14, <1>15, <1>16, <1>17, <1>18, <1>19, <1>20, <1>21, <1>22, <1>23,
     <1>24, <1>25, <1>26, <1>27, <1>28, <1>29, <1>30, <1>31, <1>32, <1>33,
     <1>34, <1>35
     DEF Next, User, UserContinues, Central, Poll, Find, Environment

LEMMA UsbKeptStep ==
  ASSUME OneUser, OneSerialEach, SerialInv, OneThread, Stays, UsbKept, [Next]_vars
  PROVE  UsbKept'
<1>1. /\ OneUser /\ UsbKept /\ AnyPhidget \notin Devices
      /\ cpc = [c \in Centrals |-> cpc[c]] /\ upc = [u \in Users |-> upc[u]]
      /\ attached = [h \in Handles |-> attached[h]]
      /\ \A c \in Centrals : cpc[c] \in WithDevice => dev \in Devices
      /\ \A u \in Users : upc[u] = "uninit" => \A c \in Centrals : cpc[c] \in {"none", "done"}
      /\ \A c, e \in Centrals : cpc[c] \notin {"none", "done"}
                                 /\ cpc[e] \notin {"none", "done"} => c = e
  BY AnyAssumption, OnlyOne DEF SerialInv, Base, TypeOK, PollerKnows, OneThread, Unfinished
<1>2. ASSUME NEW u \in Users, upc[u] = "uninit" PROVE \A h \in Handles : ~attached[h]
  <2>1. activeDevices = {}
    BY <1>1, <1>2 DEF UsbKept
  <2>2. SUFFICES ASSUME NEW h \in Handles, attached[h] PROVE FALSE
    OBVIOUS
  <2>3. opened[h]
    BY <2>2 DEF SerialInv, Locked, OpenedIsKept
  <2>4. PICK v \in Users : uh[v] = h /\ upc[v] \in RemovedPc
    BY <2>1, <2>3 DEF Stays
  <2>5. v = u
    BY <1>1 DEF OneUser
  <2>6. QED
    BY <2>2, <2>4, <2>5, <1>2 DEF SerialInv, Locked, OpenedIsKept, ClosedPc
<1>3. ASSUME UNCHANGED <<cpc, dev, usbReady, upc, activeDevices, attached>> PROVE UsbKept'
  BY <1>1, <1>3 DEF UsbKept
<1>4. ASSUME NEW u \in Users,
             \/ OpenIgnored(u) \/ OpenLocks(u)
      PROVE  UsbKept'
  BY <1>4, <1>1
     DEF OpenIgnored, UserAt, OpenLocks, UsbKept, Looking, Trying, Detecting,
         WithDevice
<1>5. ASSUME NEW u \in Users, OpenIsDuplicate(u)
      PROVE  UsbKept'
  BY <1>5, <1>1
     DEF OpenIsDuplicate, UserAt, UsbKept, Looking, Trying, Detecting,
         WithDevice
<1>6. ASSUME NEW u \in Users, OpenRegisters(u)
      PROVE  UsbKept'
  BY <1>6, <1>1
     DEF OpenRegisters, UserAt, OneUser, UsbKept, Looking, Trying, Detecting,
         WithDevice
<1>7. ASSUME NEW u \in Users, StartFindsThread(u)
      PROVE  UsbKept'
  BY <1>7, <1>1
     DEF StartFindsThread, UsbKept, Looking, Trying, Detecting, WithDevice
<1>8. ASSUME NEW u \in Users,
             \/ StartSetsStatus(u) \/ OpenReturns(u)
      PROVE  UsbKept'
  BY <1>8, <1>1
     DEF StartSetsStatus, UserAt, OpenReturns, UsbKept, Looking, Trying,
         Detecting, WithDevice
<1>9. ASSUME NEW u \in Users,
             \/ CloseIgnored(u) \/ CloseLocks(u)
      PROVE  UsbKept'
  BY <1>9, <1>1
     DEF CloseIgnored, UserAt, CloseLocks, UsbKept, Looking, Trying,
         Detecting, WithDevice
<1>10. ASSUME NEW u \in Users, CloseRemoves(u)
       PROVE  UsbKept'
  BY <1>10, <1>1
     DEF CloseRemoves, UserAt, OneUser, UsbKept, Looking, Trying, Detecting,
         WithDevice
<1>11. ASSUME NEW u \in Users, CloseTestsAttached(u)
       PROVE  UsbKept'
  BY <1>11, <1>1
     DEF CloseTestsAttached, UsbKept, Looking, Trying, Detecting, WithDevice
<1>12. ASSUME NEW u \in Users, CloseDetaches(u)
       PROVE  UsbKept'
  BY <1>12, <1>1
     DEF CloseDetaches, UserAt, UsbKept, Looking, Trying, Detecting,
         WithDevice
<1>13. ASSUME NEW u \in Users, CloseReleases(u)
       PROVE  UsbKept'
  BY <1>13, <1>1
     DEF CloseReleases, NothingActive, UsbKept, Looking, Trying, Detecting,
         WithDevice
<1>14. ASSUME NEW u \in Users,
              \/ JoinSkips(u) \/ JoinStarts(u) \/ JoinEnds(u)
       PROVE  UsbKept'
  BY <1>14, <1>1
     DEF JoinSkips, UserAt, JoinStarts, JoinEnds, UsbKept, Looking, Trying,
         Detecting, WithDevice
<1>15. ASSUME NEW u \in Users, CloseUninits(u)
       PROVE  UsbKept'
  BY <1>15, <1>2, <1>1
     DEF CloseUninits, UserAt, UsbKept, Looking, Trying, Detecting, WithDevice
<1>16. ASSUME NEW u \in Users, CloseReturns(u)
       PROVE  UsbKept'
  BY <1>16, <1>1
     DEF CloseReturns, UserAt, UsbKept, Looking, Trying, Detecting, WithDevice
<1>17. ASSUME NEW u \in Users, ManagerOpenLocks(u)
       PROVE  UsbKept'
  BY <1>17, <1>1
     DEF ManagerOpenLocks, UsbKept, Looking, Trying, Detecting, WithDevice
<1>18. ASSUME NEW u \in Users, ManagerOpenAdds(u)
       PROVE  UsbKept'
  BY <1>18, <1>1
     DEF ManagerOpenAdds, UserAt, UsbKept, Looking, Trying, Detecting,
         WithDevice
<1>19. ASSUME NEW u \in Users,
              \/ ManagerCloseLocks(u) \/ ManagerCloseRemoves(u)
       PROVE  UsbKept'
  BY <1>19, <1>1
     DEF ManagerCloseLocks, ManagerCloseRemoves, UserAt, UsbKept, Looking,
         Trying, Detecting, WithDevice
<1>20. ASSUME NEW u \in Users, ManagerCloseReleases(u)
       PROVE  UsbKept'
  BY <1>20, <1>1
     DEF ManagerCloseReleases, NothingActive, UsbKept, Looking, Trying,
         Detecting, WithDevice
<1>21. ASSUME NEW u \in Users, NEW h \in Handles, NEW r \in Requests[h], OpenCalls(u, h, r)
       PROVE  UsbKept'
  BY <1>21, <1>1
     DEF OpenCalls, UserAt, UsbKept, Looking, Trying, Detecting, WithDevice
<1>22. ASSUME NEW u \in Users, NEW h \in Handles, CloseCalls(u, h)
       PROVE  UsbKept'
  BY <1>22, <1>1
     DEF CloseCalls, UserAt, UsbKept, Looking, Trying, Detecting, WithDevice
<1>23. ASSUME NEW u \in Users, NEW m \in Managers,
              \/ ManagerOpenCalls(u, m) \/ ManagerCloseCalls(u, m)
       PROVE  UsbKept'
  BY <1>23, <1>1
     DEF ManagerOpenCalls, UserAt, ManagerCloseCalls, UsbKept, Looking,
         Trying, Detecting, WithDevice
<1>24. ASSUME NEW u \in Users, NEW c \in Centrals, StartCreates(u, c)
       PROVE  UsbKept'
  BY <1>24, <1>1
     DEF StartCreates, UserAt, UsbKept, Looking, Trying, Detecting, WithDevice
<1>25. ASSUME NEW c \in Centrals, LoopTests(c)
       PROVE  UsbKept'
  BY <1>25, <1>1
     DEF LoopTests, UsbKept, Looking, Trying, Detecting, WithDevice
<1>26. ASSUME NEW c \in Centrals, LoopEmpties(c)
       PROVE  UsbKept'
  BY <1>26, <1>1
     DEF LoopEmpties, CentralAt, UsbKept, Looking, Trying, Detecting,
         WithDevice
<1>27. ASSUME NEW c \in Centrals, LoopExits(c)
       PROVE  UsbKept'
  BY <1>27, <1>1
     DEF LoopExits, CentralAt, UsbKept, Looking, Trying, Detecting, WithDevice
<1>28. ASSUME NEW c \in Centrals,
              \/ PollLocks(c) \/ InitialActivates(c)
       PROVE  UsbKept'
  BY <1>28, <1>1
     DEF PollLocks, CentralAt, InitialActivates, UsbKept, Looking, Trying,
         Detecting, WithDevice
<1>29. ASSUME NEW c \in Centrals, PollStarts(c)
       PROVE  UsbKept'
  BY <1>29, <1>1
     DEF PollStarts, CentralAt, UsbKept, Looking, Trying, Detecting,
         WithDevice
<1>30. ASSUME NEW c \in Centrals, HandlerReturns(c)
       PROVE  UsbKept'
  BY <1>30, <1>1
     DEF HandlerReturns, UsbKept, Looking, Trying, Detecting, WithDevice
<1>31. ASSUME NEW c \in Centrals, TellingEnds(c)
       PROVE  UsbKept'
  BY <1>31, <1>1
     DEF TellingEnds, UsbKept, Looking, Trying, Detecting, WithDevice
<1>32. ASSUME NEW c \in Centrals, PollBuildsList(c)
       PROVE  UsbKept'
  BY <1>32, <1>1
     DEF PollBuildsList, CentralAt, UsbKept, Looking, Trying, Detecting,
         WithDevice
<1>33. ASSUME NEW c \in Centrals,
              \/ PollChecksError(c) \/ PollEnds(c) \/ DetachFindsNone(c)
       PROVE  UsbKept'
  BY <1>33, <1>1
     DEF PollChecksError, CentralAt, PollEnds, DetachFindsNone, UsbKept,
         Looking, Trying, Detecting, WithDevice
<1>34. ASSUME NEW c \in Centrals, DetachCloses(c)
       PROVE  UsbKept'
  BY <1>34, <1>1
     DEF DetachCloses, CentralAt, UsbKept, Looking, Trying, Detecting,
         WithDevice
<1>35. ASSUME NEW c \in Centrals, DetachEnds(c)
       PROVE  UsbKept'
  BY <1>35, <1>1
     DEF DetachEnds, CentralAt, UsbKept, Looking, Trying, Detecting,
         WithDevice
<1>36. ASSUME NEW c \in Centrals, FindStarts(c)
       PROVE  UsbKept'
  BY <1>36, <1>1
     DEF FindStarts, CentralAt, UsbKept, Looking, Trying, Detecting,
         WithDevice
<1>37. ASSUME NEW c \in Centrals, FindEnds(c)
       PROVE  UsbKept'
  BY <1>37, <1>1
     DEF FindEnds, CentralAt, UsbKept, Looking, Trying, Detecting, WithDevice
<1>38. ASSUME NEW c \in Centrals, MatchBuilds(c)
       PROVE  UsbKept'
  BY <1>38, <1>1
     DEF MatchBuilds, CentralAt, UsbKept, Looking, Trying, Detecting,
         WithDevice
<1>39. ASSUME NEW c \in Centrals, MatchNone(c)
       PROVE  UsbKept'
  BY <1>39, <1>1
     DEF MatchNone, Return, UsbKept, Looking, Trying, Detecting, WithDevice
<1>40. ASSUME NEW c \in Centrals,
              \/ MatchLocks(c) \/ AttachFails(c) \/ AttachBreaks(c)
       PROVE  UsbKept'
  BY <1>40, <1>1
     DEF MatchLocks, CentralAt, AttachFails, AttachBreaks, UsbKept, Looking, Trying,
         Detecting, WithDevice
<1>41. ASSUME NEW c \in Centrals, AttachOpens(c)
       PROVE  UsbKept'
  BY <1>41, <1>1
     DEF AttachOpens, CentralAt, UsbKept, Looking, Trying, Detecting,
         WithDevice
<1>42. ASSUME NEW c \in Centrals, AttachReturns(c)
       PROVE  UsbKept'
  BY <1>42, <1>1
     DEF AttachReturns, Return, UsbKept, Looking, Trying, Detecting,
         WithDevice
<1>43. ASSUME NEW c \in Centrals, NEW m \in Managers, InitialFinds(c, m)
       PROVE  UsbKept'
  BY <1>43, <1>1
     DEF InitialFinds, CentralAt, UsbKept, Looking, Trying, Detecting,
         WithDevice
<1>44. ASSUME NEW c \in Centrals, NEW m \in Managers, Tells(c, m)
       PROVE  UsbKept'
  BY <1>44, <1>1
     DEF Tells, UsbKept, Looking, Trying, Detecting, WithDevice
<1>45. ASSUME NEW c \in Centrals, NEW d \in Devices, PollAttaches(c, d)
       PROVE  UsbKept'
  BY <1>45, <1>1
     DEF PollAttaches, CentralAt, UsbKept, Looking, Trying, Detecting,
         WithDevice
<1>46. ASSUME NEW c \in Centrals, NEW d \in Devices,
              \/ PollKnows(c, d) \/ DetachForgets(c, d)
       PROVE  UsbKept'
  BY <1>46, <1>1
     DEF PollKnows, CentralAt, DetachForgets, UsbKept, Looking, Trying,
         Detecting, WithDevice
<1>47. ASSUME NEW c \in Centrals, NEW d \in Devices, FindTakes(c, d)
       PROVE  UsbKept'
  BY <1>47, <1>1
     DEF FindTakes, CentralAt, UsbKept, Looking, Trying, Detecting, WithDevice
<1>48. ASSUME NEW c \in Centrals, NEW h \in Handles, DetachFinds(c, h)
       PROVE  UsbKept'
  BY <1>48, <1>1
     DEF DetachFinds, CentralAt, UsbKept, Looking, Trying, Detecting,
         WithDevice
<1>49. ASSUME NEW c \in Centrals, NEW h \in Handles, MatchTries(c, h)
       PROVE  UsbKept'
  BY <1>49, <1>1
     DEF MatchTries, CentralAt, UsbKept, Looking, Trying, Detecting,
         WithDevice
<1>50. ASSUME NEW d \in Devices,
              \/ Unplug(d) \/ Plug(d)
       PROVE  UsbKept'
  BY <1>50, <1>3
     DEF Unplug, Plug
<1>51. ASSUME NEW h \in Handles, TransferFails(h)
       PROVE  UsbKept'
  BY <1>51, <1>3
     DEF TransferFails
<1>52. CASE UNCHANGED vars
  BY <1>52, <1>3
     DEF vars
<1>53. QED
  BY Zenon, <1>4, <1>5, <1>6, <1>7, <1>8, <1>9, <1>10, <1>11, <1>12, <1>13,
     <1>14, <1>15, <1>16, <1>17, <1>18, <1>19, <1>20, <1>21, <1>22, <1>23,
     <1>24, <1>25, <1>26, <1>27, <1>28, <1>29, <1>30, <1>31, <1>32, <1>33,
     <1>34, <1>35, <1>36, <1>37, <1>38, <1>39, <1>40, <1>41, <1>42, <1>43,
     <1>44, <1>45, <1>46, <1>47, <1>48, <1>49, <1>50, <1>51, <1>52
     DEF Next, User, UserContinues, Central, Poll, Find, Environment

LEMMA FindsStep ==
  ASSUME OneUser, OneSerialEach, SerialInv, OneThread, Looks, Finds, [Next]_vars
  PROVE  Finds'
<1>1. /\ Finds /\ AnyPhidget \notin Devices /\ activeDevices \subseteq Handles
      /\ cpc = [c \in Centrals |-> cpc[c]]
      /\ attached = [h \in Handles |-> attached[h]]
      /\ \A c \in Centrals : cpc[c] \in WithDevice => dev \in Devices
      /\ \A c \in Centrals : cpc[c] \in WithHandle => hand \in Handles
      /\ \A u \in Users : upc[u] \in HandlePc => uh[u] \in Handles
      /\ \A c, e \in Centrals : cpc[c] \notin {"none", "done"}
                                 /\ cpc[e] \notin {"none", "done"} => c = e
  BY AnyAssumption, OnlyOne DEF SerialInv, Base, TypeOK, PollerKnows, UserKnows
<1>2. \A h \in activeDevices :
          /\ serial'[h] = serial[h] /\ serial[h] \in Devices
          /\ \A g \in activeDevices : serial[g] = serial[h] => g = h
  <2>1. SUFFICES ASSUME NEW h \in activeDevices
                 PROVE  serial'[h] = serial[h] /\ serial[h] \in Devices
    BY DEF SerialInv, ListIsOfSerials
  <2>2. h \in Handles /\ specific[h] = "serial"
    BY <1>1 DEF SerialInv, Asks, HandleAsks
  <2>3. serial'[h] = serial[h] /\ serial[h] \in Requests[h]
    BY <2>2, SerialsStay DEF SerialInv
  <2>4. QED
    BY <2>2, <2>3 DEF OneSerialEach
<1>3. ASSUME UNCHANGED <<cpc, dev, activeDevices, attachedDevices, attached>> PROVE Finds'
  BY <1>1, <1>2, <1>3 DEF Finds, Missed
<1>4. /\ serial = [h \in Handles |-> serial[h]]
      /\ \A c \in Centrals : cpc[c] = "dclose" => hand \in activeDevices /\ serial[hand] = dev
  BY DEF SerialInv, Base, TypeOK, Detacher, Looks
<1>5. ASSUME NEW u \in Users, OpenRegisters(u)
      PROVE  Finds'
  <2>1. ~attached[uh[u]] /\ uh[u] \in Handles
    BY <1>5, <1>1
       DEF OpenRegisters, UserAt, SerialInv, Locked, OpenedIsKept, OpeningPc, HandlePc
  <2>2. /\ activeDevices' = activeDevices \cup {uh[u]}
        /\ UNCHANGED <<cpc, dev, serial, attachedDevices, attached>>
    BY <1>5 DEF OpenRegisters
  <2>3. QED
    BY <2>1, <2>2, <1>1 DEF Finds, Missed
<1>6. ASSUME NEW u \in Users, CloseRemoves(u)
      PROVE  Finds'
  <2>1. /\ activeDevices' \subseteq activeDevices
        /\ UNCHANGED <<cpc, dev, serial, attachedDevices, attached>>
    BY <1>6 DEF CloseRemoves
  <2>2. QED
    BY <2>1, <1>1 DEF Finds, Missed
<1>7. ASSUME NEW u \in Users, CloseDetaches(u)
      PROVE  Finds'
  <2>1. /\ \A h \in Handles : attached'[h] => attached[h]
        /\ UNCHANGED <<cpc, dev, serial, attachedDevices, activeDevices>>
    BY <1>7, <1>1 DEF CloseDetaches, UserAt, HandlePc
  <2>2. QED
    BY <2>1, <1>1 DEF Finds, Missed
<1>8. ASSUME NEW u \in Users, NEW c \in Centrals, StartCreates(u, c)
      PROVE  Finds'
  BY <1>8, <1>1, <1>2
     DEF StartCreates, UserAt, Finds, Missed, WithDevice, WithHandle
<1>9. ASSUME NEW c \in Centrals, LoopTests(c)
      PROVE  Finds'
  BY <1>9, <1>1, <1>2
     DEF LoopTests, Finds, Missed, WithDevice, WithHandle
<1>10. ASSUME NEW c \in Centrals, LoopEmpties(c)
       PROVE  Finds'
  BY <1>10, <1>1, <1>2
     DEF LoopEmpties, CentralAt, Finds, Missed, WithDevice, WithHandle
<1>11. ASSUME NEW c \in Centrals, LoopExits(c)
       PROVE  Finds'
  BY <1>11, <1>1, <1>2
     DEF LoopExits, CentralAt, Finds, Missed, WithDevice, WithHandle
<1>12. ASSUME NEW c \in Centrals, PollLocks(c)
       PROVE  Finds'
  BY <1>12, <1>1, <1>2
     DEF PollLocks, CentralAt, Finds, Missed, WithDevice, WithHandle
<1>13. ASSUME NEW c \in Centrals, InitialActivates(c)
       PROVE  Finds'
  BY <1>13, <1>1, <1>2
     DEF InitialActivates, CentralAt, Finds, Missed, WithDevice, WithHandle
<1>14. ASSUME NEW c \in Centrals, PollStarts(c)
       PROVE  Finds'
  BY <1>14, <1>1, <1>2
     DEF PollStarts, CentralAt, Finds, Missed, WithDevice, WithHandle
<1>15. ASSUME NEW c \in Centrals, HandlerReturns(c)
       PROVE  Finds'
  <2>1. /\ \A e \in Centrals : e # c => cpc'[e] = cpc[e] /\ cpc[e] \in {"none", "done"}
        /\ UNCHANGED <<dev, attachedDevices>> /\ cpc[c] = "handler"
        /\ cpc' = [cpc EXCEPT ![c] = IF dev = AnyPhidget THEN "initial"
                                     ELSE IF dev \in attachedDevices THEN "arrival"
                                     ELSE "departure"]
    BY <1>15, <1>1 DEF HandlerReturns
  <2>2. UNCHANGED <<serial, activeDevices, attached>>
    BY <1>15 DEF HandlerReturns
  <2>3. dev # AnyPhidget =>
            dev \in attachedDevices \/ cpc'[c] = "departure"
    BY <2>1, <1>1
  <2>4. cpc'[c] \notin {"test2", "empty"}
    BY <2>1, <1>1
  <2>5. \A h \in activeDevices : Missed(h) => serial[h] = dev
    BY DEF Missed
  <2>6. \A h \in activeDevices : serial[h] = dev => dev # AnyPhidget
    BY <1>1, <1>2
  <2>7. QED
    BY <2>1, <2>2, <2>3, <2>4, <2>5, <2>6, <1>1, <1>2 DEF Finds, Missed
<1>16. ASSUME NEW c \in Centrals, TellingEnds(c)
       PROVE  Finds'
  BY <1>16, <1>1, <1>2
     DEF TellingEnds, Finds, Missed, WithDevice, WithHandle
<1>17. ASSUME NEW c \in Centrals, PollBuildsList(c)
       PROVE  Finds'
  BY <1>17, <1>1, <1>2
     DEF PollBuildsList, CentralAt, Finds, Missed, WithDevice, WithHandle
<1>18. ASSUME NEW c \in Centrals,
              \/ PollChecksError(c) \/ PollEnds(c)
       PROVE  Finds'
  BY <1>18, <1>1, <1>2
     DEF PollChecksError, CentralAt, PollEnds, Finds, Missed, WithDevice,
         WithHandle
<1>19. ASSUME NEW c \in Centrals, DetachFindsNone(c)
       PROVE  Finds'
  BY <1>19, <1>1, <1>2
     DEF DetachFindsNone, CentralAt, AttachedTo, Finds, Missed, WithDevice,
         WithHandle
<1>20. ASSUME NEW c \in Centrals, DetachCloses(c)
       PROVE  Finds'
  <2>1. /\ \A e \in Centrals : e # c => cpc'[e] = cpc[e] /\ cpc[e] \in {"none", "done"}
        /\ UNCHANGED <<dev, attachedDevices, activeDevices>>
        /\ cpc[c] = "dclose" /\ cpc'[c] = "devent" /\ hand \in Handles
        /\ attached' = [attached EXCEPT ![hand] = FALSE]
    BY <1>20, <1>1 DEF DetachCloses, CentralAt, WithHandle
  <2>2. \A h \in activeDevices : attached'[h] => attached[h] /\ ~Missed(h)
    BY <2>1, <1>1, <1>2, <1>4 DEF Missed
  <2>3. QED
    BY <2>1, <2>2, <1>1, <1>2 DEF Finds
<1>21. ASSUME NEW c \in Centrals, DetachEnds(c)
       PROVE  Finds'
  BY <1>21, <1>1, <1>2
     DEF DetachEnds, CentralAt, Finds, Missed, WithDevice, WithHandle
<1>22. ASSUME NEW c \in Centrals, FindStarts(c)
       PROVE  Finds'
  BY <1>22, <1>1, <1>2
     DEF FindStarts, CentralAt, Finds, Missed, WithDevice, WithHandle
<1>23. ASSUME NEW c \in Centrals, FindEnds(c)
       PROVE  Finds'
  BY <1>23, <1>1, <1>2
     DEF FindEnds, CentralAt, Finds, Missed, WithDevice, WithHandle
<1>24. ASSUME NEW c \in Centrals, MatchBuilds(c)
       PROVE  Finds'
  BY <1>24, <1>1, <1>2
     DEF MatchBuilds, CentralAt, Finds, Missed, WithDevice, WithHandle
<1>25. ASSUME NEW c \in Centrals, MatchNone(c)
       PROVE  Finds'
  BY <1>25, <1>1, <1>2
     DEF MatchNone, Return, Finds, Missed, WithDevice, WithHandle
<1>26. ASSUME NEW c \in Centrals, MatchLocks(c)
       PROVE  Finds'
  BY <1>26, <1>1, <1>2
     DEF MatchLocks, CentralAt, Finds, Missed, WithDevice, WithHandle
<1>27. ASSUME NEW c \in Centrals, AttachFails(c)
       PROVE  Finds'
  <2>1. /\ \A e \in Centrals : e # c => cpc'[e] = cpc[e] /\ cpc[e] \in {"none", "done"}
        /\ UNCHANGED <<dev, attachedDevices, activeDevices, attached>>
        /\ cpc[c] = "attach" /\ cpc'[c] = "try"
    BY <1>27, <1>1 DEF AttachFails, CentralAt
  <2>2. QED
    BY <2>1, <1>1, <1>2 DEF Finds, Missed
<1>27b. ASSUME NEW c \in Centrals, AttachBreaks(c)
       PROVE  Finds'
  <2>1. /\ \A e \in Centrals : e # c => cpc'[e] = cpc[e] /\ cpc[e] \in {"none", "done"}
        /\ UNCHANGED <<dev, attachedDevices, activeDevices>>
        /\ cpc[c] \in {"attach", "started"} /\ cpc'[c] = "try" /\ hand \in Handles
    BY <1>27b, <1>1 DEF AttachBreaks, WithHandle
  <2>2. \A h \in Handles : attached'[h] => attached[h]
    BY <1>27b, <2>1, <1>1 DEF AttachBreaks
  <2>3. QED
    BY <2>1, <2>2, <1>1, <1>2 DEF Finds, Missed
<1>28. ASSUME NEW c \in Centrals, AttachOpens(c)
       PROVE  Finds'
  <2>1. /\ \A e \in Centrals : e # c => cpc'[e] = cpc[e] /\ cpc[e] \in {"none", "done"}
        /\ UNCHANGED <<dev, attachedDevices, activeDevices>>
        /\ cpc[c] = "attach" /\ cpc'[c] = "started" /\ hand \in Handles
    BY <1>28, <1>1 DEF AttachOpens, CentralAt, WithHandle
  <2>2. dev \in attachedDevices /\ serial'[hand] = dev
    BY <1>28, <2>1, <1>1, <1>4 DEF AttachOpens, Looks, Trying
  <2>3. \A h \in Handles : h # hand => attached'[h] = attached[h]
    BY <1>28, <2>1, <1>1 DEF AttachOpens
  <2>4. QED
    BY <2>1, <2>2, <2>3, <1>1, <1>2 DEF Finds, Missed
<1>29. ASSUME NEW c \in Centrals, AttachReturns(c)
       PROVE  Finds'
  BY <1>29, <1>1, <1>2
     DEF AttachReturns, Return, Finds, Missed, WithDevice, WithHandle
<1>30. ASSUME NEW c \in Centrals, NEW m \in Managers, InitialFinds(c, m)
       PROVE  Finds'
  BY <1>30, <1>1, <1>2
     DEF InitialFinds, CentralAt, Finds, Missed, WithDevice, WithHandle
<1>31. ASSUME NEW c \in Centrals, NEW m \in Managers, Tells(c, m)
       PROVE  Finds'
  BY <1>31, <1>1, <1>2
     DEF Tells, Finds, Missed, WithDevice, WithHandle
<1>32. ASSUME NEW c \in Centrals, NEW d \in Devices, PollAttaches(c, d)
       PROVE  Finds'
  BY <1>32, <1>1, <1>2
     DEF PollAttaches, CentralAt, Finds, Missed, WithDevice, WithHandle
<1>33. ASSUME NEW c \in Centrals, NEW d \in Devices, PollKnows(c, d)
       PROVE  Finds'
  BY <1>33, <1>1, <1>2
     DEF PollKnows, CentralAt, Finds, Missed, WithDevice, WithHandle
<1>34. ASSUME NEW c \in Centrals, NEW d \in Devices, DetachForgets(c, d)
       PROVE  Finds'
  BY <1>34, <1>1, <1>2
     DEF DetachForgets, CentralAt, Finds, Missed, WithDevice, WithHandle
<1>35. ASSUME NEW c \in Centrals, NEW d \in Devices, FindTakes(c, d)
       PROVE  Finds'
  BY <1>35, <1>1, <1>2
     DEF FindTakes, CentralAt, Finds, Missed, WithDevice, WithHandle
<1>36. ASSUME NEW c \in Centrals, NEW h \in Handles, DetachFinds(c, h)
       PROVE  Finds'
  BY <1>36, <1>1, <1>2
     DEF DetachFinds, CentralAt, Finds, Missed, WithDevice, WithHandle
<1>37. ASSUME NEW c \in Centrals, NEW h \in Handles, MatchTries(c, h)
       PROVE  Finds'
  BY <1>37, <1>1, <1>2
     DEF MatchTries, CentralAt, Finds, Missed, WithDevice, WithHandle
<1>38. ASSUME NEW u \in Users,
              \/ OpenIgnored(u) \/ OpenLocks(u) \/ OpenIsDuplicate(u)
              \/ StartFindsThread(u) \/ StartSetsStatus(u) \/ OpenReturns(u)
              \/ CloseIgnored(u) \/ CloseLocks(u) \/ CloseTestsAttached(u)
              \/ CloseReleases(u) \/ JoinSkips(u) \/ JoinStarts(u)
              \/ JoinEnds(u) \/ CloseUninits(u) \/ CloseReturns(u)
              \/ ManagerOpenLocks(u) \/ ManagerOpenAdds(u)
              \/ ManagerCloseLocks(u) \/ ManagerCloseRemoves(u)
              \/ ManagerCloseReleases(u)
       PROVE  Finds'
  BY <1>38, <1>3
     DEF OpenIgnored, UserAt, OpenLocks, OpenIsDuplicate, StartFindsThread,
         StartSetsStatus, OpenReturns, CloseIgnored, CloseLocks,
         CloseTestsAttached, CloseReleases, JoinSkips, JoinStarts, JoinEnds,
         CloseUninits, CloseReturns, ManagerOpenLocks, ManagerOpenAdds,
         ManagerCloseLocks, ManagerCloseRemoves, ManagerCloseReleases
<1>39. ASSUME NEW u \in Users, NEW h \in Handles, NEW r \in Requests[h], OpenCalls(u, h, r)
       PROVE  Finds'
  BY <1>39, <1>3
     DEF OpenCalls, UserAt
<1>40. ASSUME NEW u \in Users, NEW h \in Handles, CloseCalls(u, h)
       PROVE  Finds'
  BY <1>40, <1>3
     DEF CloseCalls, UserAt
<1>41. ASSUME NEW u \in Users, NEW m \in Managers,
              \/ ManagerOpenCalls(u, m) \/ ManagerCloseCalls(u, m)
       PROVE  Finds'
  BY <1>41, <1>3
     DEF ManagerOpenCalls, UserAt, ManagerCloseCalls
<1>42. ASSUME NEW d \in Devices,
              \/ Unplug(d) \/ Plug(d)
       PROVE  Finds'
  BY <1>42, <1>3
     DEF Unplug, Plug
<1>43. ASSUME NEW h \in Handles, TransferFails(h)
       PROVE  Finds'
  BY <1>43, <1>3
     DEF TransferFails
<1>44. CASE UNCHANGED vars
  BY <1>44, <1>3
     DEF vars
<1>45. QED
  BY Zenon, <1>5, <1>6, <1>7, <1>8, <1>9, <1>10, <1>11, <1>12, <1>13, <1>14,
     <1>15, <1>16, <1>17, <1>18, <1>19, <1>20, <1>21, <1>22, <1>23, <1>24,
     <1>25, <1>26, <1>27, <1>27b, <1>28, <1>29, <1>30, <1>31, <1>32, <1>33, <1>34,
     <1>35, <1>36, <1>37, <1>38, <1>39, <1>40, <1>41, <1>42, <1>43, <1>44
     DEF Next, User, UserContinues, Central, Poll, Find, Environment

OneInv == /\ SerialInv /\ Stays /\ OneThread /\ Looks /\ UsbKept /\ Finds

LEMMA OneInvHolds == ASSUME OneUser, OwnSerials PROVE Spec => []OneInv
<1>1. Init => Looks /\ UsbKept /\ Finds
  BY DEF Init, Looks, Trying, UsbKept, Looking, Detecting, PollPc, Finds
<1>2. SerialInv /\ Stays /\ OneThread /\ Looks /\ UsbKept /\ Finds /\ [Next]_vars
      => Looks' /\ UsbKept' /\ Finds'
  BY LooksStep, UsbKeptStep, FindsStep DEF OwnSerials
<1>3. SerialInv /\ Stays /\ OneThread /\ Looks /\ UsbKept /\ Finds => OneInv
  BY DEF OneInv
<1>4. QED
  BY <1>1, <1>2, <1>3, StaysHolds, OneThreadHolds, PTL DEF Spec

LEMMA FoundIsListed == ASSUME OneInv PROVE AttachedIsListed
<1> SUFFICES ASSUME NEW h \in Handles, attached[h]
             PROVE  \/ h \in activeDevices /\ serial[h] \in attachedDevices
                    \/ Missed(h)
                    \/ \E u \in Users : uh[u] = h /\ upc[u] \in {"test", "detach"}
  BY DEF AttachedIsListed, Missed
<1>1. CASE h \in activeDevices
  BY <1>1 DEF OneInv, Finds
<1>2. CASE h \notin activeDevices
  <2>1. opened[h]
    BY DEF OneInv, SerialInv, Locked, OpenedIsKept
  <2>2. PICK u \in Users : uh[u] = h /\ upc[u] \in RemovedPc
    BY <1>2, <2>1 DEF OneInv, Stays
  <2>3. upc[u] \notin ClosedPc
    BY <2>2 DEF OneInv, SerialInv, Locked, OpenedIsKept
  <2>4. QED
    BY <2>2, <2>3 DEF RemovedPc
<1>3. QED
  BY <1>1, <1>2

\* A poll finds the handle of a device that has gone: open handles are in
\* ActiveDevices and the devices of attached ones in AttachedDevices, except
\* for the moment of their detach or close.
THEOREM ListsAreComplete ==
  ASSUME OneUser, OwnSerials
  PROVE  Spec => []HandlesAreListed
<1>1. OneInv => HandlesAreListed
  BY FoundIsListed, StaysIsRegistered DEF OneInv, HandlesAreListed
<1>2. QED
  BY <1>1, OneInvHolds, PTL

\* CUSBUninit, which the last close calls, takes libusb away from no handle
\* that is attached.
THEOREM UsbIsKept ==
  ASSUME OneUser, OwnSerials
  PROVE  Spec => []UsbOutlivesHandles
<1>1. OneInv => UsbOutlivesHandles
  BY DEF OneInv, UsbKept, UsbOutlivesHandles
<1>2. QED
  BY <1>1, OneInvHolds, PTL

-----------------------------------------------------------------------------
(* Managers, while the program keeps a handle open.                         *)

\* The handles in Keepers are opened before anything is closed or a manager is
\* opened, and stay so.
KeepersOpen == \A k \in Keepers : opened[k]
Kept ==
    /\ \A u \in Users : upc[u] # "idle" /\ uh[u] \in Keepers =>
           upc[u] \in {"openlock"} \cup OpeningPc
    /\ (\E m \in Managers : m \in managers \/ opened[m]) => KeepersOpen
    /\ \A u \in Users : uh[u] \in Managers /\ upc[u] # "idle" => KeepersOpen
    /\ \A u \in Users : upc[u] \in {"closelock"} \cup ClosingPc => KeepersOpen

\* The central thread then never finds the list empty.
NeverEnds ==
    /\ \A c \in Centrals : cpc[c] \notin {"test2", "empty", "exit", "done"}
    /\ activeDevices = {} => \A c \in Centrals : cpc[c] = "none"

\* managerLock is held while a manager is told of a device.
PollLockPc == {"locked"} \cup PollPc
Telling ==
    /\ \A c \in Centrals :
        /\ cpc[c] \in PollLockPc \/ (polling /\ cpc[c] \in Trying) => managerLock = c
        /\ cpc[c] \in {"handler", "activate"} => hand \in managers
    /\ tell # {} => \E c \in Centrals : cpc[c] \in {"arrival", "departure", "handler"}
    /\ managerLock # NoThread => tell \subseteq managers
    /\ dev = AnyPhidget => tell = {}
    /\ detachList \subseteq attachedDevices

\* An active manager knows AttachedDevices, but for the device it is still to
\* be told of.
Told ==
    \A m \in managers : mstate[m] = "active" =>
        /\ m \notin tell => told[m] = attachedDevices
        /\ m \in tell /\ dev \in attachedDevices => told[m] = attachedDevices \ {dev}
        /\ m \in tell /\ dev \notin attachedDevices => told[m] = attachedDevices \cup {dev}

LEMMA KeptStep ==
  ASSUME Keepers \subseteq Handles, Base, Kept, [Next]_vars
  PROVE  Kept'
<1>1. /\ Kept /\ Keepers \subseteq Handles /\ Handles \cap Managers = {}
      /\ upc = [u \in Users |-> upc[u]] /\ uh = [u \in Users |-> uh[u]]
      /\ opened = [h \in Handles \cup Managers |-> opened[h]]
      /\ \A u \in Users : upc[u] # "idle" => uh[u] \in Handles \cup Managers
      /\ \A u \in Users : upc[u] \in HandlePc => uh[u] \in Handles
      /\ \A u \in Users : upc[u] \in ManagerPc => uh[u] \in Managers
  BY CentralBounds DEF Base, TypeOK, UserKnows
<1>2. ASSUME UNCHANGED <<opened, managers, upc, uh>> PROVE Kept'
  BY <1>1, <1>2 DEF Kept, KeepersOpen
<1>3. ASSUME NEW u \in Users, OpenIgnored(u)
      PROVE  Kept'
  BY <1>3, <1>1
     DEF OpenIgnored, UserAt, Kept, KeepersOpen, OpeningPc, Registered,
         ClosingPc, RemovedPc, ClosedPc, HandlePc, ManagerPc
<1>4. ASSUME NEW u \in Users, OpenLocks(u)
      PROVE  Kept'
  BY <1>4, <1>1
     DEF OpenLocks, UserAt, Kept, KeepersOpen, OpeningPc, Registered,
         ClosingPc, RemovedPc, ClosedPc, HandlePc, ManagerPc
<1>5. ASSUME NEW u \in Users, OpenIsDuplicate(u)
      PROVE  Kept'
  BY <1>5, <1>1
     DEF OpenIsDuplicate, UserAt, Kept, KeepersOpen, OpeningPc, Registered,
         ClosingPc, RemovedPc, ClosedPc, HandlePc, ManagerPc
<1>6. ASSUME NEW u \in Users, OpenRegisters(u)
      PROVE  Kept'
  BY <1>6, <1>1
     DEF OpenRegisters, UserAt, Kept, KeepersOpen, OpeningPc, Registered,
         ClosingPc, RemovedPc, ClosedPc, HandlePc, ManagerPc
<1>7. ASSUME NEW u \in Users,
             \/ StartFindsThread(u) \/ StartSetsStatus(u)
      PROVE  Kept'
  BY <1>7, <1>1
     DEF StartFindsThread, StartSetsStatus, UserAt, Kept, KeepersOpen,
         OpeningPc, Registered, ClosingPc, RemovedPc, ClosedPc, HandlePc,
         ManagerPc
<1>8. ASSUME NEW u \in Users, OpenReturns(u)
      PROVE  Kept'
  BY <1>8, <1>1
     DEF OpenReturns, UserAt, Kept, KeepersOpen, OpeningPc, Registered,
         ClosingPc, RemovedPc, ClosedPc, HandlePc, ManagerPc
<1>9. ASSUME NEW u \in Users, CloseIgnored(u)
      PROVE  Kept'
  BY <1>9, <1>1
     DEF CloseIgnored, UserAt, Kept, KeepersOpen, OpeningPc, Registered,
         ClosingPc, RemovedPc, ClosedPc, HandlePc, ManagerPc
<1>10. ASSUME NEW u \in Users, CloseLocks(u)
       PROVE  Kept'
  BY <1>10, <1>1
     DEF CloseLocks, UserAt, Kept, KeepersOpen, OpeningPc, Registered,
         ClosingPc, RemovedPc, ClosedPc, HandlePc, ManagerPc
<1>11. ASSUME NEW u \in Users, CloseRemoves(u)
       PROVE  Kept'
  BY <1>11, <1>1
     DEF CloseRemoves, UserAt, Kept, KeepersOpen, OpeningPc, Registered,
         ClosingPc, RemovedPc, ClosedPc, HandlePc, ManagerPc
<1>12. ASSUME NEW u \in Users,
              \/ CloseTestsAttached(u) \/ CloseDetaches(u) \/ CloseReleases(u)
       PROVE  Kept'
  BY <1>12, <1>1
     DEF CloseTestsAttached, CloseDetaches, UserAt, CloseReleases, Kept,
         KeepersOpen, OpeningPc, Registered, ClosingPc, RemovedPc, ClosedPc,
         HandlePc, ManagerPc
<1>13. ASSUME NEW u \in Users,
              \/ JoinSkips(u) \/ JoinStarts(u) \/ JoinEnds(u)
              \/ CloseUninits(u)
       PROVE  Kept'
  BY <1>13, <1>1
     DEF JoinSkips, UserAt, JoinStarts, JoinEnds, CloseUninits, Kept,
         KeepersOpen, OpeningPc, Registered, ClosingPc, RemovedPc, ClosedPc,
         HandlePc, ManagerPc
<1>14. ASSUME NEW u \in Users, CloseReturns(u)
       PROVE  Kept'
  BY <1>14, <1>1
     DEF CloseReturns, UserAt, Kept, KeepersOpen, OpeningPc, Registered,
         ClosingPc, RemovedPc, ClosedPc, HandlePc, ManagerPc
<1>15. ASSUME NEW u \in Users, ManagerOpenLocks(u)
       PROVE  Kept'
  BY <1>15, <1>1
     DEF ManagerOpenLocks, Kept, KeepersOpen, OpeningPc, Registered,
         ClosingPc, RemovedPc, ClosedPc, HandlePc, ManagerPc
<1>16. ASSUME NEW u \in Users, ManagerOpenAdds(u)
       PROVE  Kept'
  BY <1>16, <1>1
     DEF ManagerOpenAdds, UserAt, Kept, KeepersOpen, OpeningPc, Registered,
         ClosingPc, RemovedPc, ClosedPc, HandlePc, ManagerPc
<1>17. ASSUME NEW u \in Users, ManagerCloseLocks(u)
       PROVE  Kept'
  BY <1>17, <1>1
     DEF ManagerCloseLocks, Kept, KeepersOpen, OpeningPc, Registered,
         ClosingPc, RemovedPc, ClosedPc, HandlePc, ManagerPc
<1>18. ASSUME NEW u \in Users, ManagerCloseRemoves(u)
       PROVE  Kept'
  BY <1>18, <1>1
     DEF ManagerCloseRemoves, UserAt, Kept, KeepersOpen, OpeningPc,
         Registered, ClosingPc, RemovedPc, ClosedPc, HandlePc, ManagerPc
<1>19. ASSUME NEW u \in Users, ManagerCloseReleases(u)
       PROVE  Kept'
  BY <1>19, <1>1
     DEF ManagerCloseReleases, Kept, KeepersOpen, OpeningPc, Registered,
         ClosingPc, RemovedPc, ClosedPc, HandlePc, ManagerPc
<1>20. ASSUME NEW u \in Users, NEW h \in Handles, NEW r \in Requests[h], OpenCalls(u, h, r)
       PROVE  Kept'
  BY <1>20, <1>1
     DEF OpenCalls, UserAt, Kept, KeepersOpen, OpeningPc, Registered,
         ClosingPc, RemovedPc, ClosedPc, HandlePc, ManagerPc
<1>21. ASSUME NEW u \in Users, NEW h \in Handles, CloseCalls(u, h)
       PROVE  Kept'
  BY <1>21, <1>1
     DEF CloseCalls, UserAt, Kept, KeepersOpen, OpeningPc, Registered,
         ClosingPc, RemovedPc, ClosedPc, HandlePc, ManagerPc
<1>22. ASSUME NEW u \in Users, NEW m \in Managers,
              \/ ManagerOpenCalls(u, m) \/ ManagerCloseCalls(u, m)
       PROVE  Kept'
  BY <1>22, <1>1
     DEF ManagerOpenCalls, UserAt, ManagerCloseCalls, Kept, KeepersOpen,
         OpeningPc, Registered, ClosingPc, RemovedPc, ClosedPc, HandlePc,
         ManagerPc
<1>23. ASSUME NEW u \in Users, NEW c \in Centrals, StartCreates(u, c)
       PROVE  Kept'
  BY <1>23, <1>1
     DEF StartCreates, UserAt, Kept, KeepersOpen, OpeningPc, Registered,
         ClosingPc, RemovedPc, ClosedPc, HandlePc, ManagerPc
<1>24. ASSUME NEW c \in Centrals,
              \/ LoopTests(c) \/ LoopEmpties(c) \/ LoopExits(c)
              \/ PollLocks(c) \/ PollStarts(c) \/ InitialActivates(c)
              \/ HandlerReturns(c) \/ TellingEnds(c) \/ PollBuildsList(c)
              \/ PollChecksError(c) \/ PollEnds(c) \/ DetachFindsNone(c)
              \/ DetachCloses(c) \/ DetachEnds(c) \/ FindStarts(c)
              \/ FindEnds(c) \/ MatchBuilds(c) \/ MatchNone(c)
              \/ MatchLocks(c) \/ AttachFails(c) \/ AttachBreaks(c) \/ AttachOpens(c)
              \/ AttachReturns(c)
       PROVE  Kept'
  BY <1>24, <1>2
     DEF LoopTests, LoopEmpties, CentralAt, LoopExits, PollLocks, PollStarts,
         InitialActivates, HandlerReturns, TellingEnds, PollBuildsList,
         PollChecksError, PollEnds, DetachFindsNone, DetachCloses, DetachEnds,
         FindStarts, FindEnds, MatchBuilds, MatchNone, Return, MatchLocks,
         AttachFails, AttachBreaks, AttachOpens, AttachReturns
<1>25. ASSUME NEW c \in Centrals, NEW m \in Managers,
              \/ InitialFinds(c, m) \/ Tells(c, m)
       PROVE  Kept'
  BY <1>25, <1>2
     DEF InitialFinds, CentralAt, Tells
<1>26. ASSUME NEW c \in Centrals, NEW d \in Devices,
              \/ PollAttaches(c, d) \/ PollKnows(c, d) \/ DetachForgets(c, d)
              \/ FindTakes(c, d)
       PROVE  Kept'
  BY <1>26, <1>2
     DEF PollAttaches, CentralAt, PollKnows, DetachForgets, FindTakes
<1>27. ASSUME NEW c \in Centrals, NEW h \in Handles,
              \/ DetachFinds(c, h) \/ MatchTries(c, h)
       PROVE  Kept'
  BY <1>27, <1>2
     DEF DetachFinds, CentralAt, MatchTries
<1>28. ASSUME NEW d \in Devices,
              \/ Unplug(d) \/ Plug(d)
       PROVE  Kept'
  BY <1>28, <1>2
     DEF Unplug, Plug
<1>29. ASSUME NEW h \in Handles, TransferFails(h)
       PROVE  Kept'
  BY <1>29, <1>2
     DEF TransferFails
<1>30. CASE UNCHANGED vars
  BY <1>30, <1>2
     DEF vars
<1>31. QED
  BY Zenon, <1>3, <1>4, <1>5, <1>6, <1>7, <1>8, <1>9, <1>10, <1>11, <1>12,
     <1>13, <1>14, <1>15, <1>16, <1>17, <1>18, <1>19, <1>20, <1>21, <1>22,
     <1>23, <1>24, <1>25, <1>26, <1>27, <1>28, <1>29, <1>30
     DEF Next, User, UserContinues, Central, Poll, Find, Environment

\* A handle that is kept open is on the list.
LEMMA KeeperIsListed ==
  ASSUME Keepers \subseteq Handles, Keepers # {}, Stays, Kept, KeepersOpen
  PROVE  \A k \in Keepers : k \in activeDevices
<1> SUFFICES ASSUME NEW k \in Keepers PROVE k \in activeDevices
  OBVIOUS
<1>1. opened[k] /\ k \in Handles
  BY DEF KeepersOpen
<1>2. \A u \in Users : uh[u] = k => upc[u] \notin RemovedPc
  BY DEF Kept, RemovedPc, ClosedPc, OpeningPc, Registered
<1>3. QED
  BY <1>1, <1>2 DEF Stays

LEMMA NeverEndsStep ==
  ASSUME OwnSerials, Keepers \subseteq Handles, Keepers # {},
         SerialInv, Stays, Kept, NeverEnds, [Next]_vars
  PROVE  NeverEnds'
<1>1. NeverEnds /\ cpc = [c \in Centrals |-> cpc[c]]
  BY DEF SerialInv, Base, TypeOK
<1>2. KeepersOpen => activeDevices # {}
  BY KeeperIsListed
<1>3. ASSUME NEW u \in Users, CloseRemoves(u) PROVE activeDevices' # {}
  <2>1. KeepersOpen /\ uh[u] \in Handles /\ specific[uh[u]] = "serial" /\ uh[u] \notin Keepers
    BY <1>3 DEF CloseRemoves, UserAt, Kept, ClosingPc, OpeningPc, Registered, SerialInv, Base,
          UserKnows, HandlePc, Locked, OpenedIsKept, Asks, HandleAsks
  <2>2. Removed(uh[u]) \subseteq {uh[u]}
    BY <2>1, RemovesOnlyItself DEF SerialInv, Base, TypeOK, Asks
  <2>3. PICK k \in Keepers : k \in activeDevices
    BY <2>1, KeeperIsListed
  <2>4. k \in activeDevices'
    BY <2>1, <2>2, <2>3, <1>3 DEF CloseRemoves
  <2>5. QED
    BY <2>4
<1>4. ASSUME NEW u \in Users, upc[u] = "create" PROVE activeDevices # {}
  <2>1. CASE uh[u] \in Handles
    BY <2>1, <1>4 DEF Stays, Registered
  <2>2. CASE uh[u] \in Managers
    BY <2>2, <1>2, <1>4 DEF Kept
  <2>3. QED
    BY <2>1, <2>2, <1>4 DEF SerialInv, Base, UserKnows
<1>5. ASSUME UNCHANGED <<cpc, activeDevices>> PROVE NeverEnds'
  BY <1>1, <1>5 DEF NeverEnds
<1>6. ASSUME NEW u \in Users, OpenRegisters(u)
      PROVE  NeverEnds'
  BY <1>6, <1>1
     DEF OpenRegisters, UserAt, NeverEnds
<1>7. ASSUME NEW u \in Users, CloseRemoves(u)
      PROVE  NeverEnds'
  BY <1>7, <1>3, <1>1
     DEF CloseRemoves, UserAt, NeverEnds
<1>8. ASSUME NEW u \in Users, NEW c \in Centrals, StartCreates(u, c)
      PROVE  NeverEnds'
  BY <1>8, <1>4, <1>1
     DEF StartCreates, UserAt, NeverEnds
<1>9. ASSUME NEW c \in Centrals, LoopTests(c)
      PROVE  NeverEnds'
  BY <1>9, <1>1
     DEF LoopTests, NeverEnds
<1>10. ASSUME NEW c \in Centrals,
              \/ LoopEmpties(c) \/ LoopExits(c) \/ PollLocks(c)
              \/ PollStarts(c) \/ InitialActivates(c)
       PROVE  NeverEnds'
  BY <1>10, <1>1
     DEF LoopEmpties, CentralAt, LoopExits, PollLocks, PollStarts,
         InitialActivates, NeverEnds
<1>11. ASSUME NEW c \in Centrals,
              \/ HandlerReturns(c) \/ TellingEnds(c)
       PROVE  NeverEnds'
  BY <1>11, <1>1
     DEF HandlerReturns, TellingEnds, NeverEnds
<1>12. ASSUME NEW c \in Centrals,
              \/ PollBuildsList(c) \/ PollChecksError(c) \/ PollEnds(c)
              \/ DetachFindsNone(c) \/ DetachCloses(c) \/ DetachEnds(c)
       PROVE  NeverEnds'
  BY <1>12, <1>1
     DEF PollBuildsList, CentralAt, PollChecksError, PollEnds,
         DetachFindsNone, DetachCloses, DetachEnds, NeverEnds
<1>13. ASSUME NEW c \in Centrals,
              \/ FindStarts(c) \/ FindEnds(c) \/ MatchBuilds(c)
       PROVE  NeverEnds'
  BY <1>13, <1>1
     DEF FindStarts, CentralAt, FindEnds, MatchBuilds, NeverEnds
<1>14. ASSUME NEW c \in Centrals,
              \/ MatchNone(c) \/ MatchLocks(c) \/ AttachFails(c) \/ AttachBreaks(c)
              \/ AttachOpens(c) \/ AttachReturns(c)
       PROVE  NeverEnds'
  BY <1>14, <1>1
     DEF MatchNone, Return, MatchLocks, CentralAt, AttachFails, AttachBreaks, AttachOpens,
         AttachReturns, NeverEnds
<1>15. ASSUME NEW c \in Centrals, NEW m \in Managers, InitialFinds(c, m)
       PROVE  NeverEnds'
  BY <1>15, <1>1
     DEF InitialFinds, CentralAt, NeverEnds
<1>16. ASSUME NEW c \in Centrals, NEW m \in Managers, Tells(c, m)
       PROVE  NeverEnds'
  BY <1>16, <1>1
     DEF Tells, NeverEnds
<1>17. ASSUME NEW c \in Centrals, NEW d \in Devices,
              \/ PollAttaches(c, d) \/ PollKnows(c, d) \/ DetachForgets(c, d)
              \/ FindTakes(c, d)
       PROVE  NeverEnds'
  BY <1>17, <1>1
     DEF PollAttaches, CentralAt, PollKnows, DetachForgets, FindTakes,
         NeverEnds
<1>18. ASSUME NEW c \in Centrals, NEW h \in Handles,
              \/ DetachFinds(c, h) \/ MatchTries(c, h)
       PROVE  NeverEnds'
  BY <1>18, <1>1
     DEF DetachFinds, CentralAt, MatchTries, NeverEnds
<1>19. ASSUME NEW u \in Users,
              \/ OpenIgnored(u) \/ OpenLocks(u) \/ OpenIsDuplicate(u)
              \/ StartFindsThread(u) \/ StartSetsStatus(u) \/ OpenReturns(u)
              \/ CloseIgnored(u) \/ CloseLocks(u) \/ CloseTestsAttached(u)
              \/ CloseDetaches(u) \/ CloseReleases(u) \/ JoinSkips(u)
              \/ JoinStarts(u) \/ JoinEnds(u) \/ CloseUninits(u)
              \/ CloseReturns(u) \/ ManagerOpenLocks(u) \/ ManagerOpenAdds(u)
              \/ ManagerCloseLocks(u) \/ ManagerCloseRemoves(u)
              \/ ManagerCloseReleases(u)
       PROVE  NeverEnds'
  BY <1>19, <1>5
     DEF OpenIgnored, UserAt, OpenLocks, OpenIsDuplicate, StartFindsThread,
         StartSetsStatus, OpenReturns, CloseIgnored, CloseLocks,
         CloseTestsAttached, CloseDetaches, CloseReleases, JoinSkips,
         JoinStarts, JoinEnds, CloseUninits, CloseReturns, ManagerOpenLocks,
         ManagerOpenAdds, ManagerCloseLocks, ManagerCloseRemoves,
         ManagerCloseReleases
<1>20. ASSUME NEW u \in Users, NEW h \in Handles, NEW r \in Requests[h], OpenCalls(u, h, r)
       PROVE  NeverEnds'
  BY <1>20, <1>5
     DEF OpenCalls, UserAt
<1>21. ASSUME NEW u \in Users, NEW h \in Handles, CloseCalls(u, h)
       PROVE  NeverEnds'
  BY <1>21, <1>5
     DEF CloseCalls, UserAt
<1>22. ASSUME NEW u \in Users, NEW m \in Managers,
              \/ ManagerOpenCalls(u, m) \/ ManagerCloseCalls(u, m)
       PROVE  NeverEnds'
  BY <1>22, <1>5
     DEF ManagerOpenCalls, UserAt, ManagerCloseCalls
<1>23. ASSUME NEW d \in Devices,
              \/ Unplug(d) \/ Plug(d)
       PROVE  NeverEnds'
  BY <1>23, <1>5
     DEF Unplug, Plug
<1>24. ASSUME NEW h \in Handles, TransferFails(h)
       PROVE  NeverEnds'
  BY <1>24, <1>5
     DEF TransferFails
<1>25. CASE UNCHANGED vars
  BY <1>25, <1>5
     DEF vars
<1>26. QED
  BY Zenon, <1>6, <1>7, <1>8, <1>9, <1>10, <1>11, <1>12, <1>13, <1>14, <1>15,
     <1>16, <1>17, <1>18, <1>19, <1>20, <1>21, <1>22, <1>23, <1>24, <1>25
     DEF Next, User, UserContinues, Central, Poll, Find, Environment

\* Where the central thread is before a poll looks at the bus, dev is free.
LEMMA NoDevYet ==
  ASSUME UsbKept, OneThread, NEW c \in Centrals,
         cpc[c] \in {"test", "poll", "locked", "initial", "activate", "find"}
  PROVE  dev = AnyPhidget
<1>1. \A e \in Centrals : cpc[e] \in Looking => e = c
  BY OnlyOne DEF Looking, Trying, Detecting
<1>2. QED
  BY <1>1 DEF UsbKept, Looking, Trying, Detecting

LEMMA TellingStep ==
  ASSUME SerialInv, OneThread, Looks, UsbKept, NeverEnds, Telling, [Next]_vars
  PROVE  Telling'
<1>1. /\ Telling /\ AnyPhidget \notin Devices /\ NoThread \notin Centrals
      /\ cpc = [c \in Centrals |-> cpc[c]] /\ tell \subseteq Managers
      /\ \A c \in Centrals : cpc[c] \in PollPc => polling
      /\ \A c \in Centrals : cpc[c] = "each" => ~polling
      /\ \A c \in Centrals : cpc[c] \in WithDevice => dev \in Devices
      /\ \A c \in Centrals : cpc[c] = "check" => dev \in attachedDevices
      /\ \A c \in Centrals : cpc[c] # "empty"
      /\ \A c, e \in Centrals : cpc[c] \notin {"none", "done"}
                                 /\ cpc[e] \notin {"none", "done"} => c = e
  BY AnyAssumption, ThreadsAssumption, OnlyOne
     DEF SerialInv, Base, TypeOK, PollerKnows, Looks, NeverEnds
<1>2. \A c \in Centrals : cpc[c] \in {"test", "poll", "locked", "initial", "activate", "find"}
                              => dev = AnyPhidget
  BY NoDevYet
<1>3. ASSUME UNCHANGED <<cpc, polling, managerLock, hand, managers, tell, dev,
                         detachList, attachedDevices>>
      PROVE  Telling'
  BY <1>1, <1>3 DEF Telling
<1>4. ASSUME NEW u \in Users, ManagerOpenAdds(u)
      PROVE  Telling'
  BY <1>4, <1>1, <1>2
     DEF ManagerOpenAdds, UserAt, Telling, PollLockPc, PollPc, Detecting,
         Trying, WithDevice
<1>5. ASSUME NEW u \in Users, ManagerCloseRemoves(u)
      PROVE  Telling'
  BY <1>5, <1>1, <1>2
     DEF ManagerCloseRemoves, UserAt, Telling, PollLockPc, PollPc, Detecting,
         Trying, WithDevice
<1>6. ASSUME NEW u \in Users, NEW c \in Centrals, StartCreates(u, c)
      PROVE  Telling'
  BY <1>6, <1>1, <1>2
     DEF StartCreates, UserAt, Telling, PollLockPc, PollPc, Detecting, Trying,
         WithDevice
<1>7. ASSUME NEW c \in Centrals, LoopTests(c)
      PROVE  Telling'
  BY <1>7, <1>1, <1>2
     DEF LoopTests, Telling, PollLockPc, PollPc, Detecting, Trying, WithDevice
<1>8. ASSUME NEW c \in Centrals, LoopEmpties(c)
      PROVE  Telling'
  BY <1>8, <1>1, <1>2
     DEF LoopEmpties, CentralAt, Telling, PollLockPc, PollPc, Detecting,
         Trying, WithDevice
<1>9. ASSUME NEW c \in Centrals, LoopExits(c)
      PROVE  Telling'
  BY <1>9, <1>1, <1>2
     DEF LoopExits, CentralAt, Telling, PollLockPc, PollPc, Detecting, Trying,
         WithDevice
<1>10. ASSUME NEW c \in Centrals, PollLocks(c)
       PROVE  Telling'
  BY <1>10, <1>1, <1>2
     DEF PollLocks, CentralAt, Telling, PollLockPc, PollPc, Detecting, Trying,
         WithDevice
<1>11. ASSUME NEW c \in Centrals, PollStarts(c)
       PROVE  Telling'
  BY <1>11, <1>1, <1>2
     DEF PollStarts, CentralAt, Telling, PollLockPc, PollPc, Detecting,
         Trying, WithDevice
<1>12. ASSUME NEW c \in Centrals, InitialActivates(c)
       PROVE  Telling'
  BY <1>12, <1>1, <1>2
     DEF InitialActivates, CentralAt, Telling, PollLockPc, PollPc, Detecting,
         Trying, WithDevice
<1>13. ASSUME NEW c \in Centrals, HandlerReturns(c)
       PROVE  Telling'
  BY <1>13, <1>1, <1>2
     DEF HandlerReturns, Telling, PollLockPc, PollPc, Detecting, Trying,
         WithDevice
<1>14. ASSUME NEW c \in Centrals, TellingEnds(c)
       PROVE  Telling'
  BY <1>14, <1>1, <1>2
     DEF TellingEnds, Telling, PollLockPc, PollPc, Detecting, Trying,
         WithDevice
<1>15. ASSUME NEW c \in Centrals, PollBuildsList(c)
       PROVE  Telling'
  BY <1>15, <1>1, <1>2
     DEF PollBuildsList, CentralAt, Telling, PollLockPc, PollPc, Detecting,
         Trying, WithDevice
<1>16. ASSUME NEW c \in Centrals, PollChecksError(c)
       PROVE  Telling'
  BY <1>16, <1>1, <1>2
     DEF PollChecksError, CentralAt, Telling, PollLockPc, PollPc, Detecting,
         Trying, WithDevice
<1>17. ASSUME NEW c \in Centrals, PollEnds(c)
       PROVE  Telling'
  BY <1>17, <1>1, <1>2
     DEF PollEnds, CentralAt, Telling, PollLockPc, PollPc, Detecting, Trying,
         WithDevice
<1>18. ASSUME NEW c \in Centrals, DetachFindsNone(c)
       PROVE  Telling'
  BY <1>18, <1>1, <1>2
     DEF DetachFindsNone, CentralAt, Telling, PollLockPc, PollPc, Detecting,
         Trying, WithDevice
<1>19. ASSUME NEW c \in Centrals, DetachCloses(c)
       PROVE  Telling'
  BY <1>19, <1>1, <1>2
     DEF DetachCloses, CentralAt, Telling, PollLockPc, PollPc, Detecting,
         Trying, WithDevice
<1>20. ASSUME NEW c \in Centrals, DetachEnds(c)
       PROVE  Telling'
  BY <1>20, <1>1, <1>2
     DEF DetachEnds, CentralAt, Telling, PollLockPc, PollPc, Detecting,
         Trying, WithDevice
<1>21. ASSUME NEW c \in Centrals, FindStarts(c)
       PROVE  Telling'
  BY <1>21, <1>1, <1>2
     DEF FindStarts, CentralAt, Telling, PollLockPc, PollPc, Detecting,
         Trying, WithDevice
<1>22. ASSUME NEW c \in Centrals, FindEnds(c)
       PROVE  Telling'
  BY <1>22, <1>1, <1>2
     DEF FindEnds, CentralAt, Telling, PollLockPc, PollPc, Detecting, Trying,
         WithDevice
<1>23. ASSUME NEW c \in Centrals, MatchBuilds(c)
       PROVE  Telling'
  BY <1>23, <1>1, <1>2
     DEF MatchBuilds, CentralAt, Telling, PollLockPc, PollPc, Detecting,
         Trying, WithDevice
<1>24. ASSUME NEW c \in Centrals, MatchNone(c)
       PROVE  Telling'
  BY <1>24, <1>1, <1>2
     DEF MatchNone, Return, Telling, PollLockPc, PollPc, Detecting, Trying,
         WithDevice
<1>25. ASSUME NEW c \in Centrals, MatchLocks(c)
       PROVE  Telling'
  BY <1>25, <1>1, <1>2
     DEF MatchLocks, CentralAt, Telling, PollLockPc, PollPc, Detecting,
         Trying, WithDevice
<1>26. ASSUME NEW c \in Centrals, AttachFails(c)
       PROVE  Telling'
  BY <1>26, <1>1, <1>2
     DEF AttachFails, CentralAt, Telling, PollLockPc, PollPc, Detecting,
         Trying, WithDevice
<1>26b. ASSUME NEW c \in Centrals, AttachBreaks(c)
       PROVE  Telling'
  BY <1>26b, <1>1, <1>2
     DEF AttachBreaks, CentralAt, Telling, PollLockPc, PollPc, Detecting,
         Trying, WithDevice
<1>27. ASSUME NEW c \in Centrals, AttachOpens(c)
       PROVE  Telling'
  BY <1>27, <1>1, <1>2
     DEF AttachOpens, CentralAt, Telling, PollLockPc, PollPc, Detecting,
         Trying, WithDevice
<1>28. ASSUME NEW c \in Centrals, AttachReturns(c)
       PROVE  Telling'
  BY <1>28, <1>1, <1>2
     DEF AttachReturns, Return, Telling, PollLockPc, PollPc, Detecting,
         Trying, WithDevice
<1>29. ASSUME NEW c \in Centrals, NEW m \in Managers, InitialFinds(c, m)
       PROVE  Telling'
  BY <1>29, <1>1, <1>2
     DEF InitialFinds, CentralAt, Telling, PollLockPc, PollPc, Detecting,
         Trying, WithDevice
<1>30. ASSUME NEW c \in Centrals, NEW m \in Managers, Tells(c, m)
       PROVE  Telling'
  BY <1>30, <1>1, <1>2
     DEF Tells, Telling, PollLockPc, PollPc, Detecting, Trying, WithDevice
<1>31. ASSUME NEW c \in Centrals, NEW d \in Devices, PollAttaches(c, d)
       PROVE  Telling'
  BY <1>31, <1>1, <1>2
     DEF PollAttaches, CentralAt, Telling, PollLockPc, PollPc, Detecting,
         Trying, WithDevice
<1>32. ASSUME NEW c \in Centrals, NEW d \in Devices, PollKnows(c, d)
       PROVE  Telling'
  BY <1>32, <1>1, <1>2
     DEF PollKnows, CentralAt, Telling, PollLockPc, PollPc, Detecting, Trying,
         WithDevice
<1>33. ASSUME NEW c \in Centrals, NEW d \in Devices, DetachForgets(c, d)
       PROVE  Telling'
  BY <1>33, <1>1, <1>2
     DEF DetachForgets, CentralAt, Telling, PollLockPc, PollPc, Detecting,
         Trying, WithDevice
<1>34. ASSUME NEW c \in Centrals, NEW d \in Devices, FindTakes(c, d)
       PROVE  Telling'
  BY <1>34, <1>1, <1>2
     DEF FindTakes, CentralAt, Telling, PollLockPc, PollPc, Detecting, Trying,
         WithDevice
<1>35. ASSUME NEW c \in Centrals, NEW h \in Handles, DetachFinds(c, h)
       PROVE  Telling'
  BY <1>35, <1>1, <1>2
     DEF DetachFinds, CentralAt, Telling, PollLockPc, PollPc, Detecting,
         Trying, WithDevice
<1>36. ASSUME NEW c \in Centrals, NEW h \in Handles, MatchTries(c, h)
       PROVE  Telling'
  BY <1>36, <1>1, <1>2
     DEF MatchTries, CentralAt, Telling, PollLockPc, PollPc, Detecting,
         Trying, WithDevice
<1>37. ASSUME NEW u \in Users,
              \/ OpenIgnored(u) \/ OpenLocks(u) \/ OpenIsDuplicate(u)
              \/ OpenRegisters(u) \/ StartFindsThread(u) \/ StartSetsStatus(u)
              \/ OpenReturns(u) \/ CloseIgnored(u) \/ CloseLocks(u)
              \/ CloseRemoves(u) \/ CloseTestsAttached(u) \/ CloseDetaches(u)
              \/ CloseReleases(u) \/ JoinSkips(u) \/ JoinStarts(u)
              \/ JoinEnds(u) \/ CloseUninits(u) \/ CloseReturns(u)
              \/ ManagerOpenLocks(u) \/ ManagerCloseLocks(u)
              \/ ManagerCloseReleases(u)
       PROVE  Telling'
  BY <1>37, <1>3
     DEF OpenIgnored, UserAt, OpenLocks, OpenIsDuplicate, OpenRegisters,
         StartFindsThread, StartSetsStatus, OpenReturns, CloseIgnored,
         CloseLocks, CloseRemoves, CloseTestsAttached, CloseDetaches,
         CloseReleases, JoinSkips, JoinStarts, JoinEnds, CloseUninits,
         CloseReturns, ManagerOpenLocks, ManagerCloseLocks,
         ManagerCloseReleases
<1>38. ASSUME NEW u \in Users, NEW h \in Handles, NEW r \in Requests[h], OpenCalls(u, h, r)
       PROVE  Telling'
  BY <1>38, <1>3
     DEF OpenCalls, UserAt
<1>39. ASSUME NEW u \in Users, NEW h \in Handles, CloseCalls(u, h)
       PROVE  Telling'
  BY <1>39, <1>3
     DEF CloseCalls, UserAt
<1>40. ASSUME NEW u \in Users, NEW m \in Managers,
              \/ ManagerOpenCalls(u, m) \/ ManagerCloseCalls(u, m)
       PROVE  Telling'
  BY <1>40, <1>3
     DEF ManagerOpenCalls, UserAt, ManagerCloseCalls
<1>41. ASSUME NEW d \in Devices,
              \/ Unplug(d) \/ Plug(d)
       PROVE  Telling'
  BY <1>41, <1>3
     DEF Unplug, Plug
<1>42. ASSUME NEW h \in Handles, TransferFails(h)
       PROVE  Telling'
  BY <1>42, <1>3
     DEF TransferFails
<1>43. CASE UNCHANGED vars
  BY <1>43, <1>3
     DEF vars
<1>44. QED
  BY Zenon, <1>4, <1>5, <1>6, <1>7, <1>8, <1>9, <1>10, <1>11, <1>12, <1>13,
     <1>14, <1>15, <1>16, <1>17, <1>18, <1>19, <1>20, <1>21, <1>22, <1>23,
     <1>24, <1>25, <1>26, <1>26b, <1>27, <1>28, <1>29, <1>30, <1>31, <1>32, <1>33,
     <1>34, <1>35, <1>36, <1>37, <1>38, <1>39, <1>40, <1>41, <1>42, <1>43
     DEF Next, User, UserContinues, Central, Poll, Find, Environment

LEMMA ToldStep ==
  ASSUME SerialInv, OneThread, Looks, UsbKept, NeverEnds, Telling, Told, [Next]_vars
  PROVE  Told'
<1>1. /\ Told /\ Telling /\ NoThread \notin Centrals
      /\ mstate = [m \in Managers |-> mstate[m]] /\ told = [m \in Managers |-> told[m]]
      /\ managers \subseteq Managers /\ attachedDevices \subseteq Devices
      /\ \A u \in Users : upc[u] \in ManagerPc => uh[u] \in Managers
      /\ \A c \in Centrals : cpc[c] \in PollLockPc => managerLock = c
      /\ \A c \in Centrals : cpc[c] # "empty"
      /\ \A c \in Centrals : cpc[c] = "arrival" => dev \in attachedDevices
      /\ \A c \in Centrals : cpc[c] = "departure" => dev \notin attachedDevices
  BY ThreadsAssumption
     DEF SerialInv, Base, TypeOK, UserKnows, NeverEnds, Telling, Looks
<1>2. managerLock = NoThread => tell = {}
  BY <1>1 DEF Telling, PollLockPc, PollPc, Detecting
<1>3. \A c \in Centrals : cpc[c] \in {"test", "poll", "locked", "initial", "activate", "find",
                                       "scan", "check", "dfind", "dclose", "devent", "each"}
                              => tell = {}
  BY OnlyOne, <1>1 DEF Telling
<1>4. ASSUME UNCHANGED <<managers, mstate, told, tell, dev, attachedDevices>> PROVE Told'
  BY <1>1, <1>4 DEF Told
<1>5. ASSUME NEW u \in Users, ManagerOpenAdds(u)
      PROVE  Told'
  BY <1>5, <1>1, <1>2, <1>3
     DEF ManagerOpenAdds, UserAt, CentralAt, Told, Telling, PollLockPc,
         PollPc, Detecting, ManagerPc
<1>6. ASSUME NEW u \in Users, ManagerCloseLocks(u)
      PROVE  Told'
  BY <1>6, <1>1, <1>2, <1>3
     DEF ManagerCloseLocks, CentralAt, UserAt, Told, Telling, PollLockPc,
         PollPc, Detecting, ManagerPc
<1>7. ASSUME NEW u \in Users, ManagerCloseRemoves(u)
      PROVE  Told'
  BY <1>7, <1>1, <1>2, <1>3
     DEF ManagerCloseRemoves, UserAt, CentralAt, Told, Telling, PollLockPc,
         PollPc, Detecting, ManagerPc
<1>8. ASSUME NEW c \in Centrals, LoopEmpties(c)
      PROVE  Told'
  BY <1>8, <1>1, <1>2, <1>3
     DEF LoopEmpties, CentralAt, UserAt, Told, Telling, PollLockPc, PollPc,
         Detecting, ManagerPc
<1>9. ASSUME NEW c \in Centrals, InitialActivates(c)
      PROVE  Told'
  BY <1>9, <1>1, <1>2, <1>3
     DEF InitialActivates, CentralAt, UserAt, Told, Telling, PollLockPc,
         PollPc, Detecting, ManagerPc
<1>10. ASSUME NEW c \in Centrals, PollEnds(c)
       PROVE  Told'
  BY <1>10, <1>1, <1>2, <1>3
     DEF PollEnds, CentralAt, UserAt, Told, Telling, PollLockPc, PollPc,
         Detecting, ManagerPc
<1>11. ASSUME NEW c \in Centrals, FindEnds(c)
       PROVE  Told'
  BY <1>11, <1>1, <1>2, <1>3
     DEF FindEnds, CentralAt, UserAt, Told, Telling, PollLockPc, PollPc,
         Detecting, ManagerPc
<1>12. ASSUME NEW c \in Centrals, NEW m \in Managers, Tells(c, m)
       PROVE  Told'
  <2>1. /\ m \in managers /\ m \in tell /\ tell' = tell \ {m}
        /\ UNCHANGED <<managers, mstate, dev, attachedDevices>>
        /\ \/ cpc[c] = "arrival" /\ dev \in attachedDevices
           \/ cpc[c] = "departure" /\ dev \notin attachedDevices
    BY <1>12, <1>1 DEF Tells, Telling, PollLockPc, PollPc, Detecting
  <2>2. CASE mstate[m] # "active"
    <3>1. told' = told
      BY <1>12, <2>2 DEF Tells
    <3>2. QED
      BY <2>1, <2>2, <3>1, <1>1 DEF Told
  <2>3. CASE mstate[m] = "active"
    <3>1. ASSUME cpc[c] = "arrival" PROVE told' = [told EXCEPT ![m] = attachedDevices]
      <4>1. told' = [told EXCEPT ![m] = told[m] \cup {dev}]
        BY <1>12, <2>3, <3>1 DEF Tells
      <4>2. told[m] = attachedDevices \ {dev} /\ dev \in attachedDevices
        BY <2>1, <2>3, <3>1, <1>1 DEF Told
      <4>3. told[m] \cup {dev} = attachedDevices
        BY <4>2
      <4>4. QED
        BY <4>1, <4>3
    <3>2. ASSUME cpc[c] = "departure" PROVE told' = [told EXCEPT ![m] = attachedDevices]
      <4>1. told' = [told EXCEPT ![m] = told[m] \ {dev}]
        BY <1>12, <2>3, <3>2 DEF Tells
      <4>2. told[m] = attachedDevices \cup {dev} /\ dev \notin attachedDevices
        BY <2>1, <2>3, <3>2, <1>1 DEF Told
      <4>3. told[m] \ {dev} = attachedDevices
        BY <4>2
      <4>4. QED
        BY <4>1, <4>3
    <3>3. told' = [told EXCEPT ![m] = attachedDevices]
      BY <2>1, <3>1, <3>2
    <3>4. QED
      BY <2>1, <3>3, <1>1 DEF Told
  <2>4. QED
    BY <2>2, <2>3
<1>13. ASSUME NEW c \in Centrals, NEW d \in Devices, PollAttaches(c, d)
       PROVE  Told'
  BY <1>13, <1>1, <1>2, <1>3
     DEF PollAttaches, CentralAt, UserAt, Told, Telling, PollLockPc, PollPc,
         Detecting, ManagerPc
<1>14. ASSUME NEW c \in Centrals, NEW d \in Devices, PollKnows(c, d)
       PROVE  Told'
  BY <1>14, <1>1, <1>2, <1>3
     DEF PollKnows, CentralAt, UserAt, Told, Telling, PollLockPc, PollPc,
         Detecting, ManagerPc
<1>15. ASSUME NEW c \in Centrals, NEW d \in Devices, DetachForgets(c, d)
       PROVE  Told'
  BY <1>15, <1>1, <1>2, <1>3
     DEF DetachForgets, CentralAt, UserAt, Told, Telling, PollLockPc, PollPc,
         Detecting, ManagerPc
<1>16. ASSUME NEW c \in Centrals, NEW d \in Devices, FindTakes(c, d)
       PROVE  Told'
  BY <1>16, <1>1, <1>2, <1>3
     DEF FindTakes, CentralAt, UserAt, Told, Telling, PollLockPc, PollPc,
         Detecting, ManagerPc
<1>17. ASSUME NEW u \in Users,
              \/ OpenIgnored(u) \/ OpenLocks(u) \/ OpenIsDuplicate(u)
              \/ OpenRegisters(u) \/ StartFindsThread(u) \/ StartSetsStatus(u)
              \/ OpenReturns(u) \/ CloseIgnored(u) \/ CloseLocks(u)
              \/ CloseRemoves(u) \/ CloseTestsAttached(u) \/ CloseDetaches(u)
              \/ CloseReleases(u) \/ JoinSkips(u) \/ JoinStarts(u)
              \/ JoinEnds(u) \/ CloseUninits(u) \/ CloseReturns(u)
              \/ ManagerOpenLocks(u) \/ ManagerCloseReleases(u)
       PROVE  Told'
  BY <1>17, <1>4
     DEF OpenIgnored, UserAt, OpenLocks, OpenIsDuplicate, OpenRegisters,
         StartFindsThread, StartSetsStatus, OpenReturns, CloseIgnored,
         CloseLocks, CloseRemoves, CloseTestsAttached, CloseDetaches,
         CloseReleases, JoinSkips, JoinStarts, JoinEnds, CloseUninits,
         CloseReturns, ManagerOpenLocks, ManagerCloseReleases
<1>18. ASSUME NEW u \in Users, NEW h \in Handles, NEW r \in Requests[h], OpenCalls(u, h, r)
       PROVE  Told'
  BY <1>18, <1>4
     DEF OpenCalls, UserAt
<1>19. ASSUME NEW u \in Users, NEW h \in Handles, CloseCalls(u, h)
       PROVE  Told'
  BY <1>19, <1>4
     DEF CloseCalls, UserAt
<1>20. ASSUME NEW u \in Users, NEW m \in Managers,
              \/ ManagerOpenCalls(u, m) \/ ManagerCloseCalls(u, m)
       PROVE  Told'
  BY <1>20, <1>4
     DEF ManagerOpenCalls, UserAt, ManagerCloseCalls
<1>21. ASSUME NEW u \in Users, NEW c \in Centrals, StartCreates(u, c)
       PROVE  Told'
  BY <1>21, <1>4
     DEF StartCreates, UserAt
<1>22. ASSUME NEW c \in Centrals,
              \/ LoopTests(c) \/ LoopExits(c) \/ PollLocks(c) \/ PollStarts(c)
              \/ HandlerReturns(c) \/ TellingEnds(c) \/ PollBuildsList(c)
              \/ PollChecksError(c) \/ DetachFindsNone(c) \/ DetachCloses(c)
              \/ DetachEnds(c) \/ FindStarts(c) \/ MatchBuilds(c)
              \/ MatchNone(c) \/ MatchLocks(c) \/ AttachFails(c) \/ AttachBreaks(c)
              \/ AttachOpens(c) \/ AttachReturns(c)
       PROVE  Told'
  BY <1>22, <1>4
     DEF LoopTests, LoopExits, CentralAt, PollLocks, PollStarts,
         HandlerReturns, TellingEnds, PollBuildsList, PollChecksError,
         DetachFindsNone, DetachCloses, DetachEnds, FindStarts, MatchBuilds,
         MatchNone, Return, MatchLocks, AttachFails, AttachBreaks, AttachOpens,
         AttachReturns
<1>23. ASSUME NEW c \in Centrals, NEW m \in Managers, InitialFinds(c, m)
       PROVE  Told'
  BY <1>23, <1>4
     DEF InitialFinds, CentralAt
<1>24. ASSUME NEW c \in Centrals, NEW h \in Handles,
              \/ DetachFinds(c, h) \/ MatchTries(c, h)
       PROVE  Told'
  BY <1>24, <1>4
     DEF DetachFinds, CentralAt, MatchTries
<1>25. ASSUME NEW d \in Devices,
              \/ Unplug(d) \/ Plug(d)
       PROVE  Told'
  BY <1>25, <1>4
     DEF Unplug, Plug
<1>26. ASSUME NEW h \in Handles, TransferFails(h)
       PROVE  Told'
  BY <1>26, <1>4
     DEF TransferFails
<1>27. CASE UNCHANGED vars
  BY <1>27, <1>4
     DEF vars
<1>28. QED
  BY Zenon, <1>5, <1>6, <1>7, <1>8, <1>9, <1>10, <1>11, <1>12, <1>13, <1>14,
     <1>15, <1>16, <1>17, <1>18, <1>19, <1>20, <1>21, <1>22, <1>23, <1>24,
     <1>25, <1>26, <1>27
     DEF Next, User, UserContinues, Central, Poll, Find, Environment

LEMMA KeepsUp ==
  ASSUME SerialInv, OneThread, Looks, Telling, Told
  PROVE  ManagersKeepUp
<1>1. ManagersKnowDevices
  <2>1. managerLock = NoThread => tell = {}
    BY ThreadsAssumption DEF Telling, PollLockPc, PollPc, Detecting
  <2>2. QED
    BY <2>1 DEF ManagersKnowDevices, Told
<1>2. ChangesAreNews
  <2> SUFFICES ASSUME NEW m \in tell, mstate[m] = "active", NEW c \in Centrals
               PROVE  /\ cpc[c] = "arrival" => dev \notin told[m]
                      /\ cpc[c] = "departure" => dev \in told[m]
    BY DEF ChangesAreNews
  <2>1. cpc[c] \in {"arrival", "departure"} => m \in managers
    BY ThreadsAssumption DEF Telling, PollLockPc, PollPc, Detecting
  <2>2. QED
    BY <2>1 DEF Told, Looks
<1>3. HandlersAreOfOpen
  BY DEF HandlersAreOfOpen, Telling
<1>4. QED
  BY <1>1, <1>2, <1>3 DEF ManagersKeepUp

\* A manager on the list has heard of every device in AttachedDevices, of each
\* once, and no handler of a closed manager runs, if the program keeps a handle
\* open: CPhidgetManager_poll holds managerLock while it walks the managers,
\* with attachedDevicesLock released, and the central thread does not end.
THEOREM ManagersAreTold ==
  ASSUME OneUser, OwnSerials, Keepers \subseteq Handles, Keepers # {}
  PROVE  Spec => []ManagersKeepUp
<1>1. Init => Kept /\ NeverEnds /\ Telling /\ Told
  BY ThreadsAssumption
     DEF Init, Kept, ClosingPc, RemovedPc, ClosedPc, NeverEnds, Telling, PollLockPc,
         PollPc, Detecting, Trying, Told
<1>2. OneInv /\ Kept /\ NeverEnds /\ Telling /\ Told /\ [Next]_vars
      => Kept' /\ NeverEnds' /\ Telling' /\ Told'
  BY KeptStep, NeverEndsStep, TellingStep, ToldStep DEF OneInv, SerialInv
<1>3. OneInv /\ Kept /\ NeverEnds /\ Telling /\ Told => ManagersKeepUp
  BY KeepsUp DEF OneInv
<1>4. QED
  BY <1>1, <1>2, <1>3, OneInvHolds, PTL DEF Spec
=============================================================================
