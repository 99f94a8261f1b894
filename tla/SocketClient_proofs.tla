-------------------------- MODULE SocketClient_proofs --------------------------
(***************************************************************************)
(* Theorems about SocketClient: the types; the handles and the servers they*)
(* refer to agree, but for a handle without an error handler that failed to*)
(* listen, and what works on a server or a session finds it there; and a   *)
(* handle whose server is told of its close keeps it, alive.  Inv is the   *)
(* inductive invariant, in parts: who holds serverLock and serverLockLock  *)
(* and where the holder is (LockInv), what is left of a server (ConnInv),  *)
(* which handles a server has (HandleInv, ListenInv, ListInv,              *)
(* ListenServer), that there is one server at a time (OneInv), what the    *)
(* threads of a connection still need of it (ThreadInv, JoinInv,           *)
(* HandlersInv) and that its error thread starts once (OnceInv).           *)
(***************************************************************************)
EXTENDS SocketClient, FiniteSetTheorems, TLAPS

USE DEF handleVars, locks, threads

-----------------------------------------------------------------------------
(* Types.                                                                   *)

\* The types, one part for each group of variables.
HandleTypes ==
    /\ user \in [Handles -> UserPcs] /\ active \subseteq Handles
    /\ server \in [Handles -> Connections \cup {None}]
    /\ connected \in [Handles -> BOOLEAN] /\ inError \in [Handles -> BOOLEAN]
LockTypes == serverLock \in Owners /\ serverLockLock \in {"free", "user", "central"}
CentralTypes ==
    central \in [pc : CentralPcs, phid : Handles \cup {None},
                 conn : Connections \cup {None},
                 todo : SUBSET (Handles \cup Connections),
                 run : BOOLEAN, handle : BOOLEAN, inErrorEvent : BOOLEAN]
ReaderTypes ==
    reader \in [Connections -> {"none", "read", "authThread", "errorThread", "lock",
                                "flags", "handlers", "done"}]
AuthThread ==
    [pc : {"none", "start", "reports", "phids", "listen", "events"},
     run : BOOLEAN, todo : SUBSET Handles, failed : SUBSET Handles,
     phid : Handles \cup {None}]
AuthTypes == authT \in [Connections -> AuthThread]
ErrorThread ==
    [pc : {"none", "start", "phids", "join", "events"}, run : BOOLEAN,
     todo : SUBSET Handles, starts : Nat, by : {"none", "central", "reader", "auth"}]
ErrTypes == errT \in [Connections -> ErrorThread]
CServerInfo ==
    [life : {"none", "alive", "freed"}, listed : BOOLEAN, phids : SUBSET Handles,
     up : BOOLEAN, connecting : BOOLEAN, pdcs : BOOLEAN,
     session : {"none", "live", "freed"},
     socket : {"none", "open", "silent", "shut", "closed"},
     auth : {"none", "pending", "done"}, waiting : BOOLEAN]
ConnTypes == conn \in [Connections -> CServerInfo]

LEMMA TypeParts ==
  TypeOK <=> /\ HandleTypes /\ LockTypes /\ CentralTypes /\ ReaderTypes
             /\ AuthTypes /\ ErrTypes /\ ConnTypes
BY DEF TypeOK, HandleTypes, LockTypes, CentralTypes, ReaderTypes, AuthTypes,
       ErrTypes, ConnTypes, AuthThread, ErrorThread, CServerInfo

\* A step that changes one thread, or one connection, and leaves its type.
LEMMA AuthUpdate ==
  ASSUME AuthTypes, NEW c \in Connections, NEW r \in AuthThread, authT' = [authT EXCEPT ![c] = r]
  PROVE  AuthTypes'
BY DEF AuthTypes

LEMMA ErrUpdate ==
  ASSUME ErrTypes, NEW c \in Connections, NEW r \in ErrorThread, errT' = [errT EXCEPT ![c] = r]
  PROVE  ErrTypes'
BY DEF ErrTypes

LEMMA ConnUpdate ==
  ASSUME ConnTypes, NEW c \in Connections, NEW r \in CServerInfo, conn' = [conn EXCEPT ![c] = r]
  PROVE  ConnTypes'
BY DEF ConnTypes

\* What the start of the error thread does.
LEMMA ErrStarts ==
  ASSUME ErrTypes, NEW c \in Connections, NEW who \in {"central", "reader", "auth"},
         StartsErrorThread(c, who)
  PROVE  /\ ErrTypes'
         /\ errT'[c].pc = "start" /\ errT'[c].run /\ errT'[c].by = who
         /\ errT'[c].starts = errT[c].starts + 1
         /\ \A d \in Connections : d # c => errT'[d] = errT[d]
<1>1. errT[c] \in ErrorThread /\ errT = [d \in Connections |-> errT[d]]
  BY DEF ErrTypes
<1>2. PICK n \in Nat : n = errT[c].starts + 1
  BY <1>1 DEF ErrorThread
<1> DEFINE r == [errT[c] EXCEPT !.pc = "start", !.run = TRUE, !.by = who, !.starts = n]
<1>3. /\ r \in ErrorThread /\ r.pc = "start" /\ r.run /\ r.by = who
      /\ r.starts = errT[c].starts + 1
  BY <1>1, <1>2 DEF ErrorThread
<1>4. errT' = [errT EXCEPT ![c] = r]
  BY <1>1, <1>2 DEF StartsErrorThread
<1> HIDE DEF r
<1>5. errT'[c] = r /\ \A d \in Connections : d # c => errT'[d] = errT[d]
  BY <1>1, <1>4
<1>6. QED
  BY <1>3, <1>4, <1>5, ErrUpdate

\* What the central thread works on: in the walk and in connectToServer, handles
\* that stay active, because it holds activeRemotePhidgetsLock.
CentralInv ==
    /\ central.pc \in {"walk", "serverLockLock", "serverLock", "connect", "listen",
                      "authorize"}
           => central.todo \subseteq active
    /\ central.pc \in {"serverLockLock", "serverLock", "connect"}
           => central.phid \in active /\ server[central.phid] = None
    /\ central.pc = "listen" => central.phid \in active
    /\ central.pc = "beats" => central.todo \subseteq Connections
    /\ central.pc \in {"listen", "authorize", "beatJoin"} => central.conn \in Connections

ListensTo == \A c \in Connections : authT[c].pc = "listen" => authT[c].phid \in Handles

LEMMA HandleTypesStep ==
  ASSUME TypeOK, CentralInv, [Next]_vars
  PROVE  HandleTypes'
<1>1. HandleTypes /\ CentralTypes /\ None \in Connections \cup {None}
  BY TypeParts
<1>2. ASSUME UNCHANGED handleVars PROVE HandleTypes'
  BY <1>1, <1>2 DEF HandleTypes
<1>3. ASSUME NEW h \in Handles,
             \/ Open(h) \/ StartCentralRemoteThread(h)
      PROVE  HandleTypes'
  BY <1>3, <1>1
     DEF Open, StartCentralRemoteThread, HandleTypes, UserPcs, Servers
<1>4. ASSUME NEW h \in Handles,
             \/ Close(h) \/ TellsServer(h)
      PROVE  HandleTypes'
  BY <1>4, <1>1
     DEF Close, TellsServer, HandleTypes, UserPcs, Servers
<1>5. ASSUME NEW h \in Handles, Unregister(h)
      PROVE  HandleTypes'
  BY <1>5, <1>1
     DEF Unregister, HandleTypes, UserPcs, Servers
<1>6. ASSUME NEW h \in Handles, LocksServerLock(h)
      PROVE  HandleTypes'
  BY <1>6, <1>1
     DEF LocksServerLock, HandleTypes, UserPcs, Servers
<1>7. ASSUME NEW h \in Handles, DisconnectRemoteObject(h)
      PROVE  HandleTypes'
  BY <1>7, <1>1
     DEF DisconnectRemoteObject, HandleTypes, UserPcs, Servers
<1>8. ASSUME NEW h \in Handles, JoinsReadThread(h)
      PROVE  HandleTypes'
  BY <1>8, <1>1
     DEF JoinsReadThread, Joined, FreesSession, HandleTypes, UserPcs, Servers
<1>9. ASSUME NEW h \in Handles,
             \/ FreeNetworkInfo(h) \/ JoinCentralRemoteThread(h)
      PROVE  HandleTypes'
  BY <1>9, <1>1
     DEF FreeNetworkInfo, JoinCentralRemoteThread, HandleTypes, UserPcs,
         Servers
<1>10. CASE ConnectFound
  <2>1. PICK c \in Servers : server' = [server EXCEPT ![central.phid] = c]
    BY <1>10 DEF ConnectFound
  <2>2. c \in Connections /\ UNCHANGED <<user, active, inError>>
    BY <1>10 DEF ConnectFound, Servers
  <2>3. UNCHANGED connected \/ connected' = [connected EXCEPT ![central.phid] = TRUE]
    BY <1>10 DEF ConnectFound
  <2>4. QED
    BY <1>1, <2>1, <2>2, <2>3 DEF HandleTypes
<1>11. CASE \/ ConnectListens \/ ConnectTwice
  BY <1>11, <1>1
     DEF ConnectListens, ConnectTwice, CentralUnlocks, HandleTypes
<1>12. CASE ConnectFails
  BY <1>12, <1>1
     DEF ConnectFails, CentralUnlocks, HandleTypes, UserPcs, Servers
<1>13. CASE ConnectNew
  <2>1. PICK c \in Connections : server' = [server EXCEPT ![central.phid] = c]
    BY <1>13 DEF ConnectNew
  <2>2. QED
    BY <1>13, <1>1, <2>1 DEF ConnectNew, HandleTypes
<1>14. ASSUME NEW c \in Connections, CleanupClearsFlags(c)
       PROVE  HandleTypes'
  BY <1>14, <1>1
     DEF CleanupClearsFlags, HandleTypes, UserPcs, Servers
<1>15. ASSUME NEW c \in Connections, CleanupFreesServer(c)
       PROVE  HandleTypes'
  BY <1>15, <1>1
     DEF CleanupFreesServer, HandleTypes, UserPcs, Servers
<1>16. ASSUME NEW c \in Connections,
              \/ AuthMarksPhidget(c) \/ AuthListens(c)
       PROVE  HandleTypes'
  BY <1>16, <1>1
     DEF AuthMarksPhidget, AuthListens, HandleTypes, UserPcs, Servers
<1>17. ASSUME NEW c \in Connections,
              \/ ErrorMarksPhidget(c) \/ ErrorForgetsServer(c)
       PROVE  HandleTypes'
  BY <1>17, <1>1
     DEF ErrorMarksPhidget, ErrorForgetsServer, HandleTypes
<1>18. ASSUME NEW c \in Connections, ErrorTells(c)
       PROVE  HandleTypes'
  BY <1>18, <1>1
     DEF ErrorTells, HandleTypes, UserPcs, Servers
<1>19. CASE \/ LoopTest \/ FindActiveRemoteDevices \/ CentralLocks
            \/ ErrorEvent \/ MonitorLocks \/ MonitorHeartbeats \/ Authorize
            \/ MonitorJoins
  BY <1>19, <1>2
     DEF LoopTest, FindActiveRemoteDevices, CentralLocks, ErrorEvent,
         MonitorLocks, MonitorHeartbeats, CentralUnlocks, Authorize,
         StartsErrorThread, MonitorJoins, Joined, FreesSession
<1>20. ASSUME NEW c \in Connections,
              \/ HeartbeatTimesOut(c) \/ Heartbeat(c) \/ WaitsForThreads(c)
              \/ CleanupLocks(c) \/ AuthorizationReply(c) \/ SessionEnds(c)
              \/ AuthStarts(c) \/ AuthUnlocks(c) \/ AuthTells(c)
              \/ AuthEnablesReports(c) \/ PeerFails(c) \/ ErrorLocks(c)
              \/ ErrorClosesServer(c) \/ ErrorJoins(c)
       PROVE  HandleTypes'
  BY <1>20, <1>2
     DEF HeartbeatTimesOut, Closes, Heartbeat, WaitsForThreads, CleanupLocks,
         AuthorizationReply, StartsErrorThread, SessionEnds, AuthStarts,
         AuthUnlocks, AuthTells, AuthEnablesReports, PeerFails, ErrorLocks,
         ErrorClosesServer, ErrorJoins, Joined, FreesSession
<1>21. CASE UNCHANGED vars
  BY <1>21, <1>2
     DEF vars
<1>22. QED
  BY Zenon, <1>3, <1>4, <1>5, <1>6, <1>7, <1>8, <1>9, <1>10, <1>11, <1>12, <1>13,
     <1>14, <1>15, <1>16, <1>17, <1>18, <1>19, <1>20, <1>21
     DEF Next, UserEnds, CentralStep, ReaderEnds, AuthStep, ErrorStep

LEMMA LockTypesStep ==
  ASSUME TypeOK, [Next]_vars
  PROVE  LockTypes'
<1>1. LockTypes
  BY TypeParts
<1>2. ASSUME UNCHANGED locks PROVE LockTypes'
  BY <1>1, <1>2 DEF LockTypes
<1>3. ASSUME NEW h \in Handles, LocksServerLock(h)
      PROVE  LockTypes'
  BY <1>3, <1>1
     DEF LocksServerLock, LockTypes, Owners
<1>4. ASSUME NEW h \in Handles, DisconnectRemoteObject(h)
      PROVE  LockTypes'
  BY <1>4, <1>1
     DEF DisconnectRemoteObject, LockTypes, Owners
<1>5. ASSUME NEW h \in Handles, JoinsReadThread(h)
      PROVE  LockTypes'
  BY <1>5, <1>1
     DEF JoinsReadThread, Joined, FreesSession, LockTypes, Owners
<1>6. CASE CentralLocks
  BY <1>6, <1>1
     DEF CentralLocks, LockTypes, Owners
<1>7. CASE \/ ConnectFound \/ ConnectFails
           \/ ConnectListens \/ ConnectTwice
  BY <1>7, <1>1
     DEF ConnectFound, ConnectListens, ConnectTwice, CentralUnlocks, ConnectFails,
         LockTypes, Owners
<1>8. CASE Authorize
  BY <1>8, <1>1
     DEF Authorize, CentralUnlocks, StartsErrorThread, LockTypes, Owners
<1>9. CASE MonitorLocks
  BY <1>9, <1>1
     DEF MonitorLocks, LockTypes, Owners
<1>10. CASE MonitorHeartbeats
  BY <1>10, <1>1
     DEF MonitorHeartbeats, CentralUnlocks, LockTypes, Owners
<1>11. CASE MonitorJoins
  BY <1>11, <1>1
     DEF MonitorJoins, Joined, FreesSession, LockTypes, Owners
<1>12. ASSUME NEW c \in Connections, HeartbeatTimesOut(c)
       PROVE  LockTypes'
  BY <1>12, <1>1
     DEF HeartbeatTimesOut, Closes, LockTypes, Owners
<1>13. ASSUME NEW c \in Connections, CleanupLocks(c)
       PROVE  LockTypes'
  BY <1>13, <1>1
     DEF CleanupLocks, LockTypes, Owners
<1>14. ASSUME NEW c \in Connections, CleanupFreesServer(c)
       PROVE  LockTypes'
  BY <1>14, <1>1
     DEF CleanupFreesServer, LockTypes, Owners
<1>15. ASSUME NEW c \in Connections, AuthStarts(c)
       PROVE  LockTypes'
  BY <1>15, <1>1
     DEF AuthStarts, LockTypes, Owners
<1>16. ASSUME NEW c \in Connections, AuthEnablesReports(c)
       PROVE  LockTypes'
  BY <1>16, <1>1
     DEF AuthEnablesReports, StartsErrorThread, LockTypes, Owners
<1>17. ASSUME NEW c \in Connections, AuthUnlocks(c)
       PROVE  LockTypes'
  BY <1>17, <1>1
     DEF AuthUnlocks, LockTypes, Owners
<1>18. ASSUME NEW c \in Connections, \/ ErrorLocks(c) \/ ErrorClosesServer(c)
        PROVE  LockTypes'
  BY <1>18, <1>1
     DEF ErrorLocks, ErrorClosesServer, LockTypes, Owners
<1>19. ASSUME NEW h \in Handles,
              \/ Open(h) \/ StartCentralRemoteThread(h) \/ Close(h)
              \/ TellsServer(h) \/ Unregister(h) \/ FreeNetworkInfo(h)
              \/ JoinCentralRemoteThread(h)
       PROVE  LockTypes'
  BY <1>19, <1>2
     DEF Open, StartCentralRemoteThread, Close, TellsServer, Unregister,
         FreeNetworkInfo, JoinCentralRemoteThread
<1>20. CASE \/ LoopTest \/ FindActiveRemoteDevices \/ ErrorEvent \/ ConnectNew
  BY <1>20, <1>2
     DEF LoopTest, FindActiveRemoteDevices, ErrorEvent, ConnectNew
<1>21. ASSUME NEW c \in Connections,
              \/ Heartbeat(c) \/ WaitsForThreads(c) \/ CleanupClearsFlags(c)
              \/ AuthorizationReply(c) \/ SessionEnds(c)
              \/ AuthMarksPhidget(c) \/ AuthListens(c) \/ AuthTells(c)
              \/ ErrorTells(c) \/ PeerFails(c) \/ ErrorJoins(c)
              \/ ErrorMarksPhidget(c) \/ ErrorForgetsServer(c)
       PROVE  LockTypes'
  BY <1>21, <1>2
     DEF Heartbeat, WaitsForThreads, CleanupClearsFlags, AuthorizationReply,
         StartsErrorThread, SessionEnds, AuthMarksPhidget, AuthListens,
         AuthTells, ErrorMarksPhidget, ErrorForgetsServer, ErrorTells, PeerFails, ErrorJoins,
         Joined, FreesSession
<1>22. CASE UNCHANGED vars
  BY <1>22, <1>2
     DEF vars
<1>23. QED
  BY Zenon, <1>3, <1>4, <1>5, <1>6, <1>7, <1>8, <1>9, <1>10, <1>11, <1>12,
     <1>13, <1>14, <1>15, <1>16, <1>17, <1>18, <1>19, <1>20, <1>21, <1>22
     DEF Next, UserEnds, CentralStep, ReaderEnds, AuthStep, ErrorStep

LEMMA CentralTypesStep ==
  ASSUME TypeOK, CentralInv, [Next]_vars
  PROVE  CentralTypes'
<1>1. CentralTypes /\ active \subseteq Handles /\ Servers \subseteq Connections
  BY TypeParts DEF HandleTypes, Servers
<1>2. ASSUME UNCHANGED central PROVE CentralTypes'
  BY <1>1, <1>2 DEF CentralTypes
<1>3. ASSUME NEW h \in Handles, StartCentralRemoteThread(h)
      PROVE  CentralTypes'
  BY <1>3, <1>1
     DEF StartCentralRemoteThread, CentralTypes, CentralPcs
<1>4. ASSUME NEW h \in Handles, JoinCentralRemoteThread(h)
      PROVE  CentralTypes'
  BY <1>4, <1>1
     DEF JoinCentralRemoteThread, CentralTypes, CentralPcs
<1>5. CASE LoopTest
  BY <1>5, <1>1
     DEF LoopTest, CentralTypes, CentralPcs
<1>6. CASE FindActiveRemoteDevices
  <2>1. \/ central' = [central EXCEPT !.pc = "walk", !.todo = active]
        \/ central' = [central EXCEPT !.pc = "monitor"]
        \/ \E h \in central.todo :
              /\ central.pc = "walk"
              /\ \/ central' = [central EXCEPT !.todo = @ \ {h}]
                 \/ central' = [central EXCEPT !.todo = @ \ {h}, !.phid = h,
                                               !.pc = "serverLockLock"]
    BY <1>6 DEF FindActiveRemoteDevices
  <2>2. central.pc = "walk" => central.todo \subseteq Handles
    BY <1>1 DEF CentralInv
  <2>3. ASSUME NEW h \in central.todo, central.pc = "walk",
               \/ central' = [central EXCEPT !.todo = @ \ {h}]
               \/ central' = [central EXCEPT !.todo = @ \ {h}, !.phid = h,
                                             !.pc = "serverLockLock"]
        PROVE  CentralTypes'
    <3>1. h \in Handles
      BY <2>2, <2>3
    <3>2. central.todo \ {h} \in SUBSET (Handles \cup Connections)
      BY <1>1 DEF CentralTypes
    <3> DEFINE r == [central EXCEPT !.todo = central.todo \ {h}]
    <3>3. /\ r \in [pc : CentralPcs, phid : Handles \cup {None},
                    conn : Connections \cup {None},
                    todo : SUBSET (Handles \cup Connections),
                    run : BOOLEAN, handle : BOOLEAN, inErrorEvent : BOOLEAN]
          /\ central' = r \/ central' = [r EXCEPT !.phid = h, !.pc = "serverLockLock"]
      BY <1>1, <2>3, <3>2 DEF CentralTypes
    <3> HIDE DEF r
    <3>4. QED
      BY <3>1, <3>3 DEF CentralTypes, CentralPcs
  <2>4. QED
    BY <1>1, <2>1, <2>3 DEF CentralTypes, CentralPcs
<1>7. CASE CentralLocks
  BY <1>7, <1>1
     DEF CentralLocks, CentralTypes, CentralPcs
<1>8. CASE ConnectFound
  <2>1. PICK c \in Connections :
           \/ central' = [central EXCEPT !.pc = "listen", !.conn = c]
           \/ central' = [central EXCEPT !.pc = "walk", !.phid = None]
    BY <1>8, <1>1 DEF ConnectFound
  <2>2. QED
    BY <1>1, <2>1 DEF CentralTypes, CentralPcs
<1>9. CASE \/ ConnectListens \/ ConnectTwice
  BY <1>9, <1>1
     DEF ConnectListens, ConnectTwice, CentralUnlocks, CentralTypes, CentralPcs
<1>10. CASE ConnectFails
  BY <1>10, <1>1
     DEF ConnectFails, CentralUnlocks, CentralTypes, CentralPcs
<1>11. CASE ConnectNew
  BY <1>11, <1>1
     DEF ConnectNew, CentralTypes, CentralPcs
<1>12. CASE Authorize
  BY <1>12, <1>1
     DEF Authorize, CentralUnlocks, StartsErrorThread, CentralTypes,
         CentralPcs
<1>13. CASE ErrorEvent
  BY <1>13, <1>1
     DEF ErrorEvent, CentralTypes, CentralPcs
<1>14. CASE MonitorLocks
  BY <1>14, <1>1
     DEF MonitorLocks, CentralTypes, CentralPcs
<1>15. CASE MonitorHeartbeats
  BY <1>15, <1>1
     DEF MonitorHeartbeats, CentralUnlocks, CentralTypes, CentralPcs
<1>16. CASE MonitorJoins
  BY <1>16, <1>1
     DEF MonitorJoins, Joined, FreesSession, CentralTypes, CentralPcs
<1>17. ASSUME NEW c \in Connections, HeartbeatTimesOut(c)
       PROVE  CentralTypes'
  <2>1. \/ central' = [central EXCEPT !.pc = "beatJoin", !.conn = c, !.todo = {}]
        \/ central' = [central EXCEPT !.todo = Servers]
    BY <1>17 DEF HeartbeatTimesOut
  <2>2. QED
    BY <1>1, <2>1 DEF CentralTypes, CentralPcs
<1>18. ASSUME NEW h \in Handles,
              \/ Open(h) \/ Close(h) \/ TellsServer(h) \/ Unregister(h)
              \/ LocksServerLock(h) \/ DisconnectRemoteObject(h)
              \/ FreeNetworkInfo(h) \/ JoinsReadThread(h)
       PROVE  CentralTypes'
  BY <1>18, <1>2
     DEF Open, Close, TellsServer, Unregister, LocksServerLock,
         DisconnectRemoteObject, FreeNetworkInfo, JoinsReadThread, Joined,
         FreesSession
<1>19. ASSUME NEW c \in Connections,
              \/ Heartbeat(c) \/ WaitsForThreads(c) \/ CleanupLocks(c)
              \/ CleanupClearsFlags(c) \/ CleanupFreesServer(c)
              \/ AuthorizationReply(c) \/ SessionEnds(c) \/ AuthStarts(c)
              \/ AuthMarksPhidget(c) \/ AuthListens(c) \/ AuthUnlocks(c)
              \/ AuthTells(c) \/ AuthEnablesReports(c) \/ ErrorClosesServer(c)
              \/ ErrorTells(c) \/ PeerFails(c) \/ ErrorJoins(c)
              \/ ErrorLocks(c) \/ ErrorMarksPhidget(c) \/ ErrorForgetsServer(c)
       PROVE  CentralTypes'
  BY <1>19, <1>2
     DEF Heartbeat, WaitsForThreads, CleanupLocks, CleanupClearsFlags,
         CleanupFreesServer, AuthorizationReply, StartsErrorThread,
         SessionEnds, AuthStarts, AuthMarksPhidget, AuthListens, AuthUnlocks,
         AuthTells, AuthEnablesReports, ErrorClosesServer, ErrorLocks,
         ErrorMarksPhidget, ErrorForgetsServer, ErrorTells,
         PeerFails, ErrorJoins, Joined, FreesSession
<1>20. CASE UNCHANGED vars
  BY <1>20, <1>2
     DEF vars
<1>21. QED
  BY Zenon, <1>3, <1>4, <1>5, <1>6, <1>7, <1>8, <1>9, <1>10, <1>11, <1>12, <1>13,
     <1>14, <1>15, <1>16, <1>17, <1>18, <1>19, <1>20
     DEF Next, UserEnds, CentralStep, ReaderEnds, AuthStep, ErrorStep

LEMMA ReaderTypesStep ==
  ASSUME TypeOK, [Next]_vars
  PROVE  ReaderTypes'
<1>1. ReaderTypes
  BY TypeParts
<1>2. ASSUME UNCHANGED reader PROVE ReaderTypes'
  BY <1>1, <1>2 DEF ReaderTypes
<1>3. CASE ConnectNew
  BY <1>3, <1>1
     DEF ConnectNew, ReaderTypes
<1>4. ASSUME NEW c \in Connections, SessionEnds(c)
      PROVE  ReaderTypes'
  BY <1>4, <1>1
     DEF SessionEnds, StartsErrorThread, ReaderTypes
<1>5. ASSUME NEW c \in Connections, WaitsForThreads(c)
      PROVE  ReaderTypes'
  BY <1>5, <1>1
     DEF WaitsForThreads, ReaderTypes
<1>6. ASSUME NEW c \in Connections,
             \/ CleanupLocks(c) \/ CleanupClearsFlags(c)
             \/ CleanupFreesServer(c)
      PROVE  ReaderTypes'
  BY <1>6, <1>1
     DEF CleanupLocks, CleanupClearsFlags, CleanupFreesServer, ReaderTypes
<1>7. ASSUME NEW h \in Handles,
             \/ Open(h) \/ StartCentralRemoteThread(h) \/ Close(h)
             \/ TellsServer(h) \/ Unregister(h) \/ LocksServerLock(h)
             \/ DisconnectRemoteObject(h) \/ FreeNetworkInfo(h)
             \/ JoinCentralRemoteThread(h) \/ JoinsReadThread(h)
      PROVE  ReaderTypes'
  BY <1>7, <1>2
     DEF Open, StartCentralRemoteThread, Close, TellsServer, Unregister,
         LocksServerLock, DisconnectRemoteObject, FreeNetworkInfo,
         JoinCentralRemoteThread, JoinsReadThread, Joined, FreesSession
<1>8. CASE \/ LoopTest \/ FindActiveRemoteDevices \/ CentralLocks
           \/ ErrorEvent \/ MonitorLocks \/ ConnectFound \/ ConnectFails
           \/ MonitorHeartbeats \/ Authorize \/ MonitorJoins
           \/ ConnectListens \/ ConnectTwice
  BY <1>8, <1>2
     DEF LoopTest, FindActiveRemoteDevices, CentralLocks, ErrorEvent,
         MonitorLocks, ConnectFound, ConnectListens, ConnectTwice, CentralUnlocks, ConnectFails,
         MonitorHeartbeats, Authorize, StartsErrorThread, MonitorJoins,
         Joined, FreesSession
<1>9. ASSUME NEW c \in Connections,
             \/ HeartbeatTimesOut(c) \/ Heartbeat(c) \/ AuthorizationReply(c)
             \/ AuthStarts(c) \/ AuthMarksPhidget(c) \/ AuthListens(c)
             \/ AuthUnlocks(c) \/ AuthTells(c) \/ AuthEnablesReports(c)
             \/ ErrorClosesServer(c) \/ ErrorTells(c) \/ PeerFails(c)
             \/ ErrorJoins(c)
             \/ ErrorLocks(c) \/ ErrorMarksPhidget(c) \/ ErrorForgetsServer(c)
      PROVE  ReaderTypes'
  BY <1>9, <1>2
     DEF HeartbeatTimesOut, Closes, Heartbeat, AuthorizationReply,
         StartsErrorThread, AuthStarts, AuthMarksPhidget, AuthListens,
         AuthUnlocks, AuthTells, AuthEnablesReports, ErrorClosesServer, ErrorLocks,
         ErrorMarksPhidget, ErrorForgetsServer,
         ErrorTells, PeerFails, ErrorJoins, Joined, FreesSession
<1>10. CASE UNCHANGED vars
  BY <1>10, <1>2
     DEF vars
<1>11. QED
  BY Zenon, <1>3, <1>4, <1>5, <1>6, <1>7, <1>8, <1>9, <1>10
     DEF Next, UserEnds, CentralStep, ReaderEnds, AuthStep, ErrorStep

LEMMA AuthTypesStep ==
  ASSUME TypeOK, ListensTo, [Next]_vars
  PROVE  AuthTypes'
<1>1. AuthTypes /\ \A c \in Connections : conn[c].phids \subseteq Handles
  BY TypeParts DEF ConnTypes, CServerInfo
<1>2. ASSUME UNCHANGED authT PROVE AuthTypes'
  BY <1>1, <1>2 DEF AuthTypes
<1>3. ASSUME NEW c \in Connections
      PROVE  /\ authT[c] \in AuthThread /\ authT = [k \in Connections |-> authT[k]]
             /\ conn[c].phids \subseteq Handles /\ NoThread \in AuthThread
  BY <1>1 DEF AuthTypes, AuthThread, NoThread
<1>4. ASSUME NEW c \in Connections, AuthorizationReply(c)
      PROVE  AuthTypes'
  <2>1. authT[c] \in AuthThread /\ authT = [k \in Connections |-> authT[k]]
    BY <1>4, <1>1, <1>3
  <2>2. \/ UNCHANGED authT
        \/ authT' = [authT EXCEPT ![c] = [authT[c] EXCEPT !.pc = "start", !.run = TRUE]]
    BY <1>4, <2>1 DEF AuthorizationReply, StartsErrorThread, NoThread
  <2>3. /\ [authT[c] EXCEPT !.pc = "start", !.run = TRUE] \in AuthThread
    BY <2>1 DEF AuthThread
  <2>4. QED
    BY <1>1, <2>1, <2>2, <2>3, <1>2, AuthUpdate
<1>5. ASSUME NEW c \in Connections, AuthStarts(c)
      PROVE  AuthTypes'
  <2>1. authT[c] \in AuthThread /\ authT = [k \in Connections |-> authT[k]]
    BY <1>5, <1>1, <1>3
  <2>2. \/ authT' = [authT EXCEPT ![c] = [authT[c] EXCEPT !.pc = "reports"]]
        \/ authT' = [authT EXCEPT ![c] = NoThread]
    BY <1>5, <2>1 DEF AuthStarts, NoThread
  <2>3. /\ [authT[c] EXCEPT !.pc = "reports"] \in AuthThread
        /\ NoThread \in AuthThread
    BY <2>1 DEF AuthThread, NoThread
  <2>4. QED
    BY <1>1, <2>1, <2>2, <2>3, AuthUpdate
<1>6. ASSUME NEW c \in Connections, AuthEnablesReports(c)
      PROVE  AuthTypes'
  <2>1. authT[c] \in AuthThread /\ authT = [k \in Connections |-> authT[k]] /\ conn[c].phids \subseteq Handles
    BY <1>6, <1>1, <1>3
  <2>2. \/ authT' = [authT EXCEPT ![c] = [authT[c] EXCEPT !.pc = "phids", !.todo = conn[c].phids]]
        \/ authT' = [authT EXCEPT ![c] = NoThread]
    BY <1>6, <2>1 DEF AuthEnablesReports, StartsErrorThread, NoThread
  <2>3. /\ [authT[c] EXCEPT !.pc = "phids", !.todo = conn[c].phids] \in AuthThread
        /\ NoThread \in AuthThread
    BY <2>1 DEF AuthThread, NoThread
  <2>4. QED
    BY <1>1, <2>1, <2>2, <2>3, AuthUpdate
<1>7. ASSUME NEW c \in Connections, AuthMarksPhidget(c)
      PROVE  AuthTypes'
  <2>1. authT[c] \in AuthThread /\ authT = [k \in Connections |-> authT[k]]
    BY <1>7, <1>1, <1>3
  <2>2. PICK h \in authT[c].todo :
            authT' = [authT EXCEPT ![c] = [authT[c] EXCEPT !.pc = "listen", !.phid = h,
                                                           !.todo = @ \ {h}]]
    BY <1>7, <2>1 DEF AuthMarksPhidget
  <2>3. h \in Handles
    BY <2>1 DEF AuthThread
  <2>4. [authT[c] EXCEPT !.pc = "listen", !.phid = h, !.todo = @ \ {h}] \in AuthThread
    BY <2>1, <2>3 DEF AuthThread
  <2>5. QED
    BY <1>1, <2>2, <2>4, AuthUpdate
<1>8. ASSUME NEW c \in Connections, AuthListens(c)
      PROVE  AuthTypes'
  BY <1>8, <1>1, <1>3
     DEF AuthListens, ListensTo, AuthTypes, AuthThread, NoThread
<1>9. ASSUME NEW c \in Connections, AuthUnlocks(c)
      PROVE  AuthTypes'
  <2>1. authT[c] \in AuthThread /\ authT = [k \in Connections |-> authT[k]]
    BY <1>9, <1>1, <1>3
  <2>2. authT' = [authT EXCEPT ![c] = [authT[c] EXCEPT !.pc = "events", !.run = FALSE]]
    BY <1>9, <2>1 DEF AuthUnlocks, NoThread
  <2>3. /\ [authT[c] EXCEPT !.pc = "events", !.run = FALSE] \in AuthThread
    BY <2>1 DEF AuthThread
  <2>4. QED
    BY <1>1, <2>1, <2>2, <2>3, AuthUpdate
<1>10. ASSUME NEW c \in Connections, AuthTells(c)
       PROVE  AuthTypes'
  BY <1>10, <1>1, <1>3
     DEF AuthTells, AuthTypes, AuthThread, NoThread
<1>11. ASSUME NEW h \in Handles,
              \/ Open(h) \/ StartCentralRemoteThread(h) \/ Close(h)
              \/ TellsServer(h) \/ Unregister(h) \/ LocksServerLock(h)
              \/ DisconnectRemoteObject(h) \/ FreeNetworkInfo(h)
              \/ JoinCentralRemoteThread(h) \/ JoinsReadThread(h)
       PROVE  AuthTypes'
  BY <1>11, <1>2
     DEF Open, StartCentralRemoteThread, Close, TellsServer, Unregister,
         LocksServerLock, DisconnectRemoteObject, FreeNetworkInfo,
         JoinCentralRemoteThread, JoinsReadThread, Joined, FreesSession
<1>12. CASE \/ LoopTest \/ FindActiveRemoteDevices \/ CentralLocks
            \/ ErrorEvent \/ MonitorLocks \/ ConnectFound \/ ConnectFails
            \/ MonitorHeartbeats \/ ConnectNew \/ Authorize \/ MonitorJoins
            \/ ConnectListens \/ ConnectTwice
  BY <1>12, <1>2
     DEF LoopTest, FindActiveRemoteDevices, CentralLocks, ErrorEvent,
         MonitorLocks, ConnectFound, ConnectListens, ConnectTwice, CentralUnlocks, ConnectFails,
         MonitorHeartbeats, ConnectNew, Authorize, StartsErrorThread,
         MonitorJoins, Joined, FreesSession
<1>13. ASSUME NEW c \in Connections,
              \/ HeartbeatTimesOut(c) \/ Heartbeat(c) \/ WaitsForThreads(c)
              \/ CleanupLocks(c) \/ CleanupClearsFlags(c)
              \/ CleanupFreesServer(c) \/ SessionEnds(c)
              \/ ErrorClosesServer(c) \/ ErrorTells(c) \/ PeerFails(c)
              \/ ErrorJoins(c)
              \/ ErrorLocks(c) \/ ErrorMarksPhidget(c) \/ ErrorForgetsServer(c)
       PROVE  AuthTypes'
  BY <1>13, <1>2
     DEF HeartbeatTimesOut, Closes, Heartbeat, WaitsForThreads, CleanupLocks,
         CleanupClearsFlags, CleanupFreesServer, SessionEnds,
         StartsErrorThread, ErrorClosesServer, ErrorLocks,
         ErrorMarksPhidget, ErrorForgetsServer, ErrorTells, PeerFails,
         ErrorJoins, Joined, FreesSession
<1>14. CASE UNCHANGED vars
  BY <1>14, <1>2
     DEF vars
<1>15. QED
  BY Zenon, <1>4, <1>5, <1>6, <1>7, <1>8, <1>9, <1>10, <1>11, <1>12, <1>13,
     <1>14
     DEF Next, UserEnds, CentralStep, ReaderEnds, AuthStep, ErrorStep

LEMMA ErrTypesStep ==
  ASSUME TypeOK, CentralInv, [Next]_vars
  PROVE  ErrTypes'
<1>1. ErrTypes /\ \A c \in Connections : conn[c].phids \subseteq Handles
  BY TypeParts DEF ConnTypes, CServerInfo
<1>2. ASSUME UNCHANGED errT PROVE ErrTypes'
  BY <1>1, <1>2 DEF ErrTypes
<1>3. CASE Authorize
  <2>1. central.conn \in Connections
    BY <1>3 DEF Authorize, CentralInv
  <2>2. UNCHANGED errT \/ StartsErrorThread(central.conn, "central")
    BY <1>3 DEF Authorize
  <2>3. QED
    BY <1>1, <1>2, <2>1, <2>2, ErrStarts
<1>4. ASSUME NEW c \in Connections,
             \/ AuthorizationReply(c) \/ SessionEnds(c)
      PROVE  ErrTypes'
  <2>1. UNCHANGED errT \/ StartsErrorThread(c, "reader")
    BY <1>4 DEF AuthorizationReply, SessionEnds
  <2>2. QED
    BY <1>4, <1>1, <1>2, <2>1, ErrStarts
<1>5. ASSUME NEW c \in Connections, AuthEnablesReports(c)
      PROVE  ErrTypes'
  <2>1. UNCHANGED errT \/ StartsErrorThread(c, "auth")
    BY <1>5 DEF AuthEnablesReports
  <2>2. QED
    BY <1>5, <1>1, <1>2, <2>1, ErrStarts
<1>6. ASSUME NEW c \in Connections,
             \/ ErrorLocks(c) \/ ErrorClosesServer(c)
      PROVE  ErrTypes'
  BY <1>6, <1>1
     DEF ErrorLocks, ErrorClosesServer, ErrTypes, ErrorThread
<1>7. ASSUME NEW c \in Connections, ErrorMarksPhidget(c)
       PROVE  ErrTypes'
  <2>1. PICK h \in conn[c].phids : errT' = [errT EXCEPT ![c].todo = @ \cup {h}]
    BY <1>7 DEF ErrorMarksPhidget
  <2>2. h \in Handles
    BY <1>1
  <2>3. QED
    BY <1>1, <2>1, <2>2 DEF ErrTypes, ErrorThread
<1>8. ASSUME NEW c \in Connections, ErrorJoins(c)
      PROVE  ErrTypes'
  BY <1>8, <1>1
     DEF ErrorJoins, Joined, FreesSession, ErrTypes, ErrorThread
<1>9. ASSUME NEW c \in Connections, ErrorTells(c)
      PROVE  ErrTypes'
  BY <1>9, <1>1
     DEF ErrorTells, ErrTypes, ErrorThread
<1>10. ASSUME NEW h \in Handles,
             \/ Open(h) \/ StartCentralRemoteThread(h) \/ Close(h)
             \/ TellsServer(h) \/ Unregister(h) \/ LocksServerLock(h)
             \/ DisconnectRemoteObject(h) \/ FreeNetworkInfo(h)
             \/ JoinCentralRemoteThread(h) \/ JoinsReadThread(h)
      PROVE  ErrTypes'
  BY <1>10, <1>2
     DEF Open, StartCentralRemoteThread, Close, TellsServer, Unregister,
         LocksServerLock, DisconnectRemoteObject, FreeNetworkInfo,
         JoinCentralRemoteThread, JoinsReadThread, Joined, FreesSession
<1>11. CASE \/ LoopTest \/ FindActiveRemoteDevices \/ CentralLocks
            \/ ErrorEvent \/ MonitorLocks \/ ConnectFound \/ ConnectFails
            \/ MonitorHeartbeats \/ ConnectNew \/ MonitorJoins
            \/ ConnectListens \/ ConnectTwice
  BY <1>11, <1>2
     DEF LoopTest, FindActiveRemoteDevices, CentralLocks, ErrorEvent,
         MonitorLocks, ConnectFound, ConnectListens, ConnectTwice, CentralUnlocks, ConnectFails,
         MonitorHeartbeats, ConnectNew, MonitorJoins, Joined, FreesSession
<1>12. ASSUME NEW c \in Connections,
              \/ HeartbeatTimesOut(c) \/ Heartbeat(c) \/ WaitsForThreads(c)
              \/ CleanupLocks(c) \/ CleanupClearsFlags(c)
              \/ CleanupFreesServer(c) \/ AuthStarts(c) \/ AuthMarksPhidget(c)
              \/ AuthListens(c) \/ AuthUnlocks(c) \/ AuthTells(c)
              \/ PeerFails(c) \/ ErrorForgetsServer(c)
       PROVE  ErrTypes'
  BY <1>12, <1>2
     DEF HeartbeatTimesOut, Closes, Heartbeat, WaitsForThreads, CleanupLocks,
         CleanupClearsFlags, CleanupFreesServer, AuthStarts, AuthMarksPhidget,
         AuthListens, AuthUnlocks, AuthTells, PeerFails,
         ErrorForgetsServer
<1>13. CASE UNCHANGED vars
  BY <1>13, <1>2
     DEF vars
<1>14. QED
  BY Zenon, <1>3, <1>4, <1>5, <1>6, <1>7, <1>8, <1>9, <1>10, <1>11, <1>12, <1>13
     DEF Next, UserEnds, CentralStep, ReaderEnds, AuthStep, ErrorStep

\* A handle whose user waits for a read thread has a server.
JoinsServer == \A h \in Handles : user[h] = "join" => server[h] \in Connections

LEMMA ConnTypesStep ==
  ASSUME TypeOK, CentralInv, JoinsServer, [Next]_vars
  PROVE  ConnTypes'
<1>1. /\ ConnTypes /\ active \subseteq Handles
      /\ \A c \in Connections : authT[c].failed \subseteq Handles
  BY TypeParts DEF HandleTypes, AuthTypes, AuthThread
<1>2. ASSUME UNCHANGED conn PROVE ConnTypes'
  BY <1>1, <1>2 DEF ConnTypes
<1>3. ASSUME NEW c \in Connections
      PROVE  conn[c] \in CServerInfo /\ conn = [k \in Connections |-> conn[k]]
  BY <1>1 DEF ConnTypes
<1>4. ASSUME NEW h \in Handles, DisconnectRemoteObject(h)
      PROVE  ConnTypes'
  <2>1. CASE server[h] \in Connections
    <3> DEFINE c == server[h]
               r == [conn[c] EXCEPT !.phids = @ \ {h}]
               left == [conn EXCEPT ![c].phids = @ \ {h}]
    <3>1. conn[c] \in CServerInfo /\ conn = [k \in Connections |-> conn[k]]
      BY <1>3, <2>1
    <3>2. r \in CServerInfo /\ ClosedConn(r) \in CServerInfo
      BY <3>1 DEF CServerInfo, ClosedConn
    <3>3. left = [conn EXCEPT ![c] = r] /\ left[c] = r
      BY <2>1, <3>1
    <3>4. conn' \in {conn, left, [left EXCEPT ![c] = ClosedConn(@)]}
      BY <1>4 DEF DisconnectRemoteObject
    <3> HIDE DEF r, left
    <3>5. conn' \in {conn, [conn EXCEPT ![c] = r], [conn EXCEPT ![c] = ClosedConn(r)]}
      BY <2>1, <3>1, <3>3, <3>4
    <3>6. QED
      BY <1>1, <1>2, <2>1, <3>2, <3>5, ConnUpdate
  <2>2. CASE server[h] \notin Connections
    BY <1>4, <1>2, <2>2 DEF DisconnectRemoteObject, Servers
  <2>3. QED
    BY <2>1, <2>2
<1>5. ASSUME NEW h \in Handles, JoinsReadThread(h)
      PROVE  ConnTypes'
  <2>1. conn[server[h]] \in CServerInfo /\ conn = [k \in Connections |-> conn[k]] /\ server[h] \in Connections
    BY <1>5, <1>1, <1>3
       DEF JoinsReadThread, JoinsServer
  <2>2. conn' = [conn EXCEPT ![server[h]] = [conn[server[h]] EXCEPT !.session = "freed"]]
    BY <1>5, <2>1 DEF JoinsReadThread, Joined, FreesSession, ClosedConn, Servers
  <2>3. /\ [conn[server[h]] EXCEPT !.session = "freed"] \in CServerInfo
    BY <2>1 DEF CServerInfo
  <2>4. QED
    BY <1>1, <2>1, <2>2, <2>3, ConnUpdate
<1>6. CASE ConnectFound
  BY <1>6, <1>1, <1>3
     DEF ConnectFound, CentralUnlocks, ConnTypes, CServerInfo, CentralInv,
         ClosedConn, NewConn, NoConn, Servers
<1>7. CASE ConnectListens
  <2>1. central.conn \in Connections
    BY <1>7 DEF ConnectListens, CentralInv
  <2>2. \/ UNCHANGED conn
        \/ conn' = [conn EXCEPT ![central.conn]
                       = [conn[central.conn] EXCEPT !.phids = @ \ {central.phid}]]
    BY <1>7, <1>3, <2>1 DEF ConnectListens
  <2>3. [conn[central.conn] EXCEPT !.phids = @ \ {central.phid}] \in CServerInfo
    BY <1>3, <2>1 DEF CServerInfo
  <2>4. QED
    BY <1>1, <1>2, <2>1, <2>2, <2>3, ConnUpdate
<1>8. CASE ConnectNew
  <2>1. PICK c \in Connections : conn' = [conn EXCEPT ![c] = [NewConn EXCEPT !.phids = {central.phid}]]
    BY <1>8 DEF ConnectNew
  <2>2. central.phid \in Handles
    BY <1>8, <1>1 DEF ConnectNew, CentralInv
  <2>3. [NewConn EXCEPT !.phids = {central.phid}] \in CServerInfo
    BY <2>2 DEF NewConn, CServerInfo
  <2>4. QED
    BY <1>1, <2>1, <2>3, ConnUpdate
<1>9. CASE Authorize
  <2>1. conn[central.conn] \in CServerInfo /\ conn = [k \in Connections |-> conn[k]] /\ central.conn \in Connections
    BY <1>9, <1>1, <1>3
       DEF Authorize, CentralInv
  <2>2. \/ conn' = [conn EXCEPT ![central.conn] = [conn[central.conn] EXCEPT !.auth = "pending", !.waiting = TRUE]]
        \/ conn' = [conn EXCEPT ![central.conn] = [conn[central.conn] EXCEPT !.waiting = TRUE]]
    BY <1>9, <2>1 DEF Authorize, CentralUnlocks, StartsErrorThread, ClosedConn, Servers
  <2>3. /\ [conn[central.conn] EXCEPT !.auth = "pending", !.waiting = TRUE] \in CServerInfo
        /\ [conn[central.conn] EXCEPT !.waiting = TRUE] \in CServerInfo
    BY <2>1 DEF CServerInfo
  <2>4. QED
    BY <1>1, <2>1, <2>2, <2>3, ConnUpdate
<1>10. CASE MonitorHeartbeats
  <2>1. UNCHANGED conn \/ \E c \in central.todo : conn' = [conn EXCEPT ![c].waiting = TRUE]
    BY <1>10 DEF MonitorHeartbeats
  <2>2. ASSUME NEW c \in central.todo, conn' = [conn EXCEPT ![c].waiting = TRUE] PROVE ConnTypes'
    <3>1. c \in Connections
      BY <1>10 DEF MonitorHeartbeats, CentralInv
    <3>2. conn[c] \in CServerInfo /\ conn' = [conn EXCEPT ![c] = [conn[c] EXCEPT !.waiting = TRUE]]
      BY <1>3, <2>2, <3>1
    <3>3. [conn[c] EXCEPT !.waiting = TRUE] \in CServerInfo
      BY <3>2 DEF CServerInfo
    <3>4. QED
      BY <1>1, <3>1, <3>2, <3>3, ConnUpdate
  <2>3. QED
    BY <1>2, <2>1, <2>2
<1>11. CASE MonitorJoins
  BY <1>11, <1>1, <1>3
     DEF MonitorJoins, Joined, FreesSession, ConnTypes, CServerInfo,
         CentralInv, ClosedConn, NewConn, NoConn, Servers
<1>12. ASSUME NEW c \in Connections, HeartbeatTimesOut(c)
       PROVE  ConnTypes'
  <2>1. conn[c] \in CServerInfo /\ conn = [k \in Connections |-> conn[k]]
    BY <1>12, <1>1, <1>3
  <2>2. \/ conn' = [conn EXCEPT ![c] = [conn[c] EXCEPT !.waiting = FALSE]]
        \/ conn' = [conn EXCEPT ![c] = [conn[c] EXCEPT !.waiting = FALSE, !.socket = "closed", !.pdcs = FALSE]]
    BY <1>12, <2>1 DEF HeartbeatTimesOut, Closes, ClosedConn, Servers
  <2>3. /\ [conn[c] EXCEPT !.waiting = FALSE] \in CServerInfo
        /\ [conn[c] EXCEPT !.waiting = FALSE, !.socket = "closed", !.pdcs = FALSE] \in CServerInfo
    BY <2>1 DEF CServerInfo
  <2>4. QED
    BY <1>1, <2>1, <2>2, <2>3, ConnUpdate
<1>13. ASSUME NEW c \in Connections, Heartbeat(c)
       PROVE  ConnTypes'
  <2>1. conn[c] \in CServerInfo /\ conn = [k \in Connections |-> conn[k]]
    BY <1>13, <1>1, <1>3
  <2>2. conn' = [conn EXCEPT ![c] = [conn[c] EXCEPT !.waiting = FALSE]]
    BY <1>13, <2>1 DEF Heartbeat, ClosedConn, Servers
  <2>3. /\ [conn[c] EXCEPT !.waiting = FALSE] \in CServerInfo
    BY <2>1 DEF CServerInfo
  <2>4. QED
    BY <1>1, <2>1, <2>2, <2>3, ConnUpdate
<1>14. ASSUME NEW c \in Connections, AuthorizationReply(c)
       PROVE  ConnTypes'
  BY <1>14, <1>1, <1>3
     DEF AuthorizationReply, StartsErrorThread, ConnTypes, CServerInfo,
         CentralInv, ClosedConn, NewConn, NoConn, Servers
<1>15. ASSUME NEW c \in Connections, SessionEnds(c)
       PROVE  ConnTypes'
  BY <1>15, <1>1, <1>3
     DEF SessionEnds, StartsErrorThread, ConnTypes, CServerInfo, CentralInv,
         ClosedConn, NewConn, NoConn, Servers
<1>16. ASSUME NEW c \in Connections, CleanupClearsFlags(c)
       PROVE  ConnTypes'
  <2>1. conn[c] \in CServerInfo /\ conn = [k \in Connections |-> conn[k]]
    BY <1>16, <1>1, <1>3
  <2>2. conn' = [conn EXCEPT ![c] = [conn[c] EXCEPT !.up = FALSE]]
    BY <1>16, <2>1 DEF CleanupClearsFlags, ClosedConn, Servers
  <2>3. /\ [conn[c] EXCEPT !.up = FALSE] \in CServerInfo
    BY <2>1 DEF CServerInfo
  <2>4. QED
    BY <1>1, <2>1, <2>2, <2>3, ConnUpdate
<1>17. ASSUME NEW c \in Connections, CleanupFreesServer(c)
       PROVE  ConnTypes'
  <2> DEFINE s == IF conn[c].pdcs THEN "freed" ELSE conn[c].session
             r == [NoConn EXCEPT !.life = "freed", !.session = s]
  <2>1. s \in {"none", "live", "freed"}
    BY <1>17, <1>3 DEF CServerInfo
  <2>2. r \in CServerInfo
    BY <2>1 DEF CServerInfo, NoConn, NewConn
  <2>3. conn' = [conn EXCEPT ![c] = r]
    BY <1>17 DEF CleanupFreesServer
  <2>4. QED
    BY <1>1, <2>2, <2>3, ConnUpdate
<1>18. ASSUME NEW c \in Connections, AuthEnablesReports(c)
       PROVE  ConnTypes'
  <2>1. conn[c] \in CServerInfo /\ conn = [k \in Connections |-> conn[k]]
    BY <1>18, <1>1, <1>3
  <2>2. \/ UNCHANGED conn
        \/ conn' = [conn EXCEPT ![c] = [conn[c] EXCEPT !.up = TRUE, !.connecting = FALSE, !.waiting = TRUE]]
    BY <1>18, <2>1 DEF AuthEnablesReports, StartsErrorThread, ClosedConn, Servers
  <2>3. /\ [conn[c] EXCEPT !.up = TRUE, !.connecting = FALSE, !.waiting = TRUE] \in CServerInfo
    BY <2>1 DEF CServerInfo
  <2>4. QED
    BY <1>1, <2>1, <2>2, <2>3, <1>2, ConnUpdate
<1>19. ASSUME NEW c \in Connections, AuthUnlocks(c)
       PROVE  ConnTypes'
  BY <1>19, <1>1, <1>3
     DEF AuthUnlocks, ConnTypes, CServerInfo, CentralInv, ClosedConn, NewConn,
         NoConn, Servers
<1>20. ASSUME NEW c \in Connections, ErrorClosesServer(c)
       PROVE  ConnTypes'
  BY <1>20, <1>1, <1>3
     DEF ErrorClosesServer, ConnTypes, CServerInfo, CentralInv, ClosedConn,
         NewConn, NoConn, Servers
<1>21. ASSUME NEW c \in Connections, ErrorJoins(c)
       PROVE  ConnTypes'
  BY <1>21, <1>1, <1>3
     DEF ErrorJoins, Joined, FreesSession, ConnTypes, CServerInfo, CentralInv,
         ClosedConn, NewConn, NoConn, Servers
<1>22. ASSUME NEW c \in Connections, PeerFails(c)
       PROVE  ConnTypes'
  BY <1>22, FailuresAssumption, <1>1, <1>3
     DEF PeerFails, ConnTypes, CServerInfo, CentralInv, ClosedConn, NewConn,
         NoConn, Servers
<1>23. ASSUME NEW h \in Handles,
              \/ Open(h) \/ StartCentralRemoteThread(h) \/ Close(h)
              \/ TellsServer(h) \/ Unregister(h) \/ LocksServerLock(h)
              \/ FreeNetworkInfo(h) \/ JoinCentralRemoteThread(h)
       PROVE  ConnTypes'
  BY <1>23, <1>2
     DEF Open, StartCentralRemoteThread, Close, TellsServer, Unregister,
         LocksServerLock, FreeNetworkInfo, JoinCentralRemoteThread
<1>24. CASE \/ LoopTest \/ FindActiveRemoteDevices \/ CentralLocks
            \/ ErrorEvent \/ MonitorLocks \/ ConnectFails \/ ConnectTwice
  BY <1>24, <1>2
     DEF LoopTest, FindActiveRemoteDevices, CentralLocks, ErrorEvent,
         MonitorLocks, ConnectFails, ConnectTwice, CentralUnlocks
<1>25. ASSUME NEW c \in Connections,
              \/ WaitsForThreads(c) \/ CleanupLocks(c) \/ AuthStarts(c)
              \/ AuthMarksPhidget(c) \/ AuthListens(c) \/ AuthTells(c)
              \/ ErrorTells(c) \/ ErrorLocks(c) \/ ErrorMarksPhidget(c)
              \/ ErrorForgetsServer(c)
       PROVE  ConnTypes'
  BY <1>25, <1>2
     DEF WaitsForThreads, CleanupLocks, AuthStarts, AuthMarksPhidget,
         AuthListens, AuthTells, ErrorTells, ErrorLocks, ErrorMarksPhidget,
         ErrorForgetsServer
<1>26. CASE UNCHANGED vars
  BY <1>26, <1>2
     DEF vars
<1>27. QED
  BY Zenon, <1>4, <1>5, <1>6, <1>7, <1>8, <1>9, <1>10, <1>11, <1>12, <1>13, <1>14,
     <1>15, <1>16, <1>17, <1>18, <1>19, <1>20, <1>21, <1>22, <1>23, <1>24,
     <1>25, <1>26
     DEF Next, UserEnds, CentralStep, ReaderEnds, AuthStep, ErrorStep
-----------------------------------------------------------------------------
(* The locks, and what the threads work on under them.                      *)

\* What each thread, connection and lock is, as a function or a record.
LEMMA Functions ==
  ASSUME TypeOK
  PROVE  /\ user = [h \in Handles |-> user[h]]
         /\ server = [h \in Handles |-> server[h]]
         /\ connected = [h \in Handles |-> connected[h]]
         /\ reader = [c \in Connections |-> reader[c]]
         /\ authT = [c \in Connections |-> authT[c]]
         /\ errT = [c \in Connections |-> errT[c]]
         /\ conn = [c \in Connections |-> conn[c]]
BY DEF TypeOK

LEMMA Records ==
  ASSUME TypeOK, NEW c \in Connections
  PROVE  authT[c] \in AuthThread /\ errT[c] \in ErrorThread /\ conn[c] \in CServerInfo
BY TypeParts DEF AuthTypes, ErrTypes, ConnTypes

\* Who is where under serverLock and serverLockLock.
UserLocks == {"serverLock", "disconnect", "join"}
CentralLocking ==
    {"serverLock", "connect", "listen", "authorize", "monitorServers", "beats", "beatJoin"}
AuthLocked == {"reports", "phids", "listen"}
UserLocked ==
    /\ \A h \in Handles :
          /\ user[h] = "disconnect" => serverLock = "user"
          /\ user[h] \in UserLocks => serverLockLock = "user"
    /\ \A h, g \in Handles : user[h] \in UserLocks /\ user[g] \in UserLocks => h = g
CentralLocked ==
    /\ central.pc \in {"connect", "listen", "authorize", "beats"} => serverLock = "central"
    /\ central.pc \in CentralLocking => serverLockLock = "central"
ReaderLocked ==
    /\ \A c \in Connections : reader[c] \in {"flags", "handlers"} => serverLock = "reader"
    /\ \A c, d \in Connections :
          reader[c] \in {"flags", "handlers"} /\ reader[d] \in {"flags", "handlers"} => c = d
AuthLocks ==
    /\ \A c \in Connections : authT[c].pc \in AuthLocked => serverLock = "auth"
    /\ \A c, d \in Connections :
          authT[c].pc \in AuthLocked /\ authT[d].pc \in AuthLocked => c = d
ErrorLocked ==
    /\ \A c \in Connections : errT[c].pc = "phids" => serverLock = "error"
    /\ \A c, d \in Connections : errT[c].pc = "phids" /\ errT[d].pc = "phids" => c = d
LockInv == UserLocked /\ CentralLocked /\ ReaderLocked /\ AuthLocks /\ ErrorLocked

LEMMA CentralInvStep ==
  ASSUME TypeOK, CentralInv, [Next]_vars
  PROVE  CentralInv'
<1>1. /\ CentralInv /\ Servers \subseteq Connections
      /\ server = [h \in Handles |-> server[h]]
      /\ active \subseteq Handles
  BY Functions DEF TypeOK, Servers
<1>2. ASSUME UNCHANGED <<active, server, central>> PROVE CentralInv'
  BY <1>1, <1>2 DEF CentralInv
<1>3. central \in [pc : CentralPcs, phid : Handles \cup {None},
                    conn : Connections \cup {None},
                    todo : SUBSET (Handles \cup Connections),
                    run : BOOLEAN, handle : BOOLEAN, inErrorEvent : BOOLEAN]
  BY TypeParts DEF CentralTypes
<1>4. ASSUME NEW h \in Handles, Open(h)
      PROVE  CentralInv'
  BY <1>4, <1>1, <1>3
     DEF Open, CentralInv, ActiveLocked, CentralPcs
<1>5. ASSUME NEW h \in Handles, StartCentralRemoteThread(h)
      PROVE  CentralInv'
  BY <1>5, <1>1, <1>3
     DEF StartCentralRemoteThread, CentralInv, ActiveLocked, CentralPcs
<1>6. ASSUME NEW h \in Handles, Unregister(h)
      PROVE  CentralInv'
  BY <1>6, <1>1, <1>3
     DEF Unregister, CentralInv, ActiveLocked, CentralPcs
<1>7. ASSUME NEW h \in Handles, DisconnectRemoteObject(h)
      PROVE  CentralInv'
  BY <1>7, <1>1, <1>3
     DEF DisconnectRemoteObject, CentralInv, ActiveLocked, CentralPcs
<1>8. ASSUME NEW h \in Handles, JoinsReadThread(h)
      PROVE  CentralInv'
  BY <1>8, <1>1, <1>3
     DEF JoinsReadThread, Joined, FreesSession, CentralInv, ActiveLocked,
         CentralPcs
<1>9. ASSUME NEW h \in Handles, FreeNetworkInfo(h)
      PROVE  CentralInv'
  BY <1>9, <1>1, <1>3
     DEF FreeNetworkInfo, CentralInv, ActiveLocked, CentralPcs
<1>10. ASSUME NEW h \in Handles, JoinCentralRemoteThread(h)
       PROVE  CentralInv'
  BY <1>10, <1>1, <1>3
     DEF JoinCentralRemoteThread, CentralInv, ActiveLocked, CentralPcs
<1>11. CASE LoopTest
  BY <1>11, <1>1, <1>3
     DEF LoopTest, CentralInv, ActiveLocked, CentralPcs
<1>12. CASE FindActiveRemoteDevices
  <2>1. CASE \/ central.pc = "find" /\ central' = [central EXCEPT !.pc = "walk", !.todo = active]
             \/ central.pc = "walk" /\ central' = [central EXCEPT !.pc = "monitor"]
    BY <1>12, <1>1, <1>3, <2>1 DEF FindActiveRemoteDevices, CentralInv
  <2>2. ASSUME NEW h \in central.todo, central.pc = "walk",
               central' = IF inError[h] \/ server[h] # None
                          THEN [central EXCEPT !.todo = @ \ {h}]
                          ELSE [central EXCEPT !.todo = @ \ {h}, !.phid = h,
                                               !.pc = "serverLockLock"]
        PROVE  CentralInv'
    <3>1. h \in active /\ central.todo \ {h} \subseteq active /\ UNCHANGED <<active, server>>
      BY <1>12, <1>1, <2>2 DEF FindActiveRemoteDevices, CentralInv
    <3>2. CASE central' = [central EXCEPT !.todo = @ \ {h}]
      BY <1>1, <1>3, <2>2, <3>1, <3>2 DEF CentralInv
    <3>3. CASE /\ central' = [central EXCEPT !.todo = @ \ {h}, !.phid = h,
                                             !.pc = "serverLockLock"]
               /\ server[h] = None
      BY <1>1, <1>3, <3>1, <3>3 DEF CentralInv
    <3>4. QED
      BY <2>2, <3>2, <3>3
  <2>3. QED
    BY <1>12, <2>1, <2>2 DEF FindActiveRemoteDevices
<1>13. CASE CentralLocks
  BY <1>13, <1>1, <1>3
     DEF CentralLocks, CentralInv, ActiveLocked, CentralPcs
<1>14. CASE ConnectFound
  <2>1. PICK c \in Connections :
           /\ server' = [server EXCEPT ![central.phid] = c]
           /\ \/ central' = [central EXCEPT !.pc = "listen", !.conn = c]
              \/ central' = [central EXCEPT !.pc = "walk", !.phid = None]
    BY <1>14, <1>1 DEF ConnectFound
  <2>2. central.pc = "connect" /\ UNCHANGED active
    BY <1>14 DEF ConnectFound
  <2>3. QED
    BY <1>1, <1>3, <2>1, <2>2 DEF CentralInv
<1>15. CASE \/ ConnectListens \/ ConnectTwice
  BY <1>15, <1>1, <1>3
     DEF ConnectListens, ConnectTwice, CentralUnlocks, CentralInv, CentralPcs
<1>16. CASE ConnectFails
  BY <1>16, <1>1, <1>3
     DEF ConnectFails, CentralUnlocks, CentralInv, ActiveLocked, CentralPcs
<1>17. CASE ConnectNew
  BY <1>17, <1>1, <1>3
     DEF ConnectNew, CentralInv, ActiveLocked, CentralPcs
<1>18. CASE Authorize
  BY <1>18, <1>1, <1>3
     DEF Authorize, CentralUnlocks, StartsErrorThread, CentralInv,
         ActiveLocked, CentralPcs
<1>19. CASE ErrorEvent
  BY <1>19, <1>1, <1>3
     DEF ErrorEvent, CentralInv, ActiveLocked, CentralPcs
<1>20. CASE MonitorLocks
  BY <1>20, <1>1, <1>3
     DEF MonitorLocks, CentralInv, ActiveLocked, CentralPcs
<1>21. CASE MonitorHeartbeats
  <2>1. /\ UNCHANGED <<active, server>> /\ central.pc = "beats"
        /\ \/ central' = [central EXCEPT !.pc = "test", !.todo = {}]
           \/ central' = [central EXCEPT !.pc = "test"]
           \/ \E c \in central.todo : central' = [central EXCEPT !.todo = @ \ {c}]
    BY <1>21 DEF MonitorHeartbeats
  <2>2. ASSUME NEW c \in central.todo, central' = [central EXCEPT !.todo = @ \ {c}]
        PROVE  CentralInv'
    BY <1>1, <1>3, <2>1, <2>2 DEF CentralInv
  <2>3. QED
    BY <1>1, <1>3, <2>1, <2>2 DEF CentralInv
<1>22. CASE MonitorJoins
  BY <1>22, <1>1, <1>3
     DEF MonitorJoins, Joined, FreesSession, CentralInv, ActiveLocked,
         CentralPcs
<1>23. ASSUME NEW c \in Connections, HeartbeatTimesOut(c)
       PROVE  CentralInv'
  BY <1>23, <1>1, <1>3
     DEF HeartbeatTimesOut, Closes, CentralInv, ActiveLocked, CentralPcs
<1>24. ASSUME NEW c \in Connections, CleanupFreesServer(c)
       PROVE  CentralInv'
  BY <1>24, <1>1, <1>3
     DEF CleanupFreesServer, CentralInv, ActiveLocked, CentralPcs
<1>25. ASSUME NEW c \in Connections, AuthListens(c)
       PROVE  CentralInv'
  BY <1>25, <1>1, <1>3
     DEF AuthListens, CentralInv, ActiveLocked, CentralPcs
<1>26. ASSUME NEW c \in Connections, ErrorForgetsServer(c)
       PROVE  CentralInv'
  <2>1. PICK h \in conn[c].phids : server' = [server EXCEPT ![h] = None]
    BY <1>26 DEF ErrorForgetsServer
  <2>2. \A g \in Handles : server[g] = None => server'[g] = None
    BY <1>1, <2>1
  <2>3. QED
    BY <1>26, <1>1, <2>2 DEF ErrorForgetsServer, CentralInv
<1>27. ASSUME NEW h \in Handles,
              \/ Close(h) \/ TellsServer(h) \/ LocksServerLock(h)
       PROVE  CentralInv'
  BY <1>27, <1>2
     DEF Close, TellsServer, LocksServerLock
<1>28. ASSUME NEW c \in Connections,
              \/ Heartbeat(c) \/ WaitsForThreads(c) \/ CleanupLocks(c)
              \/ CleanupClearsFlags(c) \/ AuthorizationReply(c)
              \/ SessionEnds(c) \/ AuthStarts(c) \/ AuthMarksPhidget(c)
              \/ AuthUnlocks(c) \/ AuthTells(c) \/ AuthEnablesReports(c)
              \/ ErrorTells(c) \/ PeerFails(c) \/ ErrorJoins(c)
              \/ ErrorLocks(c) \/ ErrorMarksPhidget(c) \/ ErrorClosesServer(c)
       PROVE  CentralInv'
  BY <1>28, <1>2
     DEF Heartbeat, WaitsForThreads, CleanupLocks, CleanupClearsFlags,
         AuthorizationReply, StartsErrorThread, SessionEnds, AuthStarts,
         AuthMarksPhidget, AuthUnlocks, AuthTells, AuthEnablesReports,
         ErrorTells, PeerFails, ErrorLocks, ErrorMarksPhidget,
         ErrorClosesServer, ErrorJoins, Joined, FreesSession
<1>29. CASE UNCHANGED vars
  BY <1>29, <1>2
     DEF vars
<1>30. QED
  BY Zenon, <1>4, <1>5, <1>6, <1>7, <1>8, <1>9, <1>10, <1>11, <1>12, <1>13,
     <1>14, <1>15, <1>16, <1>17, <1>18, <1>19, <1>20, <1>21, <1>22, <1>23, <1>24,
     <1>25, <1>26, <1>27, <1>28, <1>29
     DEF Next, UserEnds, CentralStep, ReaderEnds, AuthStep, ErrorStep

LEMMA UserLockedStep ==
  ASSUME TypeOK, LockInv, [Next]_vars
  PROVE  UserLocked'
<1>1. /\ UserLocked /\ CentralLocked /\ ReaderLocked /\ AuthLocks /\ ErrorLocked
      /\ user = [h \in Handles |-> user[h]]
  BY Functions DEF LockInv
<1>2. ASSUME UNCHANGED <<user, locks>> PROVE UserLocked'
  BY <1>1, <1>2 DEF UserLocked
<1>3. ASSUME NEW h \in Handles,
             \/ Open(h) \/ StartCentralRemoteThread(h)
      PROVE  UserLocked'
  BY <1>3, <1>1
     DEF Open, StartCentralRemoteThread, UserLocked, CentralLocked,
         ReaderLocked, AuthLocks, UserLocks, CentralLocking, AuthLocked
<1>4. ASSUME NEW h \in Handles,
             \/ Close(h) \/ TellsServer(h)
      PROVE  UserLocked'
  BY <1>4, <1>1
     DEF Close, TellsServer, UserLocked, CentralLocked, ReaderLocked,
         AuthLocks, UserLocks, CentralLocking, AuthLocked
<1>5. ASSUME NEW h \in Handles, Unregister(h)
      PROVE  UserLocked'
  BY <1>5, <1>1
     DEF Unregister, UserLocked, CentralLocked, ReaderLocked, AuthLocks,
         UserLocks, CentralLocking, AuthLocked
<1>6. ASSUME NEW h \in Handles, LocksServerLock(h)
      PROVE  UserLocked'
  BY <1>6, <1>1
     DEF LocksServerLock, UserLocked, CentralLocked, ReaderLocked, AuthLocks,
         UserLocks, CentralLocking, AuthLocked
<1>7. ASSUME NEW h \in Handles, DisconnectRemoteObject(h)
      PROVE  UserLocked'
  BY <1>7, <1>1
     DEF DisconnectRemoteObject, UserLocked, CentralLocked, ReaderLocked,
         AuthLocks, UserLocks, CentralLocking, AuthLocked
<1>8. ASSUME NEW h \in Handles, JoinsReadThread(h)
      PROVE  UserLocked'
  BY <1>8, <1>1
     DEF JoinsReadThread, Joined, FreesSession, UserLocked, CentralLocked,
         ReaderLocked, AuthLocks, UserLocks, CentralLocking, AuthLocked
<1>9. ASSUME NEW h \in Handles,
             \/ FreeNetworkInfo(h) \/ JoinCentralRemoteThread(h)
      PROVE  UserLocked'
  BY <1>9, <1>1
     DEF FreeNetworkInfo, JoinCentralRemoteThread, UserLocked, CentralLocked,
         ReaderLocked, AuthLocks, UserLocks, CentralLocking, AuthLocked
<1>10. CASE CentralLocks
  BY <1>10, <1>1
     DEF CentralLocks, UserLocked, CentralLocked, ReaderLocked, AuthLocks,
         UserLocks, CentralLocking, AuthLocked
<1>11. CASE \/ ConnectFound \/ ConnectFails
            \/ ConnectListens \/ ConnectTwice
  BY <1>11, <1>1
     DEF ConnectFound, ConnectListens, ConnectTwice, CentralUnlocks, ConnectFails, UserLocked,
         CentralLocked, ReaderLocked, AuthLocks, UserLocks, CentralLocking,
         AuthLocked
<1>12. CASE Authorize
  BY <1>12, <1>1
     DEF Authorize, CentralUnlocks, StartsErrorThread, UserLocked,
         CentralLocked, ReaderLocked, AuthLocks, UserLocks, CentralLocking,
         AuthLocked
<1>13. CASE MonitorLocks
  BY <1>13, <1>1
     DEF MonitorLocks, UserLocked, CentralLocked, ReaderLocked, AuthLocks,
         UserLocks, CentralLocking, AuthLocked
<1>14. CASE MonitorHeartbeats
  BY <1>14, <1>1
     DEF MonitorHeartbeats, CentralUnlocks, UserLocked, CentralLocked,
         ReaderLocked, AuthLocks, UserLocks, CentralLocking, AuthLocked
<1>15. CASE MonitorJoins
  BY <1>15, <1>1
     DEF MonitorJoins, Joined, FreesSession, UserLocked, CentralLocked,
         ReaderLocked, AuthLocks, UserLocks, CentralLocking, AuthLocked
<1>16. ASSUME NEW c \in Connections, HeartbeatTimesOut(c)
       PROVE  UserLocked'
  BY <1>16, <1>1
     DEF HeartbeatTimesOut, Closes, UserLocked, CentralLocked, ReaderLocked,
         AuthLocks, UserLocks, CentralLocking, AuthLocked
<1>17. ASSUME NEW c \in Connections, CleanupLocks(c)
       PROVE  UserLocked'
  BY <1>17, <1>1
     DEF CleanupLocks, UserLocked, CentralLocked, ReaderLocked, AuthLocks,
         UserLocks, CentralLocking, AuthLocked
<1>18. ASSUME NEW c \in Connections, CleanupFreesServer(c)
       PROVE  UserLocked'
  BY <1>18, <1>1
     DEF CleanupFreesServer, UserLocked, CentralLocked, ReaderLocked,
         AuthLocks, UserLocks, CentralLocking, AuthLocked
<1>19. ASSUME NEW c \in Connections, AuthStarts(c)
       PROVE  UserLocked'
  BY <1>19, <1>1
     DEF AuthStarts, UserLocked, CentralLocked, ReaderLocked, AuthLocks,
         UserLocks, CentralLocking, AuthLocked
<1>20. ASSUME NEW c \in Connections, AuthEnablesReports(c)
       PROVE  UserLocked'
  BY <1>20, <1>1
     DEF AuthEnablesReports, StartsErrorThread, UserLocked, CentralLocked,
         ReaderLocked, AuthLocks, UserLocks, CentralLocking, AuthLocked
<1>21. ASSUME NEW c \in Connections, AuthUnlocks(c)
       PROVE  UserLocked'
  BY <1>21, <1>1
     DEF AuthUnlocks, UserLocked, CentralLocked, ReaderLocked, AuthLocks,
         UserLocks, CentralLocking, AuthLocked
<1>22. ASSUME NEW c \in Connections, \/ ErrorLocks(c) \/ ErrorClosesServer(c)
        PROVE  UserLocked'
  BY <1>22, <1>1
     DEF ErrorLocks, ErrorClosesServer, UserLocked, ErrorLocked
<1>23. CASE \/ LoopTest \/ FindActiveRemoteDevices \/ ErrorEvent \/ ConnectNew
  BY <1>23, <1>2
     DEF LoopTest, FindActiveRemoteDevices, ErrorEvent, ConnectNew
<1>24. ASSUME NEW c \in Connections,
              \/ Heartbeat(c) \/ WaitsForThreads(c) \/ CleanupClearsFlags(c)
              \/ AuthorizationReply(c) \/ SessionEnds(c)
              \/ AuthMarksPhidget(c) \/ AuthListens(c) \/ AuthTells(c)
              \/ ErrorTells(c) \/ PeerFails(c) \/ ErrorJoins(c)
              \/ ErrorMarksPhidget(c) \/ ErrorForgetsServer(c)
       PROVE  UserLocked'
  BY <1>24, <1>2
     DEF Heartbeat, WaitsForThreads, CleanupClearsFlags, AuthorizationReply,
         StartsErrorThread, SessionEnds, AuthMarksPhidget, AuthListens,
         AuthTells, ErrorMarksPhidget, ErrorForgetsServer, ErrorTells, PeerFails, ErrorJoins,
         Joined, FreesSession
<1>25. CASE UNCHANGED vars
  BY <1>25, <1>2
     DEF vars
<1>26. QED
  BY Zenon, <1>3, <1>4, <1>5, <1>6, <1>7, <1>8, <1>9, <1>10, <1>11, <1>12,
     <1>13, <1>14, <1>15, <1>16, <1>17, <1>18, <1>19, <1>20, <1>21, <1>22, <1>23,
     <1>24, <1>25
     DEF Next, UserEnds, CentralStep, ReaderEnds, AuthStep, ErrorStep

LEMMA CentralLockedStep ==
  ASSUME TypeOK, LockInv, [Next]_vars
  PROVE  CentralLocked'
<1>1. UserLocked /\ CentralLocked /\ ReaderLocked /\ AuthLocks /\ ErrorLocked
  BY DEF LockInv
<1>2. ASSUME UNCHANGED <<central, locks>> PROVE CentralLocked'
  BY <1>1, <1>2 DEF CentralLocked
<1>3. central \in [pc : CentralPcs, phid : Handles \cup {None},
                    conn : Connections \cup {None},
                    todo : SUBSET (Handles \cup Connections),
                    run : BOOLEAN, handle : BOOLEAN, inErrorEvent : BOOLEAN]
  BY TypeParts DEF CentralTypes
<1>4. ASSUME NEW h \in Handles, StartCentralRemoteThread(h)
      PROVE  CentralLocked'
  BY <1>4, <1>1, <1>3
     DEF StartCentralRemoteThread, UserLocked, CentralLocked, ReaderLocked,
         AuthLocks, UserLocks, CentralLocking, AuthLocked
<1>5. ASSUME NEW h \in Handles, JoinCentralRemoteThread(h)
      PROVE  CentralLocked'
  BY <1>5, <1>1, <1>3
     DEF JoinCentralRemoteThread, UserLocked, CentralLocked, ReaderLocked,
         AuthLocks, UserLocks, CentralLocking, AuthLocked
<1>6. ASSUME NEW h \in Handles, LocksServerLock(h)
      PROVE  CentralLocked'
  BY <1>6, <1>1, <1>3
     DEF LocksServerLock, UserLocked, CentralLocked, ReaderLocked, AuthLocks,
         UserLocks, CentralLocking, AuthLocked
<1>7. ASSUME NEW h \in Handles, DisconnectRemoteObject(h)
      PROVE  CentralLocked'
  BY <1>7, <1>1, <1>3
     DEF DisconnectRemoteObject, UserLocked, CentralLocked, ReaderLocked,
         AuthLocks, UserLocks, CentralLocking, AuthLocked
<1>8. ASSUME NEW h \in Handles, JoinsReadThread(h)
      PROVE  CentralLocked'
  BY <1>8, <1>1, <1>3
     DEF JoinsReadThread, Joined, FreesSession, UserLocked, CentralLocked,
         ReaderLocked, AuthLocks, UserLocks, CentralLocking, AuthLocked
<1>9. CASE LoopTest
  BY <1>9, <1>1, <1>3
     DEF LoopTest, UserLocked, CentralLocked, ReaderLocked, AuthLocks,
         UserLocks, CentralLocking, AuthLocked
<1>10. CASE FindActiveRemoteDevices
  BY <1>10, <1>1, <1>3
     DEF FindActiveRemoteDevices, UserLocked, CentralLocked, ReaderLocked,
         AuthLocks, UserLocks, CentralLocking, AuthLocked
<1>11. CASE ErrorEvent
  BY <1>11, <1>1, <1>3
     DEF ErrorEvent, UserLocked, CentralLocked, ReaderLocked, AuthLocks,
         UserLocks, CentralLocking, AuthLocked
<1>12. CASE ConnectNew
  BY <1>12, <1>1, <1>3
     DEF ConnectNew, UserLocked, CentralLocked, ReaderLocked, AuthLocks,
         UserLocks, CentralLocking, AuthLocked
<1>13. CASE CentralLocks
  BY <1>13, <1>1, <1>3
     DEF CentralLocks, UserLocked, CentralLocked, ReaderLocked, AuthLocks,
         UserLocks, CentralLocking, AuthLocked
<1>14. CASE \/ ConnectFound \/ ConnectFails
            \/ ConnectListens \/ ConnectTwice
  BY <1>14, <1>1, <1>3
     DEF ConnectFound, ConnectListens, ConnectTwice, CentralUnlocks, ConnectFails, UserLocked,
         CentralLocked, ReaderLocked, AuthLocks, UserLocks, CentralLocking,
         AuthLocked
<1>15. CASE Authorize
  BY <1>15, <1>1, <1>3
     DEF Authorize, CentralUnlocks, StartsErrorThread, UserLocked,
         CentralLocked, ReaderLocked, AuthLocks, UserLocks, CentralLocking,
         AuthLocked
<1>16. CASE MonitorLocks
  BY <1>16, <1>1, <1>3
     DEF MonitorLocks, UserLocked, CentralLocked, ReaderLocked, AuthLocks,
         UserLocks, CentralLocking, AuthLocked
<1>17. CASE MonitorHeartbeats
  BY <1>17, <1>1, <1>3
     DEF MonitorHeartbeats, CentralUnlocks, UserLocked, CentralLocked,
         ReaderLocked, AuthLocks, UserLocks, CentralLocking, AuthLocked
<1>18. CASE MonitorJoins
  BY <1>18, <1>1, <1>3
     DEF MonitorJoins, Joined, FreesSession, UserLocked, CentralLocked,
         ReaderLocked, AuthLocks, UserLocks, CentralLocking, AuthLocked
<1>19. ASSUME NEW c \in Connections, HeartbeatTimesOut(c)
       PROVE  CentralLocked'
  <2>1. /\ central.pc = "beats" /\ UNCHANGED serverLockLock
        /\ \/ central' = [central EXCEPT !.pc = "beatJoin", !.conn = c, !.todo = {}]
           \/ central' = [central EXCEPT !.todo = Servers] /\ UNCHANGED serverLock
    BY <1>19 DEF HeartbeatTimesOut
  <2>2. CASE central' = [central EXCEPT !.pc = "beatJoin", !.conn = c, !.todo = {}]
    BY <1>1, <1>3, <2>1, <2>2 DEF CentralLocked, CentralLocking
  <2>3. CASE central' = [central EXCEPT !.todo = Servers] /\ UNCHANGED serverLock
    BY <1>1, <1>3, <2>1, <2>3 DEF CentralLocked, CentralLocking
  <2>4. QED
    BY <2>1, <2>2, <2>3
<1>20. ASSUME NEW c \in Connections, CleanupLocks(c)
       PROVE  CentralLocked'
  BY <1>20, <1>1, <1>3
     DEF CleanupLocks, UserLocked, CentralLocked, ReaderLocked, AuthLocks,
         UserLocks, CentralLocking, AuthLocked
<1>21. ASSUME NEW c \in Connections, CleanupFreesServer(c)
       PROVE  CentralLocked'
  BY <1>21, <1>1, <1>3
     DEF CleanupFreesServer, UserLocked, CentralLocked, ReaderLocked,
         AuthLocks, UserLocks, CentralLocking, AuthLocked
<1>22. ASSUME NEW c \in Connections, AuthStarts(c)
       PROVE  CentralLocked'
  BY <1>22, <1>1, <1>3
     DEF AuthStarts, UserLocked, CentralLocked, ReaderLocked, AuthLocks,
         UserLocks, CentralLocking, AuthLocked
<1>23. ASSUME NEW c \in Connections, AuthEnablesReports(c)
       PROVE  CentralLocked'
  BY <1>23, <1>1, <1>3
     DEF AuthEnablesReports, StartsErrorThread, UserLocked, CentralLocked,
         ReaderLocked, AuthLocks, UserLocks, CentralLocking, AuthLocked
<1>24. ASSUME NEW c \in Connections, AuthUnlocks(c)
       PROVE  CentralLocked'
  BY <1>24, <1>1, <1>3
     DEF AuthUnlocks, UserLocked, CentralLocked, ReaderLocked, AuthLocks,
         UserLocks, CentralLocking, AuthLocked
<1>25. ASSUME NEW c \in Connections, \/ ErrorLocks(c) \/ ErrorClosesServer(c)
        PROVE  CentralLocked'
  BY <1>25, <1>1
     DEF ErrorLocks, ErrorClosesServer, CentralLocked, ErrorLocked
<1>26. ASSUME NEW h \in Handles,
              \/ Open(h) \/ Close(h) \/ TellsServer(h) \/ Unregister(h)
              \/ FreeNetworkInfo(h)
       PROVE  CentralLocked'
  BY <1>26, <1>2
     DEF Open, Close, TellsServer, Unregister, FreeNetworkInfo
<1>27. ASSUME NEW c \in Connections,
              \/ Heartbeat(c) \/ WaitsForThreads(c) \/ CleanupClearsFlags(c)
              \/ AuthorizationReply(c) \/ SessionEnds(c)
              \/ AuthMarksPhidget(c) \/ AuthListens(c) \/ AuthTells(c)
              \/ ErrorTells(c) \/ PeerFails(c) \/ ErrorJoins(c)
              \/ ErrorMarksPhidget(c) \/ ErrorForgetsServer(c)
       PROVE  CentralLocked'
  BY <1>27, <1>2
     DEF Heartbeat, WaitsForThreads, CleanupClearsFlags, AuthorizationReply,
         StartsErrorThread, SessionEnds, AuthMarksPhidget, AuthListens,
         AuthTells, ErrorMarksPhidget, ErrorForgetsServer, ErrorTells, PeerFails, ErrorJoins,
         Joined, FreesSession
<1>28. CASE UNCHANGED vars
  BY <1>28, <1>2
     DEF vars
<1>29. QED
  BY Zenon, <1>4, <1>5, <1>6, <1>7, <1>8, <1>9, <1>10, <1>11, <1>12, <1>13,
     <1>14, <1>15, <1>16, <1>17, <1>18, <1>19, <1>20, <1>21, <1>22, <1>23,
     <1>24, <1>25, <1>26, <1>27, <1>28
     DEF Next, UserEnds, CentralStep, ReaderEnds, AuthStep, ErrorStep

LEMMA ReaderLockedStep ==
  ASSUME TypeOK, LockInv, [Next]_vars
  PROVE  ReaderLocked'
<1>1. /\ UserLocked /\ CentralLocked /\ ReaderLocked /\ AuthLocks /\ ErrorLocked
      /\ reader = [c \in Connections |-> reader[c]]
  BY Functions DEF LockInv
<1>2. ASSUME UNCHANGED <<reader, serverLock>> PROVE ReaderLocked'
  BY <1>1, <1>2 DEF ReaderLocked
<1>3. ASSUME NEW h \in Handles, LocksServerLock(h)
      PROVE  ReaderLocked'
  BY <1>3, <1>1
     DEF LocksServerLock, UserLocked, CentralLocked, ReaderLocked, AuthLocks,
         UserLocks, CentralLocking, AuthLocked
<1>4. ASSUME NEW h \in Handles, DisconnectRemoteObject(h)
      PROVE  ReaderLocked'
  BY <1>4, <1>1
     DEF DisconnectRemoteObject, UserLocked, CentralLocked, ReaderLocked,
         AuthLocks, UserLocks, CentralLocking, AuthLocked
<1>5. ASSUME NEW h \in Handles, JoinsReadThread(h)
      PROVE  ReaderLocked'
  BY <1>5, <1>1
     DEF JoinsReadThread, Joined, FreesSession, UserLocked, CentralLocked,
         ReaderLocked, AuthLocks, UserLocks, CentralLocking, AuthLocked
<1>6. CASE ConnectNew
  BY <1>6, <1>1
     DEF ConnectNew, UserLocked, CentralLocked, ReaderLocked, AuthLocks,
         UserLocks, CentralLocking, AuthLocked
<1>7. CASE CentralLocks
  BY <1>7, <1>1
     DEF CentralLocks, UserLocked, CentralLocked, ReaderLocked, AuthLocks,
         UserLocks, CentralLocking, AuthLocked
<1>8. CASE \/ ConnectFound \/ ConnectFails
           \/ ConnectListens \/ ConnectTwice
  BY <1>8, <1>1
     DEF ConnectFound, ConnectListens, ConnectTwice, CentralUnlocks, ConnectFails, UserLocked,
         CentralLocked, ReaderLocked, AuthLocks, UserLocks, CentralLocking,
         AuthLocked
<1>9. CASE Authorize
  BY <1>9, <1>1
     DEF Authorize, CentralUnlocks, StartsErrorThread, UserLocked,
         CentralLocked, ReaderLocked, AuthLocks, UserLocks, CentralLocking,
         AuthLocked
<1>10. CASE MonitorLocks
  BY <1>10, <1>1
     DEF MonitorLocks, UserLocked, CentralLocked, ReaderLocked, AuthLocks,
         UserLocks, CentralLocking, AuthLocked
<1>11. CASE MonitorHeartbeats
  BY <1>11, <1>1
     DEF MonitorHeartbeats, CentralUnlocks, UserLocked, CentralLocked,
         ReaderLocked, AuthLocks, UserLocks, CentralLocking, AuthLocked
<1>12. CASE MonitorJoins
  BY <1>12, <1>1
     DEF MonitorJoins, Joined, FreesSession, UserLocked, CentralLocked,
         ReaderLocked, AuthLocks, UserLocks, CentralLocking, AuthLocked
<1>13. ASSUME NEW c \in Connections, HeartbeatTimesOut(c)
       PROVE  ReaderLocked'
  BY <1>13, <1>1
     DEF HeartbeatTimesOut, Closes, UserLocked, CentralLocked, ReaderLocked,
         AuthLocks, UserLocks, CentralLocking, AuthLocked
<1>14. ASSUME NEW c \in Connections, WaitsForThreads(c)
       PROVE  ReaderLocked'
  BY <1>14, <1>1
     DEF WaitsForThreads, UserLocked, CentralLocked, ReaderLocked, AuthLocks,
         UserLocks, CentralLocking, AuthLocked
<1>15. ASSUME NEW c \in Connections, SessionEnds(c)
       PROVE  ReaderLocked'
  BY <1>15, <1>1
     DEF SessionEnds, StartsErrorThread, UserLocked, CentralLocked,
         ReaderLocked, AuthLocks, UserLocks, CentralLocking, AuthLocked
<1>16. ASSUME NEW c \in Connections, CleanupLocks(c)
       PROVE  ReaderLocked'
  BY <1>16, <1>1
     DEF CleanupLocks, UserLocked, CentralLocked, ReaderLocked, AuthLocks,
         UserLocks, CentralLocking, AuthLocked
<1>17. ASSUME NEW c \in Connections, CleanupClearsFlags(c)
       PROVE  ReaderLocked'
  BY <1>17, <1>1
     DEF CleanupClearsFlags, UserLocked, CentralLocked, ReaderLocked,
         AuthLocks, UserLocks, CentralLocking, AuthLocked
<1>18. ASSUME NEW c \in Connections, CleanupFreesServer(c)
       PROVE  ReaderLocked'
  BY <1>18, <1>1
     DEF CleanupFreesServer, UserLocked, CentralLocked, ReaderLocked,
         AuthLocks, UserLocks, CentralLocking, AuthLocked
<1>19. ASSUME NEW c \in Connections, AuthStarts(c)
       PROVE  ReaderLocked'
  BY <1>19, <1>1
     DEF AuthStarts, UserLocked, CentralLocked, ReaderLocked, AuthLocks,
         UserLocks, CentralLocking, AuthLocked
<1>20. ASSUME NEW c \in Connections, AuthEnablesReports(c)
       PROVE  ReaderLocked'
  BY <1>20, <1>1
     DEF AuthEnablesReports, StartsErrorThread, UserLocked, CentralLocked,
         ReaderLocked, AuthLocks, UserLocks, CentralLocking, AuthLocked
<1>21. ASSUME NEW c \in Connections, AuthUnlocks(c)
       PROVE  ReaderLocked'
  BY <1>21, <1>1
     DEF AuthUnlocks, UserLocked, CentralLocked, ReaderLocked, AuthLocks,
         UserLocks, CentralLocking, AuthLocked
<1>22. ASSUME NEW c \in Connections, \/ ErrorLocks(c) \/ ErrorClosesServer(c)
        PROVE  ReaderLocked'
  BY <1>22, <1>1
     DEF ErrorLocks, ErrorClosesServer, ReaderLocked, ErrorLocked
<1>23. ASSUME NEW h \in Handles,
              \/ Open(h) \/ StartCentralRemoteThread(h) \/ Close(h)
              \/ TellsServer(h) \/ Unregister(h) \/ FreeNetworkInfo(h)
              \/ JoinCentralRemoteThread(h)
       PROVE  ReaderLocked'
  BY <1>23, <1>2
     DEF Open, StartCentralRemoteThread, Close, TellsServer, Unregister,
         FreeNetworkInfo, JoinCentralRemoteThread
<1>24. CASE \/ LoopTest \/ FindActiveRemoteDevices \/ ErrorEvent
  BY <1>24, <1>2
     DEF LoopTest, FindActiveRemoteDevices, ErrorEvent
<1>25. ASSUME NEW c \in Connections,
              \/ Heartbeat(c) \/ AuthorizationReply(c) \/ AuthMarksPhidget(c)
              \/ AuthListens(c) \/ AuthTells(c)
              \/ ErrorTells(c) \/ PeerFails(c) \/ ErrorJoins(c)
              \/ ErrorMarksPhidget(c) \/ ErrorForgetsServer(c)
       PROVE  ReaderLocked'
  BY <1>25, <1>2
     DEF Heartbeat, AuthorizationReply, StartsErrorThread, AuthMarksPhidget,
         AuthListens, AuthTells, ErrorMarksPhidget, ErrorForgetsServer, ErrorTells, PeerFails,
         ErrorJoins, Joined, FreesSession
<1>26. CASE UNCHANGED vars
  BY <1>26, <1>2
     DEF vars
<1>27. QED
  BY Zenon, <1>3, <1>4, <1>5, <1>6, <1>7, <1>8, <1>9, <1>10, <1>11, <1>12,
     <1>13, <1>14, <1>15, <1>16, <1>17, <1>18, <1>19, <1>20, <1>21, <1>22, <1>23,
     <1>24, <1>25, <1>26
     DEF Next, UserEnds, CentralStep, ReaderEnds, AuthStep, ErrorStep

LEMMA AuthLocksStep ==
  ASSUME TypeOK, LockInv, [Next]_vars
  PROVE  AuthLocks'
<1>1. /\ UserLocked /\ CentralLocked /\ ReaderLocked /\ AuthLocks /\ ErrorLocked
      /\ authT = [c \in Connections |-> authT[c]]
  BY Functions DEF LockInv
<1>2. ASSUME UNCHANGED <<authT, serverLock>> PROVE AuthLocks'
  BY <1>1, <1>2 DEF AuthLocks
<1>3. \A c \in Connections : authT[c] \in AuthThread
  BY Records
<1>4. ASSUME NEW h \in Handles, LocksServerLock(h)
      PROVE  AuthLocks'
  BY <1>4, <1>1, <1>3
     DEF LocksServerLock, UserLocked, CentralLocked, ReaderLocked, AuthLocks,
         UserLocks, CentralLocking, AuthLocked, AuthThread, NoThread
<1>5. ASSUME NEW h \in Handles, DisconnectRemoteObject(h)
      PROVE  AuthLocks'
  BY <1>5, <1>1, <1>3
     DEF DisconnectRemoteObject, UserLocked, CentralLocked, ReaderLocked,
         AuthLocks, UserLocks, CentralLocking, AuthLocked, AuthThread,
         NoThread
<1>6. ASSUME NEW h \in Handles, JoinsReadThread(h)
      PROVE  AuthLocks'
  BY <1>6, <1>1, <1>3
     DEF JoinsReadThread, Joined, FreesSession, UserLocked, CentralLocked,
         ReaderLocked, AuthLocks, UserLocks, CentralLocking, AuthLocked,
         AuthThread, NoThread
<1>7. CASE ConnectNew
  BY <1>7, <1>1, <1>3
     DEF ConnectNew, UserLocked, CentralLocked, ReaderLocked, AuthLocks,
         UserLocks, CentralLocking, AuthLocked, AuthThread, NoThread
<1>8. CASE CentralLocks
  BY <1>8, <1>1, <1>3
     DEF CentralLocks, UserLocked, CentralLocked, ReaderLocked, AuthLocks,
         UserLocks, CentralLocking, AuthLocked, AuthThread, NoThread
<1>9. CASE \/ ConnectFound \/ ConnectFails
           \/ ConnectListens \/ ConnectTwice
  BY <1>9, <1>1, <1>3
     DEF ConnectFound, ConnectListens, ConnectTwice, CentralUnlocks, ConnectFails, UserLocked,
         CentralLocked, ReaderLocked, AuthLocks, UserLocks, CentralLocking,
         AuthLocked, AuthThread, NoThread
<1>10. CASE Authorize
  BY <1>10, <1>1, <1>3
     DEF Authorize, CentralUnlocks, StartsErrorThread, UserLocked,
         CentralLocked, ReaderLocked, AuthLocks, UserLocks, CentralLocking,
         AuthLocked, AuthThread, NoThread
<1>11. CASE MonitorLocks
  BY <1>11, <1>1, <1>3
     DEF MonitorLocks, UserLocked, CentralLocked, ReaderLocked, AuthLocks,
         UserLocks, CentralLocking, AuthLocked, AuthThread, NoThread
<1>12. CASE MonitorHeartbeats
  BY <1>12, <1>1, <1>3
     DEF MonitorHeartbeats, CentralUnlocks, UserLocked, CentralLocked,
         ReaderLocked, AuthLocks, UserLocks, CentralLocking, AuthLocked,
         AuthThread, NoThread
<1>13. CASE MonitorJoins
  BY <1>13, <1>1, <1>3
     DEF MonitorJoins, Joined, FreesSession, UserLocked, CentralLocked,
         ReaderLocked, AuthLocks, UserLocks, CentralLocking, AuthLocked,
         AuthThread, NoThread
<1>14. ASSUME NEW c \in Connections, HeartbeatTimesOut(c)
       PROVE  AuthLocks'
  BY <1>14, <1>1, <1>3
     DEF HeartbeatTimesOut, Closes, UserLocked, CentralLocked, ReaderLocked,
         AuthLocks, UserLocks, CentralLocking, AuthLocked, AuthThread,
         NoThread
<1>15. ASSUME NEW c \in Connections, AuthorizationReply(c)
       PROVE  AuthLocks'
  <2>1. /\ UNCHANGED serverLock
        /\ \/ authT' = [authT EXCEPT ![c] = [authT[c] EXCEPT !.pc = "start", !.run = TRUE]]
           \/ UNCHANGED authT
    BY <1>15 DEF AuthorizationReply
  <2>2. [authT[c] EXCEPT !.pc = "start", !.run = TRUE].pc = "start"
    BY <1>15, <1>3 DEF AuthThread
  <2>3. QED
    BY <1>15, <1>1, <1>2, <2>1, <2>2 DEF AuthLocks, AuthLocked
<1>16. ASSUME NEW c \in Connections, CleanupLocks(c)
       PROVE  AuthLocks'
  BY <1>16, <1>1, <1>3
     DEF CleanupLocks, UserLocked, CentralLocked, ReaderLocked, AuthLocks,
         UserLocks, CentralLocking, AuthLocked, AuthThread, NoThread
<1>17. ASSUME NEW c \in Connections, CleanupFreesServer(c)
       PROVE  AuthLocks'
  BY <1>17, <1>1, <1>3
     DEF CleanupFreesServer, UserLocked, CentralLocked, ReaderLocked,
         AuthLocks, UserLocks, CentralLocking, AuthLocked, AuthThread,
         NoThread
<1>18. ASSUME NEW c \in Connections, AuthStarts(c)
       PROVE  AuthLocks'
  BY <1>18, <1>1, <1>3
     DEF AuthStarts, UserLocked, CentralLocked, ReaderLocked, AuthLocks,
         UserLocks, CentralLocking, AuthLocked, AuthThread, NoThread
<1>19. ASSUME NEW c \in Connections, AuthEnablesReports(c)
       PROVE  AuthLocks'
  BY <1>19, <1>1, <1>3
     DEF AuthEnablesReports, StartsErrorThread, UserLocked, CentralLocked,
         ReaderLocked, AuthLocks, UserLocks, CentralLocking, AuthLocked,
         AuthThread, NoThread
<1>20. ASSUME NEW c \in Connections, AuthMarksPhidget(c)
       PROVE  AuthLocks'
  BY <1>20, <1>1, <1>3
     DEF AuthMarksPhidget, UserLocked, CentralLocked, ReaderLocked, AuthLocks,
         UserLocks, CentralLocking, AuthLocked, AuthThread, NoThread
<1>21. ASSUME NEW c \in Connections, AuthListens(c)
       PROVE  AuthLocks'
  BY <1>21, <1>1, <1>3
     DEF AuthListens, UserLocked, CentralLocked, ReaderLocked, AuthLocks,
         UserLocks, CentralLocking, AuthLocked, AuthThread, NoThread
<1>22. ASSUME NEW c \in Connections, AuthUnlocks(c)
       PROVE  AuthLocks'
  BY <1>22, <1>1, <1>3
     DEF AuthUnlocks, UserLocked, CentralLocked, ReaderLocked, AuthLocks,
         UserLocks, CentralLocking, AuthLocked, AuthThread, NoThread
<1>23. ASSUME NEW c \in Connections, \/ ErrorLocks(c) \/ ErrorClosesServer(c)
        PROVE  AuthLocks'
  BY <1>23, <1>1
     DEF ErrorLocks, ErrorClosesServer, AuthLocks, ErrorLocked
<1>24. ASSUME NEW c \in Connections, AuthTells(c)
       PROVE  AuthLocks'
  BY <1>24, <1>1, <1>3
     DEF AuthTells, UserLocked, CentralLocked, ReaderLocked, AuthLocks,
         UserLocks, CentralLocking, AuthLocked, AuthThread, NoThread
<1>25. ASSUME NEW h \in Handles,
              \/ Open(h) \/ StartCentralRemoteThread(h) \/ Close(h)
              \/ TellsServer(h) \/ Unregister(h) \/ FreeNetworkInfo(h)
              \/ JoinCentralRemoteThread(h)
       PROVE  AuthLocks'
  BY <1>25, <1>2
     DEF Open, StartCentralRemoteThread, Close, TellsServer, Unregister,
         FreeNetworkInfo, JoinCentralRemoteThread
<1>26. CASE \/ LoopTest \/ FindActiveRemoteDevices \/ ErrorEvent
  BY <1>26, <1>2
     DEF LoopTest, FindActiveRemoteDevices, ErrorEvent
<1>27. ASSUME NEW c \in Connections,
              \/ Heartbeat(c) \/ WaitsForThreads(c) \/ CleanupClearsFlags(c)
              \/ SessionEnds(c) \/ ErrorTells(c)
              \/ PeerFails(c) \/ ErrorJoins(c)
              \/ ErrorMarksPhidget(c) \/ ErrorForgetsServer(c)
       PROVE  AuthLocks'
  BY <1>27, <1>2
     DEF Heartbeat, WaitsForThreads, CleanupClearsFlags, SessionEnds,
         StartsErrorThread, ErrorMarksPhidget, ErrorForgetsServer, ErrorTells, PeerFails,
         ErrorJoins, Joined, FreesSession
<1>28. CASE UNCHANGED vars
  BY <1>28, <1>2
     DEF vars
<1>29. QED
  BY Zenon, <1>4, <1>5, <1>6, <1>7, <1>8, <1>9, <1>10, <1>11, <1>12, <1>13,
     <1>14, <1>15, <1>16, <1>17, <1>18, <1>19, <1>20, <1>21, <1>22, <1>23, <1>24,
     <1>25, <1>26, <1>27, <1>28
     DEF Next, UserEnds, CentralStep, ReaderEnds, AuthStep, ErrorStep

LEMMA ErrorLockedStep ==
  ASSUME TypeOK, CentralInv, LockInv, [Next]_vars
  PROVE  ErrorLocked'
<1>1. /\ UserLocked /\ CentralLocked /\ ReaderLocked /\ AuthLocks /\ ErrorLocked
      /\ errT = [c \in Connections |-> errT[c]]
      /\ ErrTypes /\ \A c \in Connections : errT[c] \in ErrorThread
  BY Functions, Records, TypeParts DEF LockInv
<1>2. ASSUME \A d \in Connections : errT'[d].pc = "phids" => errT[d].pc = "phids",
             UNCHANGED serverLock \/ serverLock # "error"
      PROVE  ErrorLocked'
  BY <1>1, <1>2 DEF ErrorLocked
<1>3. ASSUME NEW c \in Connections, NEW who \in {"central", "reader", "auth"},
             StartsErrorThread(c, who), UNCHANGED serverLock \/ serverLock # "error"
      PROVE  ErrorLocked'
  <2>1. errT'[c].pc = "start" /\ \A d \in Connections : d # c => errT'[d] = errT[d]
    BY <1>1, <1>3, ErrStarts
  <2>2. QED
    BY <1>2, <1>3, <2>1
<1>4. ASSUME NEW h \in Handles,
             LocksServerLock(h) \/ DisconnectRemoteObject(h) \/ JoinsReadThread(h)
      PROVE  ErrorLocked'
  BY <1>4, <1>1, <1>2
     DEF LocksServerLock, DisconnectRemoteObject, JoinsReadThread, Joined,
         FreesSession, UserLocked
<1>5. CASE \/ CentralLocks \/ ConnectFound \/ ConnectListens \/ ConnectTwice
           \/ ConnectFails \/ MonitorLocks \/ MonitorHeartbeats \/ MonitorJoins
  BY <1>5, <1>1, <1>2
     DEF CentralLocks, ConnectFound, ConnectListens, ConnectTwice, ConnectFails,
         MonitorLocks, MonitorHeartbeats, MonitorJoins, Joined, FreesSession,
         CentralLocked
<1>6. CASE Authorize
  <2>1. central.conn \in Connections /\ serverLock = "central"
    BY <1>1, <1>6 DEF Authorize, CentralInv, CentralLocked
  <2>2. UNCHANGED errT \/ StartsErrorThread(central.conn, "central")
    BY <1>6 DEF Authorize
  <2>3. QED
    BY <1>2, <1>3, <2>1, <2>2
<1>7. ASSUME NEW c \in Connections,
             HeartbeatTimesOut(c) \/ CleanupLocks(c) \/ CleanupFreesServer(c)
      PROVE  ErrorLocked'
  BY <1>7, <1>1, <1>2
     DEF HeartbeatTimesOut, CleanupLocks, CleanupFreesServer, CentralLocked,
         ReaderLocked
<1>8. ASSUME NEW c \in Connections, AuthStarts(c) \/ AuthUnlocks(c)
      PROVE  ErrorLocked'
  BY <1>8, <1>1, <1>2 DEF AuthStarts, AuthUnlocks, AuthLocks, AuthLocked
<1>9. ASSUME NEW c \in Connections, AuthEnablesReports(c)
      PROVE  ErrorLocked'
  <2>1. \/ UNCHANGED errT
        \/ StartsErrorThread(c, "auth")
    BY <1>9 DEF AuthEnablesReports
  <2>2. serverLock = "auth"
    BY <1>1, <1>9 DEF AuthEnablesReports, AuthLocks, AuthLocked
  <2>3. QED
    BY <1>2, <1>3, <2>1, <2>2
<1>10. ASSUME NEW c \in Connections, AuthorizationReply(c) \/ SessionEnds(c)
       PROVE  ErrorLocked'
  <2>1. /\ UNCHANGED errT \/ StartsErrorThread(c, "reader")
        /\ UNCHANGED serverLock
    BY <1>10 DEF AuthorizationReply, SessionEnds
  <2>2. QED
    BY <1>2, <1>3, <2>1
<1>11. ASSUME NEW c \in Connections, ErrorLocks(c)
       PROVE  ErrorLocked'
  BY <1>11, <1>1 DEF ErrorLocks, ErrorLocked
<1>12. ASSUME NEW c \in Connections, ErrorMarksPhidget(c)
       PROVE  ErrorLocked'
  <2>1. /\ UNCHANGED serverLock /\ errT[c].pc = "phids"
        /\ \E h \in conn[c].phids : errT' = [errT EXCEPT ![c].todo = @ \cup {h}]
    BY <1>12 DEF ErrorMarksPhidget
  <2>2. \A d \in Connections : errT'[d].pc = errT[d].pc
    BY <1>1, <2>1 DEF ErrorThread
  <2>3. QED
    BY <1>2, <2>1, <2>2
<1>13. ASSUME NEW c \in Connections, ErrorClosesServer(c)
       PROVE  ErrorLocked'
  <2>1. errT[c].pc = "phids" /\ errT'[c].pc # "phids"
    BY <1>1, <1>13 DEF ErrorClosesServer, ErrorThread
  <2>2. \A d \in Connections : d # c => errT'[d] = errT[d]
    BY <1>1, <1>13 DEF ErrorClosesServer
  <2>3. QED
    BY <1>1, <2>1, <2>2 DEF ErrorLocked
<1>14. ASSUME NEW c \in Connections, ErrorJoins(c) \/ ErrorTells(c)
       PROVE  ErrorLocked'
  <2>1. UNCHANGED serverLock
    BY <1>14 DEF ErrorJoins, ErrorTells, Joined, FreesSession
  <2>2. \/ errT' = [errT EXCEPT ![c].pc = "events"]
        \/ \E h \in errT[c].todo : errT' = [errT EXCEPT ![c].todo = @ \ {h}]
        \/ errT' = [errT EXCEPT ![c].pc = "none", ![c].by = "none"]
    BY <1>14 DEF ErrorJoins, ErrorTells
  <2>3. \A d \in Connections : errT'[d].pc = "phids" => errT[d].pc = "phids"
    BY <1>1, <2>2 DEF ErrorThread
  <2>4. QED
    BY <1>2, <2>1, <2>3
<1>15. ASSUME NEW h \in Handles,
              \/ Open(h) \/ StartCentralRemoteThread(h) \/ Close(h)
              \/ TellsServer(h) \/ Unregister(h) \/ FreeNetworkInfo(h)
              \/ JoinCentralRemoteThread(h)
       PROVE  ErrorLocked'
  BY <1>15, <1>2
     DEF Open, StartCentralRemoteThread, Close, TellsServer, Unregister,
         FreeNetworkInfo, JoinCentralRemoteThread
<1>16. CASE \/ LoopTest \/ FindActiveRemoteDevices \/ ErrorEvent \/ ConnectNew
  BY <1>16, <1>2
     DEF LoopTest, FindActiveRemoteDevices, ErrorEvent, ConnectNew
<1>17. ASSUME NEW c \in Connections,
              \/ Heartbeat(c) \/ WaitsForThreads(c) \/ CleanupClearsFlags(c)
              \/ AuthMarksPhidget(c) \/ AuthListens(c) \/ AuthTells(c)
              \/ ErrorForgetsServer(c) \/ PeerFails(c)
       PROVE  ErrorLocked'
  BY <1>17, <1>2
     DEF Heartbeat, WaitsForThreads, CleanupClearsFlags, AuthMarksPhidget,
         AuthListens, AuthTells, ErrorForgetsServer, PeerFails
<1>18. CASE UNCHANGED vars
  BY <1>18, <1>2
     DEF vars
<1>19. QED
  BY Zenon, <1>4, <1>5, <1>6, <1>7, <1>8, <1>9, <1>10, <1>11, <1>12, <1>13,
     <1>14, <1>15, <1>16, <1>17, <1>18
     DEF Next, UserEnds, CentralStep, ReaderEnds, AuthStep, ErrorStep

LEMMA LockStep ==
  ASSUME TypeOK, CentralInv, LockInv, [Next]_vars
  PROVE  LockInv'
BY UserLockedStep, CentralLockedStep, ReaderLockedStep, AuthLocksStep,
   ErrorLockedStep
   DEF LockInv
-----------------------------------------------------------------------------
(* What the steps do to the connections.                                    *)

\* The server of d, its list and its session stay as they are.
Keeps(d) ==
    /\ conn'[d].life = conn[d].life /\ conn'[d].listed = conn[d].listed
    /\ conn'[d].phids = conn[d].phids /\ conn'[d].pdcs = conn[d].pdcs
    /\ conn'[d].session = conn[d].session

LEMMA Central ==
  ASSUME TypeOK
  PROVE  central \in [pc : CentralPcs, phid : Handles \cup {None},
                    conn : Connections \cup {None},
                    todo : SUBSET (Handles \cup Connections),
                    run : BOOLEAN, handle : BOOLEAN, inErrorEvent : BOOLEAN]
BY TypeParts DEF CentralTypes

LEMMA Quiet ==
  ASSUME TypeOK, CentralInv,
         \/ Authorize \/ MonitorHeartbeats
         \/ \E c \in Connections :
               \/ Heartbeat(c) \/ AuthorizationReply(c) \/ SessionEnds(c)
               \/ CleanupClearsFlags(c) \/ AuthEnablesReports(c) \/ PeerFails(c)
  PROVE  \A d \in Connections : Keeps(d)
<1>1. /\ conn = [c \in Connections |-> conn[c]]
      /\ \A c \in Connections : conn[c] \in CServerInfo
  BY Functions, Records
<1>2. ASSUME UNCHANGED conn PROVE \A d \in Connections : Keeps(d)
  BY <1>2 DEF Keeps
<1>3. ASSUME NEW c \in Connections, NEW r,
             conn' = [conn EXCEPT ![c] = r],
             /\ r.life = conn[c].life /\ r.listed = conn[c].listed
             /\ r.phids = conn[c].phids /\ r.pdcs = conn[c].pdcs
             /\ r.session = conn[c].session
      PROVE  \A d \in Connections : Keeps(d)
  <2>1. conn'[c] = r /\ \A d \in Connections : d # c => conn'[d] = conn[d]
    BY <1>1, <1>3
  <2>2. QED
    BY <1>3, <2>1 DEF Keeps
<1>4. CASE Authorize
  <2>1. central.conn \in Connections
    BY <1>4 DEF Authorize, CentralInv
  <2>2. \/ conn' = [conn EXCEPT ![central.conn] = [conn[central.conn] EXCEPT
                                                     !.auth = "pending", !.waiting = TRUE]]
        \/ conn' = [conn EXCEPT ![central.conn] = [conn[central.conn] EXCEPT
                                                     !.waiting = TRUE]]
    BY <1>1, <1>4, <2>1 DEF Authorize
  <2>3. QED
    BY <1>1, <1>3, <2>1, <2>2 DEF CServerInfo
<1>5. CASE MonitorHeartbeats
  <2>1. \/ UNCHANGED conn
        \/ \E c \in Connections : conn' = [conn EXCEPT ![c] = [conn[c] EXCEPT !.waiting = TRUE]]
    BY <1>1, <1>5 DEF MonitorHeartbeats, CentralInv
  <2>2. QED
    BY <1>1, <1>2, <1>3, <2>1 DEF CServerInfo
<1>6. ASSUME NEW c \in Connections,
             Heartbeat(c) \/ AuthorizationReply(c) \/ SessionEnds(c) \/ CleanupClearsFlags(c)
      PROVE  \A d \in Connections : Keeps(d)
  <2>1. \/ UNCHANGED conn
        \/ conn' = [conn EXCEPT ![c] = [conn[c] EXCEPT !.waiting = FALSE]]
        \/ conn' = [conn EXCEPT ![c] = [conn[c] EXCEPT !.auth = "done"]]
        \/ conn' = [conn EXCEPT ![c] = [conn[c] EXCEPT !.up = FALSE]]
    BY <1>1, <1>6 DEF Heartbeat, AuthorizationReply, SessionEnds, CleanupClearsFlags
  <2>2. QED
    BY <1>1, <1>2, <1>3, <2>1 DEF CServerInfo
<1>7. ASSUME NEW c \in Connections, AuthEnablesReports(c)
      PROVE  \A d \in Connections : Keeps(d)
  <2>1. \/ UNCHANGED conn
        \/ conn' = [conn EXCEPT ![c] = [conn[c] EXCEPT !.up = TRUE, !.connecting = FALSE,
                                                       !.waiting = TRUE]]
    BY <1>1, <1>7 DEF AuthEnablesReports
  <2>2. QED
    BY <1>1, <1>2, <1>3, <2>1 DEF CServerInfo
<1>8. ASSUME NEW c \in Connections, PeerFails(c)
      PROVE  \A d \in Connections : Keeps(d)
  <2>1. PICK end \in Failures : conn' = [conn EXCEPT ![c] = [conn[c] EXCEPT !.socket = end]]
    BY <1>1, <1>8 DEF PeerFails
  <2>2. QED
    BY <1>1, <1>3, <2>1 DEF CServerInfo
<1>9. QED
  BY <1>4, <1>5, <1>6, <1>7, <1>8

LEMMA Closing ==
  ASSUME NEW k \in CServerInfo
  PROVE  /\ ClosedConn(k).life = k.life /\ ClosedConn(k).listed = k.listed
         /\ ClosedConn(k).phids = k.phids /\ ClosedConn(k).session = k.session
         /\ ClosedConn(k).auth = k.auth /\ ClosedConn(k).pdcs = FALSE
BY DEF ClosedConn, CServerInfo

\* The session of c is freed by whoever has waited for its read thread.
LEMMA SessionFreed ==
  ASSUME TypeOK, NEW c \in Connections, FreesSession(c)
  PROVE  /\ \A d \in Connections : d # c => Keeps(d)
         /\ conn'[c].life = conn[c].life /\ conn'[c].listed = conn[c].listed
         /\ conn'[c].phids = conn[c].phids /\ conn'[c].pdcs = conn[c].pdcs
         /\ conn'[c].auth = conn[c].auth
         /\ \A d \in Connections : conn'[d].auth = conn[d].auth
BY Functions, Records DEF FreesSession, Keeps, CServerInfo

\* The connection that is closed by the last handle to leave.
LEMMA Disconnected ==
  ASSUME TypeOK, NEW h \in Handles, DisconnectRemoteObject(h),
         server[h] \in Servers, h \in conn[server[h]].phids
  PROVE  LET c == server[h] IN
         /\ c \in Connections
         /\ \A d \in Connections : d # c => Keeps(d)
         /\ \A d \in Connections : conn'[d].auth = conn[d].auth
         /\ conn'[c].life = conn[c].life /\ conn'[c].listed = conn[c].listed
         /\ conn'[c].session = conn[c].session
         /\ conn'[c].phids = conn[c].phids \ {h}
         /\ \/ /\ conn[c].pdcs /\ ~conn'[c].pdcs
               /\ user' = [user EXCEPT ![h] = "join"] /\ UNCHANGED <<server, serverLockLock>>
            \/ /\ conn'[c].pdcs = conn[c].pdcs
               /\ server' = [server EXCEPT ![h] = None] /\ serverLockLock' = "free"
               /\ user' = [user EXCEPT ![h] = "free"]
<1> DEFINE c == server[h]
           r == [conn[c] EXCEPT !.phids = @ \ {h}]
           left == [conn EXCEPT ![c].phids = @ \ {h}]
<1>1. c \in Connections /\ c # None /\ conn[c] \in CServerInfo
      /\ conn = [k \in Connections |-> conn[k]]
  BY Functions, Records, NoneAssumption DEF Servers
<1>2. left = [conn EXCEPT ![c] = r] /\ left[c] = r
  BY <1>1
<1>3. \/ /\ conn[c].pdcs /\ conn' = [left EXCEPT ![c] = ClosedConn(left[c])]
         /\ user' = [user EXCEPT ![h] = "join"] /\ UNCHANGED <<server, serverLockLock>>
      \/ /\ conn' = left
         /\ server' = [server EXCEPT ![h] = None] /\ serverLockLock' = "free"
         /\ user' = [user EXCEPT ![h] = "free"]
  <2>1. left[c].pdcs = conn[c].pdcs
    BY <1>1, <1>2 DEF CServerInfo
  <2>2. QED
    BY <1>1, <2>1 DEF DisconnectRemoteObject
<1> HIDE DEF left
<1>4. CASE conn' = [left EXCEPT ![c] = ClosedConn(left[c])] /\ conn[c].pdcs
           /\ user' = [user EXCEPT ![h] = "join"] /\ UNCHANGED <<server, serverLockLock>>
  <2>1. conn'[c] = ClosedConn(r) /\ \A d \in Connections : d # c => conn'[d] = conn[d]
    BY <1>1, <1>2, <1>4
  <2>2. r \in CServerInfo
    BY <1>1 DEF CServerInfo
  <2>3. /\ conn'[c].life = r.life /\ conn'[c].listed = r.listed /\ conn'[c].phids = r.phids
        /\ conn'[c].session = r.session /\ conn'[c].auth = r.auth /\ conn'[c].pdcs = FALSE
    BY <2>1, <2>2, Closing
  <2>4. /\ r.life = conn[c].life /\ r.listed = conn[c].listed /\ r.phids = conn[c].phids \ {h}
        /\ r.session = conn[c].session /\ r.auth = conn[c].auth
    BY <1>1 DEF CServerInfo
  <2>5. QED
    BY <1>1, <1>4, <2>1, <2>3, <2>4 DEF Keeps
<1>5. CASE conn' = left /\ server' = [server EXCEPT ![h] = None] /\ serverLockLock' = "free"
           /\ user' = [user EXCEPT ![h] = "free"]
  <2>1. conn'[c] = r /\ \A d \in Connections : d # c => conn'[d] = conn[d]
    BY <1>1, <1>2, <1>5
  <2>2. QED
    BY <1>1, <1>5, <2>1 DEF Keeps, CServerInfo
<1>6. QED
  BY <1>3, <1>4, <1>5

LEMMA NotDisconnected ==
  ASSUME TypeOK, NEW h \in Handles, DisconnectRemoteObject(h),
         ~(server[h] \in Servers /\ h \in conn[server[h]].phids)
  PROVE  /\ UNCHANGED <<conn, server>> /\ user' = [user EXCEPT ![h] = "free"]
         /\ serverLockLock' = "free"
BY DEF DisconnectRemoteObject

\* The heartbeat that is late.
LEMMA TimedOut ==
  ASSUME TypeOK, NEW c \in Connections, HeartbeatTimesOut(c)
  PROVE  /\ \A d \in Connections : d # c => Keeps(d)
         /\ \A d \in Connections : conn'[d].auth = conn[d].auth
         /\ conn'[c].life = conn[c].life /\ conn'[c].listed = conn[c].listed
         /\ conn'[c].phids = conn[c].phids /\ conn'[c].session = conn[c].session
         /\ ~conn'[c].pdcs
         /\ \/ /\ conn[c].pdcs /\ serverLock' = "free"
               /\ central' = [central EXCEPT !.pc = "beatJoin", !.conn = c, !.todo = {}]
            \/ /\ Keeps(c) /\ UNCHANGED serverLock
               /\ central' = [central EXCEPT !.todo = Servers]
<1>1. /\ conn = [k \in Connections |-> conn[k]] /\ conn[c] \in CServerInfo
  BY Functions, Records
<1> DEFINE r == [conn[c] EXCEPT !.waiting = FALSE]
           over == [conn EXCEPT ![c].waiting = FALSE]
<1>2. over = [conn EXCEPT ![c] = r] /\ over[c] = r
  BY <1>1
<1>3. \/ /\ conn' = [over EXCEPT ![c] = ClosedConn(over[c])] /\ conn[c].pdcs
         /\ serverLock' = "free"
         /\ central' = [central EXCEPT !.pc = "beatJoin", !.conn = c, !.todo = {}]
      \/ /\ conn' = over /\ ~conn[c].pdcs /\ UNCHANGED serverLock
         /\ central' = [central EXCEPT !.todo = Servers]
  BY DEF HeartbeatTimesOut, Closes
<1> HIDE DEF over
<1>4. CASE /\ conn' = [over EXCEPT ![c] = ClosedConn(over[c])] /\ conn[c].pdcs
           /\ serverLock' = "free"
           /\ central' = [central EXCEPT !.pc = "beatJoin", !.conn = c, !.todo = {}]
  <2>1. conn'[c] = ClosedConn(r) /\ \A d \in Connections : d # c => conn'[d] = conn[d]
    BY <1>1, <1>2, <1>4
  <2>2. /\ conn'[c].life = conn[c].life /\ conn'[c].listed = conn[c].listed
        /\ conn'[c].phids = conn[c].phids /\ conn'[c].session = conn[c].session
        /\ ~conn'[c].pdcs /\ conn'[c].auth = conn[c].auth
    <3>1. r \in CServerInfo /\ r.life = conn[c].life /\ r.listed = conn[c].listed
          /\ r.phids = conn[c].phids /\ r.session = conn[c].session /\ r.auth = conn[c].auth
      BY <1>1 DEF CServerInfo
    <3>2. QED
      BY <2>1, <3>1, Closing
  <2>3. QED
    BY <1>4, <2>1, <2>2 DEF Keeps
<1>5. CASE conn' = over /\ ~conn[c].pdcs /\ UNCHANGED serverLock
           /\ central' = [central EXCEPT !.todo = Servers]
  <2>1. conn'[c] = r /\ \A d \in Connections : d # c => conn'[d] = conn[d]
    BY <1>1, <1>2, <1>5
  <2>2. /\ conn'[c].life = conn[c].life /\ conn'[c].listed = conn[c].listed
        /\ conn'[c].phids = conn[c].phids /\ conn'[c].session = conn[c].session
        /\ conn'[c].pdcs = conn[c].pdcs /\ conn'[c].auth = conn[c].auth
    BY <1>1, <2>1 DEF CServerInfo
  <2>3. QED
    BY <1>5, <2>1, <2>2 DEF Keeps
<1>6. QED
  BY <1>3, <1>4, <1>5

\* The server the error thread closes.
LEMMA ErrorCloses ==
  ASSUME TypeOK, NEW c \in Connections, ErrorClosesServer(c)
  PROVE  /\ \A d \in Connections : d # c => Keeps(d)
         /\ \A d \in Connections : conn'[d].auth = conn[d].auth
         /\ conn'[c].life = conn[c].life /\ conn'[c].listed = conn[c].listed
         /\ conn'[c].session = conn[c].session
         /\ conn'[c].phids = {} /\ ~conn'[c].pdcs
         /\ \A d \in Connections : d # c => errT'[d] = errT[d]
         /\ ~errT'[c].run /\ errT'[c].starts = errT[c].starts
         /\ errT'[c].pc = IF conn[c].pdcs THEN "join" ELSE "events"
<1>1. /\ conn = [k \in Connections |-> conn[k]] /\ conn[c] \in CServerInfo
      /\ errT = [k \in Connections |-> errT[k]] /\ errT[c] \in ErrorThread
  BY Functions, Records
<1> DEFINE r == [conn[c] EXCEPT !.phids = {}, !.connecting = FALSE]
           emptied == [conn EXCEPT ![c].phids = {}, ![c].connecting = FALSE]
<1>2. emptied = [conn EXCEPT ![c] = r] /\ emptied[c] = r /\ r.pdcs = conn[c].pdcs
  BY <1>1 DEF CServerInfo
<1>3. conn' = [emptied EXCEPT ![c] = IF @.pdcs THEN ClosedConn(@) ELSE @]
  BY DEF ErrorClosesServer
<1> HIDE DEF emptied
<1>4. /\ conn'[c] = IF conn[c].pdcs THEN ClosedConn(r) ELSE r
      /\ \A d \in Connections : d # c => conn'[d] = conn[d]
  BY <1>1, <1>2, <1>3
<1>5. /\ conn'[c].life = conn[c].life /\ conn'[c].listed = conn[c].listed
      /\ conn'[c].session = conn[c].session /\ conn'[c].phids = {}
      /\ ~conn'[c].pdcs /\ conn'[c].auth = conn[c].auth
  <2>1. CASE conn[c].pdcs
    BY <1>1, <1>4, <2>1 DEF ClosedConn, CServerInfo
  <2>2. CASE ~conn[c].pdcs
    BY <1>1, <1>4, <2>2 DEF CServerInfo
  <2>3. QED
    BY <2>1, <2>2
<1>6. /\ \A d \in Connections : d # c => errT'[d] = errT[d]
      /\ ~errT'[c].run /\ errT'[c].starts = errT[c].starts
      /\ errT'[c].pc = IF conn[c].pdcs THEN "join" ELSE "events"
  BY <1>1 DEF ErrorClosesServer, ErrorThread
<1>7. QED
  BY <1>4, <1>5, <1>6 DEF Keeps

\* The connection that is made.
LEMMA Connected ==
  ASSUME TypeOK, CentralInv, ConnectNew
  PROVE  \E c \in Connections :
         /\ conn[c].life = "none" /\ Servers = {} /\ central.phid \in active
         /\ server[central.phid] = None
         /\ \A d \in Connections : d # c => Keeps(d) /\ conn'[d] = conn[d]
         /\ conn'[c].life = "alive" /\ conn'[c].listed /\ conn'[c].pdcs
         /\ conn'[c].session = "live" /\ conn'[c].phids = {central.phid}
         /\ conn'[c].auth = "none"
         /\ reader' = [reader EXCEPT ![c] = "read"]
         /\ server' = [server EXCEPT ![central.phid] = c]
         /\ central'.pc = "authorize" /\ central'.conn = c
<1>1. /\ conn = [k \in Connections |-> conn[k]]
      /\ central.phid \in active /\ server[central.phid] = None
  BY Functions DEF ConnectNew, CentralInv
<1>2. PICK c \in Connections :
        /\ conn[c].life = "none"
        /\ conn' = [conn EXCEPT ![c] = [NewConn EXCEPT !.phids = {central.phid}]]
        /\ reader' = [reader EXCEPT ![c] = "read"]
        /\ server' = [server EXCEPT ![central.phid] = c]
        /\ central' = [central EXCEPT !.pc = "authorize", !.conn = c, !.phid = None]
  BY DEF ConnectNew
<1>3. /\ conn'[c] = [NewConn EXCEPT !.phids = {central.phid}]
      /\ \A d \in Connections : d # c => conn'[d] = conn[d]
  BY <1>1, <1>2
<1>4. central'.pc = "authorize" /\ central'.conn = c
  BY <1>2, Central
<1>5. /\ conn'[c].life = "alive" /\ conn'[c].listed /\ conn'[c].pdcs
      /\ conn'[c].session = "live" /\ conn'[c].phids = {central.phid}
      /\ conn'[c].auth = "none"
  BY <1>3 DEF NewConn
<1>6. QED
  BY <1>1, <1>2, <1>3, <1>4, <1>5 DEF ConnectNew, Keeps

\* The connection that is found.
LEMMA Found ==
  ASSUME TypeOK, CentralInv, ConnectFound
  PROVE  /\ central.phid \in active /\ server[central.phid] = None
         /\ \E c \in Servers :
               /\ central.phid \notin conn[c].phids
               /\ \A d \in Connections : d # c => Keeps(d)
               /\ \A d \in Connections : conn'[d].auth = conn[d].auth
               /\ conn'[c].life = conn[c].life /\ conn'[c].listed = conn[c].listed
               /\ conn'[c].session = conn[c].session /\ conn'[c].pdcs = conn[c].pdcs
               /\ conn'[c].phids = conn[c].phids \cup {central.phid}
               /\ server' = [server EXCEPT ![central.phid] = c]
<1>1. /\ conn = [k \in Connections |-> conn[k]]
      /\ central.phid \in active /\ server[central.phid] = None
  BY Functions DEF ConnectFound, CentralInv
<1>2. \E c \in Servers :
         /\ central.phid \notin conn[c].phids
         /\ server' = [server EXCEPT ![central.phid] = c]
         /\ conn' = [conn EXCEPT ![c].phids = @ \cup {central.phid}]
  BY DEF ConnectFound
<1>3. ASSUME NEW c \in Servers, conn' = [conn EXCEPT ![c].phids = @ \cup {central.phid}]
      PROVE  /\ \A d \in Connections : d # c => Keeps(d)
             /\ \A d \in Connections : conn'[d].auth = conn[d].auth
             /\ conn'[c].life = conn[c].life /\ conn'[c].listed = conn[c].listed
             /\ conn'[c].session = conn[c].session /\ conn'[c].pdcs = conn[c].pdcs
             /\ conn'[c].phids = conn[c].phids \cup {central.phid}
  BY <1>1, <1>3, Records DEF Servers, Keeps, CServerInfo
<1>4. QED
  BY <1>1, <1>2, <1>3

\* The handle that was found a connection listens, or leaves it again.
LEMMA Listened ==
  ASSUME TypeOK, CentralInv, ConnectListens
  PROVE  /\ central.phid \in active /\ central.conn \in Connections
         /\ \/ UNCHANGED <<conn, server, connected>>
            \/ LET c == central.conn IN
               /\ \A d \in Connections : d # c => Keeps(d)
               /\ \A d \in Connections : conn'[d].auth = conn[d].auth
               /\ conn'[c].life = conn[c].life /\ conn'[c].listed = conn[c].listed
               /\ conn'[c].session = conn[c].session /\ conn'[c].pdcs = conn[c].pdcs
               /\ conn'[c].phids = conn[c].phids \ {central.phid}
               /\ server' = [server EXCEPT ![central.phid] = None]
               /\ user[central.phid] # "notify"
<1>1. /\ conn = [k \in Connections |-> conn[k]]
      /\ central.phid \in active /\ central.conn \in Connections
  BY Functions DEF ConnectListens, CentralInv
<1>2. \/ UNCHANGED <<conn, server, connected>>
      \/ /\ conn' = [conn EXCEPT ![central.conn].phids = @ \ {central.phid}]
         /\ server' = [server EXCEPT ![central.phid] = None]
         /\ user[central.phid] # "notify"
  BY DEF ConnectListens, PhidLocked
<1>3. ASSUME conn' = [conn EXCEPT ![central.conn].phids = @ \ {central.phid}]
      PROVE  LET c == central.conn IN
             /\ \A d \in Connections : d # c => Keeps(d)
             /\ \A d \in Connections : conn'[d].auth = conn[d].auth
             /\ conn'[c].life = conn[c].life /\ conn'[c].listed = conn[c].listed
             /\ conn'[c].session = conn[c].session /\ conn'[c].pdcs = conn[c].pdcs
             /\ conn'[c].phids = conn[c].phids \ {central.phid}
  BY <1>1, <1>3, Records DEF Keeps, CServerInfo
<1>4. QED
  BY <1>1, <1>2, <1>3

\* The server that is freed.
LEMMA Freed ==
  ASSUME TypeOK, NEW c \in Connections, CleanupFreesServer(c)
  PROVE  /\ \A d \in Connections : d # c => Keeps(d) /\ conn'[d] = conn[d]
         /\ conn'[c].life = "freed" /\ ~conn'[c].listed /\ ~conn'[c].pdcs
         /\ conn'[c].phids = {} /\ conn'[c].auth = "none"
         /\ ~conn[c].pdcs => conn'[c].session = conn[c].session
<1>1. /\ conn = [k \in Connections |-> conn[k]] /\ conn[c] \in CServerInfo
  BY Functions, Records
<1> DEFINE s == IF conn[c].pdcs THEN "freed" ELSE conn[c].session
<1>2. /\ conn'[c] = [NoConn EXCEPT !.life = "freed", !.session = s]
      /\ \A d \in Connections : d # c => conn'[d] = conn[d]
  BY <1>1 DEF CleanupFreesServer
<1>3. ~conn[c].pdcs => s = conn[c].session
  BY <1>1
<1> HIDE DEF s
<1>4. QED
  BY <1>2, <1>3 DEF NoConn, NewConn, Keeps

\* The failed handles leave the list.
LEMMA Unlisted ==
  ASSUME TypeOK, NEW c \in Connections, AuthUnlocks(c)
  PROVE  /\ \A d \in Connections : d # c => Keeps(d)
         /\ \A d \in Connections : conn'[d].auth = conn[d].auth
         /\ conn'[c].life = conn[c].life /\ conn'[c].listed = conn[c].listed
         /\ conn'[c].session = conn[c].session /\ conn'[c].pdcs = conn[c].pdcs
         /\ conn'[c].phids = conn[c].phids \ authT[c].failed
BY Functions, Records DEF AuthUnlocks, Keeps, CServerInfo
-----------------------------------------------------------------------------
(* The invariants of the servers and their lists.                           *)

\* The handles that are open, and those that have no server.
HandleInv ==
    \A h \in Handles :
        /\ h \in active <=> user[h] \in {"opening", "open", "notify", "unregister"}
        /\ user[h] \in {"closed", "free", "joinCentral"} => server[h] = None
        /\ user[h] = "join" => server[h] # None

\* The handles the authorization thread has found not to listen, and those it
\* still has to look at, are in the list.
Dropped(c) == IF authT[c].pc \in {"phids", "listen"} THEN authT[c].failed ELSE {}
ListenInv ==
    \A c \in Connections :
        /\ authT[c].pc \in {"none", "start", "reports"} => authT[c].failed = {}
        /\ authT[c].pc \in {"phids", "listen"} =>
               /\ authT[c].todo \cup authT[c].failed \subseteq conn[c].phids
               /\ authT[c].todo \cap authT[c].failed = {}
        /\ authT[c].pc = "listen" =>
               /\ authT[c].phid \in conn[c].phids \ authT[c].failed
               /\ authT[c].phid \notin authT[c].todo

\* A server lists the handles that refer to it, and those without an error
\* handler that have failed to listen; the error thread takes the pointers away
\* before it empties the list.
ListInv ==
    \A c \in Connections, h \in Handles :
        /\ server[h] = c /\ user[h] # "join" => h \in conn[c].phids \ Dropped(c)
        /\ h \in conn[c].phids \ Dropped(c) =>
               \/ server[h] = c /\ user[h] # "join"
               \/ server[h] = None /\ (h \notin Handled \/ errT[c].pc = "phids")

\* The handle the central thread lets listen has its server.
ListenServer == central.pc = "listen" => server[central.phid] = central.conn

\* What is left of a server.
ConnInv ==
    \A c \in Connections :
        /\ conn[c].listed <=> conn[c].life = "alive"
        /\ reader[c] \notin {"none", "done"} <=> conn[c].life = "alive"
        /\ reader[c] = "none" <=> conn[c].life = "none"
        /\ conn[c].phids # {} \/ conn[c].pdcs => conn[c].life = "alive"
        /\ conn[c].life = "alive" => conn[c].session = "live"

LEMMA ConnInvStep ==
  ASSUME TypeOK, CentralInv, HandleInv, ConnInv, [Next]_vars
  PROVE  ConnInv'
<1>1. /\ ConnInv /\ reader = [c \in Connections |-> reader[c]]
      /\ \A c \in Connections :
            reader[c] \in {"none", "read", "authThread", "errorThread", "lock", "flags",
                           "handlers", "done"}
  BY Functions, TypeParts DEF ReaderTypes
<1>2. ASSUME UNCHANGED reader, \A d \in Connections : Keeps(d) PROVE ConnInv'
  BY <1>1, <1>2 DEF ConnInv, Keeps
<1>3. ASSUME UNCHANGED <<reader, conn>> PROVE ConnInv'
  BY <1>1, <1>3 DEF ConnInv
<1>4. ASSUME NEW c \in Connections, Joined(c), FreesSession(c), UNCHANGED reader PROVE ConnInv'
  BY <1>1, <1>4, SessionFreed DEF ConnInv, Keeps, Joined
<1>5. ASSUME NEW h \in Handles, DisconnectRemoteObject(h)
      PROVE  ConnInv'
  <2>1. UNCHANGED reader
    BY <1>5 DEF DisconnectRemoteObject
  <2>2. CASE server[h] \in Servers /\ h \in conn[server[h]].phids
    <3> DEFINE c == server[h]
    <3>1. /\ c \in Connections /\ \A d \in Connections : d # c => Keeps(d)
          /\ conn'[c].life = conn[c].life /\ conn'[c].listed = conn[c].listed
          /\ conn'[c].session = conn[c].session /\ conn[c].phids # {}
      BY <1>5, <2>2, Disconnected
    <3>2. QED
      BY <1>1, <2>1, <3>1 DEF ConnInv, Keeps
  <2>3. CASE ~(server[h] \in Servers /\ h \in conn[server[h]].phids)
    BY <1>5, <1>3, <2>1, <2>3, NotDisconnected
  <2>4. QED
    BY <2>2, <2>3
<1>6. ASSUME NEW h \in Handles, JoinsReadThread(h)
      PROVE  ConnInv'
  BY <1>6, <1>4, TypeParts DEF JoinsReadThread, HandleInv, HandleTypes
<1>7. CASE MonitorJoins
  BY <1>7, <1>4 DEF MonitorJoins, CentralInv
<1>8. ASSUME NEW c \in Connections, ErrorJoins(c)
      PROVE  ConnInv'
  BY <1>8, <1>4 DEF ErrorJoins
<1>9. CASE \/ Authorize \/ MonitorHeartbeats
  <2>1. UNCHANGED reader
    BY <1>9 DEF Authorize, MonitorHeartbeats
  <2>2. QED
    BY <1>9, <1>2, <2>1, Quiet
<1>10. ASSUME NEW c \in Connections,
              \/ Heartbeat(c) \/ AuthorizationReply(c)
              \/ AuthEnablesReports(c) \/ PeerFails(c)
       PROVE  ConnInv'
  <2>1. UNCHANGED reader
    BY <1>10 DEF Heartbeat, AuthorizationReply, AuthEnablesReports, PeerFails
  <2>2. QED
    BY <1>10, <1>2, <2>1, Quiet
<1>11. ASSUME NEW c \in Connections,
              \/ SessionEnds(c) \/ CleanupClearsFlags(c)
       PROVE  ConnInv'
  <2>1. \/ reader[c] = "read" /\ reader' = [reader EXCEPT ![c] = "authThread"]
        \/ reader[c] = "flags" /\ reader' = [reader EXCEPT ![c] = "handlers"]
    BY <1>11 DEF SessionEnds, CleanupClearsFlags
  <2>2. \A d \in Connections : Keeps(d)
    BY <1>11, Quiet
  <2>3. QED
    BY <1>11, <1>1, <2>1, <2>2 DEF ConnInv, Keeps
<1>12. CASE ConnectFound
  <2>1. UNCHANGED reader
    BY <1>12 DEF ConnectFound
  <2>2. PICK c \in Servers :
            /\ \A d \in Connections : d # c => Keeps(d)
            /\ conn'[c].life = conn[c].life /\ conn'[c].listed = conn[c].listed
            /\ conn'[c].session = conn[c].session /\ conn'[c].pdcs = conn[c].pdcs
    BY <1>12, Found
  <2>3. QED
    BY <1>1, <2>1, <2>2 DEF ConnInv, Keeps, Servers
<1>13. CASE ConnectListens
  <2>1. UNCHANGED reader
    BY <1>13 DEF ConnectListens
  <2>2. CASE UNCHANGED conn
    BY <1>3, <2>1, <2>2
  <2>3. CASE ~UNCHANGED conn
    BY <1>13, <1>1, <2>1, <2>3, Listened DEF ConnInv, Keeps
  <2>4. QED
    BY <2>2, <2>3
<1>14. CASE ConnectNew
  BY <1>14, <1>1, Connected DEF ConnInv, Keeps
<1>15. ASSUME NEW c \in Connections, HeartbeatTimesOut(c)
       PROVE  ConnInv'
  <2>1. UNCHANGED reader
    BY <1>15 DEF HeartbeatTimesOut
  <2>2. /\ \A d \in Connections : d # c => Keeps(d)
        /\ conn'[c].life = conn[c].life /\ conn'[c].listed = conn[c].listed
        /\ conn'[c].phids = conn[c].phids /\ conn'[c].session = conn[c].session
        /\ ~conn'[c].pdcs
    BY <1>15, TimedOut
  <2>3. QED
    BY <1>1, <2>1, <2>2 DEF ConnInv, Keeps
<1>16. ASSUME NEW c \in Connections,
              \/ WaitsForThreads(c) \/ CleanupLocks(c)
       PROVE  ConnInv'
  <2>1. /\ UNCHANGED conn
        /\ \/ reader[c] = "authThread" /\ reader' = [reader EXCEPT ![c] = "errorThread"]
           \/ reader[c] = "errorThread" /\ reader' = [reader EXCEPT ![c] = "lock"]
           \/ reader[c] = "lock" /\ reader' = [reader EXCEPT ![c] = "flags"]
    BY <1>16 DEF WaitsForThreads, CleanupLocks
  <2>2. QED
    BY <1>16, <1>1, <2>1 DEF ConnInv
<1>17. ASSUME NEW c \in Connections, CleanupFreesServer(c)
       PROVE  ConnInv'
  <2>1. reader' = [reader EXCEPT ![c] = "done"]
    BY <1>17 DEF CleanupFreesServer
  <2>2. QED
    BY <1>17, <1>1, <2>1, Freed DEF ConnInv, Keeps
<1>18. ASSUME NEW c \in Connections, AuthUnlocks(c)
       PROVE  ConnInv'
  <2>1. UNCHANGED reader
    BY <1>18 DEF AuthUnlocks
  <2>2. QED
    BY <1>18, <1>1, <2>1, Unlisted DEF ConnInv, Keeps
<1>19. ASSUME NEW c \in Connections, ErrorClosesServer(c)
       PROVE  ConnInv'
  <2>1. UNCHANGED reader
    BY <1>19 DEF ErrorClosesServer
  <2>2. QED
    BY <1>19, <1>1, <2>1, ErrorCloses DEF ConnInv, Keeps
<1>20. ASSUME NEW h \in Handles,
              \/ Open(h) \/ StartCentralRemoteThread(h) \/ Close(h)
              \/ TellsServer(h) \/ Unregister(h) \/ LocksServerLock(h)
              \/ FreeNetworkInfo(h) \/ JoinCentralRemoteThread(h)
       PROVE  ConnInv'
  BY <1>20, <1>3
     DEF Open, StartCentralRemoteThread, Close, TellsServer, Unregister,
         LocksServerLock, FreeNetworkInfo, JoinCentralRemoteThread
<1>21. CASE \/ LoopTest \/ FindActiveRemoteDevices \/ CentralLocks
            \/ ErrorEvent \/ MonitorLocks \/ ConnectFails \/ ConnectTwice
  BY <1>21, <1>3
     DEF LoopTest, FindActiveRemoteDevices, CentralLocks, ErrorEvent,
         MonitorLocks, ConnectFails, ConnectTwice, CentralUnlocks
<1>22. ASSUME NEW c \in Connections,
              \/ AuthStarts(c) \/ AuthMarksPhidget(c) \/ AuthListens(c)
              \/ AuthTells(c) \/ ErrorTells(c)
              \/ ErrorLocks(c) \/ ErrorMarksPhidget(c) \/ ErrorForgetsServer(c)
       PROVE  ConnInv'
  BY <1>22, <1>3
     DEF AuthStarts, AuthMarksPhidget, AuthListens, AuthTells, ErrorTells,
         ErrorLocks, ErrorMarksPhidget, ErrorForgetsServer
<1>23. CASE UNCHANGED vars
  BY <1>23, <1>3
     DEF vars
<1>24. QED
  BY Zenon, <1>5, <1>6, <1>7, <1>8, <1>9, <1>10, <1>11, <1>12, <1>13, <1>14, <1>15,
     <1>16, <1>17, <1>18, <1>19, <1>20, <1>21, <1>22, <1>23
     DEF Next, UserEnds, CentralStep, ReaderEnds, AuthStep, ErrorStep

\* There is one server at a time.
OneInv == \A c, d \in Connections : conn[c].listed /\ conn[d].listed => c = d

LEMMA OneInvStep ==
  ASSUME TypeOK, CentralInv, HandleInv, OneInv, [Next]_vars
  PROVE  OneInv'
<1>1. OneInv
  OBVIOUS
<1>2. ASSUME \A d \in Connections : conn'[d].listed => conn[d].listed PROVE OneInv'
  BY <1>1, <1>2 DEF OneInv
<1>3. ASSUME UNCHANGED conn PROVE OneInv'
  BY <1>1, <1>3 DEF OneInv
<1>4. ASSUME \A d \in Connections : Keeps(d) PROVE OneInv'
  BY <1>2, <1>4 DEF Keeps
<1>5. ASSUME NEW c \in Connections, FreesSession(c) PROVE OneInv'
  BY <1>2, <1>5, SessionFreed DEF Keeps
<1>6. ASSUME NEW h \in Handles, DisconnectRemoteObject(h)
      PROVE  OneInv'
  BY <1>6, <1>2, <1>3, Disconnected, NotDisconnected DEF Keeps
<1>7. ASSUME NEW h \in Handles, JoinsReadThread(h)
      PROVE  OneInv'
  BY <1>7, <1>5, TypeParts DEF JoinsReadThread, HandleInv, HandleTypes
<1>8. CASE MonitorJoins
  BY <1>8, <1>5 DEF MonitorJoins, CentralInv
<1>9. ASSUME NEW c \in Connections, ErrorJoins(c)
      PROVE  OneInv'
  BY <1>9, <1>5 DEF ErrorJoins
<1>10. CASE \/ Authorize \/ MonitorHeartbeats
  BY <1>10, <1>4, Quiet
<1>11. ASSUME NEW c \in Connections,
              \/ Heartbeat(c) \/ AuthorizationReply(c)
              \/ AuthEnablesReports(c) \/ PeerFails(c) \/ SessionEnds(c)
              \/ CleanupClearsFlags(c)
       PROVE  OneInv'
  BY <1>11, <1>4, Quiet
<1>12. CASE ConnectFound
  <2>1. PICK c \in Servers : /\ \A d \in Connections : d # c => Keeps(d)
                             /\ conn'[c].listed = conn[c].listed
    BY <1>12, Found
  <2>2. QED
    BY <1>2, <2>1 DEF Keeps
<1>13. CASE ConnectListens
  <2>1. CASE UNCHANGED conn
    BY <1>3, <2>1
  <2>2. CASE ~UNCHANGED conn
    BY <1>13, <1>2, <2>2, Listened DEF Keeps
  <2>3. QED
    BY <2>1, <2>2
<1>14. CASE ConnectNew
  BY <1>14, <1>1, Connected DEF OneInv, Keeps, Servers
<1>15. ASSUME NEW c \in Connections, HeartbeatTimesOut(c)
       PROVE  OneInv'
  BY <1>15, <1>2, TimedOut DEF Keeps
<1>16. ASSUME NEW c \in Connections, CleanupFreesServer(c)
       PROVE  OneInv'
  BY <1>16, <1>2, Freed DEF Keeps
<1>17. ASSUME NEW c \in Connections, AuthUnlocks(c)
       PROVE  OneInv'
  BY <1>17, <1>2, Unlisted DEF Keeps
<1>18. ASSUME NEW c \in Connections, ErrorClosesServer(c)
       PROVE  OneInv'
  BY <1>18, <1>2, ErrorCloses DEF Keeps
<1>19. ASSUME NEW h \in Handles,
              \/ Open(h) \/ StartCentralRemoteThread(h) \/ Close(h)
              \/ TellsServer(h) \/ Unregister(h) \/ LocksServerLock(h)
              \/ FreeNetworkInfo(h) \/ JoinCentralRemoteThread(h)
       PROVE  OneInv'
  BY <1>19, <1>3
     DEF Open, StartCentralRemoteThread, Close, TellsServer, Unregister,
         LocksServerLock, FreeNetworkInfo, JoinCentralRemoteThread
<1>20. CASE \/ LoopTest \/ FindActiveRemoteDevices \/ CentralLocks
            \/ ErrorEvent \/ MonitorLocks \/ ConnectFails \/ ConnectTwice
  BY <1>20, <1>3
     DEF LoopTest, FindActiveRemoteDevices, CentralLocks, ErrorEvent,
         MonitorLocks, ConnectFails, ConnectTwice, CentralUnlocks
<1>21. ASSUME NEW c \in Connections,
              \/ WaitsForThreads(c) \/ CleanupLocks(c) \/ AuthStarts(c)
              \/ AuthMarksPhidget(c) \/ AuthListens(c) \/ AuthTells(c)
              \/ ErrorTells(c)
              \/ ErrorLocks(c) \/ ErrorMarksPhidget(c) \/ ErrorForgetsServer(c)
       PROVE  OneInv'
  BY <1>21, <1>3
     DEF WaitsForThreads, CleanupLocks, AuthStarts, AuthMarksPhidget,
         AuthListens, AuthTells, ErrorTells,
         ErrorLocks, ErrorMarksPhidget, ErrorForgetsServer
<1>22. CASE UNCHANGED vars
  BY <1>22, <1>3
     DEF vars
<1>23. QED
  BY Zenon, <1>6, <1>7, <1>8, <1>9, <1>10, <1>11, <1>12, <1>13, <1>14, <1>15, <1>16,
     <1>17, <1>18, <1>19, <1>20, <1>21, <1>22
     DEF Next, UserEnds, CentralStep, ReaderEnds, AuthStep, ErrorStep

LEMMA HandleInvStep ==
  ASSUME TypeOK, CentralInv, LockInv, HandleInv, ListInv, ConnInv, ListenInv, [Next]_vars
  PROVE  HandleInv'
<1>1. /\ HandleInv /\ active \subseteq Handles /\ None \notin Connections
      /\ user = [h \in Handles |-> user[h]] /\ server = [h \in Handles |-> server[h]]
  BY Functions, NoneAssumption DEF TypeOK
<1>2. ASSUME UNCHANGED <<active, user, server>> PROVE HandleInv'
  BY <1>1, <1>2 DEF HandleInv
<1>3. ASSUME NEW h \in Handles, NEW c \in Connections, h \in conn[c].phids \ Dropped(c)
      PROVE  user[h] # "join"
  BY <1>3 DEF ListInv, HandleInv
<1>4. ASSUME NEW h \in Handles, Open(h)
      PROVE  HandleInv'
  BY <1>4, <1>1
     DEF Open, HandleInv
<1>5. ASSUME NEW h \in Handles, StartCentralRemoteThread(h)
      PROVE  HandleInv'
  BY <1>5, <1>1
     DEF StartCentralRemoteThread, HandleInv
<1>6. ASSUME NEW h \in Handles,
             \/ Close(h) \/ TellsServer(h)
      PROVE  HandleInv'
  BY <1>6, <1>1
     DEF Close, TellsServer, HandleInv
<1>7. ASSUME NEW h \in Handles, Unregister(h)
      PROVE  HandleInv'
  BY <1>7, <1>1
     DEF Unregister, HandleInv
<1>8. ASSUME NEW h \in Handles, LocksServerLock(h)
      PROVE  HandleInv'
  BY <1>8, <1>1
     DEF LocksServerLock, HandleInv
<1>9. ASSUME NEW h \in Handles, DisconnectRemoteObject(h)
      PROVE  HandleInv'
  <2>1. UNCHANGED active /\ user[h] = "disconnect"
    BY <1>9 DEF DisconnectRemoteObject
  <2>2. CASE server[h] \in Servers /\ h \in conn[server[h]].phids
    BY <1>9, <1>1, <2>1, <2>2, Disconnected DEF HandleInv
  <2>3. CASE ~(server[h] \in Servers /\ h \in conn[server[h]].phids)
    <3>1. ASSUME server[h] # None PROVE FALSE
      <4>1. server[h] \in Connections
        BY <3>1, TypeParts DEF HandleTypes
      <4>2. h \in conn[server[h]].phids
        BY <2>1, <4>1 DEF ListInv
      <4>3. QED
        BY <2>3, <4>1, <4>2 DEF ConnInv, Servers
    <3>2. QED
      BY <1>9, <1>1, <2>1, <2>3, <3>1, NotDisconnected DEF HandleInv
  <2>4. QED
    BY <2>2, <2>3
<1>10. ASSUME NEW h \in Handles, JoinsReadThread(h)
       PROVE  HandleInv'
  BY <1>10, <1>1
     DEF JoinsReadThread, Joined, FreesSession, HandleInv
<1>11. ASSUME NEW h \in Handles,
              \/ FreeNetworkInfo(h) \/ JoinCentralRemoteThread(h)
       PROVE  HandleInv'
  BY <1>11, <1>1
     DEF FreeNetworkInfo, JoinCentralRemoteThread, HandleInv
<1>12. CASE ConnectFound
  <2>1. UNCHANGED <<active, user>>
    BY <1>12 DEF ConnectFound
  <2>2. PICK c \in Servers : server' = [server EXCEPT ![central.phid] = c]
    BY <1>12, Found
  <2>3. central.phid \in active
    BY <1>12, Found
  <2>4. QED
    BY <1>1, <2>1, <2>2, <2>3 DEF HandleInv
<1>13. CASE ConnectListens
  <2>1. UNCHANGED <<active, user>>
    BY <1>13 DEF ConnectListens
  <2>2. \/ UNCHANGED server
        \/ server' = [server EXCEPT ![central.phid] = None]
    BY <1>13, Listened
  <2>3. central.phid \in active
    BY <1>13, Listened
  <2>4. QED
    BY <1>1, <1>2, <2>1, <2>2, <2>3 DEF HandleInv
<1>14. CASE ConnectNew
  <2>1. PICK c \in Connections : server' = [server EXCEPT ![central.phid] = c]
    BY <1>14, Connected
  <2>2. central.phid \in active /\ UNCHANGED <<active, user>>
    BY <1>14, Connected DEF ConnectNew
  <2>3. QED
    BY <1>1, <2>1, <2>2 DEF HandleInv
<1>15. CASE ConnectFails \/ ConnectTwice
  <2>1. server' = server /\ UNCHANGED <<active, user>>
    BY <1>15, <1>1 DEF ConnectFails, ConnectTwice, CentralInv
  <2>2. QED
    BY <1>2, <2>1
<1>16. ASSUME NEW c \in Connections, CleanupFreesServer(c)
       PROVE  HandleInv'
  <2>1. Dropped(c) = {}
    BY <1>16 DEF CleanupFreesServer, LockInv, ReaderLocked, AuthLocks, AuthLocked, Dropped
  <2>2. QED
    BY <1>16, <1>1, <1>3, <2>1 DEF CleanupFreesServer, HandleInv
<1>17. ASSUME NEW c \in Connections, AuthListens(c)
       PROVE  HandleInv'
  <2>1. CASE UNCHANGED server
    BY <1>17, <1>2, <2>1 DEF AuthListens
  <2>2. CASE ~UNCHANGED server
    <3>1. authT[c].phid \in conn[c].phids \ Dropped(c) /\ authT[c].phid \in Handles
      BY <1>17, Records DEF AuthListens, ListenInv, Dropped, CServerInfo
    <3>2. QED
      BY <1>17, <1>1, <1>3, <2>2, <3>1 DEF AuthListens, HandleInv
  <2>3. QED
    BY <2>1, <2>2
<1>18. ASSUME NEW c \in Connections, ErrorForgetsServer(c)
       PROVE  HandleInv'
  <2>1. Dropped(c) = {}
    BY <1>18
       DEF ErrorForgetsServer, LockInv, ErrorLocked, AuthLocks, AuthLocked, Dropped
  <2>2. PICK h \in conn[c].phids : server' = [server EXCEPT ![h] = None]
    BY <1>18 DEF ErrorForgetsServer
  <2>3. h \in Handles
    BY <2>2, Records DEF CServerInfo
  <2>4. QED
    BY <1>18, <1>1, <1>3, <2>1, <2>2, <2>3 DEF ErrorForgetsServer, HandleInv
<1>19. CASE \/ LoopTest \/ FindActiveRemoteDevices \/ CentralLocks
            \/ ErrorEvent \/ MonitorLocks \/ MonitorHeartbeats \/ Authorize
            \/ MonitorJoins
  BY <1>19, <1>2
     DEF LoopTest, FindActiveRemoteDevices, CentralLocks, ErrorEvent,
         MonitorLocks, MonitorHeartbeats, CentralUnlocks, Authorize,
         StartsErrorThread, MonitorJoins, Joined, FreesSession
<1>20. ASSUME NEW c \in Connections,
              \/ HeartbeatTimesOut(c) \/ Heartbeat(c) \/ WaitsForThreads(c)
              \/ CleanupLocks(c) \/ CleanupClearsFlags(c)
              \/ AuthorizationReply(c) \/ SessionEnds(c) \/ AuthStarts(c)
              \/ AuthMarksPhidget(c) \/ AuthUnlocks(c) \/ AuthTells(c)
              \/ AuthEnablesReports(c) \/ ErrorTells(c) \/ PeerFails(c)
              \/ ErrorJoins(c) \/ ErrorLocks(c) \/ ErrorMarksPhidget(c)
              \/ ErrorClosesServer(c)
       PROVE  HandleInv'
  BY <1>20, <1>2
     DEF HeartbeatTimesOut, Closes, Heartbeat, WaitsForThreads, CleanupLocks,
         CleanupClearsFlags, AuthorizationReply, StartsErrorThread,
         SessionEnds, AuthStarts, AuthMarksPhidget, AuthUnlocks, AuthTells,
         AuthEnablesReports, ErrorTells, PeerFails, ErrorJoins, ErrorLocks,
         ErrorMarksPhidget, ErrorClosesServer, Joined, FreesSession
<1>21. CASE UNCHANGED vars
  BY <1>21, <1>2
     DEF vars
<1>22. QED
  BY Zenon, <1>4, <1>5, <1>6, <1>7, <1>8, <1>9, <1>10, <1>11, <1>12, <1>13, <1>14,
     <1>15, <1>16, <1>17, <1>18, <1>19, <1>20, <1>21
     DEF Next, UserEnds, CentralStep, ReaderEnds, AuthStep, ErrorStep
\* The end of an authorization is told once: who may still tell it, and how often
\* it has been told.
OnceInv ==
    \A c \in Connections :
        /\ errT[c].starts <= 1
        /\ errT[c].starts = 0 => errT[c].pc = "none"
        /\ conn[c].life = "none" =>
               /\ errT[c].starts = 0 /\ conn[c].auth = "none"
               /\ authT[c].pc = "none" /\ errT[c].pc = "none"
        /\ central.pc = "authorize" /\ central.conn = c =>
               /\ errT[c].starts = 0 /\ conn[c].auth = "none"
               /\ authT[c].pc = "none" /\ conn[c].life # "none"
        /\ conn[c].auth = "pending" => errT[c].starts = 0 /\ authT[c].pc = "none"
        /\ authT[c].pc \in {"start", "reports"} => errT[c].starts = 0

\* What the steps do to the authorization thread of c.
LEMMA AuthChanges ==
  ASSUME TypeOK, NEW c \in Connections, NEW r, authT' = [authT EXCEPT ![c] = r]
  PROVE  authT'[c] = r /\ \A d \in Connections : d # c => authT'[d] = authT[d]
BY Functions

LEMMA Replies ==
  ASSUME TypeOK, NEW c \in Connections, AuthorizationReply(c)
  PROVE  /\ \A d \in Connections : d # c => authT'[d] = authT[d]
         /\ \/ /\ authT'[c].pc = "start" /\ authT'[c].run
               /\ authT'[c].failed = authT[c].failed /\ UNCHANGED errT
            \/ UNCHANGED authT /\ StartsErrorThread(c, "reader")
<1> DEFINE r == [authT[c] EXCEPT !.pc = "start", !.run = TRUE]
<1>1. r.pc = "start" /\ r.run /\ r.failed = authT[c].failed
  BY Records DEF AuthThread
<1>2. \/ authT' = [authT EXCEPT ![c] = r] /\ UNCHANGED errT
      \/ UNCHANGED authT /\ StartsErrorThread(c, "reader")
  BY DEF AuthorizationReply
<1> HIDE DEF r
<1>3. QED
  BY <1>1, <1>2, AuthChanges

LEMMA Starts ==
  ASSUME TypeOK, NEW c \in Connections, AuthStarts(c)
  PROVE  /\ \A d \in Connections : d # c => authT'[d] = authT[d]
         /\ \/ /\ conn[c].pdcs /\ serverLock' = "auth"
               /\ authT'[c].pc = "reports" /\ authT'[c].run = authT[c].run
               /\ authT'[c].failed = authT[c].failed
            \/ authT'[c] = NoThread /\ UNCHANGED serverLock
<1> DEFINE r == [authT[c] EXCEPT !.pc = "reports"]
<1>1. r.pc = "reports" /\ r.run = authT[c].run /\ r.failed = authT[c].failed
  BY Records DEF AuthThread
<1>2. \/ authT' = [authT EXCEPT ![c] = r] /\ conn[c].pdcs /\ serverLock' = "auth"
      \/ authT' = [authT EXCEPT ![c] = NoThread] /\ UNCHANGED serverLock
  BY Functions DEF AuthStarts
<1> HIDE DEF r
<1>3. QED
  BY <1>1, <1>2, AuthChanges

LEMMA EnablesReports ==
  ASSUME TypeOK, NEW c \in Connections, AuthEnablesReports(c)
  PROVE  /\ \A d \in Connections : d # c => authT'[d] = authT[d]
         /\ \/ /\ authT'[c].pc = "phids" /\ authT'[c].run = authT[c].run
               /\ authT'[c].todo = conn[c].phids
               /\ authT'[c].failed = authT[c].failed /\ UNCHANGED errT
            \/ authT'[c] = NoThread /\ StartsErrorThread(c, "auth")
<1> DEFINE r == [authT[c] EXCEPT !.pc = "phids", !.todo = conn[c].phids]
<1>1. /\ r.pc = "phids" /\ r.run = authT[c].run /\ r.failed = authT[c].failed
      /\ r.todo = conn[c].phids
  BY Records DEF AuthThread
<1>2. \/ authT' = [authT EXCEPT ![c] = r] /\ UNCHANGED errT
      \/ authT' = [authT EXCEPT ![c] = NoThread] /\ StartsErrorThread(c, "auth")
  BY Functions DEF AuthEnablesReports
<1> HIDE DEF r
<1>3. QED
  BY <1>1, <1>2, AuthChanges

LEMMA Marks ==
  ASSUME TypeOK, NEW c \in Connections, AuthMarksPhidget(c)
  PROVE  \E h \in authT[c].todo :
         /\ h \in Handles /\ user[h] # "notify"
         /\ connected' = [connected EXCEPT ![h] = TRUE]
         /\ \A d \in Connections : d # c => authT'[d] = authT[d]
         /\ authT'[c].pc = "listen" /\ authT'[c].run = authT[c].run
         /\ authT'[c].phid = h /\ authT'[c].todo = authT[c].todo \ {h}
         /\ authT'[c].failed = authT[c].failed
<1>1. PICK h \in authT[c].todo :
         /\ user[h] # "notify" /\ connected' = [connected EXCEPT ![h] = TRUE]
         /\ authT' = [authT EXCEPT ![c] = [authT[c] EXCEPT !.pc = "listen", !.phid = h,
                                                           !.todo = @ \ {h}]]
  BY Functions DEF AuthMarksPhidget, PhidLocked
<1> DEFINE r == [authT[c] EXCEPT !.pc = "listen", !.phid = h, !.todo = @ \ {h}]
<1>2. /\ h \in Handles /\ r.pc = "listen" /\ r.run = authT[c].run /\ r.failed = authT[c].failed
      /\ r.todo = authT[c].todo \ {h} /\ r.phid = h
  BY Records DEF AuthThread
<1> HIDE DEF r
<1>3. QED
  BY <1>1, <1>2, AuthChanges DEF r

LEMMA Listens ==
  ASSUME TypeOK, NEW c \in Connections, AuthListens(c)
  PROVE  /\ \A d \in Connections : d # c => authT'[d] = authT[d]
         /\ authT'[c].pc = "phids" /\ authT'[c].run = authT[c].run
         /\ authT'[c].todo = authT[c].todo
         /\ \/ /\ authT'[c].failed = authT[c].failed
               /\ UNCHANGED <<connected, server>>
            \/ /\ authT'[c].failed = authT[c].failed \cup ({authT[c].phid} \cap Handled)
               /\ user[authT[c].phid] # "notify"
               /\ connected' = [connected EXCEPT ![authT[c].phid] = FALSE]
               /\ server' = [server EXCEPT ![authT[c].phid] = None]
<1> DEFINE r == [authT[c] EXCEPT !.pc = "phids", !.phid = None]
           s == [authT[c] EXCEPT !.pc = "phids", !.phid = None,
                                 !.failed = @ \cup ({authT[c].phid} \cap Handled)]
<1>1. /\ r.pc = "phids" /\ r.run = authT[c].run /\ r.failed = authT[c].failed
      /\ r.todo = authT[c].todo
      /\ s.pc = "phids" /\ s.run = authT[c].run /\ s.todo = authT[c].todo
      /\ s.failed = authT[c].failed \cup ({authT[c].phid} \cap Handled)
  BY Records DEF AuthThread
<1>2. \/ authT' = [authT EXCEPT ![c] = r] /\ UNCHANGED <<connected, server>>
      \/ /\ authT' = [authT EXCEPT ![c] = s] /\ user[authT[c].phid] # "notify"
         /\ connected' = [connected EXCEPT ![authT[c].phid] = FALSE]
         /\ server' = [server EXCEPT ![authT[c].phid] = None]
  BY Functions DEF AuthListens, PhidLocked
<1> HIDE DEF r, s
<1>3. QED
  BY <1>1, <1>2, AuthChanges

LEMMA Unlocks ==
  ASSUME TypeOK, NEW c \in Connections, AuthUnlocks(c) \/ AuthTells(c)
  PROVE  /\ \A d \in Connections : d # c => authT'[d] = authT[d]
         /\ authT'[c].pc = "events" \/ authT'[c] = NoThread
<1> DEFINE r == [authT[c] EXCEPT !.pc = "events", !.run = FALSE]
<1>1. r.pc = "events"
  BY Records DEF AuthThread
<1>2. authT' = [authT EXCEPT ![c] = r] \/ authT' = [authT EXCEPT ![c] = NoThread]
  BY Functions DEF AuthUnlocks, AuthTells
<1> HIDE DEF r
<1>3. QED
  BY <1>1, <1>2, AuthChanges

LEMMA ListenInvStep ==
  ASSUME TypeOK, CentralInv, LockInv, HandleInv, ListenInv, OnceInv, [Next]_vars
  PROVE  ListenInv'
<1>1. ListenInv /\ NoThread.pc = "none" /\ NoThread.failed = {}
  BY DEF NoThread
<1>2. ASSUME UNCHANGED authT, \A d \in Connections : conn'[d].phids = conn[d].phids PROVE ListenInv'
  BY <1>1, <1>2 DEF ListenInv
<1>3. ASSUME UNCHANGED <<authT, conn>> PROVE ListenInv'
  BY <1>1, <1>3 DEF ListenInv
<1>4. ASSUME UNCHANGED authT, \A d \in Connections : authT[d].pc \notin {"phids", "listen"}
      PROVE  ListenInv'
  BY <1>1, <1>4 DEF ListenInv
<1>5. ASSUME serverLock # "auth" PROVE \A d \in Connections : authT[d].pc \notin {"phids", "listen"}
  BY <1>5 DEF LockInv, AuthLocks, AuthLocked
<1>6. ASSUME NEW c \in Connections, FreesSession(c), UNCHANGED authT PROVE ListenInv'
  BY <1>2, <1>6, SessionFreed DEF Keeps
<1>7. ASSUME NEW h \in Handles, DisconnectRemoteObject(h)
      PROVE  ListenInv'
  BY <1>7, <1>4, <1>5 DEF DisconnectRemoteObject, LockInv, UserLocked
<1>8. ASSUME NEW h \in Handles, JoinsReadThread(h)
      PROVE  ListenInv'
  BY <1>8, <1>6, TypeParts DEF JoinsReadThread, HandleInv, HandleTypes
<1>9. CASE MonitorJoins
  BY <1>9, <1>6 DEF MonitorJoins, CentralInv
<1>10. ASSUME NEW c \in Connections, ErrorJoins(c)
       PROVE  ListenInv'
  BY <1>10, <1>6 DEF ErrorJoins
<1>11. CASE \/ Authorize \/ MonitorHeartbeats
  BY <1>11, <1>2, Quiet DEF Authorize, MonitorHeartbeats, Keeps
<1>12. ASSUME NEW c \in Connections,
              \/ Heartbeat(c) \/ PeerFails(c) \/ SessionEnds(c)
              \/ CleanupClearsFlags(c)
       PROVE  ListenInv'
  <2>1. UNCHANGED authT
    BY <1>12 DEF Heartbeat, PeerFails, SessionEnds, CleanupClearsFlags
  <2>2. QED
    BY <1>12, <1>2, <2>1, Quiet DEF Keeps
<1>13. CASE \/ ConnectFound \/ ConnectNew
            \/ ConnectListens \/ ConnectTwice
  BY <1>13, <1>4, <1>5
     DEF ConnectFound, ConnectListens, ConnectTwice, ConnectNew, LockInv,
         CentralLocked
<1>14. ASSUME NEW c \in Connections, HeartbeatTimesOut(c)
       PROVE  ListenInv'
  <2>1. UNCHANGED authT
    BY <1>14 DEF HeartbeatTimesOut
  <2>2. QED
    BY <1>14, <1>2, <2>1, TimedOut DEF Keeps
<1>15. ASSUME NEW c \in Connections, CleanupFreesServer(c)
       PROVE  ListenInv'
  BY <1>15, <1>4, <1>5 DEF CleanupFreesServer, LockInv, ReaderLocked
<1>16. ASSUME NEW c \in Connections, ErrorClosesServer(c)
       PROVE  ListenInv'
  BY <1>16, <1>4, <1>5 DEF ErrorClosesServer, LockInv, ErrorLocked
<1>17. ASSUME NEW c \in Connections, AuthorizationReply(c)
       PROVE  ListenInv'
  <2>1. /\ authT[c].pc = "none" /\ \A d \in Connections : conn'[d].phids = conn[d].phids
    BY <1>17, Quiet DEF AuthorizationReply, OnceInv, Keeps
  <2>2. QED
    BY <1>17, <1>1, <2>1, Replies DEF ListenInv
<1>18. ASSUME NEW c \in Connections, AuthStarts(c)
       PROVE  ListenInv'
  <2>1. UNCHANGED conn /\ authT[c].pc = "start"
    BY <1>18 DEF AuthStarts
  <2>2. QED
    BY <1>18, <1>1, <2>1, Starts DEF ListenInv
<1>19. ASSUME NEW c \in Connections, AuthEnablesReports(c)
       PROVE  ListenInv'
  <2>1. authT[c].pc = "reports" /\ \A d \in Connections : conn'[d].phids = conn[d].phids
    BY <1>19, Quiet DEF AuthEnablesReports, Keeps
  <2>2. QED
    BY <1>19, <1>1, <2>1, EnablesReports DEF ListenInv
<1>20. ASSUME NEW c \in Connections, AuthMarksPhidget(c)
       PROVE  ListenInv'
  <2>1. UNCHANGED conn /\ authT[c].pc = "phids"
    BY <1>20 DEF AuthMarksPhidget
  <2>2. QED
    BY <1>20, <1>1, <2>1, Marks DEF ListenInv
<1>21. ASSUME NEW c \in Connections, AuthListens(c)
       PROVE  ListenInv'
  <2>1. UNCHANGED conn /\ authT[c].pc = "listen"
    BY <1>21 DEF AuthListens
  <2>2. QED
    BY <1>21, <1>1, <2>1, Listens DEF ListenInv
<1>22. ASSUME NEW c \in Connections, AuthUnlocks(c)
       PROVE  ListenInv'
  <2>1. \A d \in Connections : d # c => conn'[d].phids = conn[d].phids
    BY <1>22, Unlisted DEF Keeps
  <2>2. QED
    BY <1>22, <1>1, <2>1, Unlocks DEF ListenInv
<1>23. ASSUME NEW c \in Connections, AuthTells(c)
       PROVE  ListenInv'
  <2>1. UNCHANGED conn
    BY <1>23 DEF AuthTells
  <2>2. QED
    BY <1>23, <1>1, <2>1, Unlocks DEF ListenInv
<1>24. ASSUME NEW h \in Handles,
              \/ Open(h) \/ StartCentralRemoteThread(h) \/ Close(h)
              \/ TellsServer(h) \/ Unregister(h) \/ LocksServerLock(h)
              \/ FreeNetworkInfo(h) \/ JoinCentralRemoteThread(h)
       PROVE  ListenInv'
  BY <1>24, <1>3
     DEF Open, StartCentralRemoteThread, Close, TellsServer, Unregister,
         LocksServerLock, FreeNetworkInfo, JoinCentralRemoteThread
<1>25. CASE \/ LoopTest \/ FindActiveRemoteDevices \/ CentralLocks
            \/ ErrorEvent \/ MonitorLocks \/ ConnectFails
  BY <1>25, <1>3
     DEF LoopTest, FindActiveRemoteDevices, CentralLocks, ErrorEvent,
         MonitorLocks, ConnectFails, CentralUnlocks
<1>26. ASSUME NEW c \in Connections,
              \/ WaitsForThreads(c) \/ CleanupLocks(c) \/ ErrorTells(c)
              \/ ErrorLocks(c) \/ ErrorMarksPhidget(c) \/ ErrorForgetsServer(c)
       PROVE  ListenInv'
  BY <1>26, <1>3
     DEF WaitsForThreads, CleanupLocks, ErrorTells, ErrorLocks, ErrorMarksPhidget,
         ErrorForgetsServer
<1>27. CASE UNCHANGED vars
  BY <1>27, <1>3
     DEF vars
<1>28. QED
  BY Zenon, <1>7, <1>8, <1>9, <1>10, <1>11, <1>12, <1>13, <1>14, <1>15, <1>16,
     <1>17, <1>18, <1>19, <1>20, <1>21, <1>22, <1>23, <1>24, <1>25, <1>26,
     <1>27
     DEF Next, UserEnds, CentralStep, ReaderEnds, AuthStep, ErrorStep

\* What the central thread has in hand while it authorizes, joins or lets a
\* handle listen.
LEMMA CentralHolds ==
  ASSUME TypeOK, [Next]_vars
  PROVE  /\ central'.pc = "authorize" =>
                ConnectNew \/ (central.pc = "authorize" /\ central'.conn = central.conn)
         /\ central'.pc = "beatJoin" =>
                \/ \E c \in Connections : HeartbeatTimesOut(c)
                \/ central.pc = "beatJoin" /\ central'.conn = central.conn
         /\ central'.pc = "listen" =>
                \/ ConnectFound
                \/ /\ central.pc = "listen" /\ central'.conn = central.conn
                   /\ central'.phid = central.phid
<1> DEFINE A == central'.pc = "authorize" => central.pc = "authorize" /\ central'.conn = central.conn
           J == central'.pc = "beatJoin" => central.pc = "beatJoin" /\ central'.conn = central.conn
           L == central'.pc = "listen" => /\ central.pc = "listen" /\ central'.conn = central.conn
                                          /\ central'.phid = central.phid
           R == /\ (ConnectNew \/ A) /\ ((\E c \in Connections : HeartbeatTimesOut(c)) \/ J)
                /\ ConnectFound \/ L
<1>1. central \in [pc : CentralPcs, phid : Handles \cup {None},
                    conn : Connections \cup {None},
                    todo : SUBSET (Handles \cup Connections),
                    run : BOOLEAN, handle : BOOLEAN, inErrorEvent : BOOLEAN]
  BY Central
<1>2. SUFFICES R
  OBVIOUS
<1>3. A /\ J /\ L => R
  OBVIOUS
<1>4. UNCHANGED central => R
  OBVIOUS
<1> HIDE DEF R
<1>5. ASSUME NEW h \in Handles, StartCentralRemoteThread(h)
      PROVE  R
  <2>1. UNCHANGED central \/ central' = [central EXCEPT !.pc = "test", !.run = TRUE, !.handle = TRUE]
    BY <1>5 DEF StartCentralRemoteThread
  <2>2. QED
    BY <1>1, <1>3, <1>4, <2>1
<1>6. ASSUME NEW h \in Handles, JoinCentralRemoteThread(h)
      PROVE  R
  <2>1. central' = [central EXCEPT !.handle = FALSE]
    BY <1>6 DEF JoinCentralRemoteThread
  <2>2. QED
    BY <1>1, <1>3, <2>1
<1>7. CASE \/ LoopTest \/ FindActiveRemoteDevices
  BY <1>7, <1>1, <1>3 DEF LoopTest, FindActiveRemoteDevices
<1>8. CASE \/ CentralLocks \/ ErrorEvent \/ MonitorLocks
  BY <1>8, <1>1, <1>3 DEF CentralLocks, ErrorEvent, MonitorLocks
<1>9. CASE \/ ConnectListens \/ ConnectTwice \/ ConnectFails
  BY <1>9, <1>1, <1>3 DEF ConnectListens, ConnectTwice, ConnectFails
<1>10. CASE ConnectFound
  <2>1. A /\ J
    BY <1>10, <1>1 DEF ConnectFound
  <2>2. QED
    BY <1>10, <2>1 DEF R
<1>11. CASE \/ MonitorHeartbeats \/ MonitorJoins
  BY <1>11, <1>1, <1>3 DEF MonitorHeartbeats, MonitorJoins
<1>12. CASE ConnectNew
  <2>1. J /\ L
    BY <1>12, <1>1 DEF ConnectNew
  <2>2. QED
    BY <1>12, <2>1 DEF R
<1>13. CASE Authorize
  BY <1>13, <1>1, <1>3 DEF Authorize
<1>14. ASSUME NEW c \in Connections, HeartbeatTimesOut(c)
       PROVE  R
  <2>1. A /\ L
    BY <1>14, <1>1 DEF HeartbeatTimesOut
  <2>2. QED
    BY <1>14, <2>1 DEF R
<1>15. ASSUME NEW h \in Handles,
              \/ Open(h) \/ Close(h) \/ TellsServer(h) \/ Unregister(h)
              \/ LocksServerLock(h) \/ DisconnectRemoteObject(h)
              \/ FreeNetworkInfo(h) \/ JoinsReadThread(h)
       PROVE  R
  BY <1>15, <1>4
     DEF Open, Close, TellsServer, Unregister, LocksServerLock,
         DisconnectRemoteObject, FreeNetworkInfo, JoinsReadThread, Joined,
         FreesSession
<1>16. ASSUME NEW c \in Connections,
              \/ Heartbeat(c) \/ WaitsForThreads(c) \/ CleanupLocks(c)
              \/ CleanupClearsFlags(c) \/ CleanupFreesServer(c)
              \/ AuthorizationReply(c) \/ SessionEnds(c) \/ AuthStarts(c)
              \/ AuthMarksPhidget(c) \/ AuthListens(c) \/ AuthUnlocks(c)
              \/ AuthTells(c) \/ AuthEnablesReports(c) \/ ErrorClosesServer(c)
              \/ ErrorTells(c) \/ PeerFails(c) \/ ErrorJoins(c)
              \/ ErrorLocks(c) \/ ErrorMarksPhidget(c) \/ ErrorForgetsServer(c)
       PROVE  R
  BY <1>16, <1>4
     DEF Heartbeat, WaitsForThreads, CleanupLocks, CleanupClearsFlags,
         CleanupFreesServer, AuthorizationReply, StartsErrorThread,
         SessionEnds, AuthStarts, AuthMarksPhidget, AuthListens, AuthUnlocks,
         AuthTells, AuthEnablesReports, ErrorClosesServer, ErrorLocks,
         ErrorMarksPhidget, ErrorForgetsServer, ErrorTells,
         PeerFails, ErrorJoins, Joined, FreesSession
<1>17. CASE UNCHANGED vars
  BY <1>17, <1>4
     DEF vars
<1>18. QED
  BY Zenon, <1>5, <1>6, <1>7, <1>8, <1>9, <1>10, <1>11, <1>12, <1>13, <1>14, <1>15,
     <1>16, <1>17
     DEF Next, UserEnds, CentralStep, ReaderEnds, AuthStep, ErrorStep

LEMMA ListenServerStep ==
  ASSUME TypeOK, CentralInv, LockInv, HandleInv, ListenServer, [Next]_vars
  PROVE  ListenServer'
<1>1. /\ server = [h \in Handles |-> server[h]] /\ active \subseteq Handles
      /\ \A c \in Connections : conn[c].phids \subseteq Handles
  BY Functions, Records DEF TypeOK, CServerInfo
<1>2. CASE ConnectFound
  <2>1. PICK c \in Servers :
           /\ server' = [server EXCEPT ![central.phid] = c]
           /\ \/ central' = [central EXCEPT !.pc = "listen", !.conn = c]
              \/ central' = [central EXCEPT !.pc = "walk", !.phid = None]
    BY <1>2 DEF ConnectFound
  <2>2. central.phid \in Handles
    BY <1>1, <1>2, Found
  <2>3. QED
    BY <1>1, <2>1, <2>2, Central DEF ListenServer
<1>3. SUFFICES ASSUME ~ConnectFound, central'.pc = "listen"
               PROVE  server'[central.phid] = server[central.phid]
  BY <1>2, CentralHolds DEF ListenServer
<1>4. /\ central.pc = "listen" /\ central.phid \in active /\ central.phid \in Handles
      /\ serverLock = "central"
      /\ user[central.phid] \in {"opening", "open", "notify", "unregister"}
  BY <1>1, <1>3, CentralHolds DEF CentralInv, LockInv, CentralLocked, HandleInv
<1> DEFINE Stays == server'[central.phid] = server[central.phid]
<1>5. SUFFICES Stays
  OBVIOUS
<1> HIDE DEF Stays
<1>6. UNCHANGED server => Stays
  BY DEF Stays
<1>7. ASSUME NEW h \in Handles, JoinsReadThread(h) \/ FreeNetworkInfo(h)
      PROVE  Stays
  <2>1. h # central.phid /\ server' = [server EXCEPT ![h] = None]
    BY <1>4, <1>7 DEF JoinsReadThread, FreeNetworkInfo
  <2>2. QED
    BY <1>1, <2>1 DEF Stays
<1>8. ASSUME NEW h \in Handles, DisconnectRemoteObject(h)
      PROVE  Stays
  BY <1>4, <1>8 DEF DisconnectRemoteObject, LockInv, UserLocked
<1>9. CASE ConnectListens \/ ConnectTwice \/ ConnectNew \/ ConnectFails
  BY <1>3, <1>4, <1>9, Central
     DEF Stays, ConnectListens, ConnectTwice, ConnectNew, ConnectFails
<1>10. ASSUME NEW c \in Connections,
             CleanupFreesServer(c) \/ AuthListens(c) \/ ErrorForgetsServer(c)
      PROVE  Stays
  BY <1>4, <1>10
     DEF CleanupFreesServer, AuthListens, ErrorForgetsServer, LockInv,
         ReaderLocked, AuthLocks, AuthLocked, ErrorLocked
<1>11. ASSUME NEW h \in Handles,
              \/ Open(h) \/ StartCentralRemoteThread(h) \/ Close(h)
              \/ TellsServer(h) \/ Unregister(h) \/ LocksServerLock(h)
              \/ JoinCentralRemoteThread(h)
       PROVE  Stays
  BY <1>6, <1>11
     DEF Open, StartCentralRemoteThread, Close, TellsServer, Unregister,
         LocksServerLock, JoinCentralRemoteThread
<1>12. CASE \/ LoopTest \/ FindActiveRemoteDevices \/ CentralLocks
            \/ ErrorEvent \/ MonitorLocks \/ MonitorHeartbeats \/ Authorize
            \/ MonitorJoins
  BY <1>6, <1>12
     DEF LoopTest, FindActiveRemoteDevices, CentralLocks, ErrorEvent,
         MonitorLocks, MonitorHeartbeats, Authorize, MonitorJoins
<1>13. ASSUME NEW c \in Connections,
              \/ HeartbeatTimesOut(c) \/ Heartbeat(c) \/ WaitsForThreads(c)
              \/ CleanupLocks(c) \/ CleanupClearsFlags(c)
              \/ AuthorizationReply(c) \/ SessionEnds(c) \/ AuthStarts(c)
              \/ AuthMarksPhidget(c) \/ AuthUnlocks(c) \/ AuthTells(c)
              \/ AuthEnablesReports(c) \/ ErrorTells(c) \/ PeerFails(c)
              \/ ErrorJoins(c) \/ ErrorLocks(c) \/ ErrorMarksPhidget(c)
              \/ ErrorClosesServer(c)
       PROVE  Stays
  BY <1>6, <1>13
     DEF HeartbeatTimesOut, Heartbeat, WaitsForThreads, CleanupLocks,
         CleanupClearsFlags, AuthorizationReply, SessionEnds, AuthStarts,
         AuthMarksPhidget, AuthUnlocks, AuthTells, AuthEnablesReports,
         ErrorTells, PeerFails, ErrorJoins, ErrorLocks, ErrorMarksPhidget,
         ErrorClosesServer
<1>14. CASE UNCHANGED vars
  BY <1>6, <1>14 DEF vars
<1>15. QED
  BY Zenon, <1>3, <1>7, <1>8, <1>9, <1>10, <1>11, <1>12, <1>13, <1>14
     DEF Next, UserEnds, CentralStep, ReaderEnds, AuthStep, ErrorStep

LEMMA ListInvStep ==
  ASSUME TypeOK, CentralInv, LockInv, HandleInv, ConnInv, OneInv, ListenInv, OnceInv,
         ListenServer, ListInv, [Next]_vars
  PROVE  ListInv'
<1>1. /\ ListInv /\ NoThread.pc = "none" /\ NoThread.failed = {} /\ None \notin Connections
      /\ user = [h \in Handles |-> user[h]] /\ server = [h \in Handles |-> server[h]]
      /\ authT = [c \in Connections |-> authT[c]]
      /\ errT = [c \in Connections |-> errT[c]]
  BY Functions, NoneAssumption DEF NoThread
<1> DEFINE SameLists == \A d \in Connections : conn'[d].phids = conn[d].phids
           SameDropped == \A d \in Connections : Dropped(d)' = Dropped(d)
           SameJoiners == \A g \in Handles : user'[g] = "join" <=> user[g] = "join"
           KeepsErr == \A d \in Connections : errT[d].pc = "phids" => errT'[d].pc = "phids"
<1>2. ASSUME SameLists, SameDropped, UNCHANGED server, SameJoiners, KeepsErr PROVE ListInv'
  BY <1>1, <1>2 DEF ListInv
<1>3. UNCHANGED authT => SameDropped
  BY DEF Dropped
<1>4. UNCHANGED conn => SameLists
  OBVIOUS
<1>5. UNCHANGED user => SameJoiners
  OBVIOUS
<1>6. UNCHANGED errT => KeepsErr
  OBVIOUS
<1>7. ASSUME NEW c \in Connections, NEW who \in {"central", "reader", "auth"},
              StartsErrorThread(c, who), errT[c].starts = 0
       PROVE  KeepsErr
  BY <1>7, ErrStarts, TypeParts DEF OnceInv
<1> HIDE DEF SameLists, SameDropped, SameJoiners, KeepsErr
<1>8. ASSUME NEW c \in Connections, FreesSession(c) PROVE SameLists
  BY <1>8, SessionFreed DEF SameLists, Keeps
<1>9. ASSUME \A d \in Connections : Keeps(d) PROVE SameLists
  BY <1>9 DEF SameLists, Keeps
<1>10. serverLock # "auth" => \A d \in Connections : Dropped(d) = {}
  BY DEF LockInv, AuthLocks, AuthLocked, Dropped
<1>11. serverLock # "error" => \A d \in Connections : errT[d].pc # "phids"
  BY DEF LockInv, ErrorLocked
<1>12. \A c \in Connections : authT[c].pc \in {"phids", "listen"} =>
          \A d \in Connections : d # c => Dropped(d) = {}
  BY DEF LockInv, AuthLocks, AuthLocked, Dropped
<1>13. ASSUME NEW h \in Handles,
              \/ Open(h) \/ StartCentralRemoteThread(h) \/ Close(h)
              \/ TellsServer(h)
       PROVE  ListInv'
  <2>1. SameJoiners
    BY <1>13, <1>1 DEF Open, StartCentralRemoteThread, Close, TellsServer, SameJoiners
  <2>2. QED
    BY <1>13, <1>2, <1>3, <1>4, <1>6, <2>1
       DEF Open, StartCentralRemoteThread, Close, TellsServer
<1>14. ASSUME NEW h \in Handles,
              \/ Unregister(h) \/ LocksServerLock(h)
       PROVE  ListInv'
  <2>1. SameJoiners
    BY <1>14, <1>1 DEF Unregister, LocksServerLock, SameJoiners
  <2>2. QED
    BY <1>14, <1>2, <1>3, <1>4, <1>6, <2>1 DEF Unregister, LocksServerLock
<1>15. ASSUME NEW h \in Handles, JoinCentralRemoteThread(h)
       PROVE  ListInv'
  <2>1. SameJoiners
    BY <1>15, <1>1 DEF JoinCentralRemoteThread, SameJoiners
  <2>2. QED
    BY <1>15, <1>2, <1>3, <1>4, <1>6, <2>1 DEF JoinCentralRemoteThread
<1>16. ASSUME NEW h \in Handles, FreeNetworkInfo(h)
       PROVE  ListInv'
  <2>1. SameJoiners
    BY <1>16, <1>1 DEF FreeNetworkInfo, SameJoiners
  <2>2. UNCHANGED server
    BY <1>16, <1>1 DEF FreeNetworkInfo, HandleInv
  <2>3. QED
    BY <1>16, <1>2, <1>3, <1>4, <1>6, <2>1, <2>2 DEF FreeNetworkInfo
<1>17. ASSUME NEW h \in Handles, DisconnectRemoteObject(h)
       PROVE  ListInv'
  <2>1. /\ SameDropped /\ user[h] = "disconnect"
        /\ \A d \in Connections : Dropped(d) = {} /\ Dropped(d)' = {}
    BY <1>17, <1>3, <1>10 DEF DisconnectRemoteObject, LockInv, UserLocked, SameDropped
  <2>1a. UNCHANGED errT
    BY <1>17 DEF DisconnectRemoteObject
  <2>2. CASE server[h] \in Servers /\ h \in conn[server[h]].phids
    <3> DEFINE c == server[h]
    <3>1. /\ c \in Connections /\ \A d \in Connections : d # c => conn'[d].phids = conn[d].phids
          /\ conn'[c].phids = conn[c].phids \ {h}
          /\ \/ user' = [user EXCEPT ![h] = "join"] /\ UNCHANGED server
             \/ /\ server' = [server EXCEPT ![h] = None]
                /\ user' = [user EXCEPT ![h] = "free"]
      BY <1>17, <2>2, Disconnected DEF Keeps
    <3>2. QED
      BY <1>1, <2>1, <2>1a, <3>1 DEF ListInv
  <2>3. CASE ~(server[h] \in Servers /\ h \in conn[server[h]].phids)
    <3>1. SameJoiners
      BY <1>17, <1>1, <2>1, <2>3, NotDisconnected DEF SameJoiners
    <3>2. QED
      BY <1>17, <1>2, <1>4, <1>6, <2>1, <2>1a, <2>3, <3>1, NotDisconnected
  <2>4. QED
    BY <2>2, <2>3
<1>18. ASSUME NEW h \in Handles, JoinsReadThread(h)
       PROVE  ListInv'
  <2>1. SameLists
    BY <1>18, <1>8, TypeParts DEF JoinsReadThread, HandleInv, HandleTypes
  <2>2. SameDropped /\ user[h] = "join"
    BY <1>18, <1>3 DEF JoinsReadThread
  <2>3. server[h] # None /\ server' = [server EXCEPT ![h] = None]
        /\ user' = [user EXCEPT ![h] = "free"] /\ UNCHANGED errT
    BY <1>18, <2>2 DEF JoinsReadThread, HandleInv
  <2>4. QED
    BY <1>1, <2>1, <2>2, <2>3 DEF ListInv, SameLists, SameDropped
<1>19. CASE MonitorJoins
  <2>1. SameLists
    BY <1>19, <1>8 DEF MonitorJoins, CentralInv
  <2>2. QED
    BY <1>19, <1>2, <1>3, <1>5, <1>6, <2>1 DEF MonitorJoins
<1>20. ASSUME NEW c \in Connections, ErrorJoins(c)
       PROVE  ListInv'
  <2>1. SameLists
    BY <1>20, <1>8 DEF ErrorJoins
  <2>2. KeepsErr
    BY <1>20, <1>1 DEF ErrorJoins, KeepsErr
  <2>3. QED
    BY <1>20, <1>2, <1>3, <1>5, <2>1, <2>2 DEF ErrorJoins
<1>21. CASE MonitorHeartbeats
  <2>1. SameLists
    BY <1>21, <1>9, Quiet
  <2>2. QED
    BY <1>21, <1>2, <1>3, <1>5, <1>6, <2>1 DEF MonitorHeartbeats
<1>22. CASE Authorize
  <2>1. SameLists
    BY <1>22, <1>9, Quiet
  <2>2. central.conn \in Connections /\ errT[central.conn].starts = 0
    BY <1>22 DEF Authorize, CentralInv, OnceInv
  <2>3. KeepsErr
    BY <1>22, <1>6, <1>7, <2>2 DEF Authorize
  <2>4. QED
    BY <1>22, <1>2, <1>3, <1>5, <2>1, <2>3 DEF Authorize
<1>23. ASSUME NEW c \in Connections,
              \/ Heartbeat(c) \/ PeerFails(c) \/ CleanupClearsFlags(c)
       PROVE  ListInv'
  <2>1. SameLists
    BY <1>23, <1>9, Quiet
  <2>2. QED
    BY <1>23, <1>2, <1>3, <1>5, <1>6, <2>1 DEF Heartbeat, PeerFails, CleanupClearsFlags
<1>24. ASSUME NEW c \in Connections, SessionEnds(c)
        PROVE  ListInv'
  <2>1. SameLists
    BY <1>24, <1>9, Quiet
  <2>2. UNCHANGED errT \/ (StartsErrorThread(c, "reader") /\ errT[c].starts = 0)
    <3>1. CASE conn[c].auth = "pending"
      BY <1>24, <3>1 DEF SessionEnds, OnceInv
    <3>2. CASE conn[c].auth # "pending"
      BY <1>24, <3>2 DEF SessionEnds
    <3>3. QED
      BY <3>1, <3>2
  <2>3. KeepsErr
    BY <1>6, <1>7, <2>2
  <2>4. QED
    BY <1>24, <1>2, <1>3, <1>5, <2>1, <2>3 DEF SessionEnds
<1>25. ASSUME NEW c \in Connections,
              \/ AuthorizationReply(c) \/ AuthEnablesReports(c)
       PROVE  ListInv'
  <2>1. SameLists
    BY <1>25, <1>9, Quiet
  <2>2. authT[c].pc \in {"none", "reports"}
    BY <1>25 DEF AuthorizationReply, AuthEnablesReports, OnceInv
  <2>3. \A d \in Connections : d # c => authT'[d] = authT[d]
    BY <1>25, Replies, EnablesReports
  <2>4. authT[c].failed = {} /\ authT'[c].failed = {}
    BY <1>25, <1>1, <2>2, Replies, EnablesReports DEF ListenInv
  <2>5. SameDropped
    BY <2>3, <2>2, <2>4 DEF SameDropped, Dropped
  <2>6. \/ UNCHANGED errT
        \/ /\ StartsErrorThread(c, "reader") \/ StartsErrorThread(c, "auth")
           /\ errT[c].starts = 0
    BY <1>25 DEF AuthorizationReply, AuthEnablesReports, OnceInv
  <2>7. KeepsErr
    BY <1>6, <1>7, <2>6
  <2>8. QED
    BY <1>25, <1>2, <1>5, <2>1, <2>5, <2>7 DEF AuthorizationReply, AuthEnablesReports
<1>26. CASE ConnectFound
  <2>1. /\ UNCHANGED <<user, errT>> /\ \A d \in Connections : errT[d].pc # "phids"
        /\ \A d \in Connections : Dropped(d) = {} /\ Dropped(d)' = {}
    BY <1>26, <1>3, <1>10, <1>11 DEF ConnectFound, LockInv, CentralLocked, SameDropped
  <2>2. PICK c \in Servers :
          /\ central.phid \in active /\ server[central.phid] = None
          /\ \A d \in Connections : d # c => conn'[d].phids = conn[d].phids
          /\ conn'[c].phids = conn[c].phids \cup {central.phid}
          /\ server' = [server EXCEPT ![central.phid] = c]
    BY <1>26, Found DEF Keeps
  <2>3. c \in Connections /\ central.phid \in Handles /\ user[central.phid] # "join"
    BY <2>2, TypeParts DEF Servers, HandleTypes, HandleInv
  <2>4. \A d \in Connections : d # c => conn[d].phids = {}
    BY <2>2 DEF Servers, ConnInv, OneInv
  <2>5. QED
    BY <1>1, <2>1, <2>2, <2>3, <2>4 DEF ListInv
<1>27. CASE ConnectListens
  <2>1. /\ UNCHANGED <<user, authT, errT>> /\ server[central.phid] = central.conn
        /\ \A d \in Connections : errT[d].pc # "phids"
        /\ \A d \in Connections : Dropped(d) = {} /\ Dropped(d)' = {}
    BY <1>27, <1>3, <1>10, <1>11
       DEF ConnectListens, LockInv, CentralLocked, SameDropped, ListenServer
  <2>2. CASE UNCHANGED <<conn, server>>
    BY <1>2, <1>3, <1>4, <1>5, <1>6, <2>1, <2>2
  <2>3. CASE /\ \A d \in Connections : d # central.conn => conn'[d].phids = conn[d].phids
             /\ conn'[central.conn].phids = conn[central.conn].phids \ {central.phid}
             /\ server' = [server EXCEPT ![central.phid] = None]
    BY <1>1, <2>1, <2>3, <1>27, Listened DEF ListInv
  <2>4. QED
    BY <1>27, <2>2, <2>3, Listened DEF Keeps
<1>28. CASE ConnectNew
  <2>1. /\ UNCHANGED <<user, errT>>
        /\ \A d \in Connections : Dropped(d) = {} /\ Dropped(d)' = {}
    BY <1>28, <1>3, <1>10 DEF ConnectNew, LockInv, CentralLocked, SameDropped
  <2>2. central.phid \in active /\ server[central.phid] = None
    BY <1>28, Connected
  <2>3. PICK c \in Connections :
            /\ conn[c].life = "none"
            /\ \A d \in Connections : d # c => conn'[d].phids = conn[d].phids
            /\ conn'[c].phids = {central.phid}
            /\ server' = [server EXCEPT ![central.phid] = c]
    BY <1>28, Connected DEF Keeps
  <2>4. /\ central.phid \in Handles /\ user[central.phid] # "join"
        /\ \A d \in Connections : conn[d].phids = {}
    BY <1>28, <2>2, TypeParts DEF HandleTypes, HandleInv, ConnInv, ConnectNew, Servers
  <2>5. QED
    BY <1>1, <2>1, <2>2, <2>3, <2>4 DEF ListInv
<1>29. CASE ConnectTwice \/ ConnectFails
  <2>1. UNCHANGED <<user, authT, errT, conn, server>>
    BY <1>29, <1>1 DEF ConnectTwice, ConnectFails, CentralInv
  <2>2. QED
    BY <1>2, <1>3, <1>4, <1>5, <1>6, <2>1
<1>30. ASSUME NEW c \in Connections, HeartbeatTimesOut(c)
       PROVE  ListInv'
  <2>1. SameLists
    BY <1>30, TimedOut DEF SameLists, Keeps
  <2>2. QED
    BY <1>30, <1>2, <1>3, <1>5, <1>6, <2>1 DEF HeartbeatTimesOut
<1>31. ASSUME NEW c \in Connections, CleanupFreesServer(c)
       PROVE  ListInv'
  <2>1. /\ UNCHANGED <<user, errT>> /\ \A d \in Connections : errT[d].pc # "phids"
        /\ \A d \in Connections : Dropped(d) = {} /\ Dropped(d)' = {}
    BY <1>31, <1>3, <1>10, <1>11 DEF CleanupFreesServer, LockInv, ReaderLocked, SameDropped
  <2>2. /\ \A d \in Connections : d # c => conn'[d].phids = conn[d].phids
        /\ conn'[c].phids = {}
        /\ server' = [g \in Handles |-> IF g \in conn[c].phids THEN None ELSE server[g]]
    BY <1>31, Freed DEF CleanupFreesServer, Keeps
  <2>3. QED
    BY <1>1, <2>1, <2>2 DEF ListInv
<1>32. ASSUME NEW c \in Connections, ErrorForgetsServer(c)
       PROVE  ListInv'
  <2>1. /\ UNCHANGED <<user, conn, errT>> /\ errT[c].pc = "phids"
        /\ \A d \in Connections : Dropped(d) = {} /\ Dropped(d)' = {}
    BY <1>32, <1>3, <1>10
       DEF ErrorForgetsServer, LockInv, ErrorLocked, SameDropped
  <2>2. PICK h \in conn[c].phids :
          server[h] # None /\ server' = [server EXCEPT ![h] = None]
    BY <1>32 DEF ErrorForgetsServer
  <2>3. h \in Handles
    BY <2>2, Records DEF CServerInfo
  <2>4. server[h] = c
    BY <2>1, <2>2, <2>3 DEF ListInv
  <2>5. QED
    BY <1>1, <2>1, <2>2, <2>3, <2>4 DEF ListInv
<1>33. ASSUME NEW c \in Connections, ErrorClosesServer(c)
        PROVE  ListInv'
  <2>1. /\ UNCHANGED <<user, server>>
        /\ \A d \in Connections : Dropped(d) = {} /\ Dropped(d)' = {}
    BY <1>33, <1>3, <1>10
       DEF ErrorClosesServer, LockInv, ErrorLocked, SameDropped
  <2>2. /\ \A d \in Connections : d # c => conn'[d].phids = conn[d].phids /\ errT'[d] = errT[d]
        /\ conn'[c].phids = {} /\ \A h \in conn[c].phids : server[h] = None
    BY <1>33, ErrorCloses DEF ErrorClosesServer, Keeps
  <2> SUFFICES ASSUME NEW d \in Connections, NEW h \in Handles
               PROVE  /\ server'[h] = d /\ user'[h] # "join" => h \in conn'[d].phids \ Dropped(d)'
                      /\ h \in conn'[d].phids \ Dropped(d)' =>
                             \/ server'[h] = d /\ user'[h] # "join"
                             \/ server'[h] = None /\ (h \notin Handled \/ errT'[d].pc = "phids")
    BY DEF ListInv
  <2>3. CASE d = c
    <3>1. server[h] = c /\ user[h] # "join" => h \in conn[c].phids
      BY <1>1 DEF ListInv
    <3>2. server[h] = c => user[h] = "join"
      BY <1>1, <2>2, <3>1
    <3>3. QED
      BY <2>1, <2>2, <2>3, <3>2
  <2>4. CASE d # c
    BY <1>1, <2>1, <2>2, <2>4 DEF ListInv
  <2>5. QED
    BY <2>3, <2>4
<1>34. ASSUME NEW c \in Connections,
               ErrorLocks(c) \/ ErrorMarksPhidget(c) \/ ErrorTells(c)
        PROVE  ListInv'
  <2>1. KeepsErr
    BY <1>34, <1>1, Records
       DEF ErrorLocks, ErrorMarksPhidget, ErrorTells, KeepsErr, ErrorThread
  <2>2. QED
    BY <1>34, <1>2, <1>3, <1>4, <1>5, <2>1 DEF ErrorLocks, ErrorMarksPhidget, ErrorTells
<1>35. ASSUME NEW c \in Connections,
              \/ AuthStarts(c) \/ AuthTells(c)
       PROVE  ListInv'
  <2>1. authT[c].pc \in {"start", "events"}
    BY <1>35 DEF AuthStarts, AuthTells
  <2>2. SameDropped
    BY <1>35, <1>1, <2>1, Starts, Unlocks DEF SameDropped, Dropped, AuthTells
  <2>3. QED
    BY <1>35, <1>2, <1>4, <1>5, <1>6, <2>2 DEF AuthStarts, AuthTells
<1>36. ASSUME NEW c \in Connections, AuthMarksPhidget(c)
       PROVE  ListInv'
  <2>1. /\ authT[c].pc = "phids" /\ authT'[c].pc = "listen"
        /\ authT'[c].failed = authT[c].failed
        /\ \A d \in Connections : d # c => authT'[d] = authT[d]
    BY <1>36, Marks DEF AuthMarksPhidget
  <2>2. SameDropped
    BY <2>1 DEF SameDropped, Dropped
  <2>3. QED
    BY <1>36, <1>2, <1>4, <1>5, <1>6, <2>2 DEF AuthMarksPhidget
<1>37. ASSUME NEW c \in Connections, AuthListens(c)
       PROVE  ListInv'
  <2>1. /\ UNCHANGED <<user, conn, errT>> /\ authT[c].pc = "listen"
        /\ \A d \in Connections : errT[d].pc # "phids"
    BY <1>37, <1>11 DEF AuthListens, LockInv, AuthLocks, AuthLocked
  <2>2. CASE authT'[c].failed = authT[c].failed /\ UNCHANGED server
    <3>1. SameDropped
      BY <1>37, <2>1, <2>2, Listens DEF SameDropped, Dropped
    <3>2. QED
      BY <1>2, <1>4, <1>5, <1>6, <2>1, <2>2, <3>1
  <2>3. CASE /\ authT'[c].failed = authT[c].failed \cup ({authT[c].phid} \cap Handled)
             /\ server' = [server EXCEPT ![authT[c].phid] = None]
    <3>1. /\ Dropped(c)' = Dropped(c) \cup ({authT[c].phid} \cap Handled)
          /\ \A d \in Connections : d # c => Dropped(d) = {} /\ Dropped(d)' = {}
      BY <1>37, <1>12, <2>1, <2>3, Listens DEF Dropped
    <3>2. authT[c].phid \in conn[c].phids \ Dropped(c)
      BY <2>1 DEF ListenInv, Dropped
    <3>3. authT[c].phid \in Handles
      BY <3>2, Records DEF CServerInfo
    <3>4. server[authT[c].phid] \in {c, None}
      BY <3>2, <3>3 DEF ListInv
    <3>5. QED
      BY <1>1, <2>1, <2>3, <3>1, <3>2, <3>3, <3>4 DEF ListInv
  <2>4. QED
    BY <1>37, <2>2, <2>3, Listens
<1>38. ASSUME NEW c \in Connections, AuthUnlocks(c)
       PROVE  ListInv'
  <2>1. UNCHANGED <<user, server, errT>> /\ authT[c].pc = "phids"
    BY <1>38 DEF AuthUnlocks
  <2>2. /\ \A d \in Connections : d # c => conn'[d].phids = conn[d].phids
        /\ conn'[c].phids = conn[c].phids \ authT[c].failed
    BY <1>38, Unlisted DEF Keeps
  <2>3. /\ Dropped(c) = authT[c].failed /\ Dropped(c)' = {}
        /\ \A d \in Connections : d # c => Dropped(d)' = Dropped(d)
    BY <1>38, <1>1, <2>1, Unlocks DEF Dropped
  <2>4. QED
    BY <1>1, <2>1, <2>2, <2>3 DEF ListInv
<1>39. CASE \/ LoopTest \/ FindActiveRemoteDevices \/ CentralLocks
            \/ ErrorEvent \/ MonitorLocks
  BY <1>39, <1>2, <1>3, <1>4, <1>5, <1>6
     DEF LoopTest, FindActiveRemoteDevices, CentralLocks, ErrorEvent,
         MonitorLocks
<1>40. ASSUME NEW c \in Connections,
              WaitsForThreads(c) \/ CleanupLocks(c)
       PROVE  ListInv'
  BY <1>40, <1>2, <1>3, <1>4, <1>5, <1>6
     DEF WaitsForThreads, CleanupLocks
<1>41. CASE UNCHANGED vars
  BY <1>41, <1>2, <1>3, <1>4, <1>5, <1>6
     DEF vars
<1>42. QED
  BY Zenon, <1>13, <1>14, <1>15, <1>16, <1>17, <1>18, <1>19, <1>20, <1>21, <1>22,
     <1>23, <1>24, <1>25, <1>26, <1>27, <1>28, <1>29, <1>30, <1>31, <1>32, <1>33, <1>34, <1>35, <1>36,
     <1>37, <1>38, <1>39, <1>40, <1>41
     DEF Next, UserEnds, CentralStep, ReaderEnds, AuthStep, ErrorStep
-----------------------------------------------------------------------------
(* The invariants of the threads.                                           *)

\* Who has told the end of the authorization, or still may.
LEMMA AuthFields ==
  ASSUME TypeOK, CentralInv
  PROVE  /\ MonitorHeartbeats \/ (\E c \in Connections : Heartbeat(c) \/ CleanupClearsFlags(c)
                                     \/ AuthEnablesReports(c) \/ PeerFails(c))
                => \A d \in Connections : conn'[d].auth = conn[d].auth
         /\ Authorize => /\ \A d \in Connections : d # central.conn => conn'[d].auth = conn[d].auth
                         /\ \/ conn'[central.conn].auth = "pending" /\ UNCHANGED errT
                            \/ /\ conn'[central.conn].auth = conn[central.conn].auth
                               /\ StartsErrorThread(central.conn, "central")
         /\ \A c \in Connections :
              /\ AuthorizationReply(c) => /\ \A d \in Connections : d # c => conn'[d].auth = conn[d].auth
                                          /\ conn[c].auth = "pending" /\ conn'[c].auth = "done"
              /\ SessionEnds(c) => \/ UNCHANGED <<conn, errT>>
                                   \/ /\ \A d \in Connections : d # c => conn'[d].auth = conn[d].auth
                                      /\ conn[c].auth = "pending" /\ conn'[c].auth = "done"
                                      /\ StartsErrorThread(c, "reader")
<1>1. /\ conn = [c \in Connections |-> conn[c]]
      /\ \A c \in Connections : conn[c] \in CServerInfo
  BY Functions, Records
<1>2. ASSUME NEW c \in Connections, NEW r, conn' = [conn EXCEPT ![c] = r]
      PROVE  conn'[c] = r /\ \A d \in Connections : d # c => conn'[d] = conn[d]
  BY <1>1, <1>2
<1>3. ASSUME NEW c \in Connections, NEW r, conn' = [conn EXCEPT ![c] = r], r.auth = conn[c].auth
      PROVE  \A d \in Connections : conn'[d].auth = conn[d].auth
  BY <1>2, <1>3
<1>4. ASSUME MonitorHeartbeats PROVE \A d \in Connections : conn'[d].auth = conn[d].auth
  <2>1. \/ UNCHANGED conn
        \/ \E c \in Connections : conn' = [conn EXCEPT ![c] = [conn[c] EXCEPT !.waiting = TRUE]]
    BY <1>1, <1>4 DEF MonitorHeartbeats, CentralInv
  <2>2. QED
    BY <1>1, <1>3, <2>1 DEF CServerInfo
<1>5. ASSUME NEW c \in Connections, Heartbeat(c) \/ CleanupClearsFlags(c) \/ AuthEnablesReports(c)
      PROVE  \A d \in Connections : conn'[d].auth = conn[d].auth
  <2>1. \/ UNCHANGED conn
        \/ conn' = [conn EXCEPT ![c] = [conn[c] EXCEPT !.waiting = FALSE]]
        \/ conn' = [conn EXCEPT ![c] = [conn[c] EXCEPT !.up = FALSE]]
        \/ conn' = [conn EXCEPT ![c] = [conn[c] EXCEPT !.up = TRUE, !.connecting = FALSE,
                                                       !.waiting = TRUE]]
    BY <1>1, <1>5 DEF Heartbeat, CleanupClearsFlags, AuthEnablesReports
  <2>2. QED
    BY <1>1, <1>3, <2>1 DEF CServerInfo
<1>6. ASSUME NEW c \in Connections, PeerFails(c)
      PROVE  \A d \in Connections : conn'[d].auth = conn[d].auth
  <2>1. PICK end \in Failures : conn' = [conn EXCEPT ![c] = [conn[c] EXCEPT !.socket = end]]
    BY <1>1, <1>6 DEF PeerFails
  <2>2. QED
    BY <1>1, <1>3, <2>1 DEF CServerInfo
<1>7. ASSUME Authorize
      PROVE  /\ \A d \in Connections : d # central.conn => conn'[d].auth = conn[d].auth
             /\ \/ conn'[central.conn].auth = "pending" /\ UNCHANGED errT
                \/ /\ conn'[central.conn].auth = conn[central.conn].auth
                   /\ StartsErrorThread(central.conn, "central")
  <2> DEFINE r == [conn[central.conn] EXCEPT !.auth = "pending", !.waiting = TRUE]
             s == [conn[central.conn] EXCEPT !.waiting = TRUE]
  <2>1. central.conn \in Connections
    BY <1>7 DEF Authorize, CentralInv
  <2>2. r.auth = "pending" /\ s.auth = conn[central.conn].auth
    BY <1>1, <2>1 DEF CServerInfo
  <2>3. \/ conn' = [conn EXCEPT ![central.conn] = r] /\ UNCHANGED errT
        \/ conn' = [conn EXCEPT ![central.conn] = s] /\ StartsErrorThread(central.conn, "central")
    BY <1>1, <1>7, <2>1 DEF Authorize
  <2> HIDE DEF r, s
  <2>4. QED
    BY <1>2, <2>1, <2>2, <2>3
<1>8. ASSUME NEW c \in Connections, conn' = [conn EXCEPT ![c].auth = "done"]
      PROVE  conn'[c].auth = "done" /\ \A d \in Connections : d # c => conn'[d].auth = conn[d].auth
  BY <1>1, <1>8 DEF CServerInfo
<1>9. ASSUME NEW c \in Connections, AuthorizationReply(c)
      PROVE  /\ \A d \in Connections : d # c => conn'[d].auth = conn[d].auth
             /\ conn[c].auth = "pending" /\ conn'[c].auth = "done"
  BY <1>8, <1>9 DEF AuthorizationReply
<1>10. ASSUME NEW c \in Connections, SessionEnds(c)
       PROVE  \/ UNCHANGED <<conn, errT>>
              \/ /\ \A d \in Connections : d # c => conn'[d].auth = conn[d].auth
                 /\ conn[c].auth = "pending" /\ conn'[c].auth = "done"
                 /\ StartsErrorThread(c, "reader")
  BY <1>8, <1>10 DEF SessionEnds
<1>11. QED
  BY <1>4, <1>5, <1>6, <1>7, <1>9, <1>10

LEMMA ErrSettles ==
  ASSUME TypeOK, NEW c \in Connections, ErrorJoins(c) \/ ErrorTells(c)
  PROVE  /\ \A d \in Connections : d # c => errT'[d] = errT[d]
         /\ errT'[c].pc \in {"events", "none"} /\ errT'[c].starts = errT[c].starts
BY Functions, Records DEF ErrorJoins, ErrorTells, ErrorThread


LEMMA OnceInvStep ==
  ASSUME TypeOK, CentralInv, LockInv, HandleInv, ConnInv, OnceInv, [Next]_vars
  PROVE  OnceInv'
<1>1. OnceInv /\ NoThread.pc = "none"
  BY DEF NoThread
<1>2. CASE ConnectNew
  <2>1. PICK c \in Connections :
          /\ conn[c].life = "none"
          /\ \A d \in Connections : d # c => conn'[d] = conn[d]
          /\ conn'[c].life = "alive" /\ conn'[c].auth = "none"
          /\ central'.pc = "authorize" /\ central'.conn = c
    BY <1>2, Connected
  <2>2. UNCHANGED <<authT, errT>>
    BY <1>2 DEF ConnectNew
  <2>3. QED
    BY <1>1, <2>1, <2>2 DEF OnceInv
<1>3. SUFFICES ASSUME ~ConnectNew PROVE OnceInv'
  BY <1>2
<1>4. central'.pc = "authorize" => central.pc = "authorize" /\ central'.conn = central.conn
  BY <1>3, CentralHolds
<1> DEFINE SameErr == \A d \in Connections : errT'[d].starts = errT[d].starts
                                             /\ (errT[d].pc = "none" => errT'[d].pc = "none")
           SameConn == \A d \in Connections : conn'[d].life = conn[d].life
                                              /\ conn'[d].auth = conn[d].auth
           SameAuth == \A d \in Connections : authT'[d].pc = authT[d].pc
<1>5. ASSUME SameErr, SameConn, SameAuth PROVE OnceInv'
  BY <1>1, <1>4, <1>5 DEF OnceInv
<1>6. /\ UNCHANGED errT => SameErr
      /\ UNCHANGED conn => SameConn
      /\ UNCHANGED authT => SameAuth
  OBVIOUS
<1>7. ASSUME NEW c \in Connections, NEW who \in {"central", "reader", "auth"},
             StartsErrorThread(c, who)
      PROVE  /\ \A d \in Connections : d # c => errT'[d] = errT[d]
             /\ errT'[c].starts = errT[c].starts + 1
  BY <1>7, ErrStarts, TypeParts
<1>8. ASSUME NEW c \in Connections, FreesSession(c) PROVE SameConn
  BY <1>8, SessionFreed DEF Keeps
<1>9. ASSUME \A d \in Connections : Keeps(d) /\ conn'[d].auth = conn[d].auth PROVE SameConn
  BY <1>9 DEF Keeps
<1> HIDE DEF SameErr, SameConn, SameAuth
<1>10. ASSUME UNCHANGED <<errT, conn, authT>> PROVE OnceInv'
  BY <1>5, <1>6, <1>10
<1>11. ASSUME NEW h \in Handles, DisconnectRemoteObject(h)
       PROVE  OnceInv'
  <2>1. SameConn
    BY <1>11, <1>6, Disconnected, NotDisconnected DEF SameConn, Keeps
  <2>2. QED
    BY <1>11, <1>5, <1>6, <2>1 DEF DisconnectRemoteObject
<1>12. ASSUME NEW h \in Handles, JoinsReadThread(h)
       PROVE  OnceInv'
  <2>1. SameConn
    BY <1>12, <1>8, TypeParts DEF JoinsReadThread, HandleInv, HandleTypes
  <2>2. QED
    BY <1>12, <1>5, <1>6, <2>1 DEF JoinsReadThread
<1>13. CASE MonitorJoins
  <2>1. SameConn
    BY <1>13, <1>8 DEF MonitorJoins, CentralInv
  <2>2. QED
    BY <1>13, <1>5, <1>6, <2>1 DEF MonitorJoins
<1>14. ASSUME NEW c \in Connections,
              \/ ErrorJoins(c) \/ ErrorTells(c)
       PROVE  OnceInv'
  <2>1. SameConn /\ SameAuth
    BY <1>14, <1>6, <1>8 DEF ErrorJoins, ErrorTells
  <2>2. errT[c].pc # "none"
    BY <1>14 DEF ErrorJoins, ErrorTells
  <2>3. SameErr
    BY <1>14, <2>2, ErrSettles DEF SameErr
  <2>4. QED
    BY <1>5, <2>1, <2>3
<1>15. CASE Authorize
  <2> DEFINE c == central.conn
  <2>1. /\ c \in Connections /\ UNCHANGED authT /\ central.pc = "authorize"
        /\ central'.pc # "authorize"
    BY <1>15, Central DEF Authorize, CentralInv
  <2>2. /\ \A d \in Connections : d # c => conn'[d].auth = conn[d].auth
        /\ \/ conn'[c].auth = "pending" /\ UNCHANGED errT
           \/ conn'[c].auth = conn[c].auth /\ StartsErrorThread(c, "central")
    BY <1>15, AuthFields
  <2>3. \A d \in Connections : conn'[d].life = conn[d].life
    BY <1>15, Quiet DEF Keeps
  <2>4. QED
    BY <1>1, <1>7, <2>1, <2>2, <2>3 DEF OnceInv
<1>16. CASE MonitorHeartbeats
  <2>1. SameConn
    BY <1>16, <1>9, Quiet, AuthFields
  <2>2. QED
    BY <1>16, <1>5, <1>6, <2>1 DEF MonitorHeartbeats
<1>17. CASE ConnectFound \/ ConnectListens
  <2>1. SameConn
    BY <1>17, <1>6, Found, Listened DEF SameConn, Keeps, Servers
  <2>2. QED
    BY <1>17, <1>5, <1>6, <2>1 DEF ConnectFound, ConnectListens
<1>18. CASE ConnectNew
  BY <1>18, <1>3
     DEF ConnectNew
<1>19. ASSUME NEW c \in Connections,
              \/ Heartbeat(c) \/ CleanupClearsFlags(c) \/ PeerFails(c)
       PROVE  OnceInv'
  <2>1. SameConn
    BY <1>19, <1>9, Quiet, AuthFields
  <2>2. QED
    BY <1>19, <1>5, <1>6, <2>1 DEF Heartbeat, CleanupClearsFlags, PeerFails
<1>20. ASSUME NEW c \in Connections, HeartbeatTimesOut(c)
       PROVE  OnceInv'
  <2>1. SameConn
    BY <1>20, TimedOut DEF SameConn, Keeps
  <2>2. QED
    BY <1>20, <1>5, <1>6, <2>1 DEF HeartbeatTimesOut
<1>21. ASSUME NEW c \in Connections, CleanupFreesServer(c)
       PROVE  OnceInv'
  <2>1. UNCHANGED <<authT, errT>> /\ conn[c].life = "alive" /\ central.pc # "authorize"
    BY <1>21 DEF CleanupFreesServer, ConnInv, LockInv, ReaderLocked, CentralLocked
  <2>2. /\ \A d \in Connections : d # c => conn'[d] = conn[d]
        /\ conn'[c].life = "freed" /\ conn'[c].auth = "none"
    BY <1>21, Freed
  <2>3. QED
    BY <1>1, <1>4, <2>1, <2>2 DEF OnceInv
<1>22. ASSUME NEW c \in Connections, ErrorClosesServer(c)
       PROVE  OnceInv'
  <2>1. SameConn
    BY <1>22, ErrorCloses DEF SameConn, Keeps
  <2>2. SameErr
    BY <1>22, ErrorCloses DEF SameErr, ErrorClosesServer
  <2>3. QED
    BY <1>22, <1>5, <1>6, <2>1, <2>2 DEF ErrorClosesServer
<1>23. ASSUME NEW c \in Connections, ErrorLocks(c) \/ ErrorMarksPhidget(c)
        PROVE  OnceInv'
  <2>1. /\ \A d \in Connections : d # c => errT'[d] = errT[d]
        /\ errT[c].pc # "none" /\ errT'[c].starts = errT[c].starts
    BY <1>23, Functions, Records DEF ErrorLocks, ErrorMarksPhidget, ErrorThread
  <2>2. SameErr
    BY <2>1 DEF SameErr
  <2>3. QED
    BY <1>23, <1>5, <1>6, <2>2 DEF ErrorLocks, ErrorMarksPhidget
<1>24. ASSUME NEW c \in Connections, AuthorizationReply(c)
       PROVE  OnceInv'
  <2>1. /\ \A d \in Connections : d # c => conn'[d].auth = conn[d].auth
        /\ conn[c].auth = "pending" /\ conn'[c].auth = "done"
    BY <1>24, AuthFields
  <2>2. \A d \in Connections : conn'[d].life = conn[d].life
    BY <1>24, Quiet DEF Keeps
  <2>3. conn[c].life # "none" /\ ~(central.pc = "authorize" /\ central.conn = c)
    BY <1>1, <2>1 DEF OnceInv
  <2>4. /\ \A d \in Connections : d # c => authT'[d] = authT[d]
        /\ \/ authT'[c].pc = "start" /\ UNCHANGED errT
           \/ UNCHANGED authT /\ StartsErrorThread(c, "reader")
    BY <1>24, Replies
  <2>5. QED
    BY <1>1, <1>4, <1>7, <2>1, <2>2, <2>3, <2>4 DEF OnceInv
<1>25. ASSUME NEW c \in Connections, SessionEnds(c)
       PROVE  OnceInv'
  <2>1. UNCHANGED authT
    BY <1>25 DEF SessionEnds
  <2>2. CASE UNCHANGED <<conn, errT>>
    BY <1>10, <2>1, <2>2
  <2>3. CASE ~UNCHANGED <<conn, errT>>
    <3>1. /\ \A d \in Connections : d # c => conn'[d].auth = conn[d].auth
          /\ conn[c].auth = "pending" /\ conn'[c].auth = "done"
          /\ StartsErrorThread(c, "reader")
      BY <1>25, <2>3, AuthFields
    <3>2. \A d \in Connections : conn'[d].life = conn[d].life
      BY <1>25, Quiet DEF Keeps
    <3>3. conn[c].life # "none" /\ ~(central.pc = "authorize" /\ central.conn = c)
      BY <1>1, <3>1 DEF OnceInv
    <3>4. QED
      BY <1>1, <1>4, <1>7, <2>1, <3>1, <3>2, <3>3 DEF OnceInv
  <2>4. QED
    BY <2>2, <2>3
<1>26. ASSUME NEW c \in Connections, AuthStarts(c)
       PROVE  OnceInv'
  <2>1. UNCHANGED <<conn, errT>> /\ authT[c].pc = "start"
    BY <1>26 DEF AuthStarts
  <2>2. /\ \A d \in Connections : d # c => authT'[d] = authT[d]
        /\ authT'[c].pc \in {"reports", "none"}
    BY <1>26, <1>1, Starts
  <2>3. QED
    BY <1>1, <1>4, <2>1, <2>2 DEF OnceInv
<1>27. ASSUME NEW c \in Connections, AuthEnablesReports(c)
       PROVE  OnceInv'
  <2>1. /\ \A d \in Connections : conn'[d].life = conn[d].life /\ conn'[d].auth = conn[d].auth
        /\ authT[c].pc = "reports"
    BY <1>27, Quiet, AuthFields DEF Keeps, AuthEnablesReports
  <2>2. /\ \A d \in Connections : d # c => authT'[d] = authT[d]
        /\ \/ authT'[c].pc = "phids" /\ UNCHANGED errT
           \/ authT'[c].pc = "none" /\ StartsErrorThread(c, "auth")
    BY <1>27, <1>1, EnablesReports
  <2>3. conn[c].life # "none" /\ ~(central.pc = "authorize" /\ central.conn = c)
        /\ conn[c].auth # "pending"
    BY <1>1, <2>1 DEF OnceInv
  <2>4. QED
    BY <1>1, <1>4, <1>7, <2>1, <2>2, <2>3 DEF OnceInv
<1>28. ASSUME NEW c \in Connections,
              \/ AuthMarksPhidget(c) \/ AuthListens(c)
       PROVE  OnceInv'
  <2>1. /\ UNCHANGED <<conn, errT>> /\ authT[c].pc \in {"phids", "listen"}
        /\ authT'[c].pc \in {"phids", "listen"}
        /\ \A d \in Connections : d # c => authT'[d] = authT[d]
    BY <1>28, Marks, Listens DEF AuthMarksPhidget, AuthListens
  <2>2. QED
    BY <1>1, <1>4, <2>1 DEF OnceInv
<1>29. ASSUME NEW c \in Connections,
              \/ AuthUnlocks(c) \/ AuthTells(c)
       PROVE  OnceInv'
  <2>1. /\ UNCHANGED errT /\ authT[c].pc \in {"phids", "events"}
        /\ authT'[c].pc \in {"events", "none"}
        /\ \A d \in Connections : d # c => authT'[d] = authT[d]
    BY <1>29, <1>1, Unlocks DEF AuthUnlocks, AuthTells
  <2>2. SameConn
    BY <1>29, <1>6, Unlisted DEF AuthTells, SameConn, Keeps
  <2>3. QED
    BY <1>1, <1>4, <2>1, <2>2 DEF OnceInv, SameConn
<1>30. ASSUME NEW h \in Handles,
              \/ Open(h) \/ StartCentralRemoteThread(h) \/ Close(h)
              \/ TellsServer(h) \/ Unregister(h) \/ LocksServerLock(h)
              \/ FreeNetworkInfo(h) \/ JoinCentralRemoteThread(h)
       PROVE  OnceInv'
  BY <1>30, <1>10
     DEF Open, StartCentralRemoteThread, Close, TellsServer, Unregister,
         LocksServerLock, FreeNetworkInfo, JoinCentralRemoteThread
<1>31. CASE \/ LoopTest \/ FindActiveRemoteDevices \/ CentralLocks
            \/ ErrorEvent \/ MonitorLocks \/ ConnectTwice \/ ConnectFails
  BY <1>31, <1>10
     DEF LoopTest, FindActiveRemoteDevices, CentralLocks, ErrorEvent,
         MonitorLocks, ConnectTwice, ConnectFails
<1>32. ASSUME NEW c \in Connections,
              \/ WaitsForThreads(c) \/ CleanupLocks(c) \/ ErrorForgetsServer(c)
       PROVE  OnceInv'
  BY <1>32, <1>10
     DEF WaitsForThreads, CleanupLocks, ErrorForgetsServer
<1>33. CASE UNCHANGED vars
  BY <1>33, <1>10
     DEF vars
<1>34. QED
  BY Zenon, <1>11, <1>12, <1>13, <1>14, <1>15, <1>16, <1>17, <1>18, <1>19,
     <1>20, <1>21, <1>22, <1>23, <1>24, <1>25, <1>26, <1>27, <1>28, <1>29, <1>30,
     <1>31, <1>32, <1>33
     DEF Next, UserEnds, CentralStep, ReaderEnds, AuthStep, ErrorStep

\* The read thread outlives the authorization thread and the error thread that
\* it or the authorization thread has started, and every error thread that has
\* serverLock.
ThreadInv ==
    \A c \in Connections :
        /\ authT[c].pc \in {"start", "reports", "phids", "listen"} =>
               authT[c].run /\ reader[c] \in {"read", "authThread"}
        /\ authT[c].pc \in AuthLocked => conn[c].pdcs
        /\ errT[c].pc = "start" =>
               /\ errT[c].run
               /\ errT[c].by = "central" \/ reader[c] \in {"read", "authThread", "errorThread"}
        /\ errT[c].pc = "phids" => reader[c] \notin {"none", "done"}

LEMMA ThreadInvStep ==
  ASSUME TypeOK, CentralInv, LockInv, HandleInv, ConnInv, OnceInv, ThreadInv, [Next]_vars
  PROVE  ThreadInv'
<1>1. ThreadInv /\ NoThread.pc = "none" /\ reader = [c \in Connections |-> reader[c]]
  BY Functions DEF NoThread
<1> DEFINE SamePdcs == \A d \in Connections : authT[d].pc \in AuthLocked =>
                                              conn'[d].pdcs = conn[d].pdcs
<1>2. ASSUME UNCHANGED <<authT, errT, reader>>, SamePdcs PROVE ThreadInv'
  BY <1>1, <1>2 DEF ThreadInv
<1>3. UNCHANGED conn => SamePdcs
  OBVIOUS
<1>4. serverLock # "auth" => SamePdcs
  BY DEF LockInv, AuthLocks
<1>5. ASSUME NEW c \in Connections, FreesSession(c) PROVE SamePdcs
  BY <1>5, SessionFreed DEF Keeps
<1>6. ASSUME \A d \in Connections : Keeps(d) PROVE SamePdcs
  BY <1>6 DEF Keeps
<1>7. ASSUME NEW c \in Connections, NEW who \in {"central", "reader", "auth"},
             StartsErrorThread(c, who)
      PROVE  /\ \A d \in Connections : d # c => errT'[d] = errT[d]
             /\ errT'[c].run /\ errT'[c].by = who /\ errT'[c].pc = "start"
  BY <1>7, ErrStarts, TypeParts
<1> HIDE DEF SamePdcs
<1>8. ASSUME UNCHANGED <<authT, errT, reader, conn>> PROVE ThreadInv'
  BY <1>2, <1>3, <1>8
<1>9. ASSUME NEW h \in Handles, DisconnectRemoteObject(h)
      PROVE  ThreadInv'
  BY <1>9, <1>2, <1>4 DEF DisconnectRemoteObject, LockInv, UserLocked
<1>10. ASSUME NEW h \in Handles, JoinsReadThread(h)
       PROVE  ThreadInv'
  <2>1. SamePdcs
    BY <1>10, <1>5, TypeParts DEF JoinsReadThread, HandleInv, HandleTypes
  <2>2. QED
    BY <1>10, <1>2, <2>1 DEF JoinsReadThread
<1>11. CASE MonitorJoins
  BY <1>11, <1>2, <1>5 DEF MonitorJoins, CentralInv
<1>12. ASSUME NEW c \in Connections,
              \/ ErrorJoins(c) \/ ErrorTells(c)
       PROVE  ThreadInv'
  <2>1. SamePdcs /\ UNCHANGED <<authT, reader>>
    BY <1>12, <1>3, <1>5 DEF ErrorJoins, ErrorTells
  <2>2. /\ \A d \in Connections : d # c => errT'[d] = errT[d]
        /\ errT'[c].pc \in {"events", "none"}
    BY <1>12, ErrSettles
  <2>3. QED
    BY <1>1, <2>1, <2>2 DEF ThreadInv, SamePdcs
<1>13. CASE Authorize
  <2>1. /\ central.conn \in Connections /\ UNCHANGED <<authT, reader>> /\ SamePdcs
        /\ UNCHANGED errT \/ StartsErrorThread(central.conn, "central")
    BY <1>13, <1>6, Quiet DEF Authorize, CentralInv
  <2>2. QED
    BY <1>1, <1>2, <1>7, <2>1 DEF ThreadInv, SamePdcs
<1>14. CASE MonitorHeartbeats
  BY <1>14, <1>2, <1>6, Quiet DEF MonitorHeartbeats
<1>15. CASE ConnectFound \/ ConnectListens
  BY <1>15, <1>2, <1>4 DEF ConnectFound, ConnectListens, LockInv, CentralLocked
<1>16. CASE ConnectNew
  <2>1. PICK c \in Connections : conn[c].life = "none" /\ reader' = [reader EXCEPT ![c] = "read"]
    BY <1>16, Connected
  <2>2. SamePdcs /\ UNCHANGED <<authT, errT>> /\ authT[c].pc = "none" /\ errT[c].pc = "none"
    BY <1>16, <1>4, <2>1 DEF ConnectNew, LockInv, CentralLocked, OnceInv
  <2>3. QED
    BY <1>1, <2>1, <2>2 DEF ThreadInv, SamePdcs, AuthLocked
<1>17. ASSUME NEW c \in Connections,
              \/ Heartbeat(c) \/ PeerFails(c)
       PROVE  ThreadInv'
  BY <1>17, <1>2, <1>6, Quiet DEF Heartbeat, PeerFails
<1>18. ASSUME NEW c \in Connections, HeartbeatTimesOut(c)
       PROVE  ThreadInv'
  BY <1>18, <1>2, <1>4 DEF HeartbeatTimesOut, LockInv, CentralLocked
<1>19. ASSUME NEW c \in Connections, WaitsForThreads(c)
       PROVE  ThreadInv'
  BY <1>19, <1>1 DEF WaitsForThreads, ThreadInv
<1>20. ASSUME NEW c \in Connections, CleanupLocks(c)
       PROVE  ThreadInv'
  BY <1>20, <1>1 DEF CleanupLocks, ThreadInv
<1>21. ASSUME NEW c \in Connections, CleanupClearsFlags(c)
       PROVE  ThreadInv'
  <2>1. /\ reader[c] = "flags" /\ UNCHANGED <<authT, errT>> /\ SamePdcs
        /\ reader' = [reader EXCEPT ![c] = "handlers"]
    BY <1>21, <1>6, Quiet DEF CleanupClearsFlags
  <2>2. QED
    BY <1>21, <1>1, <2>1 DEF ThreadInv, SamePdcs, AuthLocked
<1>22. ASSUME NEW c \in Connections, CleanupFreesServer(c)
       PROVE  ThreadInv'
  <2>1. /\ reader[c] = "handlers" /\ UNCHANGED <<authT, errT>> /\ SamePdcs
        /\ reader' = [reader EXCEPT ![c] = "done"] /\ errT[c].pc # "phids"
    BY <1>22, <1>4 DEF CleanupFreesServer, LockInv, ReaderLocked, ErrorLocked
  <2>2. QED
    BY <1>22, <1>1, <2>1 DEF ThreadInv, SamePdcs, AuthLocked
<1>23. ASSUME NEW c \in Connections, ErrorClosesServer(c)
       PROVE  ThreadInv'
  <2>1. /\ UNCHANGED <<authT, reader>> /\ SamePdcs
    BY <1>23, <1>4 DEF ErrorClosesServer, LockInv, ErrorLocked
  <2>2. /\ \A d \in Connections : d # c => errT'[d] = errT[d]
        /\ errT'[c].pc \in {"join", "events"}
    BY <1>23, ErrorCloses
  <2>3. QED
    BY <1>1, <2>1, <2>2 DEF ThreadInv, SamePdcs
<1>24. ASSUME NEW c \in Connections, ErrorLocks(c) \/ ErrorMarksPhidget(c)
        PROVE  ThreadInv'
  <2>1. /\ UNCHANGED <<authT, reader>> /\ SamePdcs
    BY <1>24, <1>3 DEF ErrorLocks, ErrorMarksPhidget
  <2>2. /\ \A d \in Connections : d # c => errT'[d] = errT[d]
        /\ errT'[c].pc = "phids"
    BY <1>24, Functions, Records DEF ErrorLocks, ErrorMarksPhidget, ErrorThread
  <2>3. reader[c] \notin {"none", "done"}
    BY <1>24, <1>1 DEF ErrorLocks, ErrorMarksPhidget, ConnInv, ThreadInv
  <2>4. QED
    BY <1>1, <2>1, <2>2, <2>3 DEF ThreadInv, SamePdcs
<1>25. ASSUME NEW c \in Connections, ErrorForgetsServer(c)
        PROVE  ThreadInv'
  BY <1>25, <1>8 DEF ErrorForgetsServer
<1>26. ASSUME NEW c \in Connections, AuthorizationReply(c)
       PROVE  ThreadInv'
  <2>1. UNCHANGED reader /\ reader[c] = "read" /\ SamePdcs /\ authT[c].pc = "none"
    BY <1>26, <1>6, Quiet DEF AuthorizationReply, Answers, OnceInv
  <2>2. /\ \A d \in Connections : d # c => authT'[d] = authT[d]
        /\ \/ authT'[c].pc = "start" /\ authT'[c].run /\ UNCHANGED errT
           \/ UNCHANGED authT /\ StartsErrorThread(c, "reader")
    BY <1>26, Replies
  <2>3. QED
    BY <1>26, <1>1, <1>7, <2>1, <2>2 DEF ThreadInv, SamePdcs, AuthLocked
<1>27. ASSUME NEW c \in Connections, SessionEnds(c)
       PROVE  ThreadInv'
  <2>1. /\ UNCHANGED authT /\ SamePdcs /\ reader[c] = "read"
        /\ reader' = [reader EXCEPT ![c] = "authThread"]
        /\ UNCHANGED errT \/ StartsErrorThread(c, "reader")
    BY <1>27, <1>6, Quiet DEF SessionEnds
  <2>2. QED
    BY <1>27, <1>1, <1>7, <2>1 DEF ThreadInv, SamePdcs
<1>28. ASSUME NEW c \in Connections, AuthStarts(c)
       PROVE  ThreadInv'
  <2>1. UNCHANGED <<conn, errT, reader>> /\ authT[c].pc = "start"
    BY <1>28 DEF AuthStarts
  <2>2. /\ \A d \in Connections : d # c => authT'[d] = authT[d]
        /\ \/ conn[c].pdcs /\ authT'[c].pc = "reports" /\ authT'[c].run = authT[c].run
           \/ authT'[c].pc = "none"
    BY <1>28, <1>1, Starts
  <2>3. QED
    BY <1>1, <2>1, <2>2 DEF ThreadInv, AuthLocked
<1>29. ASSUME NEW c \in Connections, AuthEnablesReports(c)
       PROVE  ThreadInv'
  <2>1. UNCHANGED reader /\ SamePdcs /\ authT[c].pc = "reports"
    BY <1>29, <1>6, Quiet DEF AuthEnablesReports
  <2>2. /\ \A d \in Connections : d # c => authT'[d] = authT[d]
        /\ \/ authT'[c].pc = "phids" /\ authT'[c].run = authT[c].run /\ UNCHANGED errT
           \/ authT'[c].pc = "none" /\ StartsErrorThread(c, "auth")
    BY <1>29, <1>1, EnablesReports
  <2>3. QED
    BY <1>1, <1>7, <2>1, <2>2 DEF ThreadInv, AuthLocked, SamePdcs
<1>30. ASSUME NEW c \in Connections,
              \/ AuthMarksPhidget(c) \/ AuthListens(c)
       PROVE  ThreadInv'
  <2>1. /\ UNCHANGED <<conn, errT, reader>> /\ authT[c].pc \in {"phids", "listen"}
        /\ authT'[c].pc \in {"phids", "listen"} /\ authT'[c].run = authT[c].run
        /\ \A d \in Connections : d # c => authT'[d] = authT[d]
    BY <1>30, Marks, Listens DEF AuthMarksPhidget, AuthListens
  <2>2. QED
    BY <1>1, <2>1 DEF ThreadInv, AuthLocked
<1>31. ASSUME NEW c \in Connections,
              \/ AuthUnlocks(c) \/ AuthTells(c)
       PROVE  ThreadInv'
  <2>1. /\ UNCHANGED <<errT, reader>>
        /\ authT'[c].pc \in {"events", "none"}
        /\ \A d \in Connections : d # c => authT'[d] = authT[d]
    BY <1>31, <1>1, Unlocks DEF AuthUnlocks, AuthTells
  <2>2. SamePdcs
    BY <1>31, <1>3, Unlisted DEF AuthTells, SamePdcs, Keeps
  <2>3. QED
    BY <1>1, <2>1, <2>2 DEF ThreadInv, SamePdcs, AuthLocked
<1>32. ASSUME NEW h \in Handles,
              \/ Open(h) \/ StartCentralRemoteThread(h) \/ Close(h)
              \/ TellsServer(h) \/ Unregister(h) \/ LocksServerLock(h)
              \/ FreeNetworkInfo(h) \/ JoinCentralRemoteThread(h)
       PROVE  ThreadInv'
  BY <1>32, <1>8
     DEF Open, StartCentralRemoteThread, Close, TellsServer, Unregister,
         LocksServerLock, FreeNetworkInfo, JoinCentralRemoteThread
<1>33. CASE \/ LoopTest \/ FindActiveRemoteDevices \/ CentralLocks
            \/ ErrorEvent \/ MonitorLocks \/ ConnectTwice \/ ConnectFails
  BY <1>33, <1>8
     DEF LoopTest, FindActiveRemoteDevices, CentralLocks, ErrorEvent,
         MonitorLocks, ConnectTwice, ConnectFails
<1>34. CASE UNCHANGED vars
  BY <1>34, <1>8
     DEF vars
<1>35. QED
  BY Zenon, <1>9, <1>10, <1>11, <1>12, <1>13, <1>14, <1>15, <1>16, <1>17,
     <1>18, <1>19, <1>20, <1>21, <1>22, <1>23, <1>24, <1>25, <1>26, <1>27, <1>28, <1>29,
     <1>30, <1>31, <1>32, <1>33, <1>34
     DEF Next, UserEnds, CentralStep, ReaderEnds, AuthStep, ErrorStep

\* Whoever waits for the read thread of c has taken its session from the server,
\* which is freed by nobody else; the error thread is the only one to wait.
UserJoins(c) == \E h \in Handles : user[h] = "join" /\ server[h] = c
CentralJoins(c) == central.pc = "beatJoin" /\ central.conn = c
ErrorJoining(c) == errT[c].pc = "join"
JoinInv ==
    \A c \in Connections :
        /\ UserJoins(c) \/ CentralJoins(c) \/ ErrorJoining(c) =>
               conn[c].session = "live" /\ ~conn[c].pdcs /\ conn[c].life # "none"
        /\ ErrorJoining(c) => ~UserJoins(c) /\ ~CentralJoins(c)

LEMMA JoinInvStep ==
  ASSUME TypeOK, CentralInv, LockInv, HandleInv, ConnInv, ListenInv, ListInv, JoinInv, [Next]_vars
  PROVE  JoinInv'
<1>1. /\ JoinInv /\ None \notin Connections
      /\ user = [h \in Handles |-> user[h]] /\ server = [h \in Handles |-> server[h]]
  BY Functions, NoneAssumption
<1> DEFINE SameConn == \A d \in Connections : Keeps(d) \/ conn'[d] = conn[d]
           NoUsers == \A d \in Connections : UserJoins(d)' => UserJoins(d)
           NoCentral == \A d \in Connections : CentralJoins(d)' => CentralJoins(d)
           NoErrors == \A d \in Connections : ErrorJoining(d)' => ErrorJoining(d)
<1>2. ASSUME SameConn, NoUsers, NoCentral, NoErrors PROVE JoinInv'
  BY <1>1, <1>2 DEF JoinInv, Keeps
<1>3. /\ UNCHANGED conn => SameConn
      /\ UNCHANGED <<user, server>> => NoUsers
      /\ UNCHANGED central => NoCentral
      /\ UNCHANGED errT => NoErrors
  BY DEF UserJoins, CentralJoins, ErrorJoining
<1>4. (~\E c \in Connections : HeartbeatTimesOut(c)) => NoCentral
  BY CentralHolds DEF CentralJoins
<1>5. ASSUME NEW c \in Connections, NEW who \in {"central", "reader", "auth"},
             StartsErrorThread(c, who)
      PROVE  NoErrors
  BY <1>5, ErrStarts, TypeParts DEF ErrorJoining
<1>6. (\A d \in Connections : Keeps(d)) => SameConn
  OBVIOUS
<1>7. ASSUME NoUsers, NoCentral, NoErrors,
             NEW c \in Connections, FreesSession(c), ~UserJoins(c)', ~CentralJoins(c)', ~ErrorJoining(c)'
      PROVE  JoinInv'
  BY <1>1, <1>7, SessionFreed DEF JoinInv, Keeps
\* Who joins c is the only one.
<1>8. ASSUME NEW c \in Connections
      PROVE  /\ CentralJoins(c) => \A h \in Handles : user[h] # "join"
             /\ \A h \in Handles : user[h] = "join" => \A g \in Handles : user[g] = "join" => g = h
  BY DEF CentralJoins, LockInv, UserLocked, UserLocks, CentralLocked, CentralLocking
<1>9. ASSUME NEW c \in Connections, conn[c].pdcs
      PROVE  /\ ~UserJoins(c) /\ ~CentralJoins(c) /\ ~ErrorJoining(c)
             /\ conn[c].session = "live" /\ conn[c].life = "alive"
  BY <1>1, <1>9 DEF JoinInv, ConnInv
<1>10. CASE \E c \in Connections : HeartbeatTimesOut(c)
  <2>1. PICK c \in Connections : HeartbeatTimesOut(c)
    BY <1>10
  <2>2. /\ UNCHANGED <<user, server, errT>> /\ central.pc = "beats"
    BY <2>1 DEF HeartbeatTimesOut
  <2>3. /\ \A d \in Connections : d # c => Keeps(d)
        /\ conn'[c].life = conn[c].life /\ conn'[c].session = conn[c].session /\ ~conn'[c].pdcs
        /\ \/ /\ conn[c].pdcs
              /\ central' = [central EXCEPT !.pc = "beatJoin", !.conn = c, !.todo = {}]
           \/ central' = [central EXCEPT !.todo = Servers]
    BY <2>1, TimedOut
  <2>4. \A d \in Connections : (UserJoins(d)' <=> UserJoins(d)) /\ (ErrorJoining(d)' <=> ErrorJoining(d))
    BY <2>2 DEF UserJoins, ErrorJoining
  <2>5. CASE conn[c].pdcs /\ central' = [central EXCEPT !.pc = "beatJoin", !.conn = c, !.todo = {}]
    <3>1. central'.pc = "beatJoin" /\ central'.conn = c
      BY <2>5, Central
    <3>2. \A d \in Connections : CentralJoins(d)' <=> d = c
      BY <3>1 DEF CentralJoins
    <3>3. QED
      BY <1>1, <1>9, <2>3, <2>4, <2>5, <3>2 DEF JoinInv, Keeps
  <2>6. CASE central' = [central EXCEPT !.todo = Servers]
    <3>1. central'.pc = "beats"
      BY <2>2, <2>6, Central
    <3>2. \A d \in Connections : ~CentralJoins(d)'
      BY <3>1 DEF CentralJoins
    <3>3. QED
      BY <1>1, <2>3, <2>4, <3>2 DEF JoinInv, Keeps
  <2>7. QED
    BY <2>3, <2>5, <2>6
<1>11. SUFFICES ASSUME ~\E c \in Connections : HeartbeatTimesOut(c) PROVE JoinInv'
  BY <1>10
<1>12. NoCentral
  BY <1>4, <1>11
<1> HIDE DEF SameConn, NoUsers, NoCentral, NoErrors
<1>13. ASSUME UNCHANGED <<user, server, errT, conn>> PROVE JoinInv'
  BY <1>2, <1>3, <1>12, <1>13
<1>14. ASSUME NEW h \in Handles,
              \/ Open(h) \/ StartCentralRemoteThread(h) \/ Close(h)
              \/ TellsServer(h)
       PROVE  JoinInv'
  <2>1. NoUsers
    BY <1>14, <1>1 DEF Open, StartCentralRemoteThread, Close, TellsServer, NoUsers, UserJoins
  <2>2. QED
    BY <1>14, <1>2, <1>3, <1>12, <2>1 DEF Open, StartCentralRemoteThread, Close, TellsServer
<1>15. ASSUME NEW h \in Handles,
              \/ Unregister(h) \/ LocksServerLock(h)
       PROVE  JoinInv'
  <2>1. NoUsers
    BY <1>15, <1>1 DEF Unregister, LocksServerLock, NoUsers, UserJoins
  <2>2. QED
    BY <1>15, <1>2, <1>3, <1>12, <2>1 DEF Unregister, LocksServerLock
<1>16. ASSUME NEW h \in Handles,
              \/ FreeNetworkInfo(h) \/ JoinCentralRemoteThread(h)
       PROVE  JoinInv'
  <2>1. NoUsers
    BY <1>16, <1>1 DEF FreeNetworkInfo, JoinCentralRemoteThread, NoUsers, UserJoins
  <2>2. QED
    BY <1>16, <1>2, <1>3, <1>12, <2>1 DEF FreeNetworkInfo, JoinCentralRemoteThread
<1>17. ASSUME NEW h \in Handles, DisconnectRemoteObject(h)
       PROVE  JoinInv'
  <2>1. UNCHANGED errT /\ user[h] = "disconnect"
    BY <1>17 DEF DisconnectRemoteObject
  <2>2. CASE server[h] \in Servers /\ h \in conn[server[h]].phids
    <3>1. PICK c \in Connections :
             /\ c = server[h] /\ \A d \in Connections : d # c => Keeps(d)
             /\ conn'[c].life = conn[c].life /\ conn'[c].session = conn[c].session
             /\ \/ /\ conn[c].pdcs /\ ~conn'[c].pdcs
                   /\ user' = [user EXCEPT ![h] = "join"] /\ UNCHANGED server
                \/ /\ conn'[c].pdcs = conn[c].pdcs
                   /\ server' = [server EXCEPT ![h] = None]
                   /\ user' = [user EXCEPT ![h] = "free"]
      BY <1>17, <2>2, Disconnected
    <3>2. CASE /\ conn[c].pdcs /\ ~conn'[c].pdcs
               /\ user' = [user EXCEPT ![h] = "join"] /\ UNCHANGED server
      <4>1. \A d \in Connections : d # c => (UserJoins(d)' <=> UserJoins(d))
        BY <1>1, <2>1, <3>1, <3>2 DEF UserJoins
      <4>2. \A d \in Connections : ErrorJoining(d)' <=> ErrorJoining(d)
        BY <2>1 DEF ErrorJoining
      <4>3. QED
        BY <1>1, <1>9, <1>12, <3>1, <3>2, <4>1, <4>2 DEF JoinInv, Keeps, NoCentral
    <3>3. CASE /\ conn'[c].pdcs = conn[c].pdcs
               /\ server' = [server EXCEPT ![h] = None]
               /\ user' = [user EXCEPT ![h] = "free"]
      <4>1. NoUsers /\ NoErrors
        BY <1>1, <1>3, <2>1, <3>3 DEF NoUsers, UserJoins
      <4>2. QED
        BY <1>1, <1>12, <3>1, <3>3, <4>1 DEF JoinInv, Keeps, NoUsers, NoCentral, NoErrors
    <3>4. QED
      BY <3>1, <3>2, <3>3
  <2>3. CASE ~(server[h] \in Servers /\ h \in conn[server[h]].phids)
    <3>1. NoUsers
      BY <1>17, <1>1, <2>3, NotDisconnected DEF NoUsers, UserJoins
    <3>2. QED
      BY <1>17, <1>2, <1>3, <1>12, <2>1, <2>3, <3>1, NotDisconnected
  <2>4. QED
    BY <2>2, <2>3
<1>18. ASSUME NEW h \in Handles, JoinsReadThread(h)
       PROVE  JoinInv'
  <2>1. PICK c \in Connections :
           /\ c = server[h] /\ FreesSession(c) /\ UNCHANGED <<errT, central>>
           /\ user[h] = "join" /\ user' = [user EXCEPT ![h] = "free"]
           /\ server' = [server EXCEPT ![h] = None]
    BY <1>18, TypeParts DEF JoinsReadThread, HandleInv, HandleTypes
  <2>2. NoUsers /\ NoErrors
    BY <1>1, <1>3, <2>1 DEF NoUsers, UserJoins
  <2>3. ~UserJoins(c)'
    BY <1>1, <1>8, <2>1 DEF UserJoins
  <2>4. UserJoins(c)
    BY <2>1 DEF UserJoins
  <2>5. ~CentralJoins(c)' /\ ~ErrorJoining(c)'
    BY <1>1, <1>8, <1>12, <2>1, <2>2, <2>4 DEF JoinInv, NoCentral, NoErrors
  <2>6. QED
    BY <1>7, <1>12, <2>1, <2>2, <2>3, <2>5
<1>19. CASE MonitorJoins
  <2>1. PICK c \in Connections :
           /\ c = central.conn /\ FreesSession(c) /\ UNCHANGED <<errT, user, server>>
           /\ central.pc = "beatJoin" /\ central'.pc = "beats"
    BY <1>19, Central DEF MonitorJoins, CentralInv
  <2>2. CentralJoins(c) /\ ~CentralJoins(c)' /\ NoUsers /\ NoErrors
    BY <1>3, <2>1 DEF CentralJoins
  <2>3. ~UserJoins(c) /\ ~ErrorJoining(c)
    BY <1>1, <1>8, <2>1, <2>2 DEF JoinInv, UserJoins
  <2>4. QED
    BY <1>7, <1>12, <2>1, <2>2, <2>3 DEF NoUsers, NoErrors
<1>20. ASSUME NEW c \in Connections, ErrorJoins(c)
       PROVE  JoinInv'
  <2>1. FreesSession(c) /\ UNCHANGED <<central, user, server>> /\ errT[c].pc = "join"
    BY <1>20 DEF ErrorJoins
  <2>2. /\ \A d \in Connections : d # c => errT'[d] = errT[d]
        /\ errT'[c].pc \in {"events", "none"}
    BY <1>20, ErrSettles
  <2>3. ErrorJoining(c) /\ ~ErrorJoining(c)' /\ NoUsers /\ NoErrors
    BY <1>3, <2>1, <2>2 DEF ErrorJoining, NoErrors
  <2>4. ~UserJoins(c) /\ ~CentralJoins(c)
    BY <1>1, <2>3 DEF JoinInv
  <2>5. QED
    BY <1>7, <1>12, <2>1, <2>3, <2>4 DEF NoUsers, NoCentral
<1>21. ASSUME NEW c \in Connections, ErrorTells(c)
       PROVE  JoinInv'
  <2>1. UNCHANGED <<user, server, conn>>
    BY <1>21 DEF ErrorTells
  <2>2. NoErrors
    BY <1>21, ErrSettles DEF NoErrors, ErrorJoining
  <2>3. QED
    BY <1>2, <1>3, <1>12, <2>1, <2>2
<1>22. ASSUME NEW c \in Connections, ErrorClosesServer(c)
       PROVE  JoinInv'
  <2>1. NoUsers
    BY <1>22, <1>3 DEF ErrorClosesServer
  <2>2. /\ \A d \in Connections : d # c => Keeps(d)
        /\ conn'[c].life = conn[c].life /\ conn'[c].session = conn[c].session /\ ~conn'[c].pdcs
        /\ \A d \in Connections : d # c => errT'[d] = errT[d]
        /\ errT'[c].pc = IF conn[c].pdcs THEN "join" ELSE "events"
    BY <1>22, ErrorCloses
  <2>3. CASE conn[c].pdcs
    BY <1>1, <1>9, <1>12, <2>1, <2>2, <2>3 DEF JoinInv, Keeps, NoUsers, NoCentral, ErrorJoining
  <2>4. CASE ~conn[c].pdcs
    BY <1>1, <1>12, <2>1, <2>2, <2>4 DEF JoinInv, Keeps, NoUsers, NoCentral, ErrorJoining
  <2>5. QED
    BY <2>3, <2>4
<1>23. ASSUME NEW c \in Connections, ErrorLocks(c) \/ ErrorMarksPhidget(c)
        PROVE  JoinInv'
  <2>1. UNCHANGED <<user, server, conn>>
    BY <1>23 DEF ErrorLocks, ErrorMarksPhidget
  <2>2. /\ \A d \in Connections : d # c => errT'[d] = errT[d]
        /\ errT'[c].pc = "phids"
    BY <1>23, Functions, Records DEF ErrorLocks, ErrorMarksPhidget, ErrorThread
  <2>3. NoErrors
    BY <2>2 DEF NoErrors, ErrorJoining
  <2>4. QED
    BY <1>2, <1>3, <1>12, <2>1, <2>3
<1>24. ASSUME NEW c \in Connections, ErrorForgetsServer(c)
        PROVE  JoinInv'
  <2>1. UNCHANGED <<user, errT, conn>> /\ \E h \in conn[c].phids : server' = [server EXCEPT ![h] = None]
    BY <1>24 DEF ErrorForgetsServer
  <2>2. NoUsers
    BY <1>1, <2>1 DEF NoUsers, UserJoins
  <2>3. QED
    BY <1>2, <1>3, <1>12, <2>1, <2>2
<1>25. CASE Authorize
  <2>1. SameConn /\ NoUsers /\ NoErrors
    BY <1>25, <1>3, <1>5, <1>6, Quiet DEF Authorize, CentralInv
  <2>2. QED
    BY <1>2, <1>12, <2>1
<1>26. CASE MonitorHeartbeats
  <2>1. SameConn /\ NoUsers /\ NoErrors
    BY <1>26, <1>3, <1>6, Quiet DEF MonitorHeartbeats
  <2>2. QED
    BY <1>2, <1>12, <2>1
<1>27. ASSUME NEW c \in Connections,
              \/ Heartbeat(c) \/ AuthorizationReply(c) \/ SessionEnds(c)
              \/ CleanupClearsFlags(c) \/ AuthEnablesReports(c)
              \/ PeerFails(c)
       PROVE  JoinInv'
  <2>1. SameConn /\ UNCHANGED <<user, server>>
    BY <1>27, <1>6, Quiet DEF Heartbeat, AuthorizationReply, SessionEnds, CleanupClearsFlags,
                          AuthEnablesReports, PeerFails
  <2>2. UNCHANGED errT \/ StartsErrorThread(c, "reader") \/ StartsErrorThread(c, "auth")
    BY <1>27 DEF Heartbeat, AuthorizationReply, SessionEnds, CleanupClearsFlags,
             AuthEnablesReports, PeerFails
  <2>3. NoErrors
    BY <1>3, <1>5, <2>2
  <2>4. QED
    BY <1>2, <1>3, <1>12, <2>1, <2>3
<1>28. CASE ConnectFound
  <2>1. UNCHANGED <<user, errT>> /\ central.phid \in active
    BY <1>28, Found DEF ConnectFound
  <2>2. PICK c \in Servers :
          /\ \A d \in Connections : d # c => Keeps(d)
          /\ conn'[c].life = conn[c].life /\ conn'[c].session = conn[c].session
          /\ conn'[c].pdcs = conn[c].pdcs
          /\ server' = [server EXCEPT ![central.phid] = c]
    BY <1>28, Found
  <2>3. central.phid \in Handles /\ user[central.phid] # "join"
    BY <2>1, TypeParts DEF HandleTypes, HandleInv
  <2>4. NoUsers /\ NoErrors
    BY <1>1, <1>3, <2>1, <2>2, <2>3 DEF NoUsers, UserJoins
  <2>5. QED
    BY <1>1, <1>12, <2>2, <2>4 DEF JoinInv, Keeps, NoUsers, NoCentral, NoErrors
<1>29. CASE ConnectListens
  <2>1. UNCHANGED <<user, errT>>
    BY <1>29 DEF ConnectListens
  <2>2. \A d \in Connections : conn'[d].life = conn[d].life /\ conn'[d].session = conn[d].session
                               /\ conn'[d].pdcs = conn[d].pdcs
    BY <1>29, Listened DEF Keeps
  <2>3. UNCHANGED server \/ server' = [server EXCEPT ![central.phid] = None]
    BY <1>29, Listened
  <2>4. NoUsers /\ NoErrors
    BY <1>1, <1>3, <2>1, <2>3 DEF NoUsers, UserJoins
  <2>5. QED
    BY <1>1, <1>12, <2>2, <2>4 DEF JoinInv, NoUsers, NoCentral, NoErrors
<1>30. CASE ConnectNew
  <2>1. UNCHANGED <<user, errT>> /\ central.phid \in active /\ server[central.phid] = None
    BY <1>30, Connected DEF ConnectNew
  <2>2. PICK c \in Connections :
            /\ conn[c].life = "none"
            /\ \A d \in Connections : d # c => Keeps(d)
            /\ server' = [server EXCEPT ![central.phid] = c]
    BY <1>30, Connected
  <2>3. central.phid \in Handles /\ user[central.phid] # "join"
    BY <2>1, TypeParts DEF HandleTypes, HandleInv
  <2>4. NoUsers /\ NoErrors
    BY <1>1, <1>3, <2>1, <2>2, <2>3 DEF NoUsers, UserJoins
  <2>5. ~UserJoins(c) /\ ~CentralJoins(c) /\ ~ErrorJoining(c)
    BY <1>1, <2>2 DEF JoinInv
  <2>6. QED
    BY <1>1, <1>12, <2>2, <2>4, <2>5 DEF JoinInv, Keeps, NoUsers, NoCentral, NoErrors
<1>31. CASE ConnectTwice \/ ConnectFails
  <2>1. UNCHANGED <<user, errT, conn, server>>
    BY <1>31, <1>1 DEF ConnectTwice, ConnectFails, CentralInv
  <2>2. QED
    BY <1>13, <2>1
<1>32. ASSUME NEW c \in Connections, HeartbeatTimesOut(c)
       PROVE  JoinInv'
  BY <1>32, <1>11
<1>33. ASSUME NEW c \in Connections, CleanupFreesServer(c)
       PROVE  JoinInv'
  <2>1. /\ UNCHANGED <<user, central, errT>>
        /\ server' = [g \in Handles |-> IF g \in conn[c].phids THEN None ELSE server[g]]
    BY <1>33 DEF CleanupFreesServer
  <2>2. NoUsers /\ NoErrors
    BY <1>1, <1>3, <2>1 DEF NoUsers, UserJoins
  <2>3. /\ \A d \in Connections : d # c => Keeps(d)
        /\ conn'[c].life = "freed" /\ ~conn'[c].pdcs
        /\ ~conn[c].pdcs => conn'[c].session = conn[c].session
    BY <1>33, Freed
  <2>4. QED
    BY <1>1, <1>9, <1>12, <2>2, <2>3 DEF JoinInv, Keeps, NoUsers, NoCentral, NoErrors
<1>34. ASSUME NEW c \in Connections, AuthListens(c)
       PROVE  JoinInv'
  <2>1. UNCHANGED <<user, errT, conn>>
    BY <1>34 DEF AuthListens
  <2>2. NoUsers
    BY <1>34, <1>1, <2>1, Listens DEF NoUsers, UserJoins
  <2>3. QED
    BY <1>2, <1>3, <1>12, <2>1, <2>2
<1>35. ASSUME NEW c \in Connections, AuthUnlocks(c)
       PROVE  JoinInv'
  <2>1. UNCHANGED <<user, server, errT>>
    BY <1>35 DEF AuthUnlocks
  <2>2. \A d \in Connections : conn'[d].life = conn[d].life /\ conn'[d].session = conn[d].session
                               /\ conn'[d].pdcs = conn[d].pdcs
    BY <1>35, Unlisted DEF Keeps
  <2>3. NoUsers /\ NoErrors
    BY <1>3, <2>1
  <2>4. QED
    BY <1>1, <1>12, <2>2, <2>3 DEF JoinInv, NoUsers, NoCentral, NoErrors
<1>36. CASE \/ LoopTest \/ FindActiveRemoteDevices \/ CentralLocks
            \/ ErrorEvent \/ MonitorLocks
  BY <1>36, <1>13
     DEF LoopTest, FindActiveRemoteDevices, CentralLocks, ErrorEvent,
         MonitorLocks
<1>37. ASSUME NEW c \in Connections,
              \/ WaitsForThreads(c) \/ CleanupLocks(c) \/ AuthStarts(c)
              \/ AuthMarksPhidget(c) \/ AuthTells(c)
       PROVE  JoinInv'
  BY <1>37, <1>13
     DEF WaitsForThreads, CleanupLocks, AuthStarts, AuthMarksPhidget,
         AuthTells
<1>38. CASE UNCHANGED vars
  BY <1>38, <1>13
     DEF vars
<1>39. QED
  BY Zenon, <1>14, <1>15, <1>16, <1>17, <1>18, <1>19, <1>20, <1>21, <1>22, <1>23, <1>24,
     <1>25, <1>26, <1>27, <1>28, <1>29, <1>30, <1>31, <1>32, <1>33, <1>34, <1>35,
     <1>36, <1>37, <1>38
     DEF Next, UserEnds, CentralStep, ReaderEnds, AuthStep, ErrorStep

\* Between the two halves of the cleanup of a server, while its disconnect
\* handlers run, no handle of it is connected and no user tells it of a close.
HandlersInv ==
    \A c \in Connections : reader[c] = "handlers" =>
        \A h \in conn[c].phids : ~connected[h] /\ user[h] # "notify"

LEMMA HandlersInvStep ==
  ASSUME TypeOK, CentralInv, LockInv, HandleInv, HandlersInv, [Next]_vars
  PROVE  HandlersInv'
<1>1. /\ HandlersInv /\ reader = [c \in Connections |-> reader[c]]
      /\ user = [h \in Handles |-> user[h]] /\ connected = [h \in Handles |-> connected[h]]
      /\ \A c \in Connections : conn[c].phids \subseteq Handles
  BY Functions, Records DEF CServerInfo
<1> DEFINE NoHandlers == \A d \in Connections : reader'[d] = "handlers" => reader[d] = "handlers"
           SameLists == \A d \in Connections : conn'[d].phids = conn[d].phids
           NoneTells == \A h \in Handles :
              ~connected[h] /\ user[h] # "notify" => ~connected'[h] /\ user'[h] # "notify"
<1>2. ASSUME NoHandlers, SameLists, NoneTells PROVE HandlersInv'
  BY <1>1, <1>2 DEF HandlersInv
<1>3. ASSUME UNCHANGED reader, serverLock # "reader" PROVE HandlersInv'
  BY <1>3 DEF HandlersInv, LockInv, ReaderLocked
<1>4. /\ UNCHANGED reader => NoHandlers
      /\ UNCHANGED conn => SameLists
      /\ UNCHANGED <<user, connected>> => NoneTells
  OBVIOUS
<1>5. ASSUME NEW c \in Connections, FreesSession(c) PROVE SameLists
  BY <1>5, SessionFreed DEF Keeps
<1>6. (\A d \in Connections : Keeps(d)) => SameLists
  BY DEF Keeps
<1> HIDE DEF NoHandlers, SameLists, NoneTells
<1>7. ASSUME UNCHANGED <<reader, conn, user, connected>> PROVE HandlersInv'
  BY <1>2, <1>4, <1>7
<1>8. ASSUME NEW h \in Handles,
             \/ Open(h) \/ StartCentralRemoteThread(h) \/ Close(h)
             \/ TellsServer(h)
      PROVE  HandlersInv'
  <2>1. NoneTells
    BY <1>8, <1>1 DEF Open, StartCentralRemoteThread, Close, TellsServer, NoneTells
  <2>2. QED
    BY <1>8, <1>2, <1>4, <2>1 DEF Open, StartCentralRemoteThread, Close, TellsServer
<1>9. ASSUME NEW h \in Handles,
             \/ Unregister(h) \/ LocksServerLock(h)
      PROVE  HandlersInv'
  <2>1. NoneTells
    BY <1>9, <1>1 DEF Unregister, LocksServerLock, NoneTells
  <2>2. QED
    BY <1>9, <1>2, <1>4, <2>1 DEF Unregister, LocksServerLock
<1>10. ASSUME NEW h \in Handles,
              \/ FreeNetworkInfo(h) \/ JoinCentralRemoteThread(h)
       PROVE  HandlersInv'
  <2>1. NoneTells
    BY <1>10, <1>1 DEF FreeNetworkInfo, JoinCentralRemoteThread, NoneTells
  <2>2. QED
    BY <1>10, <1>2, <1>4, <2>1 DEF FreeNetworkInfo, JoinCentralRemoteThread
<1>11. ASSUME NEW h \in Handles, DisconnectRemoteObject(h)
       PROVE  HandlersInv'
  BY <1>11, <1>3 DEF DisconnectRemoteObject, LockInv, UserLocked
<1>12. ASSUME NEW h \in Handles, JoinsReadThread(h)
       PROVE  HandlersInv'
  <2>1. SameLists
    BY <1>12, <1>5, TypeParts DEF JoinsReadThread, HandleInv, HandleTypes
  <2>2. NoneTells
    BY <1>12, <1>1 DEF JoinsReadThread, NoneTells
  <2>3. QED
    BY <1>12, <1>2, <1>4, <2>1, <2>2 DEF JoinsReadThread
<1>13. CASE MonitorJoins
  BY <1>13, <1>2, <1>4, <1>5 DEF MonitorJoins, CentralInv
<1>14. ASSUME NEW c \in Connections, ErrorJoins(c)
       PROVE  HandlersInv'
  BY <1>14, <1>2, <1>4, <1>5 DEF ErrorJoins
<1>15. CASE \/ Authorize \/ MonitorHeartbeats
  BY <1>15, <1>2, <1>4, <1>6, Quiet DEF Authorize, MonitorHeartbeats
<1>16. ASSUME NEW c \in Connections,
              \/ Heartbeat(c) \/ AuthorizationReply(c) \/ PeerFails(c)
              \/ AuthEnablesReports(c)
       PROVE  HandlersInv'
  <2>1. UNCHANGED <<reader, user, connected>>
    BY <1>16 DEF Heartbeat, AuthorizationReply, PeerFails, AuthEnablesReports
  <2>2. QED
    BY <1>16, <1>2, <1>4, <1>6, <2>1, Quiet
<1>17. ASSUME NEW c \in Connections, SessionEnds(c)
       PROVE  HandlersInv'
  <2>1. NoHandlers /\ UNCHANGED <<user, connected>>
    BY <1>17, <1>1 DEF SessionEnds, NoHandlers
  <2>2. QED
    BY <1>17, <1>2, <1>4, <1>6, <2>1, Quiet
<1>18. CASE ConnectFound \/ ConnectListens \/ ConnectNew
  <2>1. serverLock = "central"
    BY <1>18 DEF ConnectFound, ConnectListens, ConnectNew, LockInv, CentralLocked
  <2>2. CASE ConnectFound \/ ConnectListens
    BY <1>3, <2>1, <2>2 DEF ConnectFound, ConnectListens
  <2>3. CASE ConnectNew
    <3>1. PICK c \in Connections : reader' = [reader EXCEPT ![c] = "read"]
      BY <2>3, Connected
    <3>2. QED
      BY <1>1, <2>1, <3>1 DEF HandlersInv, LockInv, ReaderLocked
  <2>4. QED
    BY <1>18, <2>2, <2>3
<1>19. ASSUME NEW c \in Connections, HeartbeatTimesOut(c)
       PROVE  HandlersInv'
  BY <1>19, <1>3 DEF HeartbeatTimesOut, LockInv, CentralLocked
<1>20. ASSUME NEW c \in Connections,
              \/ WaitsForThreads(c) \/ CleanupLocks(c)
       PROVE  HandlersInv'
  <2>1. NoHandlers
    BY <1>20, <1>1 DEF WaitsForThreads, CleanupLocks, NoHandlers
  <2>2. QED
    BY <1>20, <1>2, <1>4, <2>1 DEF WaitsForThreads, CleanupLocks
<1>21. ASSUME NEW c \in Connections, CleanupClearsFlags(c)
       PROVE  HandlersInv'
  <2>1. /\ \A h \in conn[c].phids : user[h] # "notify"
        /\ connected' = [h \in Handles |-> connected[h] /\ h \notin conn[c].phids]
        /\ UNCHANGED user /\ reader[c] = "flags"
        /\ reader' = [reader EXCEPT ![c] = "handlers"]
    BY <1>21 DEF CleanupClearsFlags, PhidLocked
  <2>2. SameLists
    BY <1>21, <1>6, Quiet
  <2>3. \A d \in Connections : reader[d] = "handlers" => d = c
    BY <2>1 DEF LockInv, ReaderLocked
  <2>4. \A h \in conn[c].phids : ~connected'[h]
    BY <1>1, <2>1
  <2>5. QED
    BY <1>1, <2>1, <2>2, <2>3, <2>4 DEF HandlersInv, SameLists
<1>22. ASSUME NEW c \in Connections, CleanupFreesServer(c)
       PROVE  HandlersInv'
  <2>1. reader[c] = "handlers" /\ reader' = [reader EXCEPT ![c] = "done"]
    BY <1>22 DEF CleanupFreesServer
  <2>2. QED
    BY <1>1, <2>1 DEF HandlersInv, LockInv, ReaderLocked
<1>23. ASSUME NEW c \in Connections, AuthMarksPhidget(c)
       PROVE  HandlersInv'
  BY <1>23, <1>3 DEF AuthMarksPhidget, LockInv, AuthLocks, AuthLocked
<1>24. ASSUME NEW c \in Connections, AuthListens(c)
       PROVE  HandlersInv'
  BY <1>24, <1>3 DEF AuthListens, LockInv, AuthLocks, AuthLocked
<1>25. ASSUME NEW c \in Connections, AuthUnlocks(c)
       PROVE  HandlersInv'
  BY <1>25, <1>3 DEF AuthUnlocks, LockInv, AuthLocks, AuthLocked
<1>26. ASSUME NEW c \in Connections, ErrorClosesServer(c)
       PROVE  HandlersInv'
  BY <1>26, <1>3 DEF ErrorClosesServer, LockInv, ErrorLocked
<1>27. CASE \/ LoopTest \/ FindActiveRemoteDevices \/ CentralLocks
            \/ ErrorEvent \/ MonitorLocks \/ ConnectTwice \/ ConnectFails
  BY <1>27, <1>7
     DEF LoopTest, FindActiveRemoteDevices, CentralLocks, ErrorEvent,
         MonitorLocks, ConnectTwice, ConnectFails
<1>28. ASSUME NEW c \in Connections,
              \/ AuthStarts(c) \/ AuthTells(c) \/ ErrorTells(c)
              \/ ErrorLocks(c) \/ ErrorMarksPhidget(c) \/ ErrorForgetsServer(c)
       PROVE  HandlersInv'
  BY <1>28, <1>7
     DEF AuthStarts, AuthTells, ErrorTells, ErrorLocks, ErrorMarksPhidget,
         ErrorForgetsServer
<1>29. CASE UNCHANGED vars
  BY <1>29, <1>7
     DEF vars
<1>30. QED
  BY Zenon, <1>8, <1>9, <1>10, <1>11, <1>12, <1>13, <1>14, <1>15, <1>16,
     <1>17, <1>18, <1>19, <1>20, <1>21, <1>22, <1>23, <1>24, <1>25, <1>26,
     <1>27, <1>28, <1>29
     DEF Next, UserEnds, CentralStep, ReaderEnds, AuthStep, ErrorStep

-----------------------------------------------------------------------------
(* The theorems.                                                            *)

Inv ==
    /\ TypeOK /\ CentralInv /\ LockInv /\ HandleInv /\ ListenInv /\ ListInv /\ ConnInv
    /\ OneInv /\ OnceInv /\ ThreadInv /\ JoinInv /\ HandlersInv /\ ListenServer

LEMMA InvInit == Init => Inv
<1> SUFFICES ASSUME Init PROVE Inv
  OBVIOUS
<1> USE DEF Init
<1>1. TypeOK
  <2>1. HandleTypes /\ LockTypes /\ CentralTypes /\ ReaderTypes
    BY DEF HandleTypes, LockTypes, CentralTypes, ReaderTypes, UserPcs, Owners, CentralPcs
  <2>2. AuthTypes /\ ErrTypes
    BY DEF AuthTypes, ErrTypes, AuthThread, ErrorThread, NoThread, NoError
  <2>3. ConnTypes
    BY DEF ConnTypes, CServerInfo, NoConn, NewConn
  <2>4. QED
    BY <2>1, <2>2, <2>3, TypeParts
<1>2. /\ NoThread.pc = "none" /\ NoThread.failed = {} /\ NoError.pc = "none" /\ NoError.starts = 0
      /\ NoConn.life = "none" /\ NoConn.listed = FALSE /\ NoConn.phids = {} /\ NoConn.pdcs = FALSE
      /\ NoConn.auth = "none"
  BY DEF NoThread, NoError, NoConn, NewConn
<1>3. CentralInv /\ LockInv /\ HandleInv
  BY <1>2
     DEF CentralInv, LockInv, UserLocked, CentralLocked, ReaderLocked, AuthLocks,
         ErrorLocked,
              HandleInv, UserLocks, CentralLocking, AuthLocked
<1>4. ListenInv /\ ListInv /\ ConnInv /\ OneInv
  BY <1>2, NoneAssumption DEF ListenInv, ListInv, Dropped, ConnInv, OneInv
<1>5. OnceInv /\ ThreadInv /\ HandlersInv /\ ListenServer
  BY <1>2 DEF OnceInv, ThreadInv, HandlersInv, ListenServer, AuthLocked
<1>6. JoinInv
  BY <1>2 DEF JoinInv, UserJoins, CentralJoins, ErrorJoining
<1>7. QED
  BY <1>1, <1>3, <1>4, <1>5, <1>6 DEF Inv

LEMMA InvNext == Inv /\ [Next]_vars => Inv'
<1> SUFFICES ASSUME Inv, [Next]_vars PROVE Inv'
  OBVIOUS
<1> USE DEF Inv
<1>1. ListensTo /\ JoinsServer
  BY TypeParts, Records
     DEF ListenInv, ListensTo, HandleInv, JoinsServer, HandleTypes, CServerInfo
<1>2. TypeOK'
  <2>1. HandleTypes' /\ LockTypes' /\ CentralTypes' /\ ReaderTypes'
    BY HandleTypesStep, LockTypesStep, CentralTypesStep, ReaderTypesStep
  <2>2. AuthTypes' /\ ErrTypes' /\ ConnTypes'
    BY <1>1, AuthTypesStep, ErrTypesStep, ConnTypesStep
  <2>3. QED
    BY <2>1, <2>2 DEF TypeOK, HandleTypes, LockTypes, CentralTypes, ReaderTypes, AuthTypes,
                      ErrTypes, ConnTypes, AuthThread, ErrorThread, CServerInfo
<1>3. CentralInv' /\ LockInv' /\ HandleInv'
  BY CentralInvStep, LockStep, HandleInvStep
<1>4. ListenInv' /\ ListInv' /\ ConnInv' /\ OneInv'
  BY ListenInvStep, ListInvStep, ConnInvStep, OneInvStep
<1>5. OnceInv' /\ ThreadInv' /\ JoinInv' /\ HandlersInv' /\ ListenServer'
  BY OnceInvStep, ThreadInvStep, JoinInvStep, HandlersInvStep, ListenServerStep
<1>6. QED
  BY <1>2, <1>3, <1>4, <1>5

THEOREM InvAlways == Spec => []Inv
<1>1. Init => Inv
  BY InvInit
<1>2. Inv /\ [Next]_vars => Inv'
  BY InvNext
<1>3. QED
  BY <1>1, <1>2, PTL DEF Spec

\* Every variable keeps its type, however many handles and connections there are.
THEOREM TypeCorrect == Spec => []TypeOK
<1>1. Inv => TypeOK
  BY DEF Inv
<1>2. QED
  BY <1>1, InvAlways, PTL

LEMMA AliveServers == Inv => ServerIsAlive
<1> SUFFICES ASSUME Inv, NEW h \in Handles, server[h] # None, user[h] # "join"
             PROVE  conn[server[h]].life = "alive"
  BY DEF ServerIsAlive
<1>1. server[h] \in Connections
  BY TypeParts DEF Inv, HandleTypes
<1>2. h \in conn[server[h]].phids
  BY <1>1 DEF Inv, ListInv
<1>3. QED
  BY <1>1, <1>2 DEF Inv, ConnInv

LEMMA AgreeingLists == Inv => ListsAgree
<1> SUFFICES ASSUME Inv, serverLock = "free", NEW h \in Handles
             PROVE  /\ \A c \in Connections :
                          /\ server[h] = c /\ user[h] # "join" => h \in conn[c].phids
                          /\ h \in conn[c].phids =>
                                 \/ server[h] = c /\ user[h] # "join"
                                 \/ server[h] = None /\ h \notin Handled
                    /\ user[h] = "closed" => server[h] = None
  BY DEF ListsAgree
<1>1. \A c \in Connections : Dropped(c) = {} /\ errT[c].pc # "phids"
  BY DEF Inv, LockInv, AuthLocks, AuthLocked, ErrorLocked, Dropped
<1>2. QED
  BY <1>1 DEF Inv, ListInv, HandleInv

LEMMA AtMostOne ==
  ASSUME NEW S, \A x, y \in S : x = y
  PROVE  Cardinality(S) <= 1
<1>1. CASE S = {}
  BY <1>1, FS_EmptySet
<1>2. CASE S # {}
  <2>1. PICK x \in S : S = {x}
    BY <1>2
  <2>2. QED
    BY <2>1, FS_Singleton
<1>3. QED
  BY <1>1, <1>2

LEMMA OneServer == Inv => OneConnection
BY AtMostOne DEF Inv, OneInv, OneConnection, Servers

LEMMA SessionOfJoiner == Inv => JoinerHasSession
<1> SUFFICES ASSUME Inv, NEW c \in Connections
             PROVE  Cardinality(Joiners(c)) <= 1 /\ (Joiners(c) # {} => conn[c].session = "live")
  BY DEF JoinerHasSession
<1> DEFINE U == {h \in Handles : user[h] = "join" /\ server[h] = c}
           C == {t \in {"central"} : central.pc = "beatJoin" /\ central.conn = c}
           E == {t \in {"error"} : errT[c].pc = "join"}
<1>1. /\ \A x \in U : x \in Handles /\ user[x] = "join" /\ UserJoins(c)
      /\ \A x \in C : x = "central" /\ CentralJoins(c)
      /\ \A x \in E : x = "error" /\ ErrorJoining(c)
  BY DEF UserJoins, CentralJoins, ErrorJoining
<1>2. /\ \A g, h \in Handles : user[g] = "join" /\ user[h] = "join" => g = h
      /\ UserJoins(c) => ~CentralJoins(c)
      /\ ErrorJoining(c) => ~UserJoins(c) /\ ~CentralJoins(c)
      /\ UserJoins(c) \/ CentralJoins(c) \/ ErrorJoining(c) => conn[c].session = "live"
  BY DEF Inv, JoinInv, LockInv, UserLocked, UserLocks, CentralLocked, CentralLocking, UserJoins,
         CentralJoins
<1>3. Joiners(c) = U \cup C \cup E
  BY DEF Joiners
<1> HIDE DEF U, C, E
<1>4. \A x, y \in Joiners(c) : x = y
  BY <1>1, <1>2, <1>3
<1>5. Joiners(c) # {} => conn[c].session = "live"
  BY <1>1, <1>2, <1>3
<1>6. QED
  BY <1>4, <1>5, AtMostOne

LEMMA ServersOfThreads == Inv => ThreadsHaveServer /\ ErrorThreadStartsOnce
BY DEF Inv, ThreadInv, ConnInv, OnceInv, AuthLocked, ThreadsHaveServer, ErrorThreadStartsOnce

\* When serverLock is free the handles and the lists of the servers agree; there
\* is never more than one connection; and nobody works on a server or a session
\* that has been freed (but for the error thread of a failed write), whichever
\* of the threads of csocketopen.c closes the connection first.
THEOREM ServersAlwaysAgree == Spec => []ServersAgree
<1>1. Inv => ServersAgree
  BY AliveServers, AgreeingLists, OneServer, SessionOfJoiner, ServersOfThreads
     DEF ServersAgree, NothingOutlivesServer
<1>2. QED
  BY <1>1, InvAlways, PTL

\* Who is being closed and still refers to a server keeps it for another step,
\* unless the authorization of that server has failed.
LEMMA TellerKeepsServer ==
  ASSUME Inv, [Next]_vars, NEW g \in Handles, user[g] = "notify", server[g] # None,
         user'[g] = "notify", errT'[server[g]].starts = 0
  PROVE  server'[g] = server[g]
<1>1. /\ user = [x \in Handles |-> user[x]] /\ server = [x \in Handles |-> server[x]]
      /\ TypeOK /\ CentralInv
  BY Functions DEF Inv
<1>2. ASSUME UNCHANGED server PROVE server'[g] = server[g]
  BY <1>2
<1>3. CASE ConnectFound
  <2>1. server[central.phid] = None /\ \E c \in Servers : server' = [server EXCEPT ![central.phid] = c]
    BY <1>3, <1>1, Found
  <2>2. QED
    BY <1>1, <2>1
<1>4. CASE ConnectListens
  <2>1. UNCHANGED server \/ (user[central.phid] # "notify" /\ server' = [server EXCEPT ![central.phid] = None])
    BY <1>4, <1>1, Listened
  <2>2. QED
    BY <1>1, <2>1
<1>5. CASE ConnectNew
  BY <1>5, <1>1, Connected
<1>6. CASE ConnectTwice \/ ConnectFails
  BY <1>6, <1>1 DEF ConnectTwice, ConnectFails, CentralInv
<1>7. ASSUME NEW c \in Connections, CleanupFreesServer(c)
      PROVE  server'[g] = server[g]
  BY <1>7 DEF CleanupFreesServer, Inv, HandlersInv
<1>8. ASSUME NEW c \in Connections, AuthListens(c)
      PROVE  server'[g] = server[g]
  BY <1>8, <1>1, Listens
<1>9. ASSUME NEW c \in Connections, ErrorForgetsServer(c)
      PROVE  server'[g] = server[g]
  <2>1. PICK h \in conn[c].phids : server[h] # None /\ server' = [server EXCEPT ![h] = None]
    BY <1>9 DEF ErrorForgetsServer
  <2>2. errT[c].pc = "phids" /\ UNCHANGED errT
    BY <1>9 DEF ErrorForgetsServer
  <2>3. errT'[c].starts # 0
    BY <2>2 DEF Inv, OnceInv
  <2>4. Dropped(c) = {}
    BY <2>2 DEF Inv, LockInv, ErrorLocked, AuthLocks, AuthLocked, Dropped
  <2>5. h \in Handles
    BY <1>1, <2>1, Records DEF CServerInfo
  <2>6. server[h] = c
    BY <2>1, <2>4, <2>5 DEF Inv, ListInv
  <2>7. h # g
    BY <2>3, <2>6
  <2>8. QED
    BY <1>1, <2>1, <2>5, <2>7
<1>10. ASSUME NEW h \in Handles, DisconnectRemoteObject(h)
      PROVE  server'[g] = server[g]
  BY <1>10, <1>1
     DEF DisconnectRemoteObject
<1>11. ASSUME NEW h \in Handles, JoinsReadThread(h)
       PROVE  server'[g] = server[g]
  BY <1>11, <1>1
     DEF JoinsReadThread, Joined, FreesSession
<1>12. ASSUME NEW h \in Handles, FreeNetworkInfo(h)
       PROVE  server'[g] = server[g]
  BY <1>12, <1>1
     DEF FreeNetworkInfo
<1>13. ASSUME NEW h \in Handles,
              \/ Open(h) \/ StartCentralRemoteThread(h) \/ Close(h)
              \/ TellsServer(h) \/ Unregister(h) \/ LocksServerLock(h)
              \/ JoinCentralRemoteThread(h)
       PROVE  server'[g] = server[g]
  BY <1>13, <1>2
     DEF Open, StartCentralRemoteThread, Close, TellsServer, Unregister,
         LocksServerLock, JoinCentralRemoteThread
<1>14. CASE \/ LoopTest \/ FindActiveRemoteDevices \/ CentralLocks
            \/ ErrorEvent \/ MonitorLocks \/ MonitorHeartbeats \/ Authorize
            \/ MonitorJoins
  BY <1>14, <1>2
     DEF LoopTest, FindActiveRemoteDevices, CentralLocks, ErrorEvent,
         MonitorLocks, MonitorHeartbeats, CentralUnlocks, Authorize,
         StartsErrorThread, MonitorJoins, Joined, FreesSession
<1>15. ASSUME NEW c \in Connections,
              \/ HeartbeatTimesOut(c) \/ Heartbeat(c) \/ WaitsForThreads(c)
              \/ CleanupLocks(c) \/ CleanupClearsFlags(c)
              \/ AuthorizationReply(c) \/ SessionEnds(c) \/ AuthStarts(c)
              \/ AuthMarksPhidget(c) \/ AuthUnlocks(c) \/ AuthTells(c)
              \/ AuthEnablesReports(c) \/ ErrorTells(c) \/ PeerFails(c)
              \/ ErrorJoins(c) \/ ErrorLocks(c) \/ ErrorMarksPhidget(c)
              \/ ErrorClosesServer(c)
       PROVE  server'[g] = server[g]
  BY <1>15, <1>2
     DEF HeartbeatTimesOut, Closes, Heartbeat, WaitsForThreads, CleanupLocks,
         CleanupClearsFlags, AuthorizationReply, StartsErrorThread,
         SessionEnds, AuthStarts, AuthMarksPhidget, AuthUnlocks, AuthTells,
         AuthEnablesReports, ErrorTells, PeerFails, ErrorJoins, Joined,
         FreesSession, ErrorLocks, ErrorMarksPhidget, ErrorClosesServer
<1>16. CASE UNCHANGED vars
  BY <1>16, <1>2
     DEF vars
<1>17. QED
  BY Zenon, <1>3, <1>4, <1>5, <1>6, <1>7, <1>8, <1>9, <1>10, <1>11, <1>12, <1>13,
     <1>14, <1>15, <1>16
     DEF Next, UserEnds, CentralStep, ReaderEnds, AuthStep, ErrorStep

\* A step of a handle that is being told leaves it told of a server that is
\* alive, with a live session.
LEMMA TellerStep ==
  ASSUME Inv, Inv', [Next]_vars, NEW g \in Handles, PhidLocked(g), server[g] # None,
         user'[g] = "notify", errT'[server[g]].starts = 0
  PROVE  /\ server'[g] = server[g]
         /\ conn'[server[g]].life = "alive"
         /\ conn'[server[g]].session = "live"
<1>1. user[g] = "notify"
  BY DEF PhidLocked
<1>2. server'[g] = server[g] /\ server[g] \in Connections
  BY <1>1, TellerKeepsServer, TypeParts DEF Inv, HandleTypes
<1> PICK c \in Connections : c = server[g]
  BY <1>2
<1>3. g \in conn'[c].phids
  BY <1>2 DEF Inv, ListInv
<1>4. QED
  BY <1>2, <1>3 DEF Inv, ConnInv

\* While CPhidget_close tells the server of a handle that it is being closed,
\* under the lock of the handle only, the server is the same one, alive and with
\* a live session, unless its authorization has failed: what async_authorization_
\* error_handler_thread does to networkInfo->server it does without that lock.
THEOREM TellersHaveServer == Spec => TellsLiveServer
<1>1. ASSUME Inv, Inv', [Next]_vars
      PROVE  [\A h \in Handles :
                    /\ PhidLocked(h) /\ user'[h] = "notify"
                    /\ server[h] # None /\ errT'[server[h]].starts = 0
                 => /\ server'[h] = server[h]
                    /\ conn'[server[h]].life = "alive"
                    /\ conn'[server[h]].session = "live"]_vars
  BY <1>1, TellerStep
<1>2. QED
  BY <1>1, InvAlways, PTL DEF Spec, TellsLiveServer
=============================================================================
