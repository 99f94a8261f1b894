----------------------------- MODULE SocketClient -----------------------------
(***************************************************************************)
(* Remote handles and their connections to one webservice (csocketopen.c   *)
(* and the remote branch of CPhidget_close in cphidget.c).                 *)
(*                                                                         *)
(* Threads: one user per handle, who opens and closes it; the central      *)
(* remote thread, which connects the handles of activeRemotePhidgets and   *)
(* monitors the heartbeats; and per connection the read thread of its pdc  *)
(* session, which ends in cleanup_after_socket, the authorization thread   *)
(* and the authorization error thread.  The locks: serverLock,             *)
(* serverLockLock, activeRemotePhidgetsLock (held by the central thread    *)
(* from FindActiveRemoteDevices to its end, see ActiveLocked) and the lock *)
(* of a handle (held by its user inside CPhidget_close, see PhidLocked).   *)
(*                                                                         *)
(* A synchronous command of the session is one step that may fail at any   *)
(* time and succeeds only while the read thread reads an open socket; the  *)
(* session's own interleavings are module PdictClient.  Managers and       *)
(* dictionaries, which the code treats as it does handles, the attach and  *)
(* detach reports and Zeroconf are left out.  The handles in Handled have  *)
(* an error handler (fptrError), which decides what becomes of a handle    *)
(* that fails; handlers make no calls.  The webservice is external.        *)
(***************************************************************************)
EXTENDS Naturals, FiniteSets

CONSTANTS
    Handles,     \* remote handles, all opened with the same address and port
    Keepers,     \* bound: the handles that stay open once they are
    Handled,     \* the handles whose user has set an error handler
    Connections, \* bound: the CServerInfo objects of one behaviour
    Failures,    \* how the other end fails: "silent", "shut"
    None         \* no handle, no connection

ASSUME FailuresAssumption == Failures \subseteq {"silent", "shut"}
ASSUME KeepersAssumption == Keepers \subseteq Handles
ASSUME HandledAssumption == Handled \subseteq Handles
ASSUME NoneAssumption == None \notin Handles \cup Connections

VARIABLES
    \* the handles
    user,        \* where the user of each handle is in open or close
    active,      \* activeRemotePhidgets
    server,      \* networkInfo->server
    connected,   \* PHIDGET_SERVER_CONNECTED_FLAG
    inError,     \* PHIDGET_INERROREVENT_FLAG
    \* the locks
    serverLock, serverLockLock, \* which kind of thread owns them
    \* the threads
    central,     \* the central remote thread, with m_ThreadHandle and inErrorEvent
    reader,      \* the read thread of each connection
    authT,       \* its authorization thread
    errT,        \* its authorization error thread
    \* the connections
    conn         \* CServerInfo, CPhidgetSocketClient, session and socket

handleVars == <<user, active, server, connected, inError>>
locks == <<serverLock, serverLockLock>>
threads == <<central, reader, authT, errT>>
vars == <<handleVars, locks, threads, conn>>

Owners == {"free", "user", "central", "reader", "auth", "error"}

\* servers: the list under serverLock.
Servers == {c \in Connections : conn[c].listed}

\* The central thread holds activeRemotePhidgetsLock.
ActiveLocked ==
    central.pc \in {"walk", "serverLockLock", "serverLock", "connect", "listen", "authorize"}

\* The user of h holds the lock of h, which every change of a flag asks for.
PhidLocked(h) == user[h] = "notify"

\* The session of c can carry out a synchronous command.
Answers(c) == reader[c] = "read" /\ conn[c].socket = "open"

NewConn ==
    [life |-> "alive", listed |-> TRUE, phids |-> {}, up |-> FALSE,
     connecting |-> TRUE, pdcs |-> TRUE, session |-> "live",
     socket |-> "open", auth |-> "none", waiting |-> FALSE]

NoConn ==
    [NewConn EXCEPT !.life = "none", !.listed = FALSE, !.connecting = FALSE,
                    !.pdcs = FALSE, !.session = "none", !.socket = "none"]

NoThread == [pc |-> "none", run |-> FALSE, todo |-> {}, failed |-> {}, phid |-> None]
NoError == [pc |-> "none", run |-> FALSE, todo |-> {}, by |-> "none", starts |-> 0]

Init ==
    /\ user = [h \in Handles |-> "closed"]
    /\ active = {}
    /\ server = [h \in Handles |-> None]
    /\ connected = [h \in Handles |-> FALSE]
    /\ inError = [h \in Handles |-> FALSE]
    /\ serverLock = "free"
    /\ serverLockLock = "free"
    /\ central = [pc |-> "none", phid |-> None, conn |-> None, todo |-> {},
                  run |-> FALSE, handle |-> FALSE, inErrorEvent |-> FALSE]
    /\ reader = [c \in Connections |-> "none"]
    /\ authT = [c \in Connections |-> NoThread]
    /\ errT = [c \in Connections |-> NoError]
    /\ conn = [c \in Connections |-> NoConn]

-----------------------------------------------------------------------------
(* What several threads do. *)

\* async_authorization_error_handler: whoever learns that the authorization of
\* c has failed starts the error thread.
StartsErrorThread(c, who) ==
    errT' = [errT EXCEPT ![c].pc = "start", ![c].run = TRUE, ![c].by = who,
                         ![c].starts = @ + 1]

\* Mutant: without force.
ClosesUnforced(c, force) == conn[c].phids = {} /\ conn[c].pdcs

\* closeServer up to the join: with nobody left (or by force) the socket is
\* closed and pdcs forgotten, and serverLock is given up for the read thread.
Closes(c, force) == (conn[c].phids = {} \/ force) /\ conn[c].pdcs

ClosedConn(k) == [k EXCEPT !.socket = "closed", !.pdcs = FALSE]

\* closeServer from the join on: the read thread has returned, serverLock is
\* free to be taken again, and the session is freed.
Joined(c) == reader[c] = "done" /\ serverLock = "free"
FreesSession(c) == conn' = [conn EXCEPT ![c].session = "freed"]

-----------------------------------------------------------------------------
(* CPhidget_openRemoteIP and CPhidget_close of a handle, by its user. *)

\* CPhidget_openRemoteIPMaster and RegisterRemotePhidget.
Open(h) ==
    /\ user[h] = "closed"
    /\ ~ActiveLocked
    /\ user' = [user EXCEPT ![h] = "opening"]
    /\ active' = active \cup {h}
    /\ UNCHANGED <<server, connected, inError, locks, threads, conn>>

StartCentralRemoteThread(h) ==
    /\ user[h] = "opening"
    /\ user' = [user EXCEPT ![h] = "open"]
    /\ central' = IF central.handle /\ central.run
                  THEN central
                  ELSE [central EXCEPT !.pc = "test", !.run = TRUE, !.handle = TRUE]
    /\ UNCHANGED <<active, server, connected, inError, locks, reader, authT, errT, conn>>

\* CPhidget_close: with SERVER_CONNECTED the webservice is told, under the lock
\* of the handle and through networkInfo->server.
Close(h) ==
    /\ user[h] = "open" /\ h \notin Keepers
    /\ user' = [user EXCEPT ![h] = IF connected[h] THEN "notify" ELSE "unregister"]
    /\ UNCHANGED <<active, server, connected, inError, locks, threads, conn>>

TellsServer(h) ==
    /\ user[h] = "notify"
    /\ user' = [user EXCEPT ![h] = "unregister"]
    /\ UNCHANGED <<active, server, connected, inError, locks, threads, conn>>

\* unregisterRemotePhidget up to disconnectRemoteObject.
Unregister(h) ==
    /\ user[h] = "unregister"
    /\ ~ActiveLocked
    /\ active' = active \ {h}
    /\ connected' = [connected EXCEPT ![h] = FALSE]
    /\ user' = [user EXCEPT ![h] = "serverLockLock"]
    /\ UNCHANGED <<server, inError, locks, threads, conn>>

LocksServerLock(h) ==
    /\ \/ /\ user[h] = "serverLockLock"
          /\ serverLockLock = "free"
          /\ serverLockLock' = "user"
          /\ user' = [user EXCEPT ![h] = "serverLock"]
          /\ UNCHANGED serverLock
       \/ /\ user[h] = "serverLock"
          /\ serverLock = "free"
          /\ serverLock' = "user"
          /\ user' = [user EXCEPT ![h] = "disconnect"]
          /\ UNCHANGED serverLockLock
    /\ UNCHANGED <<active, server, connected, inError, threads, conn>>

\* disconnectRemoteObject: the handle leaves the list of its server, and the
\* last one closes the connection.
DisconnectRemoteObject(h) ==
    LET c == server[h]
        left == [conn EXCEPT ![c].phids = @ \ {h}] IN
    /\ user[h] = "disconnect"
    /\ serverLock' = "free"
    /\ IF c # None /\ c \in Servers /\ h \in conn[c].phids
       THEN IF left[c].phids = {} /\ left[c].pdcs
            THEN /\ conn' = [left EXCEPT ![c] = ClosedConn(@)]
                 /\ user' = [user EXCEPT ![h] = "join"]
                 /\ UNCHANGED <<server, serverLockLock>>
            ELSE /\ conn' = left
                 /\ server' = [server EXCEPT ![h] = None]
                 /\ serverLockLock' = "free"
                 /\ user' = [user EXCEPT ![h] = "free"]
       ELSE /\ serverLockLock' = "free"
            /\ user' = [user EXCEPT ![h] = "free"]
            /\ UNCHANGED <<conn, server>>
    /\ UNCHANGED <<active, connected, inError, threads>>

JoinsReadThread(h) ==
    /\ user[h] = "join"
    /\ Joined(server[h])
    /\ FreesSession(server[h])
    /\ server' = [server EXCEPT ![h] = None]
    /\ serverLockLock' = "free"
    /\ user' = [user EXCEPT ![h] = "free"]
    /\ UNCHANGED <<active, connected, inError, serverLock, threads>>

\* The end of unregisterRemotePhidget: networkInfo is freed, and whoever finds
\* no active handle joins the central thread.
FreeNetworkInfo(h) ==
    /\ user[h] = "free"
    /\ server' = [server EXCEPT ![h] = None]
    /\ user' = [user EXCEPT ![h] =
                    IF active = {} /\ central.handle /\ ~central.inErrorEvent
                    THEN "joinCentral" ELSE "closed"]
    /\ UNCHANGED <<active, connected, inError, locks, threads, conn>>

JoinCentralRemoteThread(h) ==
    /\ user[h] = "joinCentral"
    /\ central.pc = "exited" \/ ~central.handle
    /\ central' = [central EXCEPT !.handle = FALSE]
    /\ user' = [user EXCEPT ![h] = "closed"]
    /\ UNCHANGED <<active, server, connected, inError, locks, reader, authT, errT, conn>>

-----------------------------------------------------------------------------
(* The central remote thread: CentralRemoteThreadFunction. *)

\* The loop test, and the end of the thread in a step of its own.
LoopTest ==
    /\ \/ /\ central.pc = "test"
          /\ central' = [central EXCEPT !.pc = IF active # {} THEN "find" ELSE "exiting"]
       \/ /\ central.pc = "exiting"
          /\ central' = [central EXCEPT !.pc = "exited", !.run = FALSE]
    /\ UNCHANGED <<handleVars, locks, reader, authT, errT, conn>>

\* FindActiveRemoteDevices takes activeRemotePhidgetsLock and walks the list:
\* who is neither in an error event nor has a server is to be connected.
FindActiveRemoteDevices ==
    /\ \/ /\ central.pc = "find"
          /\ central' = [central EXCEPT !.pc = "walk", !.todo = active]
       \/ /\ central.pc = "walk"
          /\ \E h \in central.todo :
                central' = IF inError[h] \/ server[h] # None
                           THEN [central EXCEPT !.todo = @ \ {h}]
                           ELSE [central EXCEPT !.todo = @ \ {h}, !.phid = h,
                                                !.pc = "serverLockLock"]
       \/ /\ central.pc = "walk" /\ central.todo = {}
          /\ central' = [central EXCEPT !.pc = "monitor"]
    /\ UNCHANGED <<handleVars, locks, reader, authT, errT, conn>>

CentralLocks ==
    /\ \/ /\ central.pc = "serverLockLock" /\ serverLockLock = "free"
          /\ serverLockLock' = "central"
          /\ central' = [central EXCEPT !.pc = "serverLock"]
          /\ UNCHANGED serverLock
       \/ /\ central.pc = "serverLock" /\ serverLock = "free"
          /\ serverLock' = "central"
          /\ central' = [central EXCEPT !.pc = "connect"]
          /\ UNCHANGED serverLockLock
    /\ UNCHANGED <<handleVars, reader, authT, errT, conn>>

CentralUnlocks == serverLock' = "free" /\ serverLockLock' = "free"

\* connectToServer, case EPHIDGET_OK: there is a connection.  If it is up the
\* handle has SERVER_CONNECTED at once and the listener is to be set up.
ConnectFound ==
    LET h == central.phid IN
    /\ central.pc = "connect"
    /\ \E c \in Servers :
        /\ h \notin conn[c].phids
        /\ server' = [server EXCEPT ![h] = c]
        /\ conn' = [conn EXCEPT ![c].phids = @ \cup {h}]
        /\ IF conn[c].up
           THEN /\ ~PhidLocked(h)
                /\ connected' = [connected EXCEPT ![h] = TRUE]
                /\ central' = [central EXCEPT !.pc = "listen", !.conn = c]
                /\ UNCHANGED locks
           ELSE /\ central' = [central EXCEPT !.pc = "walk", !.phid = None]
                /\ CentralUnlocks
                /\ UNCHANGED connected
    /\ UNCHANGED <<user, active, inError, reader, authT, errT>>

\* setupKeysAndListeners_phidget of that handle; if it fails the handle leaves
\* the list, with an error handler or without.
ConnectListens ==
    LET h == central.phid
        c == central.conn IN
    /\ central.pc = "listen"
    /\ \/ /\ Answers(c)
          /\ UNCHANGED <<server, connected, conn>>
       \/ /\ ~PhidLocked(h)
          /\ connected' = [connected EXCEPT ![h] = FALSE]
          /\ server' = [server EXCEPT ![h] = None]
          /\ conn' = [conn EXCEPT ![c].phids = @ \ {h}]
    /\ central' = [central EXCEPT !.pc = "walk", !.phid = None, !.conn = None]
    /\ CentralUnlocks
    /\ UNCHANGED <<user, active, inError, reader, authT, errT>>

\* The handle is in the list already, left there by a failed listen: the list
\* takes no duplicate, connectToServer fails and the walk ends with an error.
ConnectTwice ==
    LET h == central.phid IN
    /\ central.pc = "connect"
    /\ \E c \in Servers : h \in conn[c].phids
    /\ server' = [server EXCEPT ![h] = None]
    /\ central' = [central EXCEPT !.pc = "error", !.todo = {}]
    /\ CentralUnlocks
    /\ UNCHANGED <<user, active, connected, inError, reader, authT, errT, conn>>

\* connectToServer, case EPHIDGET_NOTFOUND: the socket is connected, the session
\* and its read thread are there, and only then the server joins the list.
ConnectNew ==
    LET h == central.phid IN
    /\ central.pc = "connect"
    /\ Servers = {}
    /\ \E c \in Connections :
        /\ conn[c].life = "none"
        /\ conn' = [conn EXCEPT ![c] = [NewConn EXCEPT !.phids = {h}]]
        /\ reader' = [reader EXCEPT ![c] = "read"]
        /\ server' = [server EXCEPT ![h] = c]
        /\ central' = [central EXCEPT !.pc = "authorize", !.conn = c, !.phid = None]
    /\ UNCHANGED <<user, active, connected, inError, locks, authT, errT>>

\* pdc_async_authorize: the command is pending and written, or the write fails
\* and the error handler is called from here.  The wait for a heartbeat starts.
Authorize ==
    LET c == central.conn IN
    /\ central.pc = "authorize"
    /\ \/ /\ conn' = [conn EXCEPT ![c].auth = "pending", ![c].waiting = TRUE]
          /\ UNCHANGED errT
       \/ /\ conn[c].socket = "shut"
          /\ StartsErrorThread(c, "central")
          /\ conn' = [conn EXCEPT ![c].waiting = TRUE]
    /\ central' = [central EXCEPT !.pc = "walk", !.conn = None]
    /\ CentralUnlocks
    /\ UNCHANGED <<handleVars, reader, authT>>

\* Mutant: the walk starts again under activeRemotePhidgetsLock.
ConnectFailsRetrying ==
    /\ central.pc = "connect"
    /\ Servers = {}
    /\ \/ central' = [central EXCEPT !.pc = "walk", !.todo = active]
       \/ /\ user[central.phid] = "unregister"
          /\ central' = [central EXCEPT !.pc = "monitor", !.todo = {}, !.phid = None]
    /\ server' = [server EXCEPT ![central.phid] = None]
    /\ CentralUnlocks
    /\ UNCHANGED <<user, active, connected, inError, reader, authT, errT, conn>>

\* stream_server_connect fails: the walk ends, all locks are released, and an
\* error event is sent unless cancelConnect interrupted the connect.
ConnectFails ==
    /\ central.pc = "connect"
    /\ Servers = {}
    /\ \/ central' = [central EXCEPT !.pc = "error", !.todo = {}]
       \/ /\ user[central.phid] = "unregister"
          /\ central' = [central EXCEPT !.pc = "monitor", !.todo = {}, !.phid = None]
    /\ server' = [server EXCEPT ![central.phid] = None]
    /\ CentralUnlocks
    /\ UNCHANGED <<user, active, connected, inError, reader, authT, errT, conn>>

\* The error event, between inErrorEvent = PTRUE and PFALSE.
ErrorEvent ==
    /\ \/ /\ central.pc = "error"
          /\ central' = [central EXCEPT !.pc = "errorEvent", !.inErrorEvent = TRUE]
       \/ /\ central.pc = "errorEvent"
          /\ central' = [central EXCEPT !.pc = "monitor", !.inErrorEvent = FALSE,
                                        !.phid = None]
    /\ UNCHANGED <<handleVars, locks, reader, authT, errT, conn>>

MonitorLocks ==
    /\ \/ /\ central.pc = "monitor" /\ serverLockLock = "free"
          /\ serverLockLock' = "central"
          /\ central' = [central EXCEPT !.pc = "monitorServers"]
          /\ UNCHANGED serverLock
       \/ /\ central.pc = "monitorServers" /\ serverLock = "free"
          /\ serverLock' = "central"
          /\ central' = [central EXCEPT !.pc = "beats", !.todo = Servers]
          /\ UNCHANGED serverLockLock
    /\ UNCHANGED <<handleVars, reader, authT, errT, conn>>

\* MonitorHeartbeats: a server that has kept the library waiting too long is
\* closed by force, and the walk starts again.  How long it has been is left to
\* the clock: any wait may be too long.
HeartbeatTimesOut(c) ==
    LET over == [conn EXCEPT ![c].waiting = FALSE] IN
    /\ central.pc = "beats" /\ c \in central.todo
    /\ conn[c].waiting
    /\ IF Closes(c, TRUE)
       THEN /\ conn' = [over EXCEPT ![c] = ClosedConn(@)]
            /\ serverLock' = "free"
            /\ central' = [central EXCEPT !.pc = "beatJoin", !.conn = c, !.todo = {}]
       ELSE /\ conn' = over
            /\ central' = [central EXCEPT !.todo = Servers]
            /\ UNCHANGED serverLock
    /\ UNCHANGED <<handleVars, serverLockLock, reader, authT, errT>>

\* The other servers: the answer may still come, or the next heartbeat is sent.
\* A pass stands for the two seconds between heartbeats.
MonitorHeartbeats ==
    /\ central.pc = "beats"
    /\ \/ \E c \in central.todo :
            \/ /\ conn[c].waiting \/ conn[c].socket # "closed"
               /\ conn' = [conn EXCEPT ![c].waiting = TRUE]
               /\ central' = [central EXCEPT !.todo = @ \ {c}]
               /\ UNCHANGED locks
            \/ /\ ~conn[c].waiting /\ conn[c].socket = "closed" \* getsockname fails
               /\ central' = [central EXCEPT !.pc = "test", !.todo = {}]
               /\ CentralUnlocks
               /\ UNCHANGED conn
       \/ /\ central.todo = {}
          /\ central' = [central EXCEPT !.pc = "test"]
          /\ CentralUnlocks
          /\ UNCHANGED conn
    /\ UNCHANGED <<handleVars, reader, authT, errT>>

MonitorJoins ==
    LET c == central.conn IN
    /\ central.pc = "beatJoin"
    /\ Joined(c)
    /\ serverLock' = "central"
    /\ FreesSession(c)
    /\ central' = [central EXCEPT !.pc = "beats", !.conn = None, !.todo = Servers]
    /\ UNCHANGED <<handleVars, serverLockLock, reader, authT, errT>>

-----------------------------------------------------------------------------
(* The read thread of a connection. *)

\* network_heartbeat_event_handler
Heartbeat(c) ==
    /\ Answers(c) /\ conn[c].up /\ conn[c].waiting
    /\ conn' = [conn EXCEPT ![c].waiting = FALSE]
    /\ UNCHANGED <<handleVars, locks, threads>>

\* The reply to the authorization: async_authorization_handler starts the
\* authorization thread, or async_authorization_error_handler its counterpart.
AuthorizationReply(c) ==
    /\ Answers(c) /\ conn[c].auth = "pending"
    /\ conn' = [conn EXCEPT ![c].auth = "done"]
    /\ \/ /\ authT' = [authT EXCEPT ![c] = [@ EXCEPT !.pc = "start", !.run = TRUE]]
          /\ UNCHANGED errT
       \/ /\ StartsErrorThread(c, "reader")
          /\ UNCHANGED authT
    /\ UNCHANGED <<handleVars, locks, central, reader>>

\* read_results meets the end of the socket, ends the pending commands with an
\* error and calls cleanup_after_socket.
SessionEnds(c) ==
    /\ reader[c] = "read" /\ conn[c].socket \in {"shut", "closed"}
    /\ reader' = [reader EXCEPT ![c] = "authThread"]
    /\ IF conn[c].auth = "pending"
       THEN /\ conn' = [conn EXCEPT ![c].auth = "done"]
            /\ StartsErrorThread(c, "reader")
       ELSE UNCHANGED <<conn, errT>>
    /\ UNCHANGED <<handleVars, locks, central, authT>>

\* cleanup_after_socket waits for the two threads, one after the other.
WaitsForThreads(c) ==
    /\ \/ /\ reader[c] = "authThread" /\ ~authT[c].run
          /\ reader' = [reader EXCEPT ![c] = "errorThread"]
       \/ /\ reader[c] = "errorThread" /\ ~errT[c].run
          /\ reader' = [reader EXCEPT ![c] = "lock"]
    /\ UNCHANGED <<handleVars, locks, central, authT, errT, conn>>

CleanupLocks(c) ==
    /\ reader[c] = "lock" /\ serverLock = "free"
    /\ serverLock' = "reader"
    /\ reader' = [reader EXCEPT ![c] = "flags"]
    /\ UNCHANGED <<handleVars, serverLockLock, central, authT, errT, conn>>

\* Mutant: without the locks of the handles.
CleanupClearsUnlocked(c) ==
    /\ reader[c] = "flags"
    /\ conn' = [conn EXCEPT ![c].up = FALSE]
    /\ connected' = [h \in Handles |-> connected[h] /\ h \notin conn[c].phids]
    /\ reader' = [reader EXCEPT ![c] = "handlers"]
    /\ UNCHANGED <<user, active, server, inError, locks, central, authT, errT>>

\* The flags of the server and of its handles, under the locks of the handles.
CleanupClearsFlags(c) ==
    /\ reader[c] = "flags"
    /\ \A h \in conn[c].phids : ~PhidLocked(h)
    /\ conn' = [conn EXCEPT ![c].up = FALSE]
    /\ connected' = [h \in Handles |-> connected[h] /\ h \notin conn[c].phids]
    /\ reader' = [reader EXCEPT ![c] = "handlers"]
    /\ UNCHANGED <<user, active, server, inError, locks, central, authT, errT>>

\* Mutant: the handles keep the server that is freed.
CleanupKeepsServer(c) ==
    /\ reader[c] = "handlers"
    /\ conn' = [conn EXCEPT ![c] = [NoConn EXCEPT !.life = "freed",
                    !.session = IF conn[c].pdcs THEN "freed" ELSE conn[c].session]]
    /\ serverLock' = "free"
    /\ reader' = [reader EXCEPT ![c] = "done"]
    /\ UNCHANGED <<user, active, server, connected, inError, serverLockLock, central, authT, errT>>

\* After the disconnect handlers: no handle has the server any more, and the
\* server, with its session if nobody is closing it, is freed.
CleanupFreesServer(c) ==
    /\ reader[c] = "handlers"
    /\ server' = [h \in Handles |-> IF h \in conn[c].phids THEN None ELSE server[h]]
    /\ conn' = [conn EXCEPT ![c] = [NoConn EXCEPT !.life = "freed",
                    !.session = IF conn[c].pdcs THEN "freed" ELSE conn[c].session]]
    /\ serverLock' = "free"
    /\ reader' = [reader EXCEPT ![c] = "done"]
    /\ UNCHANGED <<user, active, connected, inError, serverLockLock, central, authT, errT>>

-----------------------------------------------------------------------------
(* async_authorization_handler_thread *)

\* It takes serverLock and looks whether a close was quicker.
AuthStarts(c) ==
    /\ authT[c].pc = "start" /\ serverLock = "free"
    /\ IF conn[c].pdcs
       THEN /\ serverLock' = "auth"
            /\ authT' = [authT EXCEPT ![c].pc = "reports"]
       ELSE /\ authT' = [authT EXCEPT ![c] = NoThread]
            /\ UNCHANGED serverLock
    /\ UNCHANGED <<handleVars, serverLockLock, central, reader, errT, conn>>

\* pdc_enable_periodic_reports: on success the server is connected and its
\* heartbeat set up, else the error thread is started.
AuthEnablesReports(c) ==
    /\ authT[c].pc = "reports"
    /\ \/ /\ Answers(c)
          /\ conn' = [conn EXCEPT ![c] = [@ EXCEPT !.up = TRUE, !.connecting = FALSE,
                                              !.waiting = TRUE]]
          /\ authT' = [authT EXCEPT ![c].pc = "phids", ![c].todo = conn[c].phids]
          /\ UNCHANGED <<errT, serverLock>>
       \/ /\ StartsErrorThread(c, "auth")
          /\ authT' = [authT EXCEPT ![c] = NoThread]
          /\ serverLock' = "free"
          /\ UNCHANGED conn
    /\ UNCHANGED <<handleVars, serverLockLock, central, reader>>

\* Each handle of the list: SERVER_CONNECTED first, then
\* setupKeysAndListeners_phidget; if that fails the handle loses its server,
\* and its place in the list only if there is an error event to be sent.
AuthMarksPhidget(c) ==
    /\ authT[c].pc = "phids"
    /\ \E h \in authT[c].todo :
        /\ ~PhidLocked(h)
        /\ connected' = [connected EXCEPT ![h] = TRUE]
        /\ authT' = [authT EXCEPT ![c].pc = "listen", ![c].phid = h, ![c].todo = @ \ {h}]
    /\ UNCHANGED <<user, active, server, inError, locks, central, reader, errT, conn>>

AuthListens(c) ==
    LET h == authT[c].phid IN
    /\ authT[c].pc = "listen"
    /\ \/ /\ Answers(c)
          /\ authT' = [authT EXCEPT ![c].pc = "phids", ![c].phid = None]
          /\ UNCHANGED <<connected, server>>
       \/ /\ ~PhidLocked(h)
          /\ connected' = [connected EXCEPT ![h] = FALSE]
          /\ server' = [server EXCEPT ![h] = None]
          /\ authT' = [authT EXCEPT ![c].pc = "phids", ![c].phid = None,
                                    ![c].failed = @ \cup ({h} \cap Handled)]
    /\ UNCHANGED <<user, active, inError, locks, central, reader, errT, conn>>

\* Mutant: the failed handles with an error handler stay in the list, too.
AuthUnlocksKeeping(c) ==
    /\ authT[c].pc = "phids" /\ authT[c].todo = {}
    /\ conn' = [conn EXCEPT ![c].phids = @]
    /\ authT' = [authT EXCEPT ![c].pc = "events", ![c].run = FALSE]
    /\ serverLock' = "free"
    /\ UNCHANGED <<handleVars, serverLockLock, central, reader, errT>>

\* Those in phidErrorEvents leave the list and the lock is released; the
\* connect and error events follow outside.
AuthUnlocks(c) ==
    /\ authT[c].pc = "phids" /\ authT[c].todo = {}
    /\ conn' = [conn EXCEPT ![c].phids = @ \ authT[c].failed]
    /\ authT' = [authT EXCEPT ![c].pc = "events", ![c].run = FALSE]
    /\ serverLock' = "free"
    /\ UNCHANGED <<handleVars, serverLockLock, central, reader, errT>>

AuthTells(c) ==
    /\ authT[c].pc = "events"
    /\ authT' = [authT EXCEPT ![c] = NoThread]
    /\ UNCHANGED <<handleVars, locks, central, reader, errT, conn>>

-----------------------------------------------------------------------------
(* async_authorization_error_handler_thread *)

\* Mutant: it takes serverLockLock, too, and keeps it.
ErrorKeepsLockLock(c) ==
    /\ errT[c].pc = "start" /\ serverLock = "free" /\ serverLockLock = "free"
    /\ conn[c].life = "alive"
    /\ serverLock' = "error" /\ serverLockLock' = "error"
    /\ errT' = [errT EXCEPT ![c].pc = "phids"]
    /\ UNCHANGED <<handleVars, central, reader, authT, conn>>

\* It takes serverLock, but not serverLockLock.  What a thread does with a
\* server that is freed is not defined: here it stops.
ErrorLocks(c) ==
    /\ errT[c].pc = "start" /\ serverLock = "free"
    /\ conn[c].life = "alive"
    /\ serverLock' = "error"
    /\ errT' = [errT EXCEPT ![c].pc = "phids"]
    /\ UNCHANGED <<handleVars, serverLockLock, central, reader, authT, conn>>

\* Each handle of the list: with an error handler it gets INERROREVENT, under
\* its lock, and an error event; then, under no lock of its own, it loses the
\* server.
ErrorMarksPhidget(c) ==
    /\ errT[c].pc = "phids"
    /\ \A h \in errT[c].todo : server[h] = None
    /\ \E h \in (conn[c].phids \cap Handled) \ errT[c].todo :
        /\ ~PhidLocked(h)
        /\ inError' = [inError EXCEPT ![h] = TRUE]
        /\ errT' = [errT EXCEPT ![c].todo = @ \cup {h}]
    /\ UNCHANGED <<user, active, server, connected, locks, central, reader, authT, conn>>

ErrorForgetsServer(c) ==
    /\ errT[c].pc = "phids"
    /\ \E h \in conn[c].phids :
        /\ server[h] # None
        /\ h \in Handled => h \in errT[c].todo
        /\ server' = [server EXCEPT ![h] = None]
    /\ UNCHANGED <<user, active, connected, inError, locks, threads, conn>>

\* The list is emptied and closeServer closes the connection.
ErrorClosesServer(c) ==
    LET emptied == [conn EXCEPT ![c].phids = {}, ![c].connecting = FALSE] IN
    /\ errT[c].pc = "phids"
    /\ conn[c].phids \cap Handled \subseteq errT[c].todo
    /\ \A h \in conn[c].phids : server[h] = None
    /\ errT' = [errT EXCEPT ![c].run = FALSE,
                            ![c].pc = IF conn[c].pdcs THEN "join" ELSE "events"]
    /\ conn' = [emptied EXCEPT ![c] = IF @.pdcs THEN ClosedConn(@) ELSE @]
    /\ serverLock' = "free"
    /\ UNCHANGED <<handleVars, serverLockLock, central, reader, authT>>

ErrorJoins(c) ==
    /\ errT[c].pc = "join"
    /\ Joined(c)
    /\ FreesSession(c)
    /\ errT' = [errT EXCEPT ![c].pc = "events"]
    /\ UNCHANGED <<handleVars, locks, central, reader, authT>>

\* The error event of each handle, then INERROREVENT is cleared.
ErrorTells(c) ==
    /\ errT[c].pc = "events"
    /\ \/ \E h \in errT[c].todo :
            /\ ~PhidLocked(h)
            /\ inError' = [inError EXCEPT ![h] = FALSE]
            /\ errT' = [errT EXCEPT ![c].todo = @ \ {h}]
       \/ /\ errT[c].todo = {}
          /\ errT' = [errT EXCEPT ![c].pc = "none", ![c].by = "none"]
          /\ UNCHANGED inError
    /\ UNCHANGED <<user, active, server, connected, locks, central, reader, authT, conn>>

-----------------------------------------------------------------------------
(* The other end. *)

\* The webservice falls silent, or the socket ends.
PeerFails(c) ==
    /\ \E end \in Failures :
        /\ conn[c].socket \in {"open", "silent"} \ {end}
        /\ conn' = [conn EXCEPT ![c].socket = end]
    /\ UNCHANGED <<handleVars, locks, threads>>

-----------------------------------------------------------------------------
UserEnds(h) ==
    \/ StartCentralRemoteThread(h) \/ TellsServer(h) \/ Unregister(h)
    \/ LocksServerLock(h) \/ DisconnectRemoteObject(h) \/ JoinsReadThread(h)
    \/ FreeNetworkInfo(h) \/ JoinCentralRemoteThread(h)

CentralStep ==
    \/ LoopTest \/ FindActiveRemoteDevices \/ CentralLocks
    \/ ConnectFound \/ ConnectListens \/ ConnectTwice \/ ConnectNew \/ ConnectFails
    \/ Authorize \/ ErrorEvent \/ MonitorLocks \/ MonitorHeartbeats \/ MonitorJoins

ReaderEnds(c) ==
    \/ SessionEnds(c) \/ WaitsForThreads(c) \/ CleanupLocks(c)
    \/ CleanupClearsFlags(c) \/ CleanupFreesServer(c)

AuthStep(c) ==
    \/ AuthStarts(c) \/ AuthEnablesReports(c) \/ AuthMarksPhidget(c)
    \/ AuthListens(c) \/ AuthUnlocks(c) \/ AuthTells(c)

ErrorStep(c) ==
    \/ ErrorLocks(c) \/ ErrorMarksPhidget(c) \/ ErrorForgetsServer(c)
    \/ ErrorClosesServer(c) \/ ErrorJoins(c) \/ ErrorTells(c)

Next ==
    \/ \E h \in Handles : Open(h) \/ Close(h) \/ UserEnds(h)
    \/ CentralStep
    \/ \E c \in Connections :
        \/ Heartbeat(c) \/ AuthorizationReply(c) \/ ReaderEnds(c)
        \/ AuthStep(c) \/ ErrorStep(c) \/ PeerFails(c) \/ HeartbeatTimesOut(c)

Spec == Init /\ [][Next]_vars

\* Every thread goes on, and a lock that is released again and again is
\* obtained: whoever contends for one sleeps between two rounds.  A server that
\* cannot answer, because it is not up or has failed, is at last found late.
Fairness ==
    /\ \A h \in Handles : SF_vars(UserEnds(h))
    /\ SF_vars(CentralStep)
    /\ \A c \in Connections :
        /\ SF_vars(ReaderEnds(c)) /\ SF_vars(AuthStep(c)) /\ SF_vars(ErrorStep(c))
        /\ SF_vars(~(conn[c].up /\ conn[c].socket = "open") /\ HeartbeatTimesOut(c))

FairSpec == Spec /\ Fairness

-----------------------------------------------------------------------------
(* Properties *)

UserPcs == {"closed", "opening", "open", "notify", "unregister", "serverLockLock",
            "serverLock", "disconnect", "join", "free", "joinCentral"}
CentralPcs == {"none", "test", "find", "walk", "serverLockLock", "serverLock", "connect",
               "listen", "authorize", "error", "errorEvent", "monitor", "monitorServers", "beats",
               "beatJoin", "exiting", "exited"}

TypeOK ==
    /\ user \in [Handles -> UserPcs]
    /\ active \subseteq Handles
    /\ server \in [Handles -> Connections \cup {None}]
    /\ connected \in [Handles -> BOOLEAN]
    /\ inError \in [Handles -> BOOLEAN]
    /\ serverLock \in Owners /\ serverLockLock \in {"free", "user", "central"}
    /\ central \in [pc : CentralPcs, phid : Handles \cup {None},
                    conn : Connections \cup {None},
                    todo : SUBSET (Handles \cup Connections),
                    run : BOOLEAN, handle : BOOLEAN, inErrorEvent : BOOLEAN]
    /\ reader \in [Connections -> {"none", "read", "authThread", "errorThread", "lock",
                                   "flags", "handlers", "done"}]
    /\ authT \in [Connections ->
            [pc : {"none", "start", "reports", "phids", "listen", "events"},
             run : BOOLEAN, todo : SUBSET Handles, failed : SUBSET Handles,
             phid : Handles \cup {None}]]
    /\ errT \in [Connections ->
            [pc : {"none", "start", "phids", "join", "events"}, run : BOOLEAN,
             todo : SUBSET Handles, starts : Nat,
             by : {"none", "central", "reader", "auth"}]]
    /\ conn \in [Connections ->
            [life : {"none", "alive", "freed"}, listed : BOOLEAN, phids : SUBSET Handles,
             up : BOOLEAN, connecting : BOOLEAN, pdcs : BOOLEAN,
             session : {"none", "live", "freed"},
             socket : {"none", "open", "silent", "shut", "closed"},
             auth : {"none", "pending", "done"}, waiting : BOOLEAN]]

\* The server a handle refers to has not been freed, but for the handle whose
\* close is waiting for the read thread of that very server.
ServerIsAlive ==
    \A h \in Handles :
        server[h] # None => conn[server[h]].life = "alive" \/ user[h] = "join"

\* When nobody holds serverLock, a handle refers only to the server that lists
\* it, a server lists only who refers to it, but for a handle without an error
\* handler whose listen has failed, and a handle that is closed refers to none.
ListsAgree ==
    serverLock = "free" => \A h \in Handles :
        /\ \A c \in Connections :
            /\ server[h] = c /\ user[h] # "join" => h \in conn[c].phids
            /\ h \in conn[c].phids =>
                   \/ server[h] = c /\ user[h] # "join"
                   \/ server[h] = None /\ h \notin Handled
        /\ user[h] = "closed" => server[h] = None

\* "we have to remove this phid from the server list, and remove it's reference
\* to the server, so that another connection attempt will be made": whoever is
\* in the list of a server refers to it.
ListedRefers ==
    serverLock = "free" =>
        \A h \in Handles, c \in Connections : h \in conn[c].phids => server[h] = c

\* The user who tells the server of the close reads networkInfo->server and its
\* session with no lock but the handle's, which the cleanup asks for before it
\* clears SERVER_CONNECTED: unless the authorization of the server has failed,
\* whose error thread takes the pointer away without that lock, it stays what
\* it is until he is done, and neither server nor session is freed.
TellsLiveServer ==
    [][\A h \in Handles :
          /\ PhidLocked(h) /\ user'[h] = "notify"
          /\ server[h] # None /\ errT'[server[h]].starts = 0
        => /\ server'[h] = server[h]
           /\ conn'[server[h]].life = "alive"
           /\ conn'[server[h]].session = "live"]_vars

\* Who is waiting for the read thread of c.
Joiners(c) ==
    {h \in Handles : user[h] = "join" /\ server[h] = c}
        \cup {t \in {"central"} : central.pc = "beatJoin" /\ central.conn = c}
        \cup {t \in {"error"} : errT[c].pc = "join"}

\* "don't want the cleanup function to free pdcs while we're waiting on it": one
\* thread joins a read thread, and the session is there until it has.
JoinerHasSession ==
    \A c \in Connections :
        /\ Cardinality(Joiners(c)) <= 1
        /\ Joiners(c) # {} => conn[c].session = "live"

\* "wait for the threads to be done": no thread of a connection works on a server
\* that is freed, but for the error thread that the central thread starts after
\* a failed write.
ThreadsHaveServer ==
    \A c \in Connections :
        /\ authT[c].pc \in {"start", "reports", "phids", "listen"}
               => conn[c].life = "alive" /\ (authT[c].pc # "start" => conn[c].session = "live")
        /\ reader[c] \in {"authThread", "errorThread", "lock", "flags", "handlers"}
               => conn[c].life = "alive" /\ conn[c].session = "live"
        /\ errT[c].pc = "start" /\ errT[c].by # "central" => conn[c].life = "alive"
        /\ errT[c].pc = "phids" => conn[c].life = "alive"

\* "there should only be one running per server at a time!": the end of an
\* authorization is told once, so that nobody joins an error thread while he
\* holds the lock that thread is waiting for.
ErrorThreadStartsOnce == \A c \in Connections : errT[c].starts <= 1

\* There is one connection to the webservice.
OneConnection == Cardinality(Servers) <= 1

\* CPhidget_close returns: neither the read thread, nor the authorization, nor
\* the heartbeat monitor, nor the central thread keeps it waiting for ever.  Of
\* several handles this holds only while no other is opened before the last
\* close has joined the central thread, which then goes on.
CloseReturns == \A h \in Handles : user[h] = "unregister" ~> user[h] = "closed"

\* A handle that is connected learns that its server has gone, be it that the
\* socket ended or that the heartbeat fell silent.
LossIsTold ==
    \A h \in Handles, c \in Connections :
        (/\ user[h] = "open" /\ connected[h]
         /\ server[h] = c /\ conn[c].up /\ conn[c].socket # "open")
            ~> ~connected[h] \/ user[h] # "open"

\* "TODO: have some sort of timeout for the connection to succeed or fail": the
\* wait for the first heartbeat is one.
ConnectingEnds ==
    \A c \in Connections : conn[c].connecting ~> ~conn[c].connecting

\* "wait for the threads to be done": the error thread's server is not freed
\* before it has run.
ErrorThreadHasServer ==
    \A c \in Connections : errT[c].pc = "start" => conn[c].life = "alive"

\* PHIDGET_SERVER_CONNECTED_FLAG, "true: networkInfo->server is valid and
\* connected", of a handle that is open.
ConnectedMeansServer ==
    \A h \in Handles :
        user[h] = "open" /\ connected[h]
            => server[h] # None /\ conn[server[h]].up

\* No handle and no thread has a server or a session that has been freed.
NothingOutlivesServer ==
    ServerIsAlive /\ JoinerHasSession /\ ThreadsHaveServer /\ ErrorThreadStartsOnce

\* Handles and servers agree, there is one server for the one address, and
\* nothing of a server is left where it is gone.
ServersAgree == ListsAgree /\ OneConnection /\ NothingOutlivesServer

\* A lost server and one that never answers are both noticed.
SilenceIsNoticed == LossIsTold /\ ConnectingEnds
=============================================================================
