------------------------------ MODULE PdictClient ------------------------------
(***************************************************************************)
(* The client side of the webservice protocol (dict/pdictclient.c): one    *)
(* session on one socket, shared by every remote handle of that server.    *)
(* Synchronous commands carry tag 0, keep their result_t on the stack and  *)
(* wait at most cmd_timeout; asynchronous ones carry a growing tag and are *)
(* answered through a callback that the read thread makes.  The pending    *)
(* commands are a binary tree under pdcs_pending_lock; every synchronous   *)
(* command has a grcba_lock of its own.                                    *)
(*                                                                         *)
(* An owner is a remote handle: it listens (setupKeysAndListeners), sets   *)
(* keys while it is open, and on close ignores its listener and calls      *)
(* cleanup_pending (disconnectRemoteObject).  A command is its number in   *)
(* the order of issue; its text, and the text of replies and reports, is   *)
(* left out.  The webservice at the other end is external: it answers in   *)
(* order, at any time, and may close the socket.                           *)
(***************************************************************************)
EXTENDS Naturals, Sequences, FiniteSets

CONSTANTS
    Callers,      \* threads that issue synchronous commands
    Owners,       \* remote handles
    NoOne,        \* no thread, no owner
    MaxCommands,  \* bound: commands in one behaviour
    MaxTimeouts,  \* bound: synchronous commands that time out
    MaxLine       \* bound: lines on their way to the client

ASSUME NoOneAssumption == NoOne \notin Callers \cup Owners
ASSUME FiniteAssumption == IsFiniteSet(Callers) /\ IsFiniteSet(Owners)
ASSUME PdictBounds ==
    MaxCommands \in Nat \ {0, 1} /\ MaxTimeouts \in Nat /\ MaxLine \in Nat

Sync == {"listen", "ignore", "get"}
Auth == {"authenticate", "password"}
Kinds == Sync \cup Auth \cup {"set"}

VARIABLES
    \* the session
    cmds,        \* every command issued: its kind, owner and the tag in its text
    pending,     \* pdcs_pending: the commands in the tree
    root,        \* the command at its root, 0 when it is empty
    pendingLock, \* owner of pdcs_pending_lock
    listeners,   \* pdcs_listeners: the owners with a listener
    told,        \* how often the end of a command was reported to who issued it
    outcome,     \* what was reported: "none", "ok" or "failed"
    freed,       \* commands whose result_t and argument are gone
    \* the read thread
    rpc,         \* where it is
    rcmd,        \* the command it is about to notify
    rline,       \* the line it has read
    \* the callers
    cpc,         \* where each caller is
    doing,       \* the kind of its command
    forOwner,    \* its owner
    own,         \* its command's number
    answer,      \* grcba_code, and the command whose reply it came from
    pdcLock,     \* owner of the server's pdc_lock
    \* the handles
    stage,       \* "closed", "connecting", "open", "closing"
    auth,        \* the authorization: "none", "sent", "ok", "failed"
    stamp,       \* the tag a set of the handle was formatted with, 0 for none
    \* the socket and the other end
    socket,      \* "open", "peer" once the webservice closed it, "closed"
    toServer,    \* commands on their way
    toClient,    \* replies and reports on their way
    subscribed,  \* owners the webservice reports to
    executed,    \* commands the webservice has carried out
    \* history
    timeouts,    \* synchronous commands that timed out
    trouble      \* a synchronous command has failed

treeVars == <<pending, root>>
readVars == <<rpc, rcmd, rline>>
callVars == <<cpc, doing, forOwner, own, answer>>
lineVars == <<socket, toServer, toClient, subscribed, executed>>
toldVars == <<told, outcome>>
historyVars == <<timeouts, trouble>>
vars == <<cmds, treeVars, pendingLock, listeners, toldVars, freed, readVars,
          callVars, pdcLock, stage, auth, stamp, lineVars, historyVars>>

NoAnswer == [code |-> "none", of |-> 0]
NoLine == [what |-> "none", of |-> 0, owner |-> NoOne, code |-> "ok"]

Init ==
    /\ cmds = <<>> /\ pending = {} /\ root = 0 /\ pendingLock = NoOne
    /\ listeners = {} /\ freed = {}
    /\ told = [n \in 1..MaxCommands |-> 0]
    /\ outcome = [n \in 1..MaxCommands |-> "none"]
    /\ rpc = "read" /\ rcmd = 0 /\ rline = NoLine
    /\ cpc = [k \in Callers |-> "idle"] /\ doing = [k \in Callers |-> "get"]
    /\ forOwner = [k \in Callers |-> NoOne] /\ own = [k \in Callers |-> 0]
    /\ answer = [k \in Callers |-> NoAnswer] /\ pdcLock = NoOne
    /\ stage = [o \in Owners |-> "closed"] /\ auth = "none"
    /\ stamp = [o \in Owners |-> 0]
    /\ socket = "open" /\ toServer = <<>> /\ toClient = <<>> /\ subscribed = {}
    /\ executed = {}
    /\ timeouts = 0 /\ trouble = FALSE

-----------------------------------------------------------------------------
(* The tree of pending commands.                                            *)

Numbers == 1..Len(cmds)
Kind(n) == cmds[n].kind
Owner(n) == cmds[n].owner
IsSync(n) == Kind(n) \in Sync
Asynchronous == {n \in Numbers : ~IsSync(n)}
NextTag == Cardinality(Asynchronous) + 1
Tag(n) == IF IsSync(n) THEN 0 ELSE Cardinality({i \in Asynchronous : i <= n})
Oldest(S) == CHOOSE n \in S : \A i \in S : n <= i
Newest(S) == CHOOSE n \in S : \A i \in S : n >= i
SyncPending == {n \in pending : IsSync(n)}

\* Tags grow, and tag 0 is the least: without a rotation ever the tree is a
\* spine to the right, where the oldest asynchronous command or tag 0 is the
\* root, and tag 0 hangs left of a root that is not tag 0.
RootAfter(S) ==
    IF root \in S \/ S = {} THEN (IF S = {} THEN 0 ELSE root)
    ELSE LET sync == {n \in S : IsSync(n)}
         IN IF sync # {} THEN Oldest(sync) ELSE Oldest(S)

\* Mutant: the command is inserted under the tag that follows its own.
InsertNext(n) ==
    /\ pending' = pending \cup {n + 1}
    /\ root' = IF pending = {} THEN n + 1 ELSE root

\* ptree_replace of a new command.
Insert(n) ==
    /\ pending' = pending \cup {n}
    /\ root' = IF pending = {} THEN n ELSE root

\* ptree_remove, ptree_inorder_walk_remove: the predecessor or the right child
\* of a removed root takes its place.
Remove(S) ==
    /\ pending' = pending \ S
    /\ root' = RootAfter(pending \ S)

\* finish_pending_async visits the tree in post-order: what is left of the
\* root, the spine from its end, the root.
NextInPostorder ==
    LET rest == pending \ {root}
        left == {n \in rest : IsSync(n)}
    IN IF rest = {} THEN root ELSE IF left # {} THEN Oldest(left) ELSE Newest(rest)

Writable == socket # "closed"

\* The bound leaves room for the threads that are about to issue a command.
Room ==
    Len(cmds) + Cardinality({k \in Callers : cpc[k] = "add"})
              + Cardinality({o \in Owners : stamp[o] # 0}) < MaxCommands

\* pu_write: what is written after the webservice has closed the socket is
\* accepted and lost.
Sent(n) == toServer' = IF socket = "open" THEN Append(toServer, n) ELSE toServer

-----------------------------------------------------------------------------
(* Asynchronous commands.                                                   *)

Issue(kind, o, text) ==
    cmds' = Append(cmds, [kind |-> kind, owner |-> o, text |-> text])

\* The end of the commands S is reported: r_notify or the error callback of an
\* asynchronous command, the return of cmd or jcmd.
Told(S, result) ==
    /\ told' = [n \in DOMAIN told |-> IF n \in S THEN told[n] + 1 ELSE told[n]]
    /\ outcome' = [n \in DOMAIN outcome |-> IF n \in S THEN result ELSE outcome[n]]
Result(code) == IF code \in {"ok", "challenge"} THEN "ok" ELSE "failed"

\* async_cmd_callback: insert, write, both under the lock.
Sends(kind, o, text) ==
    LET n == Len(cmds) + 1
    IN /\ pendingLock = NoOne /\ Writable
       /\ Issue(kind, o, text) /\ Insert(n) /\ Sent(n)
       /\ UNCHANGED <<toldVars, freed>>

\* The write fails: the error callback, then the command is taken out again.
SendFails(kind, o, text) ==
    LET n == Len(cmds) + 1
    IN /\ pendingLock = NoOne /\ socket # "open"
       /\ Issue(kind, o, text) /\ Told({n}, "failed") /\ freed' = freed \cup {n}
       /\ UNCHANGED <<treeVars, toServer>>

\* pdc_async_set by a thread of the program: under phid->lock, while
\* PHIDGET_SERVER_CONNECTED_FLAG is set, which it is from before pdc_listen on.
\* async_cmd_callback formats the command with the static tag, without a lock,
Formats(o) ==
    /\ stage[o] \in {"connecting", "open"} /\ rpc # "done" /\ Room
    /\ stamp[o] = 0 /\ stamp' = [stamp EXCEPT ![o] = NextTag]
    /\ UNCHANGED <<cmds, treeVars, pendingLock, listeners, toldVars, freed,
                   readVars, callVars, pdcLock, stage, auth, lineVars,
                   historyVars>>

\* and registers it, under the lock, with the tag as it is then.
AsyncSet(o) ==
    /\ stamp[o] # 0 /\ stamp' = [stamp EXCEPT ![o] = 0]
    /\ Sends("set", o, stamp[o]) \/ SendFails("set", o, stamp[o])
    /\ UNCHANGED <<pendingLock, listeners, readVars, callVars, pdcLock, stage,
                   auth, socket, toClient, subscribed, executed, historyVars>>

\* pdc_async_authorize from connectToServer.
Authorize ==
    /\ auth = "none"
    /\ \/ Sends("authenticate", NoOne, NextTag) /\ auth' = "sent"
       \/ SendFails("authenticate", NoOne, NextTag) /\ auth' = "failed"
    /\ UNCHANGED <<pendingLock, listeners, readVars, callVars, pdcLock, stage,
                   socket, toClient, subscribed, executed, historyVars, stamp>>

-----------------------------------------------------------------------------
(* Synchronous commands: cmd and jcmd.                                      *)

CallerAt(k, from, to) == cpc[k] = from /\ cpc' = [cpc EXCEPT ![k] = to]

\* The caller owns the command's grcba_lock: until it waits, and from the
\* timeout of that wait on.
HoldsAnswer(k) == cpc[k] \in {"write", "expired"}

\* Mutant: a close does not wait for phid->lock before pdc_ignore.
CallsInSet(k, kind, o) ==
    /\ CallerAt(k, "idle", "add") /\ Room
    /\ pdcLock = NoOne /\ pdcLock' = k
    /\ auth = "ok" /\ rpc # "done"
    /\ \/ kind = "listen" /\ stage[o] = "closed"
          /\ stage' = [stage EXCEPT ![o] = "connecting"]
          /\ listeners' = listeners \cup {o}
       \/ kind = "ignore" /\ stage[o] = "open"
          /\ stage' = [stage EXCEPT ![o] = "closing"] /\ UNCHANGED listeners
       \/ kind = "get" /\ stage[o] = "open" /\ UNCHANGED <<stage, listeners>>
    /\ doing' = [doing EXCEPT ![k] = kind]
    /\ forOwner' = [forOwner EXCEPT ![k] = o]
    /\ UNCHANGED <<cmds, treeVars, pendingLock, toldVars, freed, readVars, own,
                   answer, auth, lineVars, historyVars, stamp>>

\* pdc_listen registers its listener before the command; a handle that closes
\* has cleared PHIDGET_SERVER_CONNECTED_FLAG before pdc_ignore.
Calls(k, kind, o) ==
    /\ CallerAt(k, "idle", "add") /\ Room
    /\ pdcLock = NoOne /\ pdcLock' = k
    /\ auth = "ok" /\ rpc # "done"
    /\ \/ kind = "listen" /\ stage[o] = "closed"
          /\ stage' = [stage EXCEPT ![o] = "connecting"]
          /\ listeners' = listeners \cup {o}
       \/ kind = "ignore" /\ stage[o] = "open" /\ stamp[o] = 0
          /\ stage' = [stage EXCEPT ![o] = "closing"] /\ UNCHANGED listeners
       \/ kind = "get" /\ stage[o] = "open" /\ UNCHANGED <<stage, listeners>>
    /\ doing' = [doing EXCEPT ![k] = kind]
    /\ forOwner' = [forOwner EXCEPT ![k] = o]
    /\ UNCHANGED <<cmds, treeVars, pendingLock, toldVars, freed, readVars, own,
                   answer, auth, lineVars, historyVars, stamp>>

CmdAdds(k) ==
    LET n == Len(cmds) + 1
    IN /\ CallerAt(k, "add", "write")
       /\ pendingLock = NoOne
       /\ Issue(doing[k], forOwner[k], 0) /\ Insert(n)
       /\ own' = [own EXCEPT ![k] = n]
       /\ answer' = [answer EXCEPT ![k] = NoAnswer]
       /\ UNCHANGED <<pendingLock, listeners, toldVars, freed, readVars, doing,
                      forOwner, pdcLock, stage, auth, lineVars, historyVars,
                      stamp>>

CmdWrites(k) ==
    /\ CallerAt(k, "write", "wait") /\ Writable /\ Sent(own[k])
    /\ UNCHANGED <<cmds, treeVars, pendingLock, listeners, toldVars, freed,
                   readVars, doing, forOwner, own, answer, pdcLock, stage, auth,
                   socket, toClient, subscribed, executed, historyVars, stamp>>

\* jcmd, unlike cmd, keeps grcba_lock here; nobody but a notification of
\* this very command could want it.
CmdWriteFails(k) ==
    /\ CallerAt(k, "write", IF doing[k] = "get" THEN "expired" ELSE "unwritten")
    /\ socket # "open"
    /\ UNCHANGED <<cmds, treeVars, pendingLock, listeners, toldVars, freed,
                   readVars, doing, forOwner, own, answer, pdcLock, stage, auth,
                   lineVars, historyVars, stamp>>

\* pthread_cond_timedwait returns ETIMEDOUT and has taken grcba_lock again;
\* a reply that came in the meantime is not looked at.
CmdTimesOut(k) ==
    /\ CallerAt(k, "wait", "expired")
    /\ timeouts < MaxTimeouts /\ timeouts' = timeouts + 1
    /\ UNCHANGED <<cmds, treeVars, pendingLock, listeners, toldVars, freed,
                   readVars, doing, forOwner, own, answer, pdcLock, stage, auth,
                   lineVars, trouble, stamp>>

CmdForgets(k) ==
    /\ cpc[k] \in {"unwritten", "expired"} /\ cpc' = [cpc EXCEPT ![k] = "failed"]
    /\ pendingLock = NoOne /\ Remove({own[k]})
    /\ freed' = freed \cup {own[k]} /\ trouble' = TRUE
    /\ Told({own[k]}, "failed")
    /\ UNCHANGED <<cmds, pendingLock, listeners, readVars, doing, forOwner, own,
                   answer, pdcLock, stage, auth, lineVars, timeouts, stamp>>

\* The code is there: 200, or anything else.
CmdIsAnswered(k) ==
    /\ answer[k].code \in {"ok", "bad", "lost"}
    /\ CallerAt(k, "wait", IF answer[k].code = "ok" THEN "answered" ELSE "failed")
    /\ freed' = freed \cup {own[k]} /\ Told({own[k]}, Result(answer[k].code))
    /\ trouble' = (trouble \/ answer[k].code # "ok")
    /\ UNCHANGED <<cmds, treeVars, pendingLock, listeners, readVars, doing,
                   forOwner, own, answer, pdcLock, stage, auth, lineVars,
                   timeouts, stamp>>

\* The callers in csocketopen.c: a handle whose listener could not be set up
\* drops its server; a close goes on whatever pdc_ignore returned.
CallReturns(k) ==
    /\ cpc[k] \in {"answered", "failed"}
    /\ doing[k] = "listen" /\ cpc[k] = "failed" => stamp[forOwner[k]] = 0
    /\ cpc' = [cpc EXCEPT ![k] = IF doing[k] = "ignore" THEN "cleanup" ELSE "idle"]
    /\ pdcLock' = IF pdcLock = k THEN NoOne ELSE pdcLock
    /\ stage' = IF doing[k] # "listen" THEN stage
                ELSE [stage EXCEPT ![forOwner[k]] =
                         IF cpc[k] = "answered" THEN "open" ELSE "closed"]
    /\ forOwner' = [forOwner EXCEPT ![k] = IF doing[k] = "ignore" THEN @ ELSE NoOne]
    /\ own' = [own EXCEPT ![k] = 0]
    /\ answer' = [answer EXCEPT ![k] = NoAnswer]
    /\ UNCHANGED <<cmds, treeVars, pendingLock, listeners, toldVars, freed,
                   readVars, doing, auth, lineVars, historyVars, stamp>>

-----------------------------------------------------------------------------
(* cleanup_pending at the end of a close.                                   *)

\* clean_pending_async and async_pending_cmp look for async_cmd_cb and the arg.
PendingOf(o) == {n \in pending : Kind(n) = "set" /\ Owner(n) = o}

\* ptree_contains with async_pending_cmp, which never says "greater": it looks
\* at the root and to its left, where only tag 0 can be.
CleanupSees(o) == root \in PendingOf(o)

CleanupReturns(k) ==
    /\ CallerAt(k, "cleanup", "idle")
    /\ pendingLock = NoOne /\ ~CleanupSees(forOwner[k])
    /\ stage' = [stage EXCEPT ![forOwner[k]] = "closed"]
    /\ forOwner' = [forOwner EXCEPT ![k] = NoOne]
    /\ UNCHANGED <<cmds, treeVars, pendingLock, listeners, toldVars, freed,
                   readVars, doing, own, answer, pdcLock, auth, lineVars,
                   historyVars, stamp>>

\* After 500 ms of looking: clean_pending_async for the whole tree.
CleanupReports(k) ==
    LET left == PendingOf(forOwner[k])
    IN /\ CallerAt(k, "cleanup", "idle")
       /\ pendingLock = NoOne /\ CleanupSees(forOwner[k])
       /\ Remove(left) /\ Told(left, "failed") /\ freed' = freed \cup left
       /\ stage' = [stage EXCEPT ![forOwner[k]] = "closed"]
       /\ forOwner' = [forOwner EXCEPT ![k] = NoOne]
       /\ UNCHANGED <<cmds, pendingLock, listeners, readVars, doing, own,
                      answer, pdcLock, auth, lineVars, historyVars, stamp>>

\* A handle whose server is gone closes without a command (networkInfo->server
\* is NULL).
CloseWithoutServer(o) ==
    /\ rpc = "done" /\ stage[o] = "open"
    /\ stage' = [stage EXCEPT ![o] = "closed"]
    /\ UNCHANGED <<cmds, treeVars, pendingLock, listeners, toldVars, freed,
                   readVars, callVars, pdcLock, auth, lineVars, historyVars,
                   stamp>>

-----------------------------------------------------------------------------
(* The read thread.                                                         *)

ReaderAt(from, to) == rpc = from /\ rpc' = to

\* Mutant: a reply is taken for the oldest command, whatever its tag.
MatchesOldest(line) == IF pending = {} THEN {} ELSE {Oldest(pending)}

\* The pending command with the tag of a reply: tag 0 is whatever synchronous
\* command is pending now.
Matches(line) == {n \in pending : Tag(n) = cmds[line.of].text}

\* The lock is released before r_notify is called with the result.
ReadsReply ==
    /\ ReaderAt("read", "notify") /\ toClient # <<>> /\ socket # "closed"
    /\ Head(toClient).what = "reply" /\ pendingLock = NoOne
    /\ rcmd' \in Matches(Head(toClient))
    /\ rline' = Head(toClient)
    /\ IF Head(toClient).code = "more" THEN UNCHANGED treeVars ELSE Remove({rcmd'})
    /\ toClient' = Tail(toClient)
    /\ UNCHANGED <<cmds, pendingLock, listeners, toldVars, freed, callVars,
                   pdcLock, stage, auth, socket, toServer, subscribed, executed,
                   historyVars, stamp>>

\* "unanticipated result", or a report nobody listens to.
DropsLine ==
    /\ rpc = "read" /\ toClient # <<>> /\ socket # "closed"
    /\ \/ Head(toClient).what = "reply" /\ pendingLock = NoOne
          /\ Matches(Head(toClient)) = {}
       \/ Head(toClient).what = "report" /\ Head(toClient).owner \notin listeners
    /\ toClient' = Tail(toClient)
    /\ UNCHANGED <<cmds, treeVars, pendingLock, listeners, toldVars, freed,
                   readVars, callVars, pdcLock, stage, auth, socket, toServer,
                   subscribed, executed, historyVars, stamp>>

\* handle_report finds the listener, releases pdcs_listeners_lock, calls back.
ReadsReport ==
    /\ ReaderAt("read", "report") /\ toClient # <<>> /\ socket # "closed"
    /\ Head(toClient).what = "report" /\ Head(toClient).owner \in listeners
    /\ rline' = Head(toClient) /\ toClient' = Tail(toClient)
    /\ UNCHANGED <<cmds, treeVars, pendingLock, listeners, toldVars, freed,
                   rcmd, callVars, pdcLock, stage, auth, socket, toServer,
                   subscribed, executed, historyVars, stamp>>

ReportReturns ==
    /\ ReaderAt("report", "read") /\ rline' = NoLine
    /\ UNCHANGED <<cmds, treeVars, pendingLock, listeners, toldVars, freed,
                   rcmd, callVars, pdcLock, stage, auth, lineVars, historyVars,
                   stamp>>

\* getresult_cb, jgetresult_cb: the code goes to the caller that still waits;
\* a result that is gone is written to all the same, with no effect here.
NotifiesCaller ==
    /\ ReaderAt("notify", "read") /\ IsSync(rcmd)
    /\ \A k \in Callers : own[k] = rcmd => ~HoldsAnswer(k)
    /\ answer' = [k \in Callers |->
                     IF own[k] = rcmd /\ cpc[k] = "wait" /\ rline.code # "more"
                     THEN [code |-> rline.code, of |-> rline.of] ELSE answer[k]]
    /\ rcmd' = 0 /\ rline' = NoLine
    /\ UNCHANGED <<cmds, treeVars, pendingLock, listeners, toldVars, freed, cpc,
                   doing, forOwner, own, pdcLock, stage, auth, lineVars,
                   historyVars, stamp>>

\* async_cmd_cb: silent if the code is the desired one; frees the result.
NotifiesOwner ==
    /\ ReaderAt("notify", "read") /\ Kind(rcmd) = "set"
    /\ Told({rcmd}, Result(rline.code)) /\ freed' = freed \cup {rcmd}
    /\ rcmd' = 0 /\ rline' = NoLine
    /\ UNCHANGED <<cmds, treeVars, pendingLock, listeners, callVars, pdcLock,
                   stage, auth, lineVars, historyVars, stamp>>

\* async_auth_cb: 996 with a version, or one of the errors.
AuthorizationEnds ==
    /\ ReaderAt("notify", "read") /\ Kind(rcmd) \in Auth /\ rline.code # "challenge"
    /\ auth' = IF rline.code = "ok" THEN "ok" ELSE "failed"
    /\ Told({rcmd}, Result(rline.code)) /\ freed' = freed \cup {rcmd}
    /\ rcmd' = 0 /\ rline' = NoLine
    /\ UNCHANGED <<cmds, treeVars, pendingLock, listeners, callVars, pdcLock,
                   stage, lineVars, historyVars, stamp>>

\* 999: the hash of the password goes out as the next asynchronous command.
AuthorizationGoesOn ==
    LET n == Len(cmds) + 1
    IN /\ ReaderAt("notify", "read") /\ pendingLock = NoOne
       /\ Kind(rcmd) \in Auth /\ rline.code = "challenge"
       /\ Issue("password", NoOne, NextTag)
       /\ \/ Writable /\ Insert(n) /\ Sent(n)
             /\ Told({rcmd}, "ok") /\ freed' = freed \cup {rcmd} /\ UNCHANGED auth
          \/ socket # "open" /\ Told({rcmd, n}, "failed")
             /\ freed' = freed \cup {rcmd, n}
             /\ auth' = "failed" /\ UNCHANGED <<treeVars, toServer>>
       /\ rcmd' = 0 /\ rline' = NoLine
       /\ UNCHANGED <<pendingLock, listeners, callVars, pdcLock, stage, socket,
                      toClient, subscribed, executed, historyVars, stamp>>

\* pd_getline returns 0 and has closed the descriptor.
ReadEnds ==
    /\ ReaderAt("read", "drain") /\ pendingLock = NoOne /\ pendingLock' = "reader"
    /\ socket = "peer" => toClient = <<>>
    /\ socket # "open"
    /\ socket' = "closed" /\ toServer' = <<>> /\ toClient' = <<>>
    /\ UNCHANGED <<cmds, treeVars, listeners, toldVars, freed, rcmd, rline,
                   callVars, pdcLock, stage, auth, subscribed, executed,
                   historyVars, stamp>>

\* finish_pending_async: 500 for every pending command, under the lock.
FinishesCaller ==
    LET n == NextInPostorder
    IN /\ rpc = "drain" /\ pending # {} /\ IsSync(n)
       /\ \A k \in Callers : own[k] = n => ~HoldsAnswer(k)
       /\ answer' = [k \in Callers |->
                        IF own[k] = n THEN [code |-> "lost", of |-> n] ELSE answer[k]]
       /\ Remove({n})
       /\ UNCHANGED <<cmds, pendingLock, listeners, toldVars, freed, readVars,
                      cpc, doing, forOwner, own, pdcLock, stage, auth, lineVars,
                      historyVars, stamp>>

FinishesAsync ==
    LET n == NextInPostorder
    IN /\ rpc = "drain" /\ pending # {} /\ ~IsSync(n)
       /\ Remove({n}) /\ Told({n}, "failed") /\ freed' = freed \cup {n}
       /\ auth' = IF Kind(n) \in Auth THEN "failed" ELSE auth
       /\ UNCHANGED <<cmds, pendingLock, listeners, readVars, callVars, pdcLock,
                      stage, lineVars, historyVars, stamp>>

\* Mutant: only synchronous commands are told that the socket is closed.
DrainEndsEarly ==
    /\ ReaderAt("drain", "cleanup") /\ SyncPending = {} /\ pendingLock' = NoOne
    /\ listeners' = {}
    /\ UNCHANGED <<cmds, treeVars, toldVars, freed, rcmd, rline, callVars,
                   pdcLock, stage, auth, lineVars, historyVars, stamp>>

\* free_node for the listeners; the handlers of cleanup_after_socket follow.
DrainEnds ==
    /\ ReaderAt("drain", "cleanup") /\ pending = {} /\ pendingLock' = NoOne
    /\ listeners' = {}
    /\ UNCHANGED <<cmds, treeVars, toldVars, freed, rcmd, rline, callVars,
                   pdcLock, stage, auth, lineVars, historyVars, stamp>>

\* cleanup_after_socket has cleared PHIDGET_SERVER_CONNECTED_FLAG everywhere.
CleanedUp ==
    /\ ReaderAt("cleanup", "done") /\ \A o \in Owners : stamp[o] = 0
    /\ UNCHANGED <<cmds, treeVars, pendingLock, listeners, toldVars, freed,
                   rcmd, rline, callVars, pdcLock, stage, auth, lineVars,
                   historyVars, stamp>>

\* pu_close from closeServer, under pdc_lock: the last handle is gone, or
\* MonitorHeartbeats has waited too long.
PuClose ==
    /\ socket # "closed" /\ pdcLock = NoOne /\ auth # "none"
    /\ socket' = "closed" /\ toServer' = <<>> /\ toClient' = <<>>
    /\ UNCHANGED <<cmds, treeVars, pendingLock, listeners, toldVars, freed,
                   readVars, callVars, pdcLock, stage, auth, subscribed,
                   executed, historyVars, stamp>>

-----------------------------------------------------------------------------
(* The webservice (external).                                               *)

Line(n, code) == [what |-> "reply", of |-> n, owner |-> NoOne, code |-> code]

Replies(n) ==
    CASE Kind(n) = "authenticate" ->
             {<<Line(n, c)>> : c \in {"ok", "challenge", "bad"}}
      [] Kind(n) = "get" -> {<<Line(n, "more"), Line(n, "ok")>>, <<Line(n, "bad")>>}
      [] OTHER -> {<<Line(n, "ok")>>, <<Line(n, "bad")>>}

Answers ==
    /\ socket = "open" /\ toServer # <<>> /\ Len(toClient) < MaxLine
    /\ LET n == Head(toServer)
       IN /\ \E r \in Replies(n) :
                /\ toClient' = toClient \o r
                /\ executed' = IF r[Len(r)].code = "bad" THEN executed
                               ELSE executed \cup {n}
          /\ subscribed' = CASE Kind(n) = "listen" -> subscribed \cup {Owner(n)}
                             [] Kind(n) = "ignore" -> subscribed \ {Owner(n)}
                             [] OTHER -> subscribed
    /\ toServer' = Tail(toServer)
    /\ UNCHANGED <<cmds, treeVars, pendingLock, listeners, toldVars, freed,
                   readVars, callVars, pdcLock, stage, auth, socket,
                   historyVars, stamp>>

Reports(o) ==
    /\ socket = "open" /\ o \in subscribed /\ Len(toClient) < MaxLine
    /\ toClient' = Append(toClient, [what |-> "report", of |-> 0, owner |-> o,
                                     code |-> "ok"])
    /\ UNCHANGED <<cmds, treeVars, pendingLock, listeners, toldVars, freed,
                   readVars, callVars, pdcLock, stage, auth, socket, toServer,
                   subscribed, executed, historyVars, stamp>>

PeerCloses ==
    /\ socket = "open" /\ socket' = "peer" /\ toServer' = <<>>
    /\ UNCHANGED <<cmds, treeVars, pendingLock, listeners, toldVars, freed,
                   readVars, callVars, pdcLock, stage, auth, toClient,
                   subscribed, executed, historyVars, stamp>>

-----------------------------------------------------------------------------

Reader ==
    \/ ReadsReply \/ DropsLine \/ ReadsReport \/ ReportReturns
    \/ NotifiesCaller \/ NotifiesOwner \/ AuthorizationEnds \/ AuthorizationGoesOn
    \/ ReadEnds \/ FinishesCaller \/ FinishesAsync \/ DrainEnds \/ CleanedUp

CallContinues(k) ==
    \/ CmdAdds(k) \/ CmdWrites(k) \/ CmdWriteFails(k) \/ CmdForgets(k)
    \/ CmdIsAnswered(k) \/ CallReturns(k) \/ CleanupReturns(k) \/ CleanupReports(k)

Next ==
    \/ Reader
    \/ \E k \in Callers : CallContinues(k) \/ CmdTimesOut(k)
    \/ \E k \in Callers, kind \in Sync, o \in Owners : Calls(k, kind, o)
    \/ \E o \in Owners :
          Formats(o) \/ AsyncSet(o) \/ CloseWithoutServer(o) \/ Reports(o)
    \/ Authorize \/ PuClose \/ Answers \/ PeerCloses

Spec == Init /\ [][Next]_vars

\* The threads run, and the webservice answers what has reached it, however
\* many reports it sends in between.
FairSpec ==
    /\ Spec
    /\ WF_vars(Reader) /\ SF_vars(Answers)
    /\ \A k \in Callers : WF_vars(CallContinues(k))
    /\ \A o \in Owners : WF_vars(AsyncSet(o))

-----------------------------------------------------------------------------

\* What the lines on their way are like.
Codes == {"ok", "bad", "more", "challenge"}
ReplyLine == [what : {"reply"}, of : Numbers, owner : {NoOne}, code : Codes]
ReportLine == [what : {"report"}, of : {0}, owner : Owners, code : {"ok"}]

\* Every variable has its type (the fields of struct pdc_session and result_t).
TypeOK ==
    /\ cmds \in Seq([kind : Kinds, owner : Owners \cup {NoOne}, text : Nat])
    /\ Len(cmds) <= MaxCommands
    /\ stamp \in [Owners -> Nat]
    /\ pending \subseteq Numbers /\ root \in 0..MaxCommands
    /\ pendingLock \in Callers \cup {NoOne, "reader"}
    /\ listeners \subseteq Owners /\ subscribed \subseteq Owners
    /\ told \in [1..MaxCommands -> Nat] /\ freed \subseteq Numbers
    /\ outcome \in [1..MaxCommands -> {"none", "ok", "failed"}]
    /\ executed \subseteq Numbers
    /\ rpc \in {"read", "notify", "report", "drain", "cleanup", "done"}
    /\ rpc = "notify" => rcmd \in Numbers /\ rline \in ReplyLine
    /\ rpc = "report" => rline \in ReportLine
    /\ cpc \in [Callers -> {"idle", "add", "write", "wait", "expired", "unwritten",
                            "failed", "answered", "cleanup"}]
    /\ doing \in [Callers -> Sync] /\ forOwner \in [Callers -> Owners \cup {NoOne}]
    /\ own \in [Callers -> 0..MaxCommands]
    /\ answer \in [Callers -> [code : Codes \cup {"none", "lost"}, of : 0..MaxCommands]]
    /\ pdcLock \in Callers \cup {NoOne}
    /\ stage \in [Owners -> {"closed", "connecting", "open", "closing"}]
    /\ auth \in {"none", "sent", "ok", "failed"}
    /\ socket \in {"open", "peer", "closed"}
    /\ toServer \in Seq(Numbers) /\ toClient \in Seq(ReplyLine \cup ReportLine)
    /\ timeouts \in Nat /\ trouble \in BOOLEAN

\* "if or != NULL then pdcs_pending already contained a node with tag == r.r_tag
\* assert(!or)" in cmd and jcmd: two synchronous commands are never pending at
\* once, since every caller holds pdc_lock until its command is out of the tree.
TagIsFree == Cardinality(SyncPending) <= 1

\* read_results releases pdcs_pending_lock before it calls r_notify: as long as
\* no synchronous command has timed out, the result it calls it with still
\* exists, in whatever order replies, failed writes and the end of the socket
\* come.
NotifyIsOfLive == rpc = "notify" /\ timeouts = 0 => rcmd \notin freed

\* The code a caller of cmd or jcmd is given belongs to its own command, though
\* every one of them has tag 0; a command that timed out ends this.
AnswerIsOwn ==
    timeouts = 0 =>
        \A k \in Callers : answer[k].code # "none" => answer[k].of = own[k]

\* No command is reported twice, be it by a reply, by a failed
\* write, by cleanup_pending or by the end of the socket.
ToldOnce == \A n \in DOMAIN told : told[n] <= 1

\* A report is given to the handler of a handle that is not closed: pdc_ignore
\* waits for its answer, and the reports before it have then been handled.
ReportReachesOpen ==
    rpc = "report" /\ ~trouble => stage[rline.owner] # "closed"

\* Some command was written with another tag than it is registered with.
Misnumbered == \E n \in Numbers : cmds[n].text # Tag(n)

\* A handle that is closed has no command left whose error callback would be
\* called with it, unless a synchronous command has failed or a tag was wrong.
ClosedHasNoPending ==
    ~trouble /\ ~Misnumbered => \A o \in Owners :
        stage[o] = "closed" => PendingOf(o) = {} /\
            (rpc = "notify" => Kind(rcmd) # "set" \/ Owner(rcmd) # o)

\* "If there are pending keys for this arg, then 1st wait up to 1 second for
\* them to finish, then report the errors": when cleanup_pending returns, no
\* command of the handle is pending.
CleanupLeavesNone ==
    [][\A k \in Callers :
          cpc[k] = "cleanup" /\ cpc'[k] = "idle"
              => {n \in pending' : Owner(n) = forOwner[k]} = {}]_vars

\* Who may be locked out: the read thread, in finish_pending_async, wants the
\* grcba_lock of a command that itself wants pdcs_pending_lock.  A command that
\* has timed out can be one, and a jcmd that could not write.
MayLockOut ==
    \/ timeouts > 0
    \/ \E k \in Callers : doing[k] = "get" /\ cpc[k] = "expired"

\* cmd and jcmd return to their caller, as do pdc_ignore and cleanup_pending:
\* nobody waits for a lock whose owner waits for him, two cases apart.
CallReturnsToCaller ==
    \A k \in Callers : cpc[k] # "idle" ~> cpc[k] = "idle" \/ MayLockOut

\* Every asynchronous command issued before the read thread has found the
\* socket closed is answered or reported, if it went out with its own tag.
CommandIsTold ==
    \A n \in 1..MaxCommands :
        n \in pending /\ rpc = "read" /\ ~IsSync(n) /\ cmds[n].text = Tag(n)
            ~> n \notin pending \/ MayLockOut

\* What the callers and the handles may rely on, see Commands.
Service == INSTANCE Commands WITH issued <- Len(cmds)
ServiceSpec == Service!Spec

\* "Sends out an async command.  Response comes back on the r_notify callback":
\* the response to a command that is pending finds this command.
ResponseFindsCommand ==
    rpc = "read" /\ toClient # <<>> /\ Head(toClient).of \in pending
        => Head(toClient).of \in Matches(Head(toClient))

\* "respond for any pending commands (failed)...": when the socket is closed,
\* the read thread gets to the end of the pending commands.
DrainFinishes == rpc = "drain" ~> rpc # "drain"

\* What the tags and the two locks are for: every command gets its own answer,
\* once, while there is somebody to give it to.
AnswersAreOwn == TagIsFree /\ NotifyIsOfLive /\ AnswerIsOwn /\ ToldOnce

\* Nothing reaches a handle that has been closed: no report, no error callback.
ClosedIsForgotten == ReportReachesOpen /\ ClosedHasNoPending

\* Callers return and commands are reported, two lock-outs apart.
CallsAreAnswered == CallReturnsToCaller /\ CommandIsTold
=============================================================================
