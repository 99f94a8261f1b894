--------------------------- MODULE PdictClient_proofs ---------------------------
(***************************************************************************)
(* Theorems about PdictClient: first the types, and what they rest on.     *)
(* Base is the inductive invariant: a variable has its type because a      *)
(* caller has the number of a command of its own, a reply fits the command *)
(* it is notified to, the root is pending, and nothing but the             *)
(* authorization is under way before the session is authorized.  Then      *)
(* every command gets its own answer, once, and a handle that is closed    *)
(* gets nothing more.                                                      *)
(***************************************************************************)
EXTENDS PdictClient, FiniteSetTheorems, SequenceTheorems,
        WellFoundedInduction, TLAPS

USE DEF treeVars, readVars, callVars, lineVars, toldVars, historyVars

-----------------------------------------------------------------------------
(* Commands are numbered in the order of issue, and keep number and tag.    *)

\* The next tag is a number, and is not 0.
LEMMA NextTagType == ASSUME TypeOK PROVE NextTag \in Nat \ {0}
<1>1. Len(cmds) \in Nat
  BY DEF TypeOK
<1>2. IsFiniteSet(Numbers)
  BY <1>1, FS_Interval DEF Numbers
<1>3. IsFiniteSet(Asynchronous)
  BY <1>2, FS_Subset DEF Asynchronous
<1>4. QED
  BY <1>3, FS_CardinalityType DEF NextTag

\* A step issues a command or none.
LEMMA CmdsStep ==
  ASSUME TypeOK, [Next]_vars
  PROVE  \/ cmds' = cmds
         \/ \E kind \in Kinds, x \in Owners \cup {NoOne}, text \in Nat :
               Issue(kind, x, text)
<1> DEFINE Issues == \E kind \in Kinds, x \in Owners \cup {NoOne}, text \in Nat :
                        Issue(kind, x, text)
<1>1. /\ doing \in [Callers -> Kinds] /\ forOwner \in [Callers -> Owners \cup {NoOne}]
      /\ stamp \in [Owners -> Nat] /\ NextTag \in Nat
      /\ {"set", "authenticate", "password"} \subseteq Kinds
  BY NextTagType DEF TypeOK, Kinds, Auth
<1>2. ASSUME NEW k \in Callers, CmdAdds(k)
      PROVE  cmds' = cmds \/ Issues
  BY <1>2, <1>1
     DEF CmdAdds, CallerAt, NoAnswer
<1>3. ASSUME NEW o \in Owners, AsyncSet(o)
      PROVE  cmds' = cmds \/ Issues
  BY <1>3, <1>1
     DEF AsyncSet, Sends, SendFails
<1>4. CASE Authorize
  BY <1>4, <1>1
     DEF Authorize, Sends, SendFails
<1>5. CASE AuthorizationGoesOn
  BY <1>5, <1>1
     DEF AuthorizationGoesOn, ReaderAt, NoLine
<1>6. CASE \/ ReadsReply \/ DropsLine \/ ReadsReport \/ ReportReturns
           \/ NotifiesCaller \/ NotifiesOwner \/ AuthorizationEnds \/ ReadEnds
           \/ FinishesCaller \/ FinishesAsync \/ DrainEnds \/ CleanedUp
           \/ PuClose \/ Answers \/ PeerCloses
  BY <1>6
     DEF ReadsReply, ReaderAt, DropsLine, ReadsReport, ReportReturns, NoLine,
         NotifiesCaller, NotifiesOwner, AuthorizationEnds, ReadEnds,
         FinishesCaller, FinishesAsync, DrainEnds, CleanedUp, PuClose,
         Answers, PeerCloses
<1>7. ASSUME NEW k \in Callers,
             \/ CmdWrites(k) \/ CmdWriteFails(k) \/ CmdForgets(k)
             \/ CmdIsAnswered(k) \/ CallReturns(k) \/ CleanupReturns(k)
             \/ CleanupReports(k) \/ CmdTimesOut(k)
      PROVE  cmds' = cmds \/ Issues
  BY <1>7
     DEF CmdWrites, CallerAt, CmdWriteFails, CmdForgets, CmdIsAnswered,
         CallReturns, NoAnswer, CleanupReturns, CleanupReports, CmdTimesOut
<1>8. ASSUME NEW k \in Callers, NEW kind \in Sync, NEW o \in Owners, Calls(k, kind, o)
      PROVE  cmds' = cmds \/ Issues
  BY <1>8
     DEF Calls, CallerAt
<1>9. ASSUME NEW o \in Owners,
             \/ Formats(o) \/ CloseWithoutServer(o) \/ Reports(o)
      PROVE  cmds' = cmds \/ Issues
  BY <1>9
     DEF Formats, CloseWithoutServer, Reports
<1>10. CASE UNCHANGED vars
  BY <1>10
     DEF vars
<1>11. QED
  BY <1>2, <1>3, <1>4, <1>5, <1>6, <1>7, <1>8, <1>9, <1>10
     DEF Next, Reader, CallContinues

\* No command changes its kind, its owner or its tag once it is issued.
LEMMA CmdsKept ==
  ASSUME TypeOK, [Next]_vars
  PROVE  /\ Len(cmds) \in Nat /\ Len(cmds') \in Nat /\ Len(cmds) <= Len(cmds')
         /\ \A n \in Numbers : n \in Numbers' /\ cmds'[n] = cmds[n]
         /\ \A n \in Numbers : IsSync(n)' = IsSync(n) /\ Tag(n)' = Tag(n)
<1>1. cmds \in Seq([kind : Kinds, owner : Owners \cup {NoOne}, text : Nat])
  BY DEF TypeOK
<1>2. /\ Len(cmds) \in Nat /\ Len(cmds') \in Nat /\ Len(cmds) <= Len(cmds')
      /\ \A n \in Numbers : n \in Numbers' /\ cmds'[n] = cmds[n]
  <2>1. CASE cmds' = cmds
    BY <1>1, <2>1 DEF Numbers
  <2>2. CASE \E kind \in Kinds, x \in Owners \cup {NoOne}, text \in Nat :
                Issue(kind, x, text)
    BY <1>1, <2>2 DEF Issue, Numbers
  <2>3. QED
    BY <2>1, <2>2, CmdsStep
<1>3. \A n \in Numbers : IsSync(n)' = IsSync(n)
  BY <1>2 DEF IsSync, Kind
<1>4. ASSUME NEW n \in Numbers
      PROVE  {i \in Asynchronous : i <= n}' = {i \in Asynchronous : i <= n}
  BY <1>2, <1>3 DEF Asynchronous, Numbers
<1>5. \A n \in Numbers : Tag(n)' = Tag(n)
  BY <1>3, <1>4 DEF Tag
<1>6. QED
  BY <1>2, <1>3, <1>5

Command == [kind : Kinds, owner : Owners \cup {NoOne}, text : Nat]

\* A new command gets the next number.
LEMMA IssueExtends ==
  ASSUME TypeOK, NEW kind \in Kinds, NEW o \in Owners \cup {NoOne}, NEW text \in Nat,
         Issue(kind, o, text)
  PROVE  LET n == Len(cmds) + 1
         IN /\ cmds' \in Seq(Command) /\ Len(cmds') = n /\ n \in Nat
            /\ Numbers' = Numbers \cup {n} /\ n \notin Numbers
            /\ \A i \in Numbers : cmds'[i] = cmds[i]
            /\ cmds'[n].kind = kind /\ cmds'[n].owner = o /\ cmds'[n].text = text
<1>1. cmds \in Seq(Command)
  BY DEF TypeOK, Command
<1>2. [kind |-> kind, owner |-> o, text |-> text] \in Command
  BY DEF Command
<1>3. QED
  BY <1>1, <1>2 DEF Issue, Numbers

-----------------------------------------------------------------------------
(* Types.                                                                   *)

Adding == {k \in Callers : cpc[k] = "add"}
Stamped == {o \in Owners : stamp[o] # 0}

\* There is room for the commands of the threads that are about to issue one.
Counted == Len(cmds) + Cardinality(Adding) + Cardinality(Stamped) <= MaxCommands

\* The root is a pending command, if there is one.
RootIsPending == root \in pending \/ (pending = {} /\ root = 0)

\* A caller has a command from its insertion to its return, and an owner.
Live(k) == cpc[k] \in {"write", "wait", "expired", "unwritten"}
Issued(k) == Live(k) \/ cpc[k] \in {"failed", "answered"}
CommandOfCaller ==
    \A k \in Callers :
        /\ Issued(k) => own[k] \in Numbers
        /\ ~Issued(k) => own[k] = 0
        /\ cpc[k] # "idle" => forOwner[k] \in Owners

\* A command has text 0 if it is synchronous; it then has an owner.
TextOfCommand ==
    \A n \in Numbers :
        /\ cmds[n].text = 0 <=> IsSync(n)
        /\ IsSync(n) => Owner(n) \in Owners

\* Only a synchronous command has a reply of more lines, only an authorization
\* a challenge for its reply.
Fits(l) ==
    /\ l.code = "more" => l.of \in Numbers /\ IsSync(l.of)
    /\ l.code = "challenge" => l.of \in Numbers /\ Kind(l.of) = "authenticate"
LinesFit == \A i \in DOMAIN toClient : Fits(toClient[i])

\* A reply is notified to the command with its tag, which is out of the tree
\* unless more lines follow.
NotifyFits ==
    rpc = "notify" =>
        /\ Fits(rline)
        /\ cmds[rline.of].text = Tag(rcmd)
        /\ IsSync(rcmd) \/ rcmd \notin pending

\* Until the session is authorized nothing but the authorization goes on.
AuthorizationFirst ==
    /\ auth \in {"none", "sent"} =>
          /\ \A k \in Callers : cpc[k] = "idle"
          /\ \A o \in Owners : stage[o] = "closed" /\ stamp[o] = 0
    /\ auth = "none" => cmds = <<>>
    /\ \A n \in Numbers : Kind(n) = "authenticate" => n = 1 /\ cmds[n].text = 1
    /\ auth = "sent" =>
          /\ Len(cmds) \in {1, 2} /\ \A n \in Numbers : Kind(n) \in Auth
          /\ Len(cmds) = 2 => /\ Kind(2) = "password" /\ 1 \notin pending
                              /\ rpc = "notify" => rcmd # 1
    /\ auth # "sent" =>
          /\ \A n \in pending : Kind(n) \notin Auth
          /\ rpc = "notify" => Kind(rcmd) \notin Auth

Base ==
    /\ TypeOK /\ Counted /\ RootIsPending /\ CommandOfCaller
    /\ TextOfCommand /\ LinesFit /\ NotifyFits /\ AuthorizationFirst

\* A command that is issued with text 0 if it is synchronous, and with an owner
\* then, has its text like the others.
LEMMA IssueHasText ==
  ASSUME TypeOK, TextOfCommand,
         NEW kind \in Kinds, NEW o \in Owners \cup {NoOne}, NEW text \in Nat,
         text = 0 <=> kind \in Sync, kind \in Sync => o \in Owners,
         Issue(kind, o, text)
  PROVE  TextOfCommand'
<1>1. Numbers' = Numbers \cup {Len(cmds) + 1}
  BY IssueExtends
<1>2. ASSUME NEW n \in Numbers
      PROVE  (cmds'[n].text = 0 <=> IsSync(n)') /\ (IsSync(n)' => Owner(n)' \in Owners)
  BY IssueExtends DEF TextOfCommand, Kind, Owner, IsSync
<1>3. PICK n : n = Len(cmds) + 1
  OBVIOUS
<1>4. cmds'[n].text = text /\ cmds'[n].kind = kind /\ cmds'[n].owner = o
  BY <1>3, IssueExtends
<1>5. (cmds'[n].text = 0 <=> IsSync(n)') /\ (IsSync(n)' => Owner(n)' \in Owners)
  BY <1>4 DEF Kind, Owner, IsSync
<1>6. QED
  BY <1>1, <1>2, <1>3, <1>5 DEF TextOfCommand

\* cmd and jcmd write tag 0, async_cmd_callback and pdc_async_authorize a tag
\* that is not 0.
LEMMA TextStep ==
  ASSUME Base, [Next]_vars
  PROVE  TextOfCommand'
<1>1. ASSUME NEW k \in Callers, CmdAdds(k)
      PROVE  TextOfCommand'
  <2>1. doing[k] \in Sync /\ forOwner[k] \in Owners
    BY <1>1 DEF CmdAdds, CallerAt, Base, TypeOK, CommandOfCaller
  <2>2. QED
    BY <1>1, <2>1, IssueHasText DEF CmdAdds, Base, Kinds
<1>2. ASSUME NEW o \in Owners, AsyncSet(o)
      PROVE  TextOfCommand'
  <2>1. stamp[o] \in Nat \ {0}
    BY <1>2 DEF AsyncSet, Base, TypeOK
  <2>2. Issue("set", o, stamp[o])
    BY <1>2 DEF AsyncSet, Sends, SendFails
  <2>3. QED
    BY <2>1, <2>2, IssueHasText DEF Base, Kinds, Sync
<1>3. CASE Authorize
  BY <1>3, IssueHasText, NextTagType
     DEF Authorize, Sends, SendFails, Base, Kinds, Sync, Auth
<1>4. CASE AuthorizationGoesOn
  BY <1>4, IssueHasText, NextTagType
     DEF AuthorizationGoesOn, ReaderAt, NoLine, Base, Kinds, Sync, Auth
<1>5. CASE \/ ReadsReply \/ DropsLine \/ ReadsReport \/ ReportReturns
           \/ NotifiesCaller \/ NotifiesOwner \/ AuthorizationEnds \/ ReadEnds
           \/ FinishesCaller \/ FinishesAsync \/ DrainEnds \/ CleanedUp
           \/ PuClose \/ Answers \/ PeerCloses
  BY <1>5
     DEF ReadsReply, ReaderAt, DropsLine, ReadsReport, ReportReturns, NoLine,
         NotifiesCaller, NotifiesOwner, AuthorizationEnds, ReadEnds,
         FinishesCaller, FinishesAsync, DrainEnds, CleanedUp, PuClose,
         Answers, PeerCloses, TextOfCommand, Base, Numbers, Kind, Owner,
         IsSync
<1>6. ASSUME NEW k \in Callers,
             \/ CmdWrites(k) \/ CmdWriteFails(k) \/ CmdForgets(k)
             \/ CmdIsAnswered(k) \/ CallReturns(k) \/ CleanupReturns(k)
             \/ CleanupReports(k) \/ CmdTimesOut(k)
      PROVE  TextOfCommand'
  BY <1>6
     DEF CmdWrites, CallerAt, CmdWriteFails, CmdForgets, CmdIsAnswered,
         CallReturns, NoAnswer, CleanupReturns, CleanupReports, CmdTimesOut,
         TextOfCommand, Base, Numbers, Kind, Owner, IsSync
<1>7. ASSUME NEW k \in Callers, NEW kind \in Sync, NEW o \in Owners, Calls(k, kind, o)
      PROVE  TextOfCommand'
  BY <1>7
     DEF Calls, CallerAt, TextOfCommand, Base, Numbers, Kind, Owner, IsSync
<1>8. ASSUME NEW o \in Owners,
             \/ Formats(o) \/ CloseWithoutServer(o) \/ Reports(o)
      PROVE  TextOfCommand'
  BY <1>8
     DEF Formats, CloseWithoutServer, Reports, TextOfCommand, Base, Numbers,
         Kind, Owner, IsSync
<1>9. CASE UNCHANGED vars
  BY <1>9
     DEF vars, TextOfCommand, Base, Numbers, Kind, Owner, IsSync
<1>10. QED
  BY <1>1, <1>2, <1>3, <1>4, <1>5, <1>6, <1>7, <1>8, <1>9
     DEF Next, Reader, CallContinues

\* Whoever is in a command has a number and an owner.
LEMMA CallersStep ==
  ASSUME Base, [Next]_vars
  PROVE  CommandOfCaller'
<1>1. /\ TypeOK /\ CommandOfCaller
      /\ DOMAIN cpc = Callers /\ DOMAIN own = Callers /\ DOMAIN forOwner = Callers
      /\ cpc = [k \in Callers |-> cpc[k]] /\ own = [k \in Callers |-> own[k]]
      /\ forOwner = [k \in Callers |-> forOwner[k]]
  BY DEF Base, TypeOK
<1>2. \A n \in Numbers : n \in Numbers'
  BY <1>1, CmdsKept
<1>3. ASSUME NEW k \in Callers, CmdAdds(k)
      PROVE  CommandOfCaller'
  <2>1. Len(cmds) + 1 \in Numbers'
    BY <1>3, <1>1 DEF CmdAdds, Issue, Numbers, TypeOK
  <2>2. QED
    BY <1>3, <1>1, <1>2, <2>1 DEF CmdAdds, CallerAt, CommandOfCaller, Issued, Live
<1>4. ASSUME NEW k \in Callers, CmdWrites(k)
      PROVE  CommandOfCaller'
  BY <1>4, <1>1, <1>2
     DEF CmdWrites, CallerAt, CommandOfCaller, Issued, Live
<1>5. ASSUME NEW k \in Callers, CmdWriteFails(k)
      PROVE  CommandOfCaller'
  BY <1>5, <1>1, <1>2
     DEF CmdWriteFails, CallerAt, CommandOfCaller, Issued, Live
<1>6. ASSUME NEW k \in Callers, CmdForgets(k)
      PROVE  CommandOfCaller'
  BY <1>6, <1>1, <1>2
     DEF CmdForgets, CommandOfCaller, Issued, Live
<1>7. ASSUME NEW k \in Callers, CmdIsAnswered(k)
      PROVE  CommandOfCaller'
  BY <1>7, <1>1, <1>2
     DEF CmdIsAnswered, CallerAt, CommandOfCaller, Issued, Live
<1>8. ASSUME NEW k \in Callers, CallReturns(k)
      PROVE  CommandOfCaller'
  BY <1>8, <1>1, <1>2
     DEF CallReturns, NoAnswer, CommandOfCaller, Issued, Live
<1>9. ASSUME NEW k \in Callers, CleanupReturns(k)
      PROVE  CommandOfCaller'
  BY <1>9, <1>1, <1>2
     DEF CleanupReturns, CallerAt, CommandOfCaller, Issued, Live
<1>10. ASSUME NEW k \in Callers, CleanupReports(k)
       PROVE  CommandOfCaller'
  BY <1>10, <1>1, <1>2
     DEF CleanupReports, CallerAt, CommandOfCaller, Issued, Live
<1>11. ASSUME NEW k \in Callers, CmdTimesOut(k)
       PROVE  CommandOfCaller'
  BY <1>11, <1>1, <1>2
     DEF CmdTimesOut, CallerAt, CommandOfCaller, Issued, Live
<1>12. ASSUME NEW k \in Callers, NEW kind \in Sync, NEW o \in Owners, Calls(k, kind, o)
       PROVE  CommandOfCaller'
  BY <1>12, <1>1, <1>2
     DEF Calls, CallerAt, CommandOfCaller, Issued, Live
<1>13. CASE \/ ReadsReply \/ DropsLine \/ ReadsReport \/ ReportReturns
            \/ NotifiesCaller \/ NotifiesOwner \/ AuthorizationEnds
            \/ AuthorizationGoesOn \/ ReadEnds \/ FinishesCaller
            \/ FinishesAsync \/ DrainEnds \/ CleanedUp \/ Authorize \/ PuClose
            \/ Answers \/ PeerCloses
  BY <1>13, <1>1, <1>2
     DEF ReadsReply, ReaderAt, DropsLine, ReadsReport, ReportReturns, NoLine,
         NotifiesCaller, NotifiesOwner, AuthorizationEnds,
         AuthorizationGoesOn, ReadEnds, FinishesCaller, FinishesAsync,
         DrainEnds, CleanedUp, Authorize, PuClose, Answers, PeerCloses,
         CommandOfCaller, Issued, Live
<1>14. ASSUME NEW o \in Owners,
              \/ Formats(o) \/ AsyncSet(o) \/ CloseWithoutServer(o)
              \/ Reports(o)
       PROVE  CommandOfCaller'
  BY <1>14, <1>1, <1>2
     DEF Formats, AsyncSet, CloseWithoutServer, Reports, CommandOfCaller,
         Issued, Live
<1>15. CASE UNCHANGED vars
  BY <1>15, <1>1, <1>2
     DEF vars, CommandOfCaller, Issued, Live
<1>16. QED
  BY <1>3, <1>4, <1>5, <1>6, <1>7, <1>8, <1>9, <1>10, <1>11, <1>12, <1>13,
     <1>14, <1>15
     DEF Next, Reader, CallContinues

\* Every set of numbers that is not empty has a least one.
LEMMA NatHasLeast ==
  ASSUME NEW T \in SUBSET Nat, T # {}
  PROVE  \E m \in T : \A i \in T : m <= i
<1> DEFINE R == {ss \in Nat \X Nat : ss[1] < ss[2]}
<1>1. IsWellFoundedOn(R, Nat)
  BY NatLessThanWellFounded, Zenon DEF OpToRel
<1>2. PICK m \in T : \A i \in T : <<i, m>> \notin R
  BY <1>1, WFMin
<1>3. \A i \in T : ~(i < m)
  BY <1>2
<1>4. QED
  BY <1>3

\* The oldest of some commands is one of them.
LEMMA OldestIn ==
  ASSUME TypeOK, NEW T \in SUBSET Numbers, T # {}
  PROVE  Oldest(T) \in T /\ \A i \in T : Oldest(T) <= i
<1>1. T \subseteq Nat
  BY DEF TypeOK, Numbers
<1>2. QED
  BY <1>1, NatHasLeast DEF Oldest

\* The newest of some commands is one of them.
LEMMA NewestIn ==
  ASSUME TypeOK, NEW T \in SUBSET Numbers, T # {}
  PROVE  Newest(T) \in T /\ \A i \in T : Newest(T) >= i
<1>1. T \subseteq Nat /\ Len(cmds) \in Nat /\ \A i \in T : i <= Len(cmds)
  BY DEF TypeOK, Numbers
<1>  DEFINE U == {m \in Nat : \A i \in T : i <= m}
<1>2. U \subseteq Nat /\ U # {}
  BY <1>1
<1>3. PICK m \in U : \A i \in U : m <= i
  BY <1>2, NatHasLeast
<1>4. m \in T
  <2>1. SUFFICES ASSUME m \notin T PROVE FALSE
    OBVIOUS
  <2>2. \A i \in T : i <= m - 1
    BY <1>1, <2>1
  <2>3. m - 1 \in U
    <3>1. PICK i \in T : TRUE
      OBVIOUS
    <3>2. QED
      BY <1>1, <2>2, <3>1
  <2>4. m <= m - 1
    BY ONLY <1>3, <2>3, Zenon
  <2>5. QED
    BY <2>4
<1>5. QED
  BY <1>1, <1>3, <1>4 DEF Newest

\* A removal leaves a command at the root as long as there is one.
LEMMA RootAfterRemove ==
  ASSUME TypeOK, RootIsPending, NEW T \in SUBSET pending
  PROVE  RootAfter(T) \in T \/ (T = {} /\ RootAfter(T) = 0)
<1>1. T \subseteq Numbers
  BY DEF TypeOK
<1>2. CASE root \in T \/ T = {}
  BY <1>2 DEF RootAfter
<1>3. CASE root \notin T /\ T # {}
  <2> DEFINE sync == {n \in T : IsSync(n)}
  <2>1. sync # {} => Oldest(sync) \in sync
    BY <1>1, OldestIn
  <2>2. Oldest(T) \in T
    BY <1>1, <1>3, OldestIn
  <2>3. QED
    BY <1>3, <2>1, <2>2 DEF RootAfter
<1>4. QED
  BY <1>2, <1>3

\* The walk over the tree comes to a command that is pending.
LEMMA NextIsPending ==
  ASSUME TypeOK, RootIsPending, pending # {}
  PROVE  NextInPostorder \in pending
<1> DEFINE rest == pending \ {root}
           left == {n \in rest : IsSync(n)}
<1>1. rest \subseteq Numbers /\ left \subseteq Numbers
  BY DEF TypeOK
<1>2. left # {} => Oldest(left) \in left
  BY <1>1, OldestIn
<1>3. rest # {} => Newest(rest) \in rest
  BY <1>1, NewestIn
<1>4. QED
  BY <1>2, <1>3 DEF NextInPostorder, RootIsPending

\* The tree has a root as long as a command is pending.
LEMMA RootStep ==
  ASSUME Base, [Next]_vars
  PROVE  RootIsPending'
<1>1. RootIsPending
  BY DEF Base
<1>2. ASSUME NEW T, Remove(T) PROVE RootIsPending'
  <2>1. PICK left \in SUBSET pending : left = pending \ T
    OBVIOUS
  <2>2. pending' = left /\ root' = RootAfter(left)
    BY <1>2, <2>1 DEF Remove
  <2>3. root' \in left \/ (left = {} /\ root' = 0)
    BY <2>1, <2>2, RootAfterRemove DEF Base
  <2>4. QED
    BY <2>2, <2>3 DEF RootIsPending
<1>3. ASSUME NEW n, Insert(n) PROVE RootIsPending'
  BY <1>1, <1>3 DEF Insert, RootIsPending
<1>4. ASSUME UNCHANGED <<pending, root>> PROVE RootIsPending'
  BY <1>1, <1>4 DEF RootIsPending
<1>5. ASSUME NEW k \in Callers, CmdAdds(k)
      PROVE  RootIsPending'
  BY <1>5, <1>3, <1>4
     DEF CmdAdds, CallerAt, NoAnswer
<1>6. ASSUME NEW o \in Owners, AsyncSet(o)
      PROVE  RootIsPending'
  BY <1>6, <1>3, <1>4
     DEF AsyncSet, Sends, SendFails
<1>7. CASE Authorize
  BY <1>7, <1>3, <1>4
     DEF Authorize, Sends, SendFails
<1>8. CASE AuthorizationGoesOn
  BY <1>8, <1>3, <1>4
     DEF AuthorizationGoesOn, ReaderAt, NoLine
<1>9. ASSUME NEW k \in Callers, CmdForgets(k)
      PROVE  RootIsPending'
  BY <1>9, <1>2, <1>4
     DEF CmdForgets
<1>10. ASSUME NEW k \in Callers, CleanupReports(k)
       PROVE  RootIsPending'
  BY <1>10, <1>2, <1>4
     DEF CleanupReports, CallerAt
<1>11. CASE ReadsReply
  BY <1>11, <1>2, <1>4
     DEF ReadsReply, ReaderAt
<1>12. CASE FinishesCaller
  BY <1>12, <1>2, <1>4
     DEF FinishesCaller
<1>13. CASE FinishesAsync
  BY <1>13, <1>2, <1>4
     DEF FinishesAsync
<1>14. CASE \/ DropsLine \/ ReadsReport \/ ReportReturns \/ NotifiesCaller
            \/ NotifiesOwner \/ AuthorizationEnds \/ ReadEnds \/ DrainEnds
            \/ CleanedUp \/ PuClose \/ Answers \/ PeerCloses
  BY <1>14, <1>4
     DEF DropsLine, ReadsReport, ReaderAt, ReportReturns, NoLine,
         NotifiesCaller, NotifiesOwner, AuthorizationEnds, ReadEnds,
         DrainEnds, CleanedUp, PuClose, Answers, PeerCloses
<1>15. ASSUME NEW k \in Callers,
              \/ CmdWrites(k) \/ CmdWriteFails(k) \/ CmdIsAnswered(k)
              \/ CallReturns(k) \/ CleanupReturns(k) \/ CmdTimesOut(k)
       PROVE  RootIsPending'
  BY <1>15, <1>4
     DEF CmdWrites, CallerAt, CmdWriteFails, CmdIsAnswered, CallReturns,
         NoAnswer, CleanupReturns, CmdTimesOut
<1>16. ASSUME NEW k \in Callers, NEW kind \in Sync, NEW o \in Owners, Calls(k, kind, o)
       PROVE  RootIsPending'
  BY <1>16, <1>4
     DEF Calls, CallerAt
<1>17. ASSUME NEW o \in Owners,
              \/ Formats(o) \/ CloseWithoutServer(o) \/ Reports(o)
       PROVE  RootIsPending'
  BY <1>17, <1>4
     DEF Formats, CloseWithoutServer, Reports
<1>18. CASE UNCHANGED vars
  BY <1>18, <1>4
     DEF vars
<1>19. QED
  BY <1>5, <1>6, <1>7, <1>8, <1>9, <1>10, <1>11, <1>12, <1>13, <1>14, <1>15,
     <1>16, <1>17, <1>18
     DEF Next, Reader, CallContinues

\* Tag 0 is that of the synchronous commands.
LEMMA TagType ==
  ASSUME TypeOK, NEW n \in Numbers
  PROVE  Tag(n) \in Nat /\ (Tag(n) = 0 <=> IsSync(n))
<1> DEFINE before == {i \in Asynchronous : i <= n}
<1>1. IsFiniteSet(before)
  <2>1. Len(cmds) \in Nat
    BY DEF TypeOK
  <2>2. IsFiniteSet(Numbers)
    BY <2>1, FS_Interval DEF Numbers
  <2>3. QED
    BY <2>2, FS_Subset DEF Asynchronous
<1>2. ~IsSync(n) => n \in before
  BY DEF TypeOK, Asynchronous, Numbers
<1>3. Cardinality(before) \in Nat /\ (Cardinality(before) = 0 => before = {})
  BY <1>1, FS_CardinalityType, FS_EmptySet
<1>4. QED
  BY <1>2, <1>3 DEF Tag

\* What fits goes on to fit.
LEMMA FitsKept ==
  ASSUME TypeOK, [Next]_vars, NEW l, Fits(l)
  PROVE  Fits(l)'
BY CmdsKept DEF Fits, IsSync, Kind

\* The lines of a reply: those but the last have the code of one that goes on.
LEMMA RepliesAre ==
  ASSUME TypeOK, NEW n \in Numbers, NEW r \in Replies(n)
  PROVE  /\ r \in Seq(ReplyLine) /\ Len(r) \in {1, 2}
         /\ \A i \in 1..Len(r) : r[i].what = "reply" /\ r[i].of = n /\ Fits(r[i])
         /\ \A i \in 1..Len(r) : r[i].code = "more" <=> i # Len(r)
<1> DEFINE first == {"ok", "challenge", "bad", "more"}
<1>1. \A c \in first : /\ Line(n, c) \in ReplyLine /\ Line(n, c).what = "reply"
                       /\ Line(n, c).of = n /\ Line(n, c).code = c
  BY DEF Line, ReplyLine, Codes
<1>2. CASE Kind(n) = "authenticate"
  <2>1. PICK c \in {"ok", "challenge", "bad"} : r = <<Line(n, c)>>
    BY <1>2 DEF Replies
  <2>2. Fits(Line(n, c))
    BY <1>1, <1>2, <2>1 DEF Fits
  <2>3. QED
    BY <1>1, <2>1, <2>2
<1>3. CASE Kind(n) = "get"
  <2>1. r = <<Line(n, "more"), Line(n, "ok")>> \/ r = <<Line(n, "bad")>>
    BY <1>3 DEF Replies
  <2>2. \A c \in first \ {"challenge"} : Fits(Line(n, c))
    BY <1>1, <1>3 DEF Fits, IsSync, Sync
  <2>3. CASE r = <<Line(n, "more"), Line(n, "ok")>>
    <3>1. r \in Seq(ReplyLine) /\ Len(r) = 2
      BY <1>1, <2>3
    <3>2. r[1] = Line(n, "more") /\ r[2] = Line(n, "ok")
      BY <2>3
    <3>3. QED
      BY <1>1, <2>2, <3>1, <3>2
  <2>4. CASE r = <<Line(n, "bad")>>
    BY <1>1, <2>2, <2>4
  <2>5. QED
    BY <2>1, <2>3, <2>4
<1>4. CASE Kind(n) \notin {"authenticate", "get"}
  <2>1. PICK c \in {"ok", "bad"} : r = <<Line(n, c)>>
    BY <1>4 DEF Replies
  <2>2. Fits(Line(n, c))
    BY <1>1, <2>1 DEF Fits
  <2>3. QED
    BY <1>1, <2>1, <2>2
<1>5. QED
  BY <1>2, <1>3, <1>4

\* The lines on their way go on to fit their commands.
LEMMA LinesStep ==
  ASSUME Base, [Next]_vars
  PROVE  LinesFit'
<1>1. LinesFit /\ toClient \in Seq(ReplyLine \cup ReportLine)
  BY DEF Base, TypeOK
<1>2. \A i \in DOMAIN toClient' : Fits(toClient'[i])
  <2>1. CASE ReadsReply
    BY <2>1, HeadTailProperties, <1>1
       DEF ReadsReply, ReaderAt, LinesFit
  <2>2. CASE DropsLine
    BY <2>2, HeadTailProperties, <1>1
       DEF DropsLine, LinesFit
  <2>3. CASE ReadsReport
    BY <2>3, HeadTailProperties, <1>1
       DEF ReadsReport, ReaderAt, LinesFit
  <2>4. CASE Answers
    <3>1. Head(toServer) \in Numbers
      BY <2>4, HeadTailProperties DEF Answers, Base, TypeOK
    <3>2. PICK r \in Replies(Head(toServer)) : toClient' = toClient \o r
      BY <2>4 DEF Answers
    <3>3. r \in Seq(ReplyLine) /\ \A i \in 1..Len(r) : Fits(r[i])
      BY <3>1, RepliesAre DEF Base
    <3>4. QED
      BY <1>1, <3>2, <3>3 DEF LinesFit
  <2>5. ASSUME NEW o \in Owners, Reports(o)
        PROVE  \A i \in DOMAIN toClient' : Fits(toClient'[i])
    BY <2>5, <1>1
       DEF Reports, Fits, LinesFit
  <2>6. CASE \/ ReportReturns \/ NotifiesCaller \/ NotifiesOwner
             \/ AuthorizationEnds \/ AuthorizationGoesOn \/ ReadEnds
             \/ FinishesCaller \/ FinishesAsync \/ DrainEnds \/ CleanedUp
             \/ Authorize \/ PuClose \/ PeerCloses
    BY <2>6, <1>1
       DEF ReportReturns, ReaderAt, NoLine, NotifiesCaller, NotifiesOwner,
           AuthorizationEnds, AuthorizationGoesOn, ReadEnds, FinishesCaller,
           FinishesAsync, DrainEnds, CleanedUp, Authorize, PuClose,
           PeerCloses, LinesFit
  <2>7. ASSUME NEW k \in Callers,
               \/ CmdAdds(k) \/ CmdWrites(k) \/ CmdWriteFails(k)
               \/ CmdForgets(k) \/ CmdIsAnswered(k) \/ CallReturns(k)
               \/ CleanupReturns(k) \/ CleanupReports(k) \/ CmdTimesOut(k)
        PROVE  \A i \in DOMAIN toClient' : Fits(toClient'[i])
    BY <2>7, <1>1
       DEF CmdAdds, CallerAt, NoAnswer, CmdWrites, CmdWriteFails, CmdForgets,
           CmdIsAnswered, CallReturns, CleanupReturns, CleanupReports,
           CmdTimesOut, LinesFit
  <2>8. ASSUME NEW k \in Callers, NEW kind \in Sync, NEW o \in Owners, Calls(k, kind, o)
        PROVE  \A i \in DOMAIN toClient' : Fits(toClient'[i])
    BY <2>8, <1>1
       DEF Calls, CallerAt, LinesFit
  <2>9. ASSUME NEW o \in Owners,
               \/ Formats(o) \/ AsyncSet(o) \/ CloseWithoutServer(o)
        PROVE  \A i \in DOMAIN toClient' : Fits(toClient'[i])
    BY <2>9, <1>1
       DEF Formats, AsyncSet, CloseWithoutServer, LinesFit
  <2>10. CASE UNCHANGED vars
    BY <2>10, <1>1
       DEF vars, LinesFit
  <2>11. QED
    BY <2>1, <2>2, <2>3, <2>4, <2>5, <2>6, <2>7, <2>8, <2>9, <2>10
       DEF Next, Reader, CallContinues
<1>3. QED
  BY <1>2, FitsKept DEF Base, LinesFit

\* Only a reply that is read brings the read thread to a notification.
LEMMA NotifyStep ==
  ASSUME [Next]_vars, rpc' = "notify"
  PROVE  ReadsReply \/ (rpc = "notify" /\ rcmd' = rcmd /\ rline' = rline)
<1>1. CASE ReadsReply
  BY <1>1
<1>2. CASE \/ DropsLine \/ ReadsReport \/ ReportReturns \/ NotifiesCaller
           \/ NotifiesOwner \/ AuthorizationEnds \/ AuthorizationGoesOn
           \/ ReadEnds \/ FinishesCaller \/ FinishesAsync \/ DrainEnds
           \/ CleanedUp \/ Authorize \/ PuClose \/ Answers \/ PeerCloses
  BY <1>2
     DEF DropsLine, ReadsReport, ReaderAt, ReportReturns, NoLine,
         NotifiesCaller, NotifiesOwner, AuthorizationEnds,
         AuthorizationGoesOn, ReadEnds, FinishesCaller, FinishesAsync,
         DrainEnds, CleanedUp, Authorize, PuClose, Answers, PeerCloses
<1>3. ASSUME NEW k \in Callers,
             \/ CmdAdds(k) \/ CmdWrites(k) \/ CmdWriteFails(k)
             \/ CmdForgets(k) \/ CmdIsAnswered(k) \/ CallReturns(k)
             \/ CleanupReturns(k) \/ CleanupReports(k) \/ CmdTimesOut(k)
      PROVE  ReadsReply \/ (rpc = "notify" /\ rcmd' = rcmd /\ rline' = rline)
  BY <1>3
     DEF CmdAdds, CallerAt, NoAnswer, CmdWrites, CmdWriteFails, CmdForgets,
         CmdIsAnswered, CallReturns, CleanupReturns, CleanupReports,
         CmdTimesOut
<1>4. ASSUME NEW k \in Callers, NEW kind \in Sync, NEW o \in Owners, Calls(k, kind, o)
      PROVE  ReadsReply \/ (rpc = "notify" /\ rcmd' = rcmd /\ rline' = rline)
  BY <1>4
     DEF Calls, CallerAt
<1>5. ASSUME NEW o \in Owners,
             \/ Formats(o) \/ AsyncSet(o) \/ CloseWithoutServer(o)
             \/ Reports(o)
      PROVE  ReadsReply \/ (rpc = "notify" /\ rcmd' = rcmd /\ rline' = rline)
  BY <1>5
     DEF Formats, AsyncSet, CloseWithoutServer, Reports
<1>6. CASE UNCHANGED vars
  BY <1>6
     DEF vars
<1>7. QED
  BY <1>1, <1>2, <1>3, <1>4, <1>5, <1>6
     DEF Next, Reader, CallContinues

\* A command becomes pending when it is issued and never again.
LEMMA PendingStep ==
  ASSUME [Next]_vars
  PROVE  pending' \subseteq pending \cup {Len(cmds) + 1}
<1>1. ASSUME NEW k \in Callers, CmdAdds(k)
      PROVE  pending' \subseteq pending \cup {Len(cmds) + 1}
  BY <1>1
     DEF CmdAdds, CallerAt, NoAnswer, Insert, Remove, Sends, SendFails
<1>2. ASSUME NEW o \in Owners, AsyncSet(o)
      PROVE  pending' \subseteq pending \cup {Len(cmds) + 1}
  BY <1>2
     DEF AsyncSet, Insert, Remove, Sends, SendFails
<1>3. CASE Authorize
  BY <1>3
     DEF Authorize, Insert, Remove, Sends, SendFails
<1>4. CASE AuthorizationGoesOn
  BY <1>4
     DEF AuthorizationGoesOn, ReaderAt, NoLine, Insert, Remove, Sends,
         SendFails
<1>5. CASE \/ ReadsReply \/ DropsLine \/ ReadsReport \/ ReportReturns
           \/ NotifiesCaller \/ NotifiesOwner \/ AuthorizationEnds \/ ReadEnds
           \/ FinishesCaller \/ FinishesAsync \/ DrainEnds \/ CleanedUp
           \/ PuClose \/ Answers \/ PeerCloses
  BY <1>5
     DEF ReadsReply, ReaderAt, DropsLine, ReadsReport, ReportReturns, NoLine,
         NotifiesCaller, NotifiesOwner, AuthorizationEnds, ReadEnds,
         FinishesCaller, FinishesAsync, DrainEnds, CleanedUp, PuClose,
         Answers, PeerCloses, Insert, Remove, Sends, SendFails
<1>6. ASSUME NEW k \in Callers,
             \/ CmdWrites(k) \/ CmdWriteFails(k) \/ CmdForgets(k)
             \/ CmdIsAnswered(k) \/ CallReturns(k) \/ CleanupReturns(k)
             \/ CleanupReports(k) \/ CmdTimesOut(k)
      PROVE  pending' \subseteq pending \cup {Len(cmds) + 1}
  BY <1>6
     DEF CmdWrites, CallerAt, CmdWriteFails, CmdForgets, CmdIsAnswered,
         CallReturns, NoAnswer, CleanupReturns, CleanupReports, CmdTimesOut,
         Insert, Remove, Sends, SendFails
<1>7. ASSUME NEW k \in Callers, NEW kind \in Sync, NEW o \in Owners, Calls(k, kind, o)
      PROVE  pending' \subseteq pending \cup {Len(cmds) + 1}
  BY <1>7
     DEF Calls, CallerAt, Insert, Remove, Sends, SendFails
<1>8. ASSUME NEW o \in Owners,
             \/ Formats(o) \/ CloseWithoutServer(o) \/ Reports(o)
      PROVE  pending' \subseteq pending \cup {Len(cmds) + 1}
  BY <1>8
     DEF Formats, CloseWithoutServer, Reports, Insert, Remove, Sends,
         SendFails
<1>9. CASE UNCHANGED vars
  BY <1>9
     DEF vars, Insert, Remove, Sends, SendFails
<1>10. QED
  BY <1>1, <1>2, <1>3, <1>4, <1>5, <1>6, <1>7, <1>8, <1>9
     DEF Next, Reader, CallContinues

\* The reply that is notified has the tag of the command that is notified.
LEMMA NotifyFitsStep ==
  ASSUME Base, [Next]_vars
  PROVE  NotifyFits'
<1> SUFFICES ASSUME rpc' = "notify"
             PROVE  /\ Fits(rline)'
                    /\ cmds'[rline'.of].text = Tag(rcmd)'
                    /\ IsSync(rcmd)' \/ rcmd' \notin pending'
  BY DEF NotifyFits
<1>1. /\ rcmd' \in Numbers /\ rline'.of \in Numbers /\ Fits(rline')
      /\ cmds[rline'.of].text = Tag(rcmd')
      /\ IsSync(rcmd') \/ rcmd' \notin pending'
  <2>1. CASE ReadsReply
    <3>1. /\ toClient \in Seq(ReplyLine \cup ReportLine) /\ toClient # <<>>
          /\ rline' = toClient[1] /\ rline'.what = "reply"
      BY <2>1, HeadTailProperties DEF ReadsReply, Base, TypeOK
    <3>2. rline' \in ReplyLine /\ Fits(rline')
      BY <3>1 DEF Base, LinesFit, ReportLine
    <3>3. rcmd' \in Numbers /\ cmds[rline'.of].text = Tag(rcmd')
      BY <2>1, <3>1 DEF ReadsReply, Matches, Base, TypeOK
    <3>4. IsSync(rcmd') \/ rcmd' \notin pending'
      <4>1. CASE rline'.code = "more"
        <5>1. cmds[rline'.of].text = 0
          BY <3>2, <4>1 DEF Fits, Base, TextOfCommand
        <5>2. QED
          BY <3>3, <5>1, TagType DEF Base
      <4>2. CASE rline'.code # "more"
        BY <2>1, <3>1, <4>2 DEF ReadsReply, Remove
      <4>3. QED
        BY <4>1, <4>2
    <3>5. QED
      BY <3>2, <3>3, <3>4 DEF ReplyLine
  <2>2. CASE rpc = "notify" /\ rcmd' = rcmd /\ rline' = rline
    <3>1. rcmd \in Numbers /\ rline.of \in Numbers
      BY <2>2 DEF Base, TypeOK, ReplyLine
    <3>2. Len(cmds) + 1 \notin Numbers
      BY DEF Base, TypeOK, Numbers
    <3>3. QED
      BY <2>2, <3>1, <3>2, PendingStep DEF Base, NotifyFits
  <2>3. QED
    BY <2>1, <2>2, NotifyStep
<1>2. TypeOK
  BY DEF Base
<1>3. PICK n \in Numbers, i \in Numbers : n = rcmd' /\ i = rline'.of
  BY <1>1
<1>4. cmds'[i].text = cmds[i].text /\ Tag(n)' = Tag(n) /\ IsSync(n)' = IsSync(n)
  BY <1>2, <1>3, CmdsKept
<1>5. PICK l : l = rline'
  OBVIOUS
<1>6. Fits(l)'
  BY <1>1, <1>2, <1>5, FitsKept
<1>7. QED
  BY <1>1, <1>3, <1>4, <1>5, <1>6

\* The answer to the second authorization command cannot be a challenge.
LEMMA ChallengeIsFirst ==
  ASSUME Base, rpc = "notify", rline.code = "challenge", auth = "sent"
  PROVE  Len(cmds) = 1 /\ rcmd = 1
<1>1. /\ Len(cmds) \in {1, 2} /\ rcmd \in Numbers /\ rline.of \in Numbers
      /\ Len(cmds) = 2 => rcmd # 1
      /\ cmds[rline.of].text = Tag(rcmd)
      /\ Kind(rline.of) = "authenticate"
      /\ \A n \in Numbers : Kind(n) \in Auth
  BY DEF Base, TypeOK, AuthorizationFirst, NotifyFits, Fits, ReplyLine
<1>2. Numbers = 1..Len(cmds) /\ cmds[rline.of].text = 1
  BY <1>1 DEF Numbers, Base, AuthorizationFirst
<1>3. Len(cmds) = 2 => Tag(2) = 2
  <2>1. SUFFICES ASSUME Len(cmds) = 2 PROVE Tag(2) = 2
    OBVIOUS
  <2>2. \A n \in Numbers : ~IsSync(n)
    BY <1>1 DEF IsSync, Auth, Sync
  <2>3. {i \in Asynchronous : i <= 2} = 1..2
    BY <1>2, <2>1, <2>2 DEF Asynchronous
  <2>4. Cardinality(1..2) = 2
    <3>1. 1..2 = {1} \cup {2} /\ 2 \notin {1}
      OBVIOUS
    <3>2. IsFiniteSet({1}) /\ Cardinality({1}) = 1
      BY FS_Singleton
    <3>3. Cardinality({1} \cup {2}) = Cardinality({1}) + 1
      BY <3>1, <3>2, FS_AddElement
    <3>4. QED
      BY <3>1, <3>2, <3>3
  <2>5. QED
    BY <1>2, <2>1, <2>2, <2>3, <2>4 DEF Tag
<1>4. Len(cmds) = 2 => rcmd = 2
  BY <1>1, <1>2
<1>5. Len(cmds) # 2
  BY <1>1, <1>2, <1>3, <1>4
<1>6. QED
  BY <1>1, <1>2, <1>5

\* Nothing comes between the authorization and its end.
LEMMA AuthorizationStep ==
  ASSUME Base, [Next]_vars
  PROVE  AuthorizationFirst'
<1>1. /\ Numbers = 1..Len(cmds) /\ Len(cmds) \in Nat /\ pending \subseteq Numbers
      /\ rpc = "notify" => rcmd \in Numbers /\ (IsSync(rcmd) \/ rcmd \notin pending)
      /\ auth \in {"none", "sent", "ok", "failed"}
  BY DEF Base, TypeOK, Numbers, NotifyFits
<1>2. AuthorizationFirst
  BY DEF Base
<1>3. cmds = <<>> <=> Len(cmds) = 0
  BY DEF Base, TypeOK
<1>4. TypeOK
  BY DEF Base
<1>5. ASSUME NEW kind \in Kinds \ Auth, NEW x \in Owners \cup {NoOne}, NEW text \in Nat,
             Issue(kind, x, text), pending' \subseteq pending \cup {Len(cmds) + 1},
             auth \in {"ok", "failed"}, auth' = auth, rpc' = rpc, rcmd' = rcmd
      PROVE  AuthorizationFirst'
  <2>1. PICK n : n = Len(cmds) + 1
    OBVIOUS
  <2>2. /\ Numbers' = Numbers \cup {n} /\ cmds'[n].kind = kind
        /\ \A i \in Numbers : cmds'[i] = cmds[i]
    BY <1>4, <1>5, <2>1, IssueExtends
  <2>3. kind # "authenticate"
    BY DEF Auth
  <2>4. QED
    BY <1>1, <1>2, <1>5, <2>1, <2>2, <2>3 DEF AuthorizationFirst, Kind
<1>6. ASSUME NEW k \in Callers, CmdAdds(k)
      PROVE  AuthorizationFirst'
  <2>1. auth \in {"ok", "failed"} /\ auth' = auth /\ rpc' = rpc /\ rcmd' = rcmd
    BY <1>6, <1>1, <1>2 DEF CmdAdds, CallerAt, AuthorizationFirst
  <2>2. Issue(doing[k], forOwner[k], 0) /\ doing[k] \in Kinds \ Auth
        /\ forOwner[k] \in Owners \cup {NoOne}
    BY <1>6, <1>4 DEF CmdAdds, TypeOK, Kinds, Sync, Auth
  <2>3. pending' = pending \cup {Len(cmds) + 1}
    BY <1>6 DEF CmdAdds, Insert
  <2>4. QED
    BY <2>1, <2>2, <2>3, <1>5
<1>7. ASSUME NEW o \in Owners, AsyncSet(o)
      PROVE  AuthorizationFirst'
  <2>1. auth \in {"ok", "failed"} /\ auth' = auth /\ rpc' = rpc /\ rcmd' = rcmd
    BY <1>7, <1>1, <1>2 DEF AsyncSet, AuthorizationFirst
  <2>2. stamp[o] \in Nat /\ "set" \in Kinds \ Auth
    BY <1>4 DEF TypeOK, Kinds, Sync, Auth
  <2>3. Issue("set", o, stamp[o]) /\ pending' \subseteq pending \cup {Len(cmds) + 1}
    BY <1>7 DEF AsyncSet, Sends, SendFails, Insert
  <2>4. QED
    BY <2>1, <2>2, <2>3, <1>5
<1>8. CASE Authorize
  <2>1. /\ auth = "none" /\ auth' \in {"sent", "failed"} /\ rpc' = rpc
        /\ UNCHANGED <<cpc, stage, stamp>>
        /\ Issue("authenticate", NoOne, NextTag)
        /\ \/ auth' = "sent" /\ pending' = pending \cup {Len(cmds) + 1}
           \/ auth' = "failed" /\ pending' = pending
    BY <1>8 DEF Authorize, Sends, SendFails, Insert
  <2>2. Len(cmds) = 0 /\ Numbers = {} /\ pending = {} /\ rpc # "notify"
    BY <2>1, <1>1, <1>2, <1>3 DEF AuthorizationFirst
  <2>3. NextTag = 1
    BY <2>2, FS_EmptySet DEF NextTag, Asynchronous
  <2>4. "authenticate" \in Kinds /\ NextTag \in Nat /\ NoOne \in Owners \cup {NoOne}
    BY <2>3 DEF Kinds, Auth
  <2>5. /\ Numbers' = {1} /\ cmds'[1].kind = "authenticate" /\ cmds'[1].text = 1
        /\ Len(cmds') = 1
    BY <2>1, <2>2, <2>3, <2>4, <1>4, IssueExtends
  <2>6. QED
    BY <2>1, <2>2, <2>5, <1>2 DEF AuthorizationFirst, Kind, Auth
<1>9. CASE AuthorizationGoesOn
  <2>1. /\ rpc = "notify" /\ rline.code = "challenge" /\ rpc' = "read"
        /\ Kind(rcmd) \in Auth /\ Issue("password", NoOne, NextTag)
        /\ UNCHANGED <<cpc, stage, stamp>>
        /\ \/ auth' = auth /\ pending' = pending \cup {Len(cmds) + 1}
           \/ auth' = "failed" /\ pending' = pending
    BY <1>9 DEF AuthorizationGoesOn, ReaderAt, Insert
  <2>2. auth = "sent"
    BY <2>1, <1>1, <1>2, <1>3 DEF AuthorizationFirst
  <2>3. Len(cmds) = 1 /\ rcmd = 1
    BY <2>1, <2>2, ChallengeIsFirst
  <2>4. pending = {} /\ Numbers = {1}
    BY <2>1, <2>3, <1>1 DEF Auth, IsSync, Sync
  <2>5. "password" \in Kinds /\ NextTag \in Nat /\ NoOne \in Owners \cup {NoOne}
    BY <1>4, NextTagType DEF Kinds, Auth
  <2>6. /\ Numbers' = {1, 2} /\ cmds'[2].kind = "password" /\ cmds'[1] = cmds[1]
        /\ Len(cmds') = 2
    BY <2>1, <2>3, <2>4, <2>5, <1>4, IssueExtends
  <2>7. QED
    BY <2>1, <2>2, <2>3, <2>4, <2>6, <1>2 DEF AuthorizationFirst, Kind, Auth
<1>10. CASE AuthorizationEnds
  <2>1. /\ rpc = "notify" /\ rpc' = "read" /\ Kind(rcmd) \in Auth
        /\ auth' \in {"ok", "failed"} /\ pending' = pending /\ cmds' = cmds
        /\ UNCHANGED <<cpc, stage, stamp>>
    BY <1>10 DEF AuthorizationEnds, ReaderAt
  <2>2. auth = "sent" /\ rcmd \notin pending
    BY <2>1, <1>1, <1>2, <1>3 DEF AuthorizationFirst, Auth, IsSync, Sync
  <2>3. pending = {}
    <3>1. rcmd \in Numbers /\ Len(cmds) \in {1, 2}
      BY <2>1, <2>2, <1>1, <1>2 DEF AuthorizationFirst
    <3>2. Len(cmds) = 2 => 1 \notin pending /\ rcmd = 2
      BY <2>1, <2>2, <3>1, <1>1, <1>2 DEF AuthorizationFirst
    <3>3. \A i \in Numbers : i \notin pending
      BY <2>2, <3>1, <3>2, <1>1
    <3>4. QED
      BY <3>3, <1>1
  <2>4. QED
    BY <2>1, <2>3, <1>2 DEF AuthorizationFirst, Kind, Numbers
<1>11. CASE FinishesAsync
  <2> DEFINE n == NextInPostorder
  <2>1. n \in pending
    BY <1>11, NextIsPending DEF FinishesAsync, Base
  <2>2. /\ auth' = IF Kind(n) \in Auth THEN "failed" ELSE auth
        /\ pending' = pending \ {n} /\ cmds' = cmds /\ rpc' = "drain"
        /\ UNCHANGED <<cpc, stage, stamp>>
    BY <1>11 DEF FinishesAsync, Remove
  <2> HIDE DEF n
  <2>3. CASE Kind(n) \in Auth
    <3>1. auth = "sent"
      BY <2>1, <2>3, <1>1, <1>2, <1>3 DEF AuthorizationFirst
    <3>2. n \in Numbers /\ Len(cmds) \in {1, 2}
      BY <2>1, <3>1, <1>1, <1>2 DEF AuthorizationFirst
    <3>3. Len(cmds) = 2 => 1 \notin pending /\ n = 2
      BY <2>1, <3>1, <3>2, <1>1, <1>2 DEF AuthorizationFirst
    <3>4. \A i \in pending : i = n
      <4>1. Numbers = 1..Len(cmds) /\ pending \subseteq Numbers
        BY <1>1
      <4>2. CASE Len(cmds) = 1
        BY <3>2, <4>1, <4>2
      <4>3. CASE Len(cmds) = 2
        BY <3>2, <3>3, <4>1, <4>3
      <4>4. QED
        BY <3>2, <4>2, <4>3
    <3>5. pending' = {}
      BY <2>2, <3>4
    <3>6. QED
      BY <2>2, <2>3, <3>5, <1>2 DEF AuthorizationFirst, Kind, Numbers
  <2>4. CASE Kind(n) \notin Auth
    BY <2>2, <2>4, <1>1, <1>2 DEF AuthorizationFirst, Kind, Numbers
  <2>5. QED
    BY <2>3, <2>4
<1>12. CASE ReadsReply
  BY <1>12, <1>1, <1>2
     DEF ReadsReply, ReaderAt, Matches, Remove, AuthorizationFirst, Numbers,
         Kind
<1>13. CASE FinishesCaller
  BY <1>13, <1>1, <1>2
     DEF FinishesCaller, Remove, AuthorizationFirst, Numbers, Kind
<1>14. ASSUME NEW k \in Callers, CmdForgets(k)
       PROVE  AuthorizationFirst'
  BY <1>14, <1>1, <1>2
     DEF CmdForgets, Remove, AuthorizationFirst, Numbers, Kind
<1>15. ASSUME NEW k \in Callers, CleanupReports(k)
       PROVE  AuthorizationFirst'
  BY <1>15, <1>1, <1>2
     DEF CleanupReports, CallerAt, Remove, AuthorizationFirst, Numbers, Kind
<1>16. ASSUME NEW k \in Callers, NEW kind \in Sync, NEW o \in Owners, Calls(k, kind, o)
       PROVE  AuthorizationFirst'
  BY <1>16, <1>1, <1>2
     DEF Calls, CallerAt, AuthorizationFirst, Numbers, Kind
<1>17. ASSUME NEW k \in Callers, CallReturns(k)
       PROVE  AuthorizationFirst'
  BY <1>17, <1>1, <1>2
     DEF CallReturns, NoAnswer, AuthorizationFirst, Numbers, Kind
<1>18. ASSUME NEW o \in Owners, Formats(o)
       PROVE  AuthorizationFirst'
  BY <1>18, <1>1, <1>2
     DEF Formats, AuthorizationFirst, Numbers, Kind
<1>19. ASSUME NEW o \in Owners, CloseWithoutServer(o)
       PROVE  AuthorizationFirst'
  BY <1>19, <1>1, <1>2
     DEF CloseWithoutServer, AuthorizationFirst, Numbers, Kind
<1>20. CASE \/ DropsLine \/ ReadsReport \/ ReportReturns \/ NotifiesCaller
            \/ NotifiesOwner \/ ReadEnds \/ DrainEnds \/ CleanedUp \/ PuClose
            \/ Answers \/ PeerCloses
  BY <1>20, <1>1, <1>2
     DEF DropsLine, ReadsReport, ReaderAt, ReportReturns, NoLine,
         NotifiesCaller, NotifiesOwner, ReadEnds, DrainEnds, CleanedUp,
         PuClose, Answers, PeerCloses, AuthorizationFirst, Numbers, Kind
<1>21. ASSUME NEW k \in Callers,
              \/ CmdWrites(k) \/ CmdWriteFails(k) \/ CmdIsAnswered(k)
              \/ CleanupReturns(k) \/ CmdTimesOut(k)
       PROVE  AuthorizationFirst'
  BY <1>21, <1>1, <1>2
     DEF CmdWrites, CallerAt, CmdWriteFails, CmdIsAnswered, CleanupReturns,
         CmdTimesOut, AuthorizationFirst, Numbers, Kind
<1>22. ASSUME NEW o \in Owners, Reports(o)
       PROVE  AuthorizationFirst'
  BY <1>22, <1>1, <1>2
     DEF Reports, AuthorizationFirst, Numbers, Kind
<1>23. CASE UNCHANGED vars
  BY <1>23, <1>1, <1>2
     DEF vars, AuthorizationFirst, Numbers, Kind
<1>24. QED
  BY <1>6, <1>7, <1>8, <1>9, <1>10, <1>11, <1>12, <1>13, <1>14, <1>15, <1>16,
     <1>17, <1>18, <1>19, <1>20, <1>21, <1>22, <1>23
     DEF Next, Reader, CallContinues

\* There is room for every command that is on its way into the session.
LEMMA CountedStep ==
  ASSUME Base, [Next]_vars
  PROVE  Counted'
<1>1. /\ IsFiniteSet(Adding) /\ Cardinality(Adding) \in Nat
      /\ IsFiniteSet(Stamped) /\ Cardinality(Stamped) \in Nat
      /\ Len(cmds) \in Nat
  <2>1. IsFiniteSet(Adding) /\ IsFiniteSet(Stamped)
    BY FiniteAssumption, FS_Subset DEF Adding, Stamped
  <2>2. QED
    BY <2>1, FS_CardinalityType DEF Base, TypeOK
<1>2. /\ cpc \in [Callers -> {"idle", "add", "write", "wait", "expired",
                              "unwritten", "failed", "answered", "cleanup"}]
      /\ stamp \in [Owners -> Nat]
      /\ cmds \in Seq([kind : Kinds, owner : Owners \cup {NoOne}, text : Nat])
  BY DEF Base, TypeOK
<1>3. Len(cmds) + Cardinality(Adding) + Cardinality(Stamped) <= MaxCommands
  BY DEF Base, Counted
<1>4. MaxCommands \in Nat \ {0, 1}
  BY PdictBounds
<1>5. ASSUME Len(cmds') + Cardinality(Adding') + Cardinality(Stamped') <= MaxCommands
      PROVE  Counted'
  BY <1>5 DEF Counted
<1>6. ASSUME cmds' = cmds, Adding' = Adding, Stamped' = Stamped
      PROVE  Counted'
  BY <1>3, <1>6 DEF Counted
<1>7. ASSUME NEW k \in Callers, CmdAdds(k)
      PROVE  Counted'
  <2>1. k \in Adding /\ Adding' = Adding \ {k} /\ Stamped' = Stamped
    BY <1>7, <1>2 DEF CmdAdds, CallerAt, Adding, Stamped
  <2>2. Cardinality(Adding') = Cardinality(Adding) - 1
    BY <2>1, <1>1, FS_RemoveElement
  <2>3. Len(cmds') = Len(cmds) + 1
    BY <1>7, <1>2 DEF CmdAdds, Issue
  <2>4. QED
    BY <2>1, <2>2, <2>3, <1>1, <1>3, <1>5
<1>8. ASSUME NEW k \in Callers, NEW kind \in Sync, NEW o \in Owners, Calls(k, kind, o)
      PROVE  Counted'
  <2>1. /\ Adding' = Adding \cup {k} /\ k \notin Adding
        /\ Stamped' = Stamped /\ cmds' = cmds
    BY <1>8, <1>2 DEF Calls, CallerAt, Adding, Stamped
  <2>2. Cardinality(Adding') = Cardinality(Adding) + 1
    BY <2>1, <1>1, FS_AddElement
  <2>3. Len(cmds) + Cardinality(Adding) + Cardinality(Stamped) < MaxCommands
    BY <1>8 DEF Calls, Room, Adding, Stamped
  <2>4. QED
    BY <2>1, <2>2, <2>3, <1>1, <1>4, <1>5
<1>9. ASSUME NEW o \in Owners, Formats(o)
      PROVE  Counted'
  <2>1. /\ Stamped' = Stamped \cup {o} /\ o \notin Stamped
        /\ Adding' = Adding /\ cmds' = cmds
    BY <1>9, <1>2, NextTagType DEF Formats, Adding, Stamped, Base
  <2>2. Cardinality(Stamped') = Cardinality(Stamped) + 1
    BY <2>1, <1>1, FS_AddElement
  <2>3. Len(cmds) + Cardinality(Adding) + Cardinality(Stamped) < MaxCommands
    BY <1>9 DEF Formats, Room, Adding, Stamped
  <2>4. QED
    BY <2>1, <2>2, <2>3, <1>1, <1>4, <1>5
<1>10. ASSUME NEW o \in Owners, AsyncSet(o)
       PROVE  Counted'
  <2>1. o \in Stamped /\ Stamped' = Stamped \ {o} /\ Adding' = Adding
    BY <1>10, <1>2 DEF AsyncSet, Adding, Stamped
  <2>2. Cardinality(Stamped') = Cardinality(Stamped) - 1
    BY <2>1, <1>1, FS_RemoveElement
  <2>3. Len(cmds') = Len(cmds) + 1
    BY <1>10, <1>2 DEF AsyncSet, Sends, SendFails, Issue
  <2>4. QED
    BY <2>1, <2>2, <2>3, <1>1, <1>3, <1>5
<1>11. CASE Authorize
  <2>1. Len(cmds) = 0 /\ Adding' = {} /\ Stamped' = {}
    BY <1>11 DEF Authorize, Base, AuthorizationFirst, Adding, Stamped
  <2>2. Len(cmds') = Len(cmds) + 1
    BY <1>11, <1>2 DEF Authorize, Sends, SendFails, Issue
  <2>3. Cardinality({}) = 0
    BY FS_EmptySet
  <2>4. QED
    BY <2>1, <2>2, <2>3, <1>4, <1>5
<1>12. CASE AuthorizationGoesOn
  <2>1. rpc = "notify" /\ rline.code = "challenge" /\ Kind(rcmd) \in Auth
    BY <1>12 DEF AuthorizationGoesOn, ReaderAt
  <2>2. auth = "sent"
    <3>1. auth # "none"
      BY <2>1, <1>1 DEF Base, TypeOK, AuthorizationFirst, Numbers
    <3>2. QED
      BY <2>1, <3>1 DEF Base, TypeOK, AuthorizationFirst
  <2>3. Len(cmds) = 1
    BY <2>1, <2>2, ChallengeIsFirst
  <2>4. Adding' = {} /\ Stamped' = {}
    BY <1>12, <2>2 DEF AuthorizationGoesOn, Base, AuthorizationFirst, Adding, Stamped
  <2>5. Len(cmds') = Len(cmds) + 1
    BY <1>12, <1>2 DEF AuthorizationGoesOn, Issue
  <2>6. Cardinality({}) = 0
    BY FS_EmptySet
  <2>7. QED
    BY <2>3, <2>4, <2>5, <2>6, <1>4, <1>5
<1>13. CASE \/ ReadsReply \/ DropsLine \/ ReadsReport \/ ReportReturns
            \/ NotifiesCaller \/ NotifiesOwner \/ AuthorizationEnds
            \/ ReadEnds \/ FinishesCaller \/ FinishesAsync \/ DrainEnds
            \/ CleanedUp \/ PuClose \/ Answers \/ PeerCloses
  BY <1>13, <1>2, <1>6
     DEF ReadsReply, ReaderAt, DropsLine, ReadsReport, ReportReturns, NoLine,
         NotifiesCaller, NotifiesOwner, AuthorizationEnds, ReadEnds,
         FinishesCaller, FinishesAsync, DrainEnds, CleanedUp, PuClose,
         Answers, PeerCloses, Adding, Stamped
<1>14. ASSUME NEW k \in Callers,
              \/ CmdWrites(k) \/ CmdWriteFails(k) \/ CmdForgets(k)
              \/ CmdIsAnswered(k) \/ CallReturns(k) \/ CleanupReturns(k)
              \/ CleanupReports(k) \/ CmdTimesOut(k)
       PROVE  Counted'
  BY <1>14, <1>2, <1>6
     DEF CmdWrites, CallerAt, CmdWriteFails, CmdForgets, CmdIsAnswered,
         CallReturns, NoAnswer, CleanupReturns, CleanupReports, CmdTimesOut,
         Adding, Stamped
<1>15. ASSUME NEW o \in Owners,
              \/ CloseWithoutServer(o) \/ Reports(o)
       PROVE  Counted'
  BY <1>15, <1>2, <1>6
     DEF CloseWithoutServer, Reports, Adding, Stamped
<1>16. CASE UNCHANGED vars
  BY <1>16, <1>2, <1>6
     DEF vars, Adding, Stamped
<1>17. QED
  BY <1>7, <1>8, <1>9, <1>10, <1>11, <1>12, <1>13, <1>14, <1>15, <1>16
     DEF Next, Reader, CallContinues

\* The part of the types that does not depend on how many commands there are,
\* but for the Boolean.
PlainTypes ==
    /\ stamp \in [Owners -> Nat]
    /\ pendingLock \in Callers \cup {NoOne, "reader"}
    /\ listeners \subseteq Owners /\ subscribed \subseteq Owners
    /\ told \in [1..MaxCommands -> Nat]
    /\ outcome \in [1..MaxCommands -> {"none", "ok", "failed"}]
    /\ rpc \in {"read", "notify", "report", "drain", "cleanup", "done"}
    /\ cpc \in [Callers -> {"idle", "add", "write", "wait", "expired", "unwritten",
                            "failed", "answered", "cleanup"}]
    /\ doing \in [Callers -> Sync] /\ forOwner \in [Callers -> Owners \cup {NoOne}]
    /\ pdcLock \in Callers \cup {NoOne}
    /\ stage \in [Owners -> {"closed", "connecting", "open", "closing"}]
    /\ auth \in {"none", "sent", "ok", "failed"}
    /\ socket \in {"open", "peer", "closed"}
    /\ timeouts \in Nat
    /\ own \in [Callers -> Nat]

\* States, owners and counters keep their types.
LEMMA PlainStep ==
  ASSUME Base, [Next]_vars
  PROVE  PlainTypes'
<1>1. PlainTypes /\ Len(cmds) + 1 \in Nat
  BY DEF Base, TypeOK, PlainTypes
<1>2. NextTag \in Nat
  BY NextTagType DEF Base
<1>3. toServer # <<>> => Head(toServer) \in Numbers
  BY HeadTailProperties DEF Base, TypeOK
<1>4. \A n \in Numbers : Kind(n) = "listen" => Owner(n) \in Owners
  BY DEF Base, TextOfCommand, IsSync, Sync
<1>5. ASSUME NEW S, Told(S, "failed")
      PROVE  /\ told' \in [1..MaxCommands -> Nat]
             /\ outcome' \in [1..MaxCommands -> {"none", "ok", "failed"}]
  BY <1>1, <1>5 DEF Told, PlainTypes
<1>6. CASE Answers
  BY <1>6, <1>1, <1>2, <1>3, <1>4
     DEF Answers, PlainTypes, Result
<1>7. ASSUME NEW o \in Owners, AsyncSet(o)
      PROVE  PlainTypes'
  BY <1>7, <1>1, <1>2, <1>3, <1>4
     DEF AsyncSet, Sends, SendFails, Told, PlainTypes, Result
<1>8. CASE Authorize
  BY <1>8, <1>1, <1>2, <1>3, <1>4
     DEF Authorize, Sends, SendFails, Told, PlainTypes, Result
<1>9. CASE AuthorizationGoesOn
  BY <1>9, <1>1, <1>2, <1>3, <1>4
     DEF AuthorizationGoesOn, ReaderAt, NoLine, Told, PlainTypes, Result
<1>10. CASE AuthorizationEnds
  BY <1>10, <1>1, <1>2, <1>3, <1>4
     DEF AuthorizationEnds, ReaderAt, NoLine, Told, PlainTypes, Result
<1>11. CASE FinishesAsync
  BY <1>11, <1>1, <1>2, <1>3, <1>4
     DEF FinishesAsync, Told, PlainTypes, Result
<1>12. CASE NotifiesOwner
  BY <1>12, <1>1, <1>2, <1>3, <1>4
     DEF NotifiesOwner, ReaderAt, NoLine, Told, PlainTypes, Result
<1>13. ASSUME NEW k \in Callers, CmdForgets(k)
       PROVE  PlainTypes'
  BY <1>13, <1>1, <1>2, <1>3, <1>4
     DEF CmdForgets, Told, PlainTypes, Result
<1>14. ASSUME NEW k \in Callers, CmdIsAnswered(k)
       PROVE  PlainTypes'
  BY <1>14, <1>1, <1>2, <1>3, <1>4
     DEF CmdIsAnswered, CallerAt, Told, Result, PlainTypes
<1>15. ASSUME NEW k \in Callers, CleanupReports(k)
       PROVE  PlainTypes'
  BY <1>15, <1>5, <1>1, <1>2, <1>3, <1>4
     DEF CleanupReports, CallerAt, PlainTypes, Result
<1>16. ASSUME NEW k \in Callers, CallReturns(k)
       PROVE  PlainTypes'
  BY <1>16, <1>1, <1>2, <1>3, <1>4
     DEF CallReturns, NoAnswer, PlainTypes, Result
<1>17. ASSUME NEW k \in Callers, NEW kind \in Sync, NEW o \in Owners, Calls(k, kind, o)
       PROVE  PlainTypes'
  BY <1>17, <1>1, <1>2, <1>3, <1>4
     DEF Calls, CallerAt, PlainTypes, Result
<1>18. ASSUME NEW k \in Callers, CmdAdds(k)
       PROVE  PlainTypes'
  BY <1>18, <1>1, <1>2, <1>3, <1>4
     DEF CmdAdds, CallerAt, NoAnswer, PlainTypes, Result
<1>19. ASSUME NEW k \in Callers, CmdWrites(k)
       PROVE  PlainTypes'
  BY <1>19, <1>1, <1>2, <1>3, <1>4
     DEF CmdWrites, CallerAt, PlainTypes, Result
<1>20. ASSUME NEW k \in Callers, CmdWriteFails(k)
       PROVE  PlainTypes'
  BY <1>20, <1>1, <1>2, <1>3, <1>4
     DEF CmdWriteFails, CallerAt, PlainTypes, Result
<1>21. ASSUME NEW k \in Callers, CleanupReturns(k)
       PROVE  PlainTypes'
  BY <1>21, <1>1, <1>2, <1>3, <1>4
     DEF CleanupReturns, CallerAt, PlainTypes, Result
<1>22. ASSUME NEW k \in Callers, CmdTimesOut(k)
       PROVE  PlainTypes'
  BY <1>22, <1>1, <1>2, <1>3, <1>4
     DEF CmdTimesOut, CallerAt, PlainTypes, Result
<1>23. ASSUME NEW o \in Owners, Formats(o)
       PROVE  PlainTypes'
  BY <1>23, <1>1, <1>2, <1>3, <1>4
     DEF Formats, PlainTypes, Result
<1>24. CASE \/ ReadsReply \/ DropsLine \/ ReadsReport \/ ReportReturns
            \/ NotifiesCaller \/ ReadEnds \/ FinishesCaller \/ DrainEnds
            \/ CleanedUp \/ PuClose \/ PeerCloses
  BY <1>24, <1>1, <1>2, <1>3, <1>4
     DEF ReadsReply, ReaderAt, DropsLine, ReadsReport, ReportReturns, NoLine,
         NotifiesCaller, ReadEnds, FinishesCaller, DrainEnds, CleanedUp,
         PuClose, PeerCloses, PlainTypes, Result
<1>25. ASSUME NEW o \in Owners,
              \/ CloseWithoutServer(o) \/ Reports(o)
       PROVE  PlainTypes'
  BY <1>25, <1>1, <1>2, <1>3, <1>4
     DEF CloseWithoutServer, Reports, PlainTypes, Result
<1>26. CASE UNCHANGED vars
  BY <1>26, <1>1, <1>2, <1>3, <1>4
     DEF vars, PlainTypes, Result
<1>27. QED
  BY <1>6, <1>7, <1>8, <1>9, <1>10, <1>11, <1>12, <1>13, <1>14, <1>15, <1>16,
     <1>17, <1>18, <1>19, <1>20, <1>21, <1>22, <1>23, <1>24, <1>25, <1>26
     DEF Next, Reader, CallContinues

\* Only a report that is read brings the read thread to a handler.
LEMMA ReportStep ==
  ASSUME [Next]_vars, rpc' = "report"
  PROVE  ReadsReport \/ (rpc = "report" /\ rline' = rline)
<1>1. CASE ReadsReport
  BY <1>1
<1>2. CASE \/ ReadsReply \/ DropsLine \/ ReportReturns \/ NotifiesCaller
           \/ NotifiesOwner \/ AuthorizationEnds \/ AuthorizationGoesOn
           \/ ReadEnds \/ FinishesCaller \/ FinishesAsync \/ DrainEnds
           \/ CleanedUp \/ Authorize \/ PuClose \/ Answers \/ PeerCloses
  BY <1>2
     DEF ReadsReply, ReaderAt, DropsLine, ReportReturns, NoLine,
         NotifiesCaller, NotifiesOwner, AuthorizationEnds,
         AuthorizationGoesOn, ReadEnds, FinishesCaller, FinishesAsync,
         DrainEnds, CleanedUp, Authorize, PuClose, Answers, PeerCloses
<1>3. ASSUME NEW k \in Callers,
             \/ CmdAdds(k) \/ CmdWrites(k) \/ CmdWriteFails(k)
             \/ CmdForgets(k) \/ CmdIsAnswered(k) \/ CallReturns(k)
             \/ CleanupReturns(k) \/ CleanupReports(k) \/ CmdTimesOut(k)
      PROVE  ReadsReport \/ (rpc = "report" /\ rline' = rline)
  BY <1>3
     DEF CmdAdds, CallerAt, NoAnswer, CmdWrites, CmdWriteFails, CmdForgets,
         CmdIsAnswered, CallReturns, CleanupReturns, CleanupReports,
         CmdTimesOut
<1>4. ASSUME NEW k \in Callers, NEW kind \in Sync, NEW o \in Owners, Calls(k, kind, o)
      PROVE  ReadsReport \/ (rpc = "report" /\ rline' = rline)
  BY <1>4
     DEF Calls, CallerAt
<1>5. ASSUME NEW o \in Owners,
             \/ Formats(o) \/ AsyncSet(o) \/ CloseWithoutServer(o)
             \/ Reports(o)
      PROVE  ReadsReport \/ (rpc = "report" /\ rline' = rline)
  BY <1>5
     DEF Formats, AsyncSet, CloseWithoutServer, Reports
<1>6. CASE UNCHANGED vars
  BY <1>6
     DEF vars
<1>7. QED
  BY <1>1, <1>2, <1>3, <1>4, <1>5, <1>6
     DEF Next, Reader, CallContinues

\* Whatever is pending, freed or executed is a command.
LEMMA SetTypesStep ==
  ASSUME Base, [Next]_vars
  PROVE  pending' \subseteq Numbers' /\ freed' \subseteq Numbers' /\ executed' \subseteq Numbers'
<1>1. /\ pending \subseteq Numbers /\ freed \subseteq Numbers /\ executed \subseteq Numbers
      /\ cmds \in Seq([kind : Kinds, owner : Owners \cup {NoOne}, text : Nat])
      /\ toServer # <<>> => Head(toServer) \in Numbers
      /\ rpc = "notify" => rcmd \in Numbers
  BY HeadTailProperties DEF Base, TypeOK
<1>2. \A n \in Numbers : n \in Numbers'
  BY CmdsKept DEF Base
<1>3. ASSUME NEW kind, NEW x, NEW text, Issue(kind, x, text)
      PROVE  Len(cmds) + 1 \in Numbers'
  BY <1>1, <1>3 DEF Issue, Numbers
<1>4. \A k \in Callers : Issued(k) => own[k] \in Numbers
  BY DEF Base, CommandOfCaller
<1>5. ASSUME NEW k \in Callers, CmdAdds(k)
      PROVE  pending' \subseteq Numbers' /\ freed' \subseteq Numbers' /\ executed' \subseteq Numbers'
  BY <1>5, <1>3, <1>1, <1>2
     DEF CmdAdds, CallerAt, NoAnswer, Insert
<1>6. ASSUME NEW o \in Owners, AsyncSet(o)
      PROVE  pending' \subseteq Numbers' /\ freed' \subseteq Numbers' /\ executed' \subseteq Numbers'
  BY <1>6, <1>3, <1>1, <1>2
     DEF AsyncSet, Insert, Sends, SendFails
<1>7. CASE Authorize
  BY <1>7, <1>3, <1>1, <1>2
     DEF Authorize, Insert, Sends, SendFails
<1>8. CASE AuthorizationGoesOn
  BY <1>8, <1>3, <1>1, <1>2
     DEF AuthorizationGoesOn, ReaderAt, NoLine, Insert
<1>9. CASE ReadsReply
  BY <1>9, <1>1, <1>2
     DEF ReadsReply, ReaderAt, Remove
<1>10. CASE FinishesAsync
  BY <1>10, NextIsPending, <1>1, <1>2
     DEF FinishesAsync, Remove, Base
<1>11. CASE FinishesCaller
  BY <1>11, <1>1, <1>2
     DEF FinishesCaller, Remove
<1>12. ASSUME NEW k \in Callers, CmdForgets(k)
       PROVE  pending' \subseteq Numbers' /\ freed' \subseteq Numbers' /\ executed' \subseteq Numbers'
  BY <1>12, <1>4, <1>1, <1>2
     DEF CmdForgets, Remove, Issued, Live
<1>13. ASSUME NEW k \in Callers, CmdIsAnswered(k)
       PROVE  pending' \subseteq Numbers' /\ freed' \subseteq Numbers' /\ executed' \subseteq Numbers'
  BY <1>13, <1>4, <1>1, <1>2
     DEF CmdIsAnswered, CallerAt, Issued, Live
<1>14. ASSUME NEW k \in Callers, CleanupReports(k)
       PROVE  pending' \subseteq Numbers' /\ freed' \subseteq Numbers' /\ executed' \subseteq Numbers'
  BY <1>14, <1>1, <1>2
     DEF CleanupReports, CallerAt, Remove, PendingOf
<1>15. CASE \/ DropsLine \/ ReadsReport \/ ReportReturns \/ NotifiesCaller
            \/ NotifiesOwner \/ AuthorizationEnds \/ ReadEnds \/ DrainEnds
            \/ CleanedUp \/ PuClose \/ Answers \/ PeerCloses
  BY <1>15, <1>1, <1>2
     DEF DropsLine, ReadsReport, ReaderAt, ReportReturns, NoLine,
         NotifiesCaller, NotifiesOwner, AuthorizationEnds, ReadEnds,
         DrainEnds, CleanedUp, PuClose, Answers, PeerCloses
<1>16. ASSUME NEW k \in Callers,
              \/ CmdWrites(k) \/ CmdWriteFails(k) \/ CallReturns(k)
              \/ CleanupReturns(k) \/ CmdTimesOut(k)
       PROVE  pending' \subseteq Numbers' /\ freed' \subseteq Numbers' /\ executed' \subseteq Numbers'
  BY <1>16, <1>1, <1>2
     DEF CmdWrites, CallerAt, CmdWriteFails, CallReturns, NoAnswer,
         CleanupReturns, CmdTimesOut
<1>17. ASSUME NEW k \in Callers, NEW kind \in Sync, NEW o \in Owners, Calls(k, kind, o)
       PROVE  pending' \subseteq Numbers' /\ freed' \subseteq Numbers' /\ executed' \subseteq Numbers'
  BY <1>17, <1>1, <1>2
     DEF Calls, CallerAt
<1>18. ASSUME NEW o \in Owners,
              \/ Formats(o) \/ CloseWithoutServer(o) \/ Reports(o)
       PROVE  pending' \subseteq Numbers' /\ freed' \subseteq Numbers' /\ executed' \subseteq Numbers'
  BY <1>18, <1>1, <1>2
     DEF Formats, CloseWithoutServer, Reports
<1>19. CASE UNCHANGED vars
  BY <1>19, <1>1, <1>2
     DEF vars
<1>20. QED
  BY <1>5, <1>6, <1>7, <1>8, <1>9, <1>10, <1>11, <1>12, <1>13, <1>14, <1>15,
     <1>16, <1>17, <1>18, <1>19
     DEF Next, Reader, CallContinues

\* The lines on their way to the webservice are commands, those to the client
\* replies to commands and reports.
LEMMA LineTypesStep ==
  ASSUME Base, [Next]_vars
  PROVE  toServer' \in Seq(Numbers') /\ toClient' \in Seq((ReplyLine \cup ReportLine)')
<1>1. /\ toServer \in Seq(Numbers) /\ toClient \in Seq(ReplyLine \cup ReportLine)
      /\ cmds \in Seq([kind : Kinds, owner : Owners \cup {NoOne}, text : Nat])
  BY DEF Base, TypeOK
<1>2. Numbers \subseteq Numbers'
  BY CmdsKept DEF Base
<1>3. ReplyLine \cup ReportLine \subseteq (ReplyLine \cup ReportLine)'
  BY <1>2 DEF ReplyLine, ReportLine
<1>4. toServer' \in Seq(Numbers')
  <2> SUFFICES toServer' \in Seq(Numbers) \/ \E n \in Numbers' : toServer' = Append(toServer, n)
    BY <1>1, <1>2, SeqMonotonic, AppendProperties
  <2>0. ASSUME NEW kind, NEW x, NEW text, Issue(kind, x, text)
        PROVE  Len(cmds) + 1 \in Numbers'
    BY <1>1, <2>0 DEF Issue, Numbers
  <2>1. CASE Answers
    BY <2>1, HeadTailProperties, <1>1
       DEF Answers
  <2>2. CASE \/ ReadEnds \/ PuClose \/ PeerCloses
    BY <2>2, EmptySeq, <1>1
       DEF ReadEnds, ReaderAt, PuClose, PeerCloses
  <2>3. ASSUME NEW k \in Callers, CmdWrites(k)
        PROVE  toServer' \in Seq(Numbers) \/ \E n \in Numbers' : toServer' = Append(toServer, n)
    BY <2>3, <1>2, <1>1
       DEF CmdWrites, CallerAt, Sent, Base, CommandOfCaller, Issued, Live
  <2>4. ASSUME NEW k \in Callers, CmdAdds(k)
        PROVE  toServer' \in Seq(Numbers) \/ \E n \in Numbers' : toServer' = Append(toServer, n)
    BY <2>4, <1>1
       DEF CmdAdds, CallerAt, NoAnswer
  <2>5. ASSUME NEW o \in Owners, AsyncSet(o)
        PROVE  toServer' \in Seq(Numbers) \/ \E n \in Numbers' : toServer' = Append(toServer, n)
    BY <2>5, <2>0, <1>1
       DEF AsyncSet, Sends, SendFails, Sent
  <2>6. CASE Authorize
    BY <2>6, <2>0, <1>1
       DEF Authorize, Sends, SendFails, Sent
  <2>7. CASE AuthorizationGoesOn
    BY <2>7, <2>0, <1>1
       DEF AuthorizationGoesOn, ReaderAt, NoLine, Sent
  <2>8. CASE \/ ReadsReply \/ DropsLine \/ ReadsReport \/ ReportReturns
             \/ NotifiesCaller \/ NotifiesOwner \/ AuthorizationEnds
             \/ FinishesCaller \/ FinishesAsync \/ DrainEnds \/ CleanedUp
    BY <2>8, <1>1
       DEF ReadsReply, ReaderAt, DropsLine, ReadsReport, ReportReturns,
           NoLine, NotifiesCaller, NotifiesOwner, AuthorizationEnds,
           FinishesCaller, FinishesAsync, DrainEnds, CleanedUp
  <2>9. ASSUME NEW k \in Callers,
               \/ CmdWriteFails(k) \/ CmdForgets(k) \/ CmdIsAnswered(k)
               \/ CallReturns(k) \/ CleanupReturns(k) \/ CleanupReports(k)
               \/ CmdTimesOut(k)
        PROVE  toServer' \in Seq(Numbers) \/ \E n \in Numbers' : toServer' = Append(toServer, n)
    BY <2>9, <1>1
       DEF CmdWriteFails, CallerAt, CmdForgets, CmdIsAnswered, CallReturns,
           NoAnswer, CleanupReturns, CleanupReports, CmdTimesOut
  <2>10. ASSUME NEW k \in Callers, NEW kind \in Sync, NEW o \in Owners, Calls(k, kind, o)
         PROVE  toServer' \in Seq(Numbers) \/ \E n \in Numbers' : toServer' = Append(toServer, n)
    BY <2>10, <1>1
       DEF Calls, CallerAt
  <2>11. ASSUME NEW o \in Owners,
                \/ Formats(o) \/ CloseWithoutServer(o) \/ Reports(o)
         PROVE  toServer' \in Seq(Numbers) \/ \E n \in Numbers' : toServer' = Append(toServer, n)
    BY <2>11, <1>1
       DEF Formats, CloseWithoutServer, Reports
  <2>12. CASE UNCHANGED vars
    BY <2>12, <1>1
       DEF vars
  <2>13. QED
    BY <2>1, <2>2, <2>3, <2>4, <2>5, <2>6, <2>7, <2>8, <2>9, <2>10, <2>11,
       <2>12
       DEF Next, Reader, CallContinues
<1>5. toClient' \in Seq(ReplyLine \cup ReportLine)
  <2>1. CASE Answers
    <3>1. Head(toServer) \in Numbers
      BY <2>1, <1>1, HeadTailProperties DEF Answers
    <3>2. PICK r \in Replies(Head(toServer)) : toClient' = toClient \o r
      BY <2>1 DEF Answers
    <3>3. r \in Seq(ReplyLine)
      BY <3>1, RepliesAre DEF Base
    <3>4. r \in Seq(ReplyLine \cup ReportLine)
      BY <3>3, SeqMonotonic
    <3>5. QED
      BY <1>1, <3>2, <3>4, ConcatProperties
  <2>2. CASE \/ ReadEnds \/ PuClose
    BY <2>2, EmptySeq, <1>1
       DEF ReadEnds, ReaderAt, PuClose
  <2>3. ASSUME NEW o \in Owners, Reports(o)
        PROVE  toClient' \in Seq(ReplyLine \cup ReportLine)
    <3>1. [what |-> "report", of |-> 0, owner |-> o, code |-> "ok"] \in ReportLine
      BY DEF ReportLine
    <3>2. QED
      BY <2>3, <1>1, <3>1 DEF Reports
  <2>4. CASE ReadsReply
    BY <2>4, HeadTailProperties, <1>1
       DEF ReadsReply, ReaderAt
  <2>5. CASE DropsLine
    BY <2>5, HeadTailProperties, <1>1
       DEF DropsLine
  <2>6. CASE ReadsReport
    BY <2>6, HeadTailProperties, <1>1
       DEF ReadsReport, ReaderAt
  <2>7. CASE \/ ReportReturns \/ NotifiesCaller \/ NotifiesOwner
             \/ AuthorizationEnds \/ AuthorizationGoesOn \/ FinishesCaller
             \/ FinishesAsync \/ DrainEnds \/ CleanedUp \/ Authorize
             \/ PeerCloses
    BY <2>7, <1>1
       DEF ReportReturns, ReaderAt, NoLine, NotifiesCaller, NotifiesOwner,
           AuthorizationEnds, AuthorizationGoesOn, FinishesCaller,
           FinishesAsync, DrainEnds, CleanedUp, Authorize, PeerCloses
  <2>8. ASSUME NEW k \in Callers,
               \/ CmdAdds(k) \/ CmdWrites(k) \/ CmdWriteFails(k)
               \/ CmdForgets(k) \/ CmdIsAnswered(k) \/ CallReturns(k)
               \/ CleanupReturns(k) \/ CleanupReports(k) \/ CmdTimesOut(k)
        PROVE  toClient' \in Seq(ReplyLine \cup ReportLine)
    BY <2>8, <1>1
       DEF CmdAdds, CallerAt, NoAnswer, CmdWrites, CmdWriteFails, CmdForgets,
           CmdIsAnswered, CallReturns, CleanupReturns, CleanupReports,
           CmdTimesOut
  <2>9. ASSUME NEW k \in Callers, NEW kind \in Sync, NEW o \in Owners, Calls(k, kind, o)
        PROVE  toClient' \in Seq(ReplyLine \cup ReportLine)
    BY <2>9, <1>1
       DEF Calls, CallerAt
  <2>10. ASSUME NEW o \in Owners,
                \/ Formats(o) \/ AsyncSet(o) \/ CloseWithoutServer(o)
         PROVE  toClient' \in Seq(ReplyLine \cup ReportLine)
    BY <2>10, <1>1
       DEF Formats, AsyncSet, CloseWithoutServer
  <2>11. CASE UNCHANGED vars
    BY <2>11, <1>1
       DEF vars
  <2>12. QED
    BY <2>1, <2>2, <2>3, <2>4, <2>5, <2>6, <2>7, <2>8, <2>9, <2>10, <2>11
       DEF Next, Reader, CallContinues
<1>6. QED
  BY <1>3, <1>4, <1>5, SeqMonotonic

\* A caller is given the code of a line, and the command it answers.
LEMMA AnswerTypesStep ==
  ASSUME Base, [Next]_vars
  PROVE  answer' \in [Callers -> [code : Codes \cup {"none", "lost"}, of : 0..MaxCommands]]
<1>1. answer \in [Callers -> [code : Codes \cup {"none", "lost"}, of : 0..MaxCommands]]
  BY DEF Base, TypeOK
<1>2. NoAnswer \in [code : Codes \cup {"none", "lost"}, of : 0..MaxCommands]
  BY PdictBounds DEF NoAnswer
<1>3. Numbers \subseteq 0..MaxCommands
  <2>1. Len(cmds) \in Nat /\ Len(cmds) <= MaxCommands
    BY DEF Base, TypeOK
  <2>2. QED
    BY <2>1, PdictBounds DEF Numbers
<1>4. ASSUME NEW k \in Callers, CmdAdds(k)
      PROVE  answer' \in [Callers -> [code : Codes \cup {"none", "lost"}, of : 0..MaxCommands]]
  BY <1>4, <1>2, <1>1
     DEF CmdAdds, CallerAt
<1>5. ASSUME NEW k \in Callers, CallReturns(k)
      PROVE  answer' \in [Callers -> [code : Codes \cup {"none", "lost"}, of : 0..MaxCommands]]
  BY <1>5, <1>2, <1>1
     DEF CallReturns
<1>6. CASE NotifiesCaller
  <2>1. rline.code \in Codes /\ rline.of \in Numbers
    BY <1>6 DEF NotifiesCaller, ReaderAt, Base, TypeOK, ReplyLine
  <2>2. [code |-> rline.code, of |-> rline.of]
            \in [code : Codes \cup {"none", "lost"}, of : 0..MaxCommands]
    BY <2>1, <1>3
  <2>3. QED
    BY <1>6, <2>2, <1>1 DEF NotifiesCaller
<1>7. CASE FinishesCaller
  <2>1. NextInPostorder \in Numbers
    BY <1>7, NextIsPending DEF FinishesCaller, Base, TypeOK
  <2>2. [code |-> "lost", of |-> NextInPostorder]
            \in [code : Codes \cup {"none", "lost"}, of : 0..MaxCommands]
    BY <2>1, <1>3
  <2>3. QED
    BY <1>7, <2>2, <1>1 DEF FinishesCaller
<1>8. CASE \/ ReadsReply \/ DropsLine \/ ReadsReport \/ ReportReturns
           \/ NotifiesOwner \/ AuthorizationEnds \/ AuthorizationGoesOn
           \/ ReadEnds \/ FinishesAsync \/ DrainEnds \/ CleanedUp \/ Authorize
           \/ PuClose \/ Answers \/ PeerCloses
  BY <1>8, <1>1
     DEF ReadsReply, ReaderAt, DropsLine, ReadsReport, ReportReturns, NoLine,
         NotifiesOwner, AuthorizationEnds, AuthorizationGoesOn, ReadEnds,
         FinishesAsync, DrainEnds, CleanedUp, Authorize, PuClose, Answers,
         PeerCloses
<1>9. ASSUME NEW k \in Callers,
             \/ CmdWrites(k) \/ CmdWriteFails(k) \/ CmdForgets(k)
             \/ CmdIsAnswered(k) \/ CleanupReturns(k) \/ CleanupReports(k)
             \/ CmdTimesOut(k)
      PROVE  answer' \in [Callers -> [code : Codes \cup {"none", "lost"}, of : 0..MaxCommands]]
  BY <1>9, <1>1
     DEF CmdWrites, CallerAt, CmdWriteFails, CmdForgets, CmdIsAnswered,
         CleanupReturns, CleanupReports, CmdTimesOut
<1>10. ASSUME NEW k \in Callers, NEW kind \in Sync, NEW o \in Owners, Calls(k, kind, o)
       PROVE  answer' \in [Callers -> [code : Codes \cup {"none", "lost"}, of : 0..MaxCommands]]
  BY <1>10, <1>1
     DEF Calls, CallerAt
<1>11. ASSUME NEW o \in Owners,
              \/ Formats(o) \/ AsyncSet(o) \/ CloseWithoutServer(o)
              \/ Reports(o)
       PROVE  answer' \in [Callers -> [code : Codes \cup {"none", "lost"}, of : 0..MaxCommands]]
  BY <1>11, <1>1
     DEF Formats, AsyncSet, CloseWithoutServer, Reports
<1>12. CASE UNCHANGED vars
  BY <1>12, <1>1
     DEF vars
<1>13. QED
  BY <1>4, <1>5, <1>6, <1>7, <1>8, <1>9, <1>10, <1>11, <1>12
     DEF Next, Reader, CallContinues

\* Trouble stays.
LEMMA TroubleStep ==
  ASSUME [Next]_vars, trouble \in BOOLEAN
  PROVE  trouble' \in BOOLEAN /\ (trouble => trouble')
<1>1. ASSUME NEW k \in Callers, CmdForgets(k)
      PROVE  trouble' \in BOOLEAN /\ (trouble => trouble')
  BY Zenon, <1>1
     DEF CmdForgets
<1>2. ASSUME NEW k \in Callers, CmdIsAnswered(k)
      PROVE  trouble' \in BOOLEAN /\ (trouble => trouble')
  BY Zenon, <1>2
     DEF CmdIsAnswered, CallerAt
<1>3. CASE \/ ReadsReply \/ DropsLine \/ ReadsReport \/ ReportReturns
           \/ NotifiesCaller \/ NotifiesOwner \/ AuthorizationEnds
           \/ AuthorizationGoesOn \/ ReadEnds \/ FinishesCaller
           \/ FinishesAsync \/ DrainEnds \/ CleanedUp \/ Authorize \/ PuClose
           \/ Answers \/ PeerCloses
  BY <1>3
     DEF ReadsReply, ReaderAt, DropsLine, ReadsReport, ReportReturns, NoLine,
         NotifiesCaller, NotifiesOwner, AuthorizationEnds,
         AuthorizationGoesOn, ReadEnds, FinishesCaller, FinishesAsync,
         DrainEnds, CleanedUp, Authorize, PuClose, Answers, PeerCloses
<1>4. ASSUME NEW k \in Callers,
             \/ CmdAdds(k) \/ CmdWrites(k) \/ CmdWriteFails(k)
             \/ CallReturns(k) \/ CleanupReturns(k) \/ CleanupReports(k)
             \/ CmdTimesOut(k)
      PROVE  trouble' \in BOOLEAN /\ (trouble => trouble')
  BY <1>4
     DEF CmdAdds, CallerAt, NoAnswer, CmdWrites, CmdWriteFails, CallReturns,
         CleanupReturns, CleanupReports, CmdTimesOut
<1>5. ASSUME NEW k \in Callers, NEW kind \in Sync, NEW o \in Owners, Calls(k, kind, o)
      PROVE  trouble' \in BOOLEAN /\ (trouble => trouble')
  BY <1>5
     DEF Calls, CallerAt
<1>6. ASSUME NEW o \in Owners,
             \/ Formats(o) \/ AsyncSet(o) \/ CloseWithoutServer(o)
             \/ Reports(o)
      PROVE  trouble' \in BOOLEAN /\ (trouble => trouble')
  BY <1>6
     DEF Formats, AsyncSet, CloseWithoutServer, Reports
<1>7. CASE UNCHANGED vars
  BY <1>7
     DEF vars
<1>8. QED
  BY <1>1, <1>2, <1>3, <1>4, <1>5, <1>6, <1>7
     DEF Next, Reader, CallContinues

\* The types of all the variables.
LEMMA TypeStep ==
  ASSUME Base, [Next]_vars, Counted', RootIsPending', CommandOfCaller'
  PROVE  TypeOK'
<1>1. PlainTypes'
  BY PlainStep
<1>2. /\ cmds' \in Seq(Command)
      /\ Len(cmds') <= MaxCommands
  <2>1. cmds' \in Seq(Command)
    <3>1. TypeOK /\ cmds \in Seq(Command)
      BY DEF Base, TypeOK, Command
    <3>2. CASE cmds' = cmds
      BY <3>1, <3>2
    <3>3. ASSUME NEW kind \in Kinds, NEW x \in Owners \cup {NoOne}, NEW text \in Nat,
                 Issue(kind, x, text)
          PROVE  cmds' \in Seq(Command)
      BY <3>1, <3>3, IssueExtends
    <3>4. QED
      BY <3>1, <3>2, <3>3, CmdsStep DEF Base
  <2>2. Cardinality(Adding') \in Nat /\ Cardinality(Stamped') \in Nat
    <3>1. IsFiniteSet(Adding') /\ IsFiniteSet(Stamped')
      BY FiniteAssumption, FS_Subset DEF Adding, Stamped
    <3>2. QED
      BY <3>1, FS_CardinalityType
  <2>3. Len(cmds') \in Nat
    BY <2>1
  <2>4. QED
    BY <2>1, <2>2, <2>3, PdictBounds DEF Counted
<1>3. /\ pending' \subseteq Numbers' /\ freed' \subseteq Numbers'
      /\ executed' \subseteq Numbers'
  BY SetTypesStep
<1>4. Numbers' \subseteq 0..MaxCommands
  <2>1. Len(cmds') \in Nat /\ Len(cmds') <= MaxCommands
    BY <1>2
  <2>2. QED
    BY <2>1, PdictBounds DEF Numbers
<1>5. root' \in 0..MaxCommands
  <2>1. 0 \in 0..MaxCommands
    BY PdictBounds
  <2>2. root' \in pending' \/ root' = 0
    BY DEF RootIsPending
  <2>3. QED
    BY <1>3, <1>4, <2>1, <2>2
<1>6. own' \in [Callers -> 0..MaxCommands]
  BY <1>1, <1>4, PdictBounds DEF PlainTypes, CommandOfCaller
<1>7. answer' \in [Callers -> [code : Codes \cup {"none", "lost"}, of : 0..MaxCommands]]
  BY AnswerTypesStep
<1>8. toServer' \in Seq(Numbers') /\ toClient' \in Seq((ReplyLine \cup ReportLine)')
  BY LineTypesStep
<1>9. rpc' = "notify" => rcmd' \in Numbers' /\ rline' \in ReplyLine'
  <2>1. Numbers \subseteq Numbers' /\ ReplyLine \subseteq ReplyLine'
    BY CmdsKept DEF Base, ReplyLine
  <2>2. ReadsReply => rcmd' \in Numbers /\ rline' \in ReplyLine
    BY HeadTailProperties DEF ReadsReply, Matches, Base, TypeOK, ReplyLine, ReportLine
  <2>3. rpc = "notify" => rcmd \in Numbers /\ rline \in ReplyLine
    BY DEF Base, TypeOK
  <2>4. QED
    BY <2>1, <2>2, <2>3, NotifyStep
<1>10. rpc' = "report" => rline' \in ReportLine'
  <2>1. ReportLine' = ReportLine
    BY DEF ReportLine
  <2>2. ReadsReport => rline' \in ReportLine
    BY HeadTailProperties DEF ReadsReport, Base, TypeOK, ReplyLine, ReportLine
  <2>3. rpc = "report" => rline \in ReportLine
    BY DEF Base, TypeOK
  <2>4. QED
    BY <2>1, <2>2, <2>3, ReportStep
<1>11. trouble' \in BOOLEAN
  <2>1. trouble \in BOOLEAN
    BY DEF Base, TypeOK
  <2>2. QED
    BY <2>1, TroubleStep
<1>12. QED
  BY <1>1, <1>2, <1>3, <1>5, <1>6, <1>7, <1>8, <1>9, <1>10, <1>11
     DEF TypeOK, PlainTypes, Command

\* Every step of the session keeps Base.
LEMMA BaseStep == Base /\ [Next]_vars => Base'
<1> SUFFICES ASSUME Base, [Next]_vars PROVE Base'
  OBVIOUS
<1>1. Counted' /\ RootIsPending' /\ CommandOfCaller'
  BY CountedStep, RootStep, CallersStep
<1>2. TypeOK'
  BY <1>1, TypeStep
<1>3. QED
  BY <1>1, <1>2, TextStep, LinesStep, NotifyFitsStep, AuthorizationStep DEF Base

\* A new session satisfies Base.
LEMMA BaseInit == Init => Base
<1> SUFFICES ASSUME Init PROVE Base
  OBVIOUS
<1>1. TypeOK
  <2>1. /\ cmds \in Seq([kind : Kinds, owner : Owners \cup {NoOne}, text : Nat])
        /\ Len(cmds) <= MaxCommands
        /\ toServer \in Seq(Numbers) /\ toClient \in Seq(ReplyLine \cup ReportLine)
    BY PdictBounds, EmptySeq DEF Init
  <2>2. answer \in [Callers -> [code : Codes \cup {"none", "lost"}, of : 0..MaxCommands]]
    BY PdictBounds DEF Init, NoAnswer
  <2>3. /\ root \in 0..MaxCommands /\ own \in [Callers -> 0..MaxCommands]
        /\ doing \in [Callers -> Sync]
    BY PdictBounds DEF Init, Sync
  <2>4. QED
    BY <2>1, <2>2, <2>3 DEF Init, TypeOK
<1>2. Numbers = {} /\ Len(cmds) = 0
  BY DEF Init, Numbers
<1>3. Counted
  <2>1. Adding = {} /\ Stamped = {}
    BY DEF Init, Adding, Stamped
  <2>2. Cardinality({}) = 0
    BY FS_EmptySet
  <2>3. QED
    BY <1>2, <2>1, <2>2, PdictBounds DEF Counted
<1>4. RootIsPending /\ CommandOfCaller /\ TextOfCommand /\ LinesFit /\ NotifyFits
  BY <1>2 DEF Init, RootIsPending, CommandOfCaller, TextOfCommand, LinesFit, NotifyFits,
        Issued, Live
<1>5. AuthorizationFirst
  BY <1>2 DEF Init, AuthorizationFirst
<1>6. QED
  BY <1>1, <1>3, <1>4, <1>5 DEF Base

\* Every variable has its type, whoever issues a command has its number, and a
\* notification (read_results, r_notify) goes to a command with the reply's tag.
THEOREM BaseIsInvariant == Spec => []Base
  BY BaseInit, BaseStep, PTL DEF Spec

\* The fields of struct pdc_session, of the results and of the handles have
\* their types, and no more commands are issued than there is room for.
THEOREM TypeCorrect == Spec => []TypeOK
<1>1. Base => TypeOK
  BY DEF Base
<1>2. QED
  BY <1>1, BaseIsInvariant, PTL

-----------------------------------------------------------------------------
(* Who holds pdc_lock, and what he waits for.                               *)

Busy(k) == cpc[k] \notin {"idle", "cleanup"}

\* pdc_lock is held from the call of pdc_listen, pdc_ignore or pdc_get to its
\* return: two callers are never busy at once.
LockIsHeld == \A k \in Callers : Busy(k) <=> pdcLock = k

\* A caller's command is the one it has issued, and it has no answer before it
\* waits for one.
CommandIsOwn ==
    \A k \in Callers :
        /\ Issued(k) => Kind(own[k]) = doing[k] /\ Owner(own[k]) = forOwner[k]
        /\ ~Issued(k) \/ cpc[k] = "write" => answer[k].code = "none"
        /\ cpc[k] = "cleanup" => doing[k] = "ignore"

\* A synchronous command is pending while its caller is without an answer.
PendingIsLive ==
    /\ \A n \in pending : IsSync(n) =>
          \E k \in Callers : own[k] = n /\ Live(k) /\ answer[k].code = "none"
    /\ rpc = "notify" => rline.code = "more" \/ rcmd \notin pending

\* Nothing is on its way once the socket is closed.
ClosedIsEmpty ==
    /\ socket # "open" => toServer = <<>>
    /\ socket = "closed" => toClient = <<>>
    /\ rpc \in {"drain", "cleanup", "done"} => socket = "closed"

\* pdc_lock is passed on from caller to caller.
LEMMA LockStep ==
  ASSUME Base, LockIsHeld, [Next]_vars
  PROVE  LockIsHeld'
<1>1. /\ LockIsHeld /\ NoOne \notin Callers
      /\ pdcLock \in Callers \cup {NoOne}
      /\ cpc = [k \in Callers |-> cpc[k]]
  BY NoOneAssumption DEF Base, TypeOK
<1>2. ASSUME UNCHANGED <<cpc, pdcLock>> PROVE LockIsHeld'
  BY <1>1, <1>2 DEF LockIsHeld, Busy
<1>3. ASSUME NEW k \in Callers, CmdAdds(k)
      PROVE  LockIsHeld'
  BY <1>3, <1>1
     DEF CmdAdds, CallerAt, NoAnswer, LockIsHeld, Busy
<1>4. ASSUME NEW k \in Callers, CmdWrites(k)
      PROVE  LockIsHeld'
  BY <1>4, <1>1
     DEF CmdWrites, CallerAt, LockIsHeld, Busy
<1>5. ASSUME NEW k \in Callers, CmdWriteFails(k)
      PROVE  LockIsHeld'
  BY <1>5, <1>1
     DEF CmdWriteFails, CallerAt, LockIsHeld, Busy
<1>6. ASSUME NEW k \in Callers, CmdForgets(k)
      PROVE  LockIsHeld'
  BY <1>6, <1>1
     DEF CmdForgets, LockIsHeld, Busy
<1>7. ASSUME NEW k \in Callers, CmdIsAnswered(k)
      PROVE  LockIsHeld'
  BY <1>7, <1>1
     DEF CmdIsAnswered, CallerAt, LockIsHeld, Busy
<1>8. ASSUME NEW k \in Callers, CallReturns(k)
      PROVE  LockIsHeld'
  BY <1>8, <1>1
     DEF CallReturns, NoAnswer, LockIsHeld, Busy
<1>9. ASSUME NEW k \in Callers, CleanupReturns(k)
      PROVE  LockIsHeld'
  BY <1>9, <1>1
     DEF CleanupReturns, CallerAt, LockIsHeld, Busy
<1>10. ASSUME NEW k \in Callers, CleanupReports(k)
       PROVE  LockIsHeld'
  BY <1>10, <1>1
     DEF CleanupReports, CallerAt, LockIsHeld, Busy
<1>11. ASSUME NEW k \in Callers, CmdTimesOut(k)
       PROVE  LockIsHeld'
  BY <1>11, <1>1
     DEF CmdTimesOut, CallerAt, LockIsHeld, Busy
<1>12. ASSUME NEW k \in Callers, NEW kind \in Sync, NEW o \in Owners, Calls(k, kind, o)
       PROVE  LockIsHeld'
  BY <1>12, <1>1
     DEF Calls, CallerAt, LockIsHeld, Busy
<1>13. CASE \/ ReadsReply \/ DropsLine \/ ReadsReport \/ ReportReturns
            \/ NotifiesCaller \/ NotifiesOwner \/ AuthorizationEnds
            \/ AuthorizationGoesOn \/ ReadEnds \/ FinishesCaller
            \/ FinishesAsync \/ DrainEnds \/ CleanedUp \/ Authorize \/ PuClose
            \/ Answers \/ PeerCloses
  BY <1>13, <1>2
     DEF ReadsReply, ReaderAt, DropsLine, ReadsReport, ReportReturns, NoLine,
         NotifiesCaller, NotifiesOwner, AuthorizationEnds,
         AuthorizationGoesOn, ReadEnds, FinishesCaller, FinishesAsync,
         DrainEnds, CleanedUp, Authorize, PuClose, Answers, PeerCloses
<1>14. ASSUME NEW o \in Owners,
              \/ Formats(o) \/ AsyncSet(o) \/ CloseWithoutServer(o)
              \/ Reports(o)
       PROVE  LockIsHeld'
  BY <1>14, <1>2
     DEF Formats, AsyncSet, CloseWithoutServer, Reports
<1>15. CASE UNCHANGED vars
  BY <1>15, <1>2
     DEF vars
<1>16. QED
  BY <1>3, <1>4, <1>5, <1>6, <1>7, <1>8, <1>9, <1>10, <1>11, <1>12, <1>13,
     <1>14, <1>15
     DEF Next, Reader, CallContinues

\* Two callers with a command are one caller.
LEMMA OneIsBusy ==
  ASSUME LockIsHeld, NEW k \in Callers, NEW j \in Callers, Busy(k), Busy(j)
  PROVE  j = k
BY Zenon DEF LockIsHeld

\* The command a caller has is its own.
LEMMA OwnStep ==
  ASSUME Base, LockIsHeld, CommandIsOwn, [Next]_vars
  PROVE  CommandIsOwn'
<1>1. /\ CommandIsOwn
      /\ cpc = [k \in Callers |-> cpc[k]] /\ own = [k \in Callers |-> own[k]]
      /\ doing = [k \in Callers |-> doing[k]] /\ forOwner = [k \in Callers |-> forOwner[k]]
      /\ answer = [k \in Callers |-> answer[k]]
      /\ \A k \in Callers : Issued(k) => own[k] \in Numbers
  BY DEF Base, TypeOK, CommandOfCaller
<1>2. \A n \in Numbers : cmds'[n] = cmds[n]
  BY CmdsKept DEF Base
<1>3. ASSUME UNCHANGED <<cpc, own, doing, forOwner, answer>> PROVE CommandIsOwn'
  BY <1>1, <1>2, <1>3 DEF CommandIsOwn, Issued, Live, Kind, Owner
<1>4. ASSUME NEW k \in Callers, CmdAdds(k)
      PROVE  CommandIsOwn'
  <2>1. PICK n : n = Len(cmds) + 1
    OBVIOUS
  <2>2. /\ doing[k] \in Sync /\ forOwner[k] \in Owners \cup {NoOne}
        /\ cpc[k] = "add" /\ cpc' = [cpc EXCEPT ![k] = "write"]
        /\ own' = [own EXCEPT ![k] = n] /\ answer' = [answer EXCEPT ![k] = NoAnswer]
        /\ doing' = doing /\ forOwner' = forOwner
        /\ Issue(doing[k], forOwner[k], 0)
    BY <1>4, <2>1 DEF CmdAdds, CallerAt, Base, TypeOK
  <2>3. cmds'[n].kind = doing[k] /\ cmds'[n].owner = forOwner[k]
    BY <2>1, <2>2, IssueExtends DEF Base, Kinds
  <2>4. own'[k] = n /\ cpc'[k] = "write" /\ answer'[k].code = "none"
    BY <2>2, <1>1 DEF NoAnswer
  <2>5. ASSUME NEW j \in Callers, j # k
        PROVE  cpc'[j] = cpc[j] /\ own'[j] = own[j] /\ answer'[j] = answer[j]
    BY <2>2, <2>5, <1>1
  <2>6. ASSUME NEW j \in Callers
        PROVE  /\ Issued(j)' => Kind(own[j])' = doing'[j] /\ Owner(own[j])' = forOwner'[j]
               /\ ~Issued(j)' \/ cpc'[j] = "write" => answer'[j].code = "none"
               /\ cpc'[j] = "cleanup" => doing'[j] = "ignore"
    <3>1. CASE j = k
      BY <3>1, <2>2, <2>3, <2>4 DEF Kind, Owner
    <3>2. CASE j # k
      BY <3>2, <2>2, <2>5, <1>1, <1>2 DEF CommandIsOwn, Issued, Live, Kind, Owner
    <3>3. QED
      BY <3>1, <3>2
  <2>7. QED
    BY <2>6 DEF CommandIsOwn
<1>5. ASSUME NEW k \in Callers, CmdWrites(k)
      PROVE  CommandIsOwn'
  BY <1>5, <1>1, <1>2
     DEF CmdWrites, CallerAt, CommandIsOwn, Issued, Live, Kind, Owner
<1>6. ASSUME NEW k \in Callers, CmdWriteFails(k)
      PROVE  CommandIsOwn'
  BY <1>6, <1>1, <1>2
     DEF CmdWriteFails, CallerAt, CommandIsOwn, Issued, Live, Kind, Owner
<1>7. ASSUME NEW k \in Callers, CmdForgets(k)
      PROVE  CommandIsOwn'
  BY <1>7, <1>1, <1>2
     DEF CmdForgets, CommandIsOwn, Issued, Live, Kind, Owner
<1>8. ASSUME NEW k \in Callers, CmdIsAnswered(k)
      PROVE  CommandIsOwn'
  BY <1>8, <1>1, <1>2
     DEF CmdIsAnswered, CallerAt, CommandIsOwn, Issued, Live, Kind, Owner
<1>9. ASSUME NEW k \in Callers, CallReturns(k)
      PROVE  CommandIsOwn'
  BY <1>9, <1>1, <1>2
     DEF CallReturns, NoAnswer, CommandIsOwn, Issued, Live, Kind, Owner
<1>10. ASSUME NEW k \in Callers, CleanupReturns(k)
       PROVE  CommandIsOwn'
  BY <1>10, <1>1, <1>2
     DEF CleanupReturns, CallerAt, CommandIsOwn, Issued, Live, Kind, Owner
<1>11. ASSUME NEW k \in Callers, CleanupReports(k)
       PROVE  CommandIsOwn'
  BY <1>11, <1>1, <1>2
     DEF CleanupReports, CallerAt, CommandIsOwn, Issued, Live, Kind, Owner
<1>12. ASSUME NEW k \in Callers, CmdTimesOut(k)
       PROVE  CommandIsOwn'
  BY <1>12, <1>1, <1>2
     DEF CmdTimesOut, CallerAt, CommandIsOwn, Issued, Live, Kind, Owner
<1>13. ASSUME NEW k \in Callers, NEW kind \in Sync, NEW o \in Owners, Calls(k, kind, o)
       PROVE  CommandIsOwn'
  BY <1>13, <1>1, <1>2
     DEF Calls, CallerAt, CommandIsOwn, Issued, Live, Kind, Owner
<1>14. CASE NotifiesCaller
  BY <1>14, <1>1, <1>2
     DEF NotifiesCaller, ReaderAt, NoLine, CommandIsOwn, Issued, Live, Kind,
         Owner
<1>15. CASE FinishesCaller
  <2>1. NextInPostorder \in pending /\ IsSync(NextInPostorder)
    BY <1>15, NextIsPending DEF FinishesCaller, Base
  <2>2. \A k \in Callers : own[k] = NextInPostorder => Issued(k) /\ ~(cpc[k] = "write")
    <3>1. NextInPostorder # 0
      BY <2>1 DEF Base, TypeOK, Numbers
    <3>2. QED
      BY <1>15, <3>1 DEF FinishesCaller, HoldsAnswer, Base, CommandOfCaller
  <2>3. \A k \in Callers : ~Issued(k) \/ cpc[k] = "write" => answer'[k] = answer[k]
    BY <1>15, <2>2, <1>1 DEF FinishesCaller
  <2>4. UNCHANGED <<cpc, own, doing, forOwner, cmds>>
    BY <1>15 DEF FinishesCaller
  <2>5. QED
    BY <2>3, <2>4, <1>1 DEF CommandIsOwn, Issued, Live, Kind, Owner
<1>16. CASE \/ ReadsReply \/ DropsLine \/ ReadsReport \/ ReportReturns
            \/ NotifiesOwner \/ AuthorizationEnds \/ AuthorizationGoesOn
            \/ ReadEnds \/ FinishesAsync \/ DrainEnds \/ CleanedUp
            \/ Authorize \/ PuClose \/ Answers \/ PeerCloses
  BY <1>16, <1>3
     DEF ReadsReply, ReaderAt, DropsLine, ReadsReport, ReportReturns, NoLine,
         NotifiesOwner, AuthorizationEnds, AuthorizationGoesOn, ReadEnds,
         FinishesAsync, DrainEnds, CleanedUp, Authorize, PuClose, Answers,
         PeerCloses
<1>17. ASSUME NEW o \in Owners,
              \/ Formats(o) \/ AsyncSet(o) \/ CloseWithoutServer(o)
              \/ Reports(o)
       PROVE  CommandIsOwn'
  BY <1>17, <1>3
     DEF Formats, AsyncSet, CloseWithoutServer, Reports
<1>18. CASE UNCHANGED vars
  BY <1>18, <1>3
     DEF vars
<1>19. QED
  BY <1>4, <1>5, <1>6, <1>7, <1>8, <1>9, <1>10, <1>11, <1>12, <1>13, <1>14,
     <1>15, <1>16, <1>17, <1>18
     DEF Next, Reader, CallContinues

\* A synchronous command that is pending is the command of whoever holds
\* pdc_lock, who has no answer yet.
LEMMA LiveStep ==
  ASSUME Base, LockIsHeld, CommandIsOwn, PendingIsLive, [Next]_vars
  PROVE  PendingIsLive'
<1>1. /\ pending \subseteq Numbers /\ Len(cmds) + 1 \notin Numbers
      /\ cpc = [k \in Callers |-> cpc[k]] /\ own = [k \in Callers |-> own[k]]
      /\ answer = [k \in Callers |-> answer[k]]
  BY DEF Base, TypeOK, Numbers
<1>2. \A n \in Numbers : IsSync(n)' = IsSync(n)
  BY CmdsKept DEF Base
<1> DEFINE Waiting(n) == \E k \in Callers : own[k] = n /\ Live(k) /\ answer[k].code = "none"
<1>3. \A n \in pending : IsSync(n) => Waiting(n)
  BY DEF PendingIsLive
<1>4. ASSUME UNCHANGED <<cpc, own, answer>>, pending' \subseteq pending
      PROVE  \A n \in pending' : IsSync(n)' => Waiting(n)'
  BY <1>1, <1>2, <1>3, <1>4 DEF Live
<1>5. ASSUME NEW kind \in Kinds \ Sync, NEW o \in Owners \cup {NoOne}, NEW text \in Nat,
             Issue(kind, o, text), pending' \subseteq pending \cup {Len(cmds) + 1},
             UNCHANGED <<cpc, own, answer>>
      PROVE  \A n \in pending' : IsSync(n)' => Waiting(n)'
  <2>1. PICK n : n = Len(cmds) + 1
    OBVIOUS
  <2>2. ~IsSync(n)'
    BY <1>5, <2>1, IssueExtends DEF Base, IsSync, Kind
  <2>3. QED
    BY <1>1, <1>2, <1>3, <1>5, <2>1, <2>2 DEF Live
<1>6. \A n \in pending' : IsSync(n)' => Waiting(n)'
  <2>1. ASSUME NEW k \in Callers, CmdAdds(k)
        PROVE  \A n \in pending' : IsSync(n)' => Waiting(n)'
    <3>1. PICK n : n = Len(cmds) + 1
      OBVIOUS
    <3>2. /\ pending' = pending \cup {n} /\ own' = [own EXCEPT ![k] = n]
          /\ cpc[k] = "add" /\ cpc' = [cpc EXCEPT ![k] = "write"]
          /\ answer' = [answer EXCEPT ![k] = NoAnswer]
      BY <2>1, <3>1 DEF CmdAdds, CallerAt, Insert
    <3>3. own'[k] = n /\ Live(k)' /\ answer'[k].code = "none"
      BY <3>2, <1>1 DEF Live, NoAnswer
    <3>4. \A j \in Callers : j # k => own'[j] = own[j] /\ Live(j)' = Live(j) /\ answer'[j] = answer[j]
      BY <3>2, <1>1 DEF Live
    <3>5. \A m \in pending : IsSync(m) => Waiting(m)'
      BY <1>3, <3>2, <3>4 DEF Live
    <3>6. QED
      BY <1>1, <1>2, <3>2, <3>3, <3>5
  <2>2. ASSUME NEW k \in Callers, CmdWrites(k)
        PROVE  \A n \in pending' : IsSync(n)' => Waiting(n)'
    BY <2>2, <1>1, <1>2, <1>3
       DEF CmdWrites, CallerAt, Live
  <2>3. ASSUME NEW k \in Callers, CmdWriteFails(k)
        PROVE  \A n \in pending' : IsSync(n)' => Waiting(n)'
    BY <2>3, <1>1, <1>2, <1>3
       DEF CmdWriteFails, CallerAt, Live
  <2>4. ASSUME NEW k \in Callers, CmdForgets(k)
        PROVE  \A n \in pending' : IsSync(n)' => Waiting(n)'
    BY <2>4, <1>1, <1>2, <1>3
       DEF CmdForgets, Remove, Live
  <2>5. ASSUME NEW k \in Callers, CmdIsAnswered(k)
        PROVE  \A n \in pending' : IsSync(n)' => Waiting(n)'
    BY <2>5, <1>1, <1>2, <1>3
       DEF CmdIsAnswered, CallerAt, Live
  <2>6. ASSUME NEW k \in Callers, CallReturns(k)
        PROVE  \A n \in pending' : IsSync(n)' => Waiting(n)'
    BY <2>6, <1>1, <1>2, <1>3
       DEF CallReturns, NoAnswer, Live
  <2>7. ASSUME NEW k \in Callers, CleanupReturns(k)
        PROVE  \A n \in pending' : IsSync(n)' => Waiting(n)'
    BY <2>7, <1>1, <1>2, <1>3
       DEF CleanupReturns, CallerAt, Live
  <2>8. ASSUME NEW k \in Callers, CleanupReports(k)
        PROVE  \A n \in pending' : IsSync(n)' => Waiting(n)'
    BY <2>8, <1>1, <1>2, <1>3
       DEF CleanupReports, CallerAt, Remove, Live
  <2>9. ASSUME NEW k \in Callers, CmdTimesOut(k)
        PROVE  \A n \in pending' : IsSync(n)' => Waiting(n)'
    BY <2>9, <1>1, <1>2, <1>3
       DEF CmdTimesOut, CallerAt, Live
  <2>10. ASSUME NEW k \in Callers, NEW kind \in Sync, NEW o \in Owners, Calls(k, kind, o)
         PROVE  \A n \in pending' : IsSync(n)' => Waiting(n)'
    BY <2>10, <1>1, <1>2, <1>3
       DEF Calls, CallerAt, Live
  <2>11. ASSUME NEW o \in Owners, AsyncSet(o)
         PROVE  \A n \in pending' : IsSync(n)' => Waiting(n)'
    <3>1. stamp[o] \in Nat /\ "set" \in Kinds \ Sync
      BY DEF Base, TypeOK, Kinds, Sync
    <3>2. QED
      BY <2>11, <3>1, <1>5 DEF AsyncSet, Sends, SendFails, Insert
  <2>12. CASE Authorize
    <3>1. NextTag \in Nat /\ "authenticate" \in Kinds \ Sync
      BY NextTagType DEF Base, Kinds, Auth, Sync
    <3>2. QED
      BY <2>12, <3>1, <1>5 DEF Authorize, Sends, SendFails, Insert
  <2>13. CASE AuthorizationGoesOn
    <3>1. NextTag \in Nat /\ "password" \in Kinds \ Sync
      BY NextTagType DEF Base, Kinds, Auth, Sync
    <3>2. QED
      BY <2>13, <3>1, <1>5 DEF AuthorizationGoesOn, Insert
  <2>14. CASE ReadsReply
    BY <2>14, <1>4, <1>1, <1>2, <1>3
       DEF ReadsReply, ReaderAt, Remove
  <2>15. CASE FinishesAsync
    BY <2>15, <1>4, <1>1, <1>2, <1>3
       DEF FinishesAsync, Remove
  <2>16. CASE NotifiesCaller
    <3>1. rpc = "notify" /\ UNCHANGED <<cpc, own, pending>>
      BY <2>16 DEF NotifiesCaller, ReaderAt
    <3>2. rline.code = "more" \/ rcmd \notin pending
      BY <3>1 DEF PendingIsLive
    <3>3. \A k \in Callers : own[k] \in pending => answer'[k] = answer[k]
      BY <2>16, <3>2, <1>1 DEF NotifiesCaller
    <3>4. QED
      BY <1>1, <1>2, <1>3, <3>1, <3>3 DEF Live
  <2>17. CASE FinishesCaller
    <3>1. pending' = pending \ {NextInPostorder} /\ UNCHANGED <<cpc, own>>
      BY <2>17 DEF FinishesCaller, Remove
    <3>2. \A k \in Callers : own[k] # NextInPostorder => answer'[k] = answer[k]
      BY <2>17, <1>1 DEF FinishesCaller
    <3>3. QED
      BY <1>1, <1>2, <1>3, <3>1, <3>2 DEF Live
  <2>18. CASE \/ DropsLine \/ ReadsReport \/ ReportReturns \/ NotifiesOwner
              \/ AuthorizationEnds \/ ReadEnds \/ DrainEnds \/ CleanedUp
              \/ PuClose \/ Answers \/ PeerCloses
    BY <2>18, <1>4
       DEF DropsLine, ReadsReport, ReaderAt, ReportReturns, NoLine,
           NotifiesOwner, AuthorizationEnds, ReadEnds, DrainEnds, CleanedUp,
           PuClose, Answers, PeerCloses
  <2>19. ASSUME NEW o \in Owners,
                \/ Formats(o) \/ CloseWithoutServer(o) \/ Reports(o)
         PROVE  \A n \in pending' : IsSync(n)' => Waiting(n)'
    BY <2>19, <1>4
       DEF Formats, CloseWithoutServer, Reports
  <2>20. CASE UNCHANGED vars
    BY <2>20, <1>4
       DEF vars
  <2>21. QED
    BY <2>1, <2>2, <2>3, <2>4, <2>5, <2>6, <2>7, <2>8, <2>9, <2>10, <2>11,
       <2>12, <2>13, <2>14, <2>15, <2>16, <2>17, <2>18, <2>19, <2>20
       DEF Next, Reader, CallContinues
<1>7. rpc' = "notify" => rline'.code = "more" \/ rcmd' \notin pending'
  <2>1. CASE ReadsReply
    BY <2>1 DEF ReadsReply, Remove
  <2>2. CASE rpc = "notify" /\ rcmd' = rcmd /\ rline' = rline
    <3>1. rcmd \in Numbers
      BY <2>2 DEF Base, TypeOK
    <3>2. QED
      BY <1>1, <2>2, <3>1, PendingStep DEF PendingIsLive
  <2>3. QED
    BY <2>1, <2>2, NotifyStep
<1>8. QED
  BY <1>6, <1>7 DEF PendingIsLive

\* The socket is not opened again, and nothing is put on it once it is closed.
LEMMA ClosedStep ==
  ASSUME Base, ClosedIsEmpty, [Next]_vars
  PROVE  ClosedIsEmpty'
<1>1. ASSUME UNCHANGED <<socket, toServer, toClient, rpc>> PROVE ClosedIsEmpty'
  BY <1>1 DEF ClosedIsEmpty
<1>2. CASE Answers
  BY <1>2
     DEF Answers, ClosedIsEmpty
<1>3. ASSUME NEW o \in Owners, Reports(o)
      PROVE  ClosedIsEmpty'
  BY <1>3
     DEF Reports, ClosedIsEmpty
<1>4. CASE ReadEnds
  BY <1>4
     DEF ReadEnds, ReaderAt, ClosedIsEmpty
<1>5. CASE PuClose
  BY <1>5
     DEF PuClose, ClosedIsEmpty
<1>6. CASE PeerCloses
  BY <1>6
     DEF PeerCloses, ClosedIsEmpty
<1>7. CASE ReadsReply
  BY <1>7
     DEF ReadsReply, ReaderAt, ClosedIsEmpty
<1>8. CASE DropsLine
  BY <1>8
     DEF DropsLine, ClosedIsEmpty
<1>9. CASE ReadsReport
  BY <1>9
     DEF ReadsReport, ReaderAt, ClosedIsEmpty
<1>10. ASSUME NEW k \in Callers, CmdWrites(k)
       PROVE  ClosedIsEmpty'
  BY <1>10
     DEF CmdWrites, CallerAt, Sent, ClosedIsEmpty
<1>11. ASSUME NEW o \in Owners, AsyncSet(o)
       PROVE  ClosedIsEmpty'
  BY <1>11
     DEF AsyncSet, Sends, SendFails, Sent, ClosedIsEmpty
<1>12. CASE Authorize
  BY <1>12
     DEF Authorize, Sends, SendFails, Sent, ClosedIsEmpty
<1>13. CASE AuthorizationGoesOn
  BY <1>13
     DEF AuthorizationGoesOn, ReaderAt, NoLine, Sent, ClosedIsEmpty
<1>14. CASE DrainEnds
  BY <1>14
     DEF DrainEnds, ReaderAt, ClosedIsEmpty
<1>15. CASE CleanedUp
  BY <1>15
     DEF CleanedUp, ReaderAt, ClosedIsEmpty
<1>16. CASE ReportReturns
  BY <1>16
     DEF ReportReturns, ReaderAt, NoLine, ClosedIsEmpty
<1>17. CASE NotifiesCaller
  BY <1>17
     DEF NotifiesCaller, ReaderAt, NoLine, ClosedIsEmpty
<1>18. CASE NotifiesOwner
  BY <1>18
     DEF NotifiesOwner, ReaderAt, NoLine, ClosedIsEmpty
<1>19. CASE AuthorizationEnds
  BY <1>19
     DEF AuthorizationEnds, ReaderAt, NoLine, ClosedIsEmpty
<1>20. CASE \/ FinishesCaller \/ FinishesAsync
  BY <1>20, <1>1
     DEF FinishesCaller, FinishesAsync
<1>21. ASSUME NEW k \in Callers,
              \/ CmdAdds(k) \/ CmdWriteFails(k) \/ CmdForgets(k)
              \/ CmdIsAnswered(k) \/ CallReturns(k) \/ CleanupReturns(k)
              \/ CleanupReports(k) \/ CmdTimesOut(k)
       PROVE  ClosedIsEmpty'
  BY <1>21, <1>1
     DEF CmdAdds, CallerAt, NoAnswer, CmdWriteFails, CmdForgets,
         CmdIsAnswered, CallReturns, CleanupReturns, CleanupReports,
         CmdTimesOut
<1>22. ASSUME NEW k \in Callers, NEW kind \in Sync, NEW o \in Owners, Calls(k, kind, o)
       PROVE  ClosedIsEmpty'
  BY <1>22, <1>1
     DEF Calls, CallerAt
<1>23. ASSUME NEW o \in Owners,
              \/ Formats(o) \/ CloseWithoutServer(o)
       PROVE  ClosedIsEmpty'
  BY <1>23, <1>1
     DEF Formats, CloseWithoutServer
<1>24. CASE UNCHANGED vars
  BY <1>24, <1>1
     DEF vars
<1>25. QED
  BY <1>2, <1>3, <1>4, <1>5, <1>6, <1>7, <1>8, <1>9, <1>10, <1>11, <1>12,
     <1>13, <1>14, <1>15, <1>16, <1>17, <1>18, <1>19, <1>20, <1>21, <1>22,
     <1>23, <1>24
     DEF Next, Reader, CallContinues

-----------------------------------------------------------------------------
(* How the end of a command is reported.                                    *)

\* The end of a command is reported when its result is given up, once, and then
\* it is neither pending nor about to be notified nor waited for.
Tells ==
    /\ \A n \in DOMAIN told : told[n] = IF n \in freed THEN 1 ELSE 0
    /\ \A n \in DOMAIN outcome : outcome[n] = "none" <=> n \notin freed
    /\ pending \cap freed = {}
    /\ rpc = "notify" /\ ~IsSync(rcmd) => rcmd \notin freed
    /\ \A k \in Callers : Live(k) => own[k] \notin freed

\* The commands S may end now: none of them has ended, and nothing of them is
\* left after the step.
MayEnd(S) ==
    /\ S \cap freed = {} /\ S \cap pending' = {}
    /\ rpc' = "notify" /\ ~IsSync(rcmd)' => rcmd' \notin S
    /\ \A k \in Callers : Live(k)' => own'[k] \notin S

\* A pending synchronous command is that of the caller who is busy.
LEMMA PendingIsOwn ==
  ASSUME LockIsHeld, PendingIsLive, NEW k \in Callers, Busy(k),
         NEW n \in pending, IsSync(n)
  PROVE  own[k] = n /\ Live(k) /\ answer[k].code = "none"
<1>1. PICK j \in Callers : own[j] = n /\ Live(j) /\ answer[j].code = "none"
  BY DEF PendingIsLive
<1>2. Busy(j)
  BY <1>1 DEF Live, Busy
<1>3. j = k
  BY <1>2, OneIsBusy
<1>4. QED
  BY <1>1, <1>3

\* Whatever ends has not ended before, be it by a reply, a failed write, a
\* timeout, cleanup_pending or finish_pending_async.
LEMMA EndsStep ==
  ASSUME Base, LockIsHeld, CommandIsOwn, PendingIsLive, Tells, [Next]_vars
  PROVE  \/ UNCHANGED <<told, outcome, freed>>
         \/ \E S \in SUBSET Numbers', result \in {"ok", "failed"} :
               Told(S, result) /\ freed' = freed \cup S /\ MayEnd(S)
<1> DEFINE Ends == \E S \in SUBSET Numbers', result \in {"ok", "failed"} :
                      Told(S, result) /\ freed' = freed \cup S /\ MayEnd(S)
<1>1. /\ pending \subseteq Numbers /\ freed \subseteq Numbers
      /\ cpc = [k \in Callers |-> cpc[k]] /\ own = [k \in Callers |-> own[k]]
      /\ \A k \in Callers : Issued(k) => own[k] \in Numbers /\ IsSync(own[k])
      /\ \A k \in Callers : ~Issued(k) => own[k] = 0
  BY DEF Base, TypeOK, CommandOfCaller, CommandIsOwn, IsSync
<1>2. /\ Numbers \subseteq Numbers'
      /\ \A n \in Numbers : IsSync(n)' = IsSync(n)
      /\ Len(cmds) + 1 \notin Numbers
  <2>1. Len(cmds) + 1 \notin Numbers
    BY DEF Base, TypeOK, Numbers
  <2>2. QED
    BY <2>1, CmdsKept DEF Base
<1>3. /\ pending \cap freed = {}
      /\ rpc = "notify" => /\ rcmd \in Numbers
                           /\ ~IsSync(rcmd) => rcmd \notin freed \cup pending
      /\ \A k \in Callers : Live(k) => own[k] \notin freed
  BY DEF Tells, Base, TypeOK, NotifyFits
<1>4. \A code : Result(code) \in {"ok", "failed"}
  BY DEF Result
<1>5. ASSUME NEW S \in SUBSET Numbers', NEW result \in {"ok", "failed"},
             Told(S, result), freed' = freed \cup S, MayEnd(S)
      PROVE  Ends
  BY <1>5, Zenon
<1>6. ASSUME NEW kind \in Kinds, NEW o \in Owners \cup {NoOne}, NEW text \in Nat,
             Issue(kind, o, text)
      PROVE  Len(cmds) + 1 \in Numbers'
  BY <1>6, IssueExtends DEF Base
<1>7. \A k \in Callers : Live(k) => own[k] \in Numbers /\ IsSync(own[k])
  BY <1>1 DEF Issued
<1>8. ASSUME NEW k \in Callers, CmdForgets(k)
      PROVE  UNCHANGED <<told, outcome, freed>> \/ Ends
  <2>1. /\ cpc[k] \in {"unwritten", "expired"} /\ cpc' = [cpc EXCEPT ![k] = "failed"]
        /\ pending' = pending \ {own[k]} /\ Told({own[k]}, "failed")
        /\ freed' = freed \cup {own[k]} /\ UNCHANGED <<own, rpc, rcmd, cmds>>
    BY <1>8 DEF CmdForgets, Remove
  <2>2. own[k] \in Numbers /\ IsSync(own[k]) /\ own[k] \notin freed /\ ~Live(k)'
    BY <2>1, <1>1, <1>3, <1>7 DEF Live
  <2>3. \A j \in Callers : ~Live(j)'
    <3>1. SUFFICES ASSUME NEW j \in Callers, Live(j)' PROVE FALSE
      OBVIOUS
    <3>2. j # k /\ Busy(j) /\ Busy(k)
      BY <2>1, <2>2, <3>1, <1>1 DEF Live, Busy
    <3>3. QED
      BY <3>2, OneIsBusy
  <2>4. MayEnd({own[k]})
    BY <2>1, <2>2, <2>3 DEF MayEnd, IsSync, Kind
  <2>5. QED
    BY <2>1, <2>2, <2>4, <1>2, <1>5
<1>9. ASSUME NEW k \in Callers, CmdIsAnswered(k)
      PROVE  UNCHANGED <<told, outcome, freed>> \/ Ends
  <2>1. /\ cpc[k] = "wait" /\ answer[k].code # "none"
        /\ cpc' = [cpc EXCEPT ![k] = cpc'[k]] /\ cpc'[k] \in {"answered", "failed"}
        /\ Told({own[k]}, Result(answer[k].code))
        /\ freed' = freed \cup {own[k]} /\ UNCHANGED <<own, rpc, rcmd, cmds, pending>>
    BY <1>9, <1>1 DEF CmdIsAnswered, CallerAt
  <2>2. own[k] \in Numbers /\ IsSync(own[k]) /\ own[k] \notin freed /\ ~Live(k)'
    BY <2>1, <1>3, <1>7 DEF Live
  <2>3. \A j \in Callers : ~Live(j)'
    <3>1. SUFFICES ASSUME NEW j \in Callers, Live(j)' PROVE FALSE
      OBVIOUS
    <3>2. j # k /\ Busy(j) /\ Busy(k)
      BY <2>1, <2>2, <3>1, <1>1 DEF Live, Busy
    <3>3. QED
      BY <3>2, OneIsBusy
  <2>4. own[k] \notin pending
    BY <2>1, <2>2, PendingIsOwn DEF Busy
  <2>5. MayEnd({own[k]})
    BY <2>1, <2>2, <2>3, <2>4 DEF MayEnd, IsSync, Kind
  <2>6. QED
    BY <2>1, <2>2, <2>5, <1>2, <1>4, <1>5
<1>10. CASE \/ NotifiesOwner \/ AuthorizationEnds
  <2>1. /\ rpc = "notify" /\ rpc' # "notify" /\ Told({rcmd}, Result(rline.code))
        /\ freed' = freed \cup {rcmd} /\ UNCHANGED <<cpc, own, cmds, pending>>
        /\ ~IsSync(rcmd)
    BY <1>10 DEF NotifiesOwner, AuthorizationEnds, ReaderAt, IsSync, Sync, Auth
  <2>2. MayEnd({rcmd})
    BY <2>1, <1>3, <1>7 DEF MayEnd, Live
  <2>3. QED
    BY <2>1, <2>2, <1>2, <1>3, <1>4, <1>5
<1>11. CASE AuthorizationGoesOn
  <2>1. PICK n : n = Len(cmds) + 1
    OBVIOUS
  <2>2. /\ rpc = "notify" /\ rpc' # "notify" /\ Issue("password", NoOne, NextTag)
        /\ \/ /\ Told({rcmd}, "ok") /\ freed' = freed \cup {rcmd}
              /\ pending' = pending \cup {n}
           \/ /\ Told({rcmd, n}, "failed") /\ freed' = freed \cup {rcmd, n}
              /\ pending' = pending
        /\ UNCHANGED <<cpc, own>> /\ ~IsSync(rcmd)
    BY <1>11, <2>1 DEF AuthorizationGoesOn, ReaderAt, IsSync, Sync, Auth, Insert
  <2>3. n \in Numbers' /\ n \notin Numbers
    <3>1. NextTag \in Nat /\ "password" \in Kinds
      BY NextTagType DEF Base, Kinds, Auth
    <3>2. QED
      BY <2>1, <2>2, <3>1, <1>2, <1>6
  <2>4. CASE Told({rcmd}, "ok") /\ freed' = freed \cup {rcmd} /\ pending' = pending \cup {n}
    <3>1. MayEnd({rcmd})
      BY <2>2, <2>3, <2>4, <1>1, <1>3, <1>7 DEF MayEnd, Live
    <3>2. QED
      BY <2>2, <2>4, <3>1, <1>2, <1>3, <1>5
  <2>5. CASE /\ Told({rcmd, n}, "failed") /\ freed' = freed \cup {rcmd, n}
             /\ pending' = pending
    <3>1. MayEnd({rcmd, n})
      BY <2>2, <2>3, <2>5, <1>1, <1>3, <1>7 DEF MayEnd, Live
    <3>2. QED
      BY <2>2, <2>3, <2>5, <3>1, <1>2, <1>3, <1>5
  <2>6. QED
    BY <2>2, <2>4, <2>5
<1>12. ASSUME NEW o \in Owners, AsyncSet(o)
       PROVE  UNCHANGED <<told, outcome, freed>> \/ Ends
  <2>1. PICK n : n = Len(cmds) + 1
    OBVIOUS
  <2>2. /\ Issue("set", o, stamp[o]) /\ UNCHANGED <<cpc, own, rpc, rcmd>>
        /\ \/ UNCHANGED <<told, outcome, freed>>
           \/ Told({n}, "failed") /\ freed' = freed \cup {n} /\ pending' = pending
    BY <1>12, <2>1 DEF AsyncSet, Sends, SendFails
  <2>3. n \in Numbers' /\ n \notin Numbers
    <3>1. stamp[o] \in Nat /\ "set" \in Kinds
      BY DEF Base, TypeOK, Kinds
    <3>2. QED
      BY <2>1, <2>2, <3>1, <1>2, <1>6
  <2>4. MayEnd({n}) \/ pending' # pending
    BY <2>2, <2>3, <1>1, <1>3, <1>7 DEF MayEnd, Live
  <2>5. QED
    BY <2>2, <2>3, <2>4, <1>5
<1>13. CASE Authorize
  <2>1. PICK n : n = Len(cmds) + 1
    OBVIOUS
  <2>2. /\ Issue("authenticate", NoOne, NextTag) /\ UNCHANGED <<cpc, own, rpc, rcmd>>
        /\ \/ UNCHANGED <<told, outcome, freed>>
           \/ Told({n}, "failed") /\ freed' = freed \cup {n} /\ pending' = pending
    BY <1>13, <2>1 DEF Authorize, Sends, SendFails
  <2>3. n \in Numbers' /\ n \notin Numbers
    <3>1. NextTag \in Nat /\ "authenticate" \in Kinds
      BY NextTagType DEF Base, Kinds, Auth
    <3>2. QED
      BY <2>1, <2>2, <3>1, <1>2, <1>6
  <2>4. MayEnd({n}) \/ pending' # pending
    BY <2>2, <2>3, <1>1, <1>3, <1>7 DEF MayEnd, Live
  <2>5. QED
    BY <2>2, <2>3, <2>4, <1>5
<1>14. CASE FinishesAsync
  <2>1. PICK n \in pending : n = NextInPostorder
    BY <1>14, NextIsPending DEF FinishesAsync, Base
  <2>2. /\ rpc = "drain" /\ Told({n}, "failed") /\ freed' = freed \cup {n}
        /\ pending' = pending \ {n} /\ ~IsSync(n) /\ UNCHANGED <<cpc, own, rpc>>
    BY <1>14, <2>1 DEF FinishesAsync, Remove
  <2>3. MayEnd({n})
    BY <2>1, <2>2, <1>1, <1>3, <1>7 DEF MayEnd, Live
  <2>4. QED
    BY <2>1, <2>2, <2>3, <1>1, <1>2, <1>5
<1>15. ASSUME NEW k \in Callers, CleanupReports(k)
       PROVE  UNCHANGED <<told, outcome, freed>> \/ Ends
  <2>1. PICK S \in SUBSET pending : S = PendingOf(forOwner[k])
    BY DEF PendingOf
  <2>2. /\ Told(S, "failed") /\ freed' = freed \cup S /\ pending' = pending \ S
        /\ UNCHANGED <<own, rpc, rcmd, cmds>>
        /\ \A j \in Callers : cpc'[j] = cpc[j] \/ cpc'[j] = "idle"
    BY <1>15, <2>1, <1>1 DEF CleanupReports, CallerAt, Remove
  <2>3. \A n \in S : ~IsSync(n)
    BY <2>1 DEF PendingOf, IsSync, Sync
  <2>4. MayEnd(S)
    <3>1. S \cap freed = {} /\ S \cap pending' = {}
      BY <2>2, <1>3
    <3>2. rpc' = "notify" /\ ~IsSync(rcmd)' => rcmd' \notin S
      BY <2>2, <1>3 DEF IsSync, Kind
    <3>3. \A j \in Callers : Live(j)' => own'[j] \notin S
      BY <2>2, <2>3, <1>7 DEF Live
    <3>4. QED
      BY <3>1, <3>2, <3>3 DEF MayEnd
  <2>5. QED
    BY <2>1, <2>2, <2>4, <1>1, <1>2, <1>5
<1>16. CASE \/ ReadsReply \/ DropsLine \/ ReadsReport \/ ReportReturns
            \/ NotifiesCaller \/ ReadEnds \/ FinishesCaller \/ DrainEnds
            \/ CleanedUp \/ PuClose \/ Answers \/ PeerCloses
  BY <1>16
     DEF ReadsReply, ReaderAt, DropsLine, ReadsReport, ReportReturns, NoLine,
         NotifiesCaller, ReadEnds, FinishesCaller, DrainEnds, CleanedUp,
         PuClose, Answers, PeerCloses
<1>17. ASSUME NEW k \in Callers,
              \/ CmdAdds(k) \/ CmdWrites(k) \/ CmdWriteFails(k)
              \/ CallReturns(k) \/ CleanupReturns(k) \/ CmdTimesOut(k)
       PROVE  UNCHANGED <<told, outcome, freed>> \/ Ends
  BY <1>17
     DEF CmdAdds, CallerAt, NoAnswer, CmdWrites, CmdWriteFails, CallReturns,
         CleanupReturns, CmdTimesOut
<1>18. ASSUME NEW k \in Callers, NEW kind \in Sync, NEW o \in Owners, Calls(k, kind, o)
       PROVE  UNCHANGED <<told, outcome, freed>> \/ Ends
  BY <1>18
     DEF Calls, CallerAt
<1>19. ASSUME NEW o \in Owners,
              \/ Formats(o) \/ CloseWithoutServer(o) \/ Reports(o)
       PROVE  UNCHANGED <<told, outcome, freed>> \/ Ends
  BY <1>19
     DEF Formats, CloseWithoutServer, Reports
<1>20. CASE UNCHANGED vars
  BY <1>20
     DEF vars
<1>21. QED
  BY <1>8, <1>9, <1>10, <1>11, <1>12, <1>13, <1>14, <1>15, <1>16, <1>17,
     <1>18, <1>19, <1>20
     DEF Next, Reader, CallContinues

\* The end of a command is reported once.
LEMMA TellsStep ==
  ASSUME Base, LockIsHeld, CommandIsOwn, PendingIsLive, Tells, [Next]_vars
  PROVE  Tells'
<1>1. /\ pending \subseteq Numbers /\ freed \subseteq Numbers
      /\ cpc = [k \in Callers |-> cpc[k]] /\ own = [k \in Callers |-> own[k]]
      /\ rpc = "notify" => rcmd \in Numbers
      /\ \A k \in Callers : Issued(k) => own[k] \in Numbers
      /\ Len(cmds) + 1 \notin Numbers
  BY DEF Base, TypeOK, CommandOfCaller, Numbers
<1>2. \A n \in Numbers : IsSync(n)' = IsSync(n)
  BY CmdsKept DEF Base
<1>3. Tells
  OBVIOUS
<1>4. rpc' = "notify" /\ ~IsSync(rcmd)' => rcmd' \notin freed
  <2>1. CASE ReadsReply
    <3>1. rcmd' \in pending
      BY <2>1 DEF ReadsReply, Matches
    <3>2. QED
      BY <3>1 DEF Tells
  <2>2. CASE rpc = "notify" /\ rcmd' = rcmd /\ rline' = rline
    <3>1. IsSync(rcmd)' = IsSync(rcmd)
      BY <2>2, <1>1, <1>2 DEF IsSync, Kind
    <3>2. QED
      BY <2>2, <3>1 DEF Tells
  <2>3. QED
    BY <2>1, <2>2, NotifyStep
<1>5. \A x \in Callers : Live(x)' => own'[x] \notin freed
  <2>1. ASSUME NEW k \in Callers, CmdAdds(k)
        PROVE  \A x \in Callers : Live(x)' => own'[x] \notin freed
    BY <2>1, <1>1, <1>3
       DEF CmdAdds, CallerAt, NoAnswer, Live, Tells
  <2>2. ASSUME NEW k \in Callers, CmdWrites(k)
        PROVE  \A x \in Callers : Live(x)' => own'[x] \notin freed
    BY <2>2, <1>1, <1>3
       DEF CmdWrites, CallerAt, Live, Tells
  <2>3. ASSUME NEW k \in Callers, CmdWriteFails(k)
        PROVE  \A x \in Callers : Live(x)' => own'[x] \notin freed
    BY <2>3, <1>1, <1>3
       DEF CmdWriteFails, CallerAt, Live, Tells
  <2>4. ASSUME NEW k \in Callers, CmdForgets(k)
        PROVE  \A x \in Callers : Live(x)' => own'[x] \notin freed
    BY <2>4, <1>1, <1>3
       DEF CmdForgets, Live, Tells
  <2>5. ASSUME NEW k \in Callers, CmdIsAnswered(k)
        PROVE  \A x \in Callers : Live(x)' => own'[x] \notin freed
    BY <2>5, <1>1, <1>3
       DEF CmdIsAnswered, CallerAt, Live, Tells
  <2>6. ASSUME NEW k \in Callers, CallReturns(k)
        PROVE  \A x \in Callers : Live(x)' => own'[x] \notin freed
    BY <2>6, <1>1, <1>3
       DEF CallReturns, NoAnswer, Live, Tells
  <2>7. ASSUME NEW k \in Callers, CleanupReturns(k)
        PROVE  \A x \in Callers : Live(x)' => own'[x] \notin freed
    BY <2>7, <1>1, <1>3
       DEF CleanupReturns, CallerAt, Live, Tells
  <2>8. ASSUME NEW k \in Callers, CleanupReports(k)
        PROVE  \A x \in Callers : Live(x)' => own'[x] \notin freed
    BY <2>8, <1>1, <1>3
       DEF CleanupReports, CallerAt, Live, Tells
  <2>9. ASSUME NEW k \in Callers, CmdTimesOut(k)
        PROVE  \A x \in Callers : Live(x)' => own'[x] \notin freed
    BY <2>9, <1>1, <1>3
       DEF CmdTimesOut, CallerAt, Live, Tells
  <2>10. ASSUME NEW k \in Callers, NEW kind \in Sync, NEW o \in Owners, Calls(k, kind, o)
         PROVE  \A x \in Callers : Live(x)' => own'[x] \notin freed
    BY <2>10, <1>1, <1>3
       DEF Calls, CallerAt, Live, Tells
  <2>11. CASE \/ ReadsReply \/ DropsLine \/ ReadsReport \/ ReportReturns
              \/ NotifiesCaller \/ NotifiesOwner \/ AuthorizationEnds
              \/ AuthorizationGoesOn \/ ReadEnds \/ FinishesCaller
              \/ FinishesAsync \/ DrainEnds \/ CleanedUp \/ Authorize
              \/ PuClose \/ Answers \/ PeerCloses
    BY <2>11, <1>1, <1>3
       DEF ReadsReply, ReaderAt, DropsLine, ReadsReport, ReportReturns,
           NoLine, NotifiesCaller, NotifiesOwner, AuthorizationEnds,
           AuthorizationGoesOn, ReadEnds, FinishesCaller, FinishesAsync,
           DrainEnds, CleanedUp, Authorize, PuClose, Answers, PeerCloses,
           Live, Tells
  <2>12. ASSUME NEW o \in Owners,
                \/ Formats(o) \/ AsyncSet(o) \/ CloseWithoutServer(o)
                \/ Reports(o)
         PROVE  \A x \in Callers : Live(x)' => own'[x] \notin freed
    BY <2>12, <1>1, <1>3
       DEF Formats, AsyncSet, CloseWithoutServer, Reports, Live, Tells
  <2>13. CASE UNCHANGED vars
    BY <2>13, <1>1, <1>3
       DEF vars, Live, Tells
  <2>14. QED
    BY <2>1, <2>2, <2>3, <2>4, <2>5, <2>6, <2>7, <2>8, <2>9, <2>10, <2>11,
       <2>12, <2>13
       DEF Next, Reader, CallContinues
<1>6. CASE UNCHANGED <<told, outcome, freed>>
  <2>1. pending' \cap freed = {}
    BY <1>1, PendingStep DEF Tells
  <2>2. QED
    BY <2>1, <1>4, <1>5, <1>6 DEF Tells
<1>7. ASSUME NEW S \in SUBSET Numbers', NEW result \in {"ok", "failed"},
             Told(S, result), freed' = freed \cup S, MayEnd(S)
      PROVE  Tells'
  <2>1. pending' \cap freed = {}
    BY <1>1, PendingStep DEF Tells
  <2>2. /\ DOMAIN told' = DOMAIN told /\ DOMAIN outcome' = DOMAIN outcome
        /\ \A n \in DOMAIN told : told'[n] = IF n \in S THEN told[n] + 1 ELSE told[n]
        /\ \A n \in DOMAIN outcome : outcome'[n] = IF n \in S THEN result ELSE outcome[n]
    BY <1>7 DEF Told
  <2>3. \A n \in DOMAIN told' : told'[n] = IF n \in freed' THEN 1 ELSE 0
    BY <1>7, <2>2 DEF Tells, MayEnd
  <2>4. \A n \in DOMAIN outcome' : outcome'[n] = "none" <=> n \notin freed'
    BY <1>7, <2>2 DEF Tells, MayEnd
  <2>5. /\ pending' \cap freed' = {}
        /\ rpc' = "notify" /\ ~IsSync(rcmd)' => rcmd' \notin freed'
        /\ \A x \in Callers : Live(x)' => own'[x] \notin freed'
    BY <1>4, <1>5, <1>7, <2>1 DEF MayEnd
  <2>6. QED
    BY <2>3, <2>4, <2>5 DEF Tells
<1>8. QED
  BY <1>6, <1>7, EndsStep

-----------------------------------------------------------------------------
(* What is on the two lines of the socket.                                  *)

\* A command that has not been written yet, or could not be.
Unsent(k) == cpc[k] \in {"write", "unwritten"}

\* Nothing has become of the number n so far.
Unused(n) ==
    /\ n \notin executed
    /\ \A i \in DOMAIN toServer : toServer[i] # n
    /\ \A j \in DOMAIN toClient : toClient[j].of # n
    /\ rpc = "notify" => rline.of # n

\* A command is on its way once, and is executed and answered after that; only
\* its last line has another code than "more"; what is not bad was executed.
SentOnce == \A i, j \in DOMAIN toServer : toServer[i] = toServer[j] => i = j
SentIsNew ==
    \A i \in DOMAIN toServer :
        /\ toServer[i] \notin executed
        /\ \A j \in DOMAIN toClient : toClient[j].of # toServer[i]
LastLineEnds ==
    \A i, j \in DOMAIN toClient :
        i < j /\ toClient[i].what = "reply" /\ toClient[i].of = toClient[j].of
            => toClient[i].code = "more"
LinesAreDone ==
    \A j \in DOMAIN toClient :
        toClient[j].what = "reply" /\ toClient[j].code # "bad"
            => toClient[j].of \in executed
NotifiedIsDone ==
    rpc = "notify" =>
        /\ rline.code # "bad" => rline.of \in executed
        /\ \A i \in DOMAIN toServer : toServer[i] # rline.of
        /\ rline.code # "more" => \A j \in DOMAIN toClient : toClient[j].of # rline.of
UnsentIsNew == \A k \in Callers : Unsent(k) => Unused(own[k])

Lines == SentOnce /\ SentIsNew /\ LastLineEnds /\ LinesAreDone /\ NotifiedIsDone /\ UnsentIsNew

\* A number that is not given out yet is unused.
LEMMA NewIsUnused ==
  ASSUME Base, NEW n \in Nat \ {0}, n \notin Numbers
  PROVE  Unused(n)
<1>1. /\ \A i \in DOMAIN toServer : toServer[i] \in Numbers
      /\ \A j \in DOMAIN toClient : toClient[j].of \in Numbers \cup {0}
      /\ rpc = "notify" => rline.of \in Numbers
      /\ executed \subseteq Numbers
  <2>1. toServer \in Seq(Numbers) /\ toClient \in Seq(ReplyLine \cup ReportLine)
    BY DEF Base, TypeOK
  <2>2. \A j \in DOMAIN toClient : toClient[j] \in ReplyLine \cup ReportLine
    BY <2>1
  <2>3. QED
    BY <2>1, <2>2 DEF Base, TypeOK, ReplyLine, ReportLine
<1>2. QED
  BY <1>1 DEF Unused

\* A caller that has not written its command has just been given its number.
LEMMA UnsentStep ==
  ASSUME Base, [Next]_vars, NEW k \in Callers, Unsent(k)'
  PROVE  \/ Unsent(k) /\ own'[k] = own[k]
         \/ CmdAdds(k) /\ own'[k] = Len(cmds) + 1
<1>1. cpc = [j \in Callers |-> cpc[j]] /\ own = [j \in Callers |-> own[j]]
  BY DEF Base, TypeOK
<1> DEFINE Goal == \/ Unsent(k) /\ own'[k] = own[k]
                   \/ CmdAdds(k) /\ own'[k] = Len(cmds) + 1
<1> USE DEF Unsent
<1>2. ASSUME NEW j \in Callers, CallContinues(j) \/ CmdTimesOut(j) PROVE Goal
  <2>1. CASE CmdAdds(j)
    <3>1. CASE j = k
      BY <2>1, <3>1, <1>1 DEF CmdAdds
    <3>2. CASE j # k
      BY <2>1, <3>2, <1>1 DEF CmdAdds, CallerAt
    <3>3. QED
      BY <3>1, <3>2
  <2>2. CASE CmdWrites(j) \/ CmdWriteFails(j) \/ CmdForgets(j) \/ CmdIsAnswered(j) \/ CmdTimesOut(j)
    BY <2>2, <1>1 DEF CmdWrites, CmdWriteFails, CmdForgets, CmdIsAnswered, CmdTimesOut, CallerAt
  <2>3. CASE CallReturns(j) \/ CleanupReturns(j) \/ CleanupReports(j)
    BY <2>3, <1>1 DEF CallReturns, CleanupReturns, CleanupReports, CallerAt
  <2>4. QED
    BY <1>2, <2>1, <2>2, <2>3 DEF CallContinues
<1>3. ASSUME NEW j \in Callers, NEW kind \in Sync, NEW o \in Owners, Calls(j, kind, o)
      PROVE  Goal
  BY <1>3, <1>1 DEF Calls, CallerAt
<1>4. ASSUME UNCHANGED <<cpc, own>> PROVE Goal
  BY <1>4
<1>5. CASE Reader \/ Authorize \/ PuClose \/ Answers \/ PeerCloses
  BY <1>4, <1>5 DEF Reader, ReadsReply, DropsLine, ReadsReport, ReportReturns,
     NotifiesCaller, NotifiesOwner, AuthorizationEnds, AuthorizationGoesOn, ReadEnds,
     FinishesCaller, FinishesAsync, DrainEnds, CleanedUp, Authorize, PuClose, Answers,
     PeerCloses
<1>6. ASSUME NEW o \in Owners,
             Formats(o) \/ AsyncSet(o) \/ CloseWithoutServer(o) \/ Reports(o)
      PROVE  Goal
  BY <1>4, <1>6 DEF Formats, AsyncSet, CloseWithoutServer, Reports
<1>7. CASE UNCHANGED vars
  BY <1>4, <1>7 DEF vars
<1>8. QED
  BY <1>2, <1>3, <1>5, <1>6, <1>7, Zenon DEF Next

\* What a step other than ReadsReply and Answers does to the two lines: it
\* writes a command that is unused, takes the first line from the client's, adds
\* a report, or closes the socket.
GoesOn ==
    /\ executed' = executed
    /\ rpc' = "notify" => rpc = "notify" /\ rline' = rline
    /\ \A i \in DOMAIN toServer' :
          \/ i \in DOMAIN toServer /\ toServer'[i] = toServer[i]
          \/ /\ i = Len(toServer) + 1 /\ Unused(toServer'[i])
             /\ \A k \in Callers : Unsent(k)' => own'[k] # toServer'[i]
             /\ IsSync(toServer[i])' => \E k \in Callers : CmdWrites(k) /\ own[k] = toServer'[i]
    /\ \E d \in {0, 1} : \A j \in DOMAIN toClient' :
          \/ j + d \in DOMAIN toClient /\ toClient'[j] = toClient[j + d]
          \/ /\ toClient'[j].what = "report" /\ toClient'[j].of = 0
             /\ j = Len(toClient) + 1 /\ d = 0

\* Every step but two goes on in that way.
LEMMA LineStep ==
  ASSUME Base, LockIsHeld, UnsentIsNew, [Next]_vars
  PROVE  Answers \/ ReadsReply \/ GoesOn
<1>1. /\ toServer \in Seq(Numbers) /\ toClient \in Seq(ReplyLine \cup ReportLine)
      /\ Len(cmds) + 1 \in Nat \ {0} /\ Len(cmds) + 1 \notin Numbers
      /\ cpc = [k \in Callers |-> cpc[k]] /\ own = [k \in Callers |-> own[k]]
  BY DEF Base, TypeOK, Numbers
<1>2. \A k \in Callers : Issued(k) => own[k] \in Numbers
  BY DEF Base, CommandOfCaller
<1>3. ASSUME UNCHANGED <<toServer, toClient, executed>>,
             rpc' = "notify" => rpc = "notify" /\ rline' = rline
      PROVE  GoesOn
  BY <1>1, <1>3 DEF GoesOn
<1>4. ASSUME toServer' = <<>>, toClient' \in {<<>>, toClient}, UNCHANGED <<executed, rpc, rline>>
      PROVE  GoesOn
  BY <1>1, <1>4 DEF GoesOn
<1>5. ASSUME rpc' # "notify", UNCHANGED <<executed, toServer>>,
             toClient # <<>>, toClient' = Tail(toClient)
      PROVE  GoesOn
  <2>1. \A j \in DOMAIN toClient' : j + 1 \in DOMAIN toClient /\ toClient'[j] = toClient[j + 1]
    BY <1>1, <1>5, HeadTailProperties
  <2>2. QED
    BY <1>1, <1>5, <2>1 DEF GoesOn
<1>6. ASSUME NEW n \in Nat, Unused(n), \A k \in Callers : Unsent(k)' => own'[k] # n,
             toServer' = Append(toServer, n) \/ toServer' = toServer, UNCHANGED <<executed, toClient>>,
             IsSync(n)' => \E k \in Callers : CmdWrites(k) /\ own[k] = n,
             rpc' = "notify" => rpc = "notify" /\ rline' = rline
      PROVE  GoesOn
  <2>1. \A i \in DOMAIN toServer' :
           \/ i \in DOMAIN toServer /\ toServer'[i] = toServer[i]
           \/ i = Len(toServer) + 1 /\ toServer'[i] = n
    BY <1>1, <1>6
  <2>2. QED
    BY <1>1, <1>6, <2>1 DEF GoesOn, IsSync, Kind
<1>7. ASSUME NEW kind \in Kinds \ Sync, NEW o \in Owners \cup {NoOne}, NEW text \in Nat,
             Issue(kind, o, text), UNCHANGED <<cpc, own, executed, toClient>>,
             Sent(Len(cmds) + 1) \/ toServer' = toServer,
             rpc' = "notify" => rpc = "notify" /\ rline' = rline
      PROVE  GoesOn
  <2>1. Unused(Len(cmds) + 1)
    BY <1>1, NewIsUnused
  <2>2. \A k \in Callers : Unsent(k)' => own'[k] # Len(cmds) + 1
    BY <1>1, <1>2, <1>7 DEF Unsent, Issued, Live
  <2>3. PICK n : n = Len(cmds) + 1
    OBVIOUS
  <2>4. ~IsSync(n)'
    BY <1>7, <2>3, IssueExtends DEF Base, IsSync, Kind
  <2>5. QED
    BY <1>1, <1>6, <1>7, <2>1, <2>2, <2>3, <2>4 DEF Sent
<1>8. ASSUME NEW k \in Callers, CmdWrites(k) PROVE GoesOn
  <2>1. PICK n \in Nat : n = own[k]
    BY DEF Base, TypeOK
  <2>2. Unused(n)
    BY <1>8, <2>1 DEF CmdWrites, CallerAt, UnsentIsNew, Unsent
  <2>3. \A j \in Callers : Unsent(j)' => own'[j] # n
    <3>1. \A j \in Callers : Unsent(j)' => Unsent(j) /\ j # k
      BY <1>1, <1>8 DEF CmdWrites, CallerAt, Unsent
    <3>2. \A j \in Callers : ~Unsent(j)'
      BY <1>8, <3>1, OneIsBusy DEF CmdWrites, CallerAt, Unsent, Busy
    <3>3. QED
      BY <3>2
  <2>4. /\ toServer' = Append(toServer, n) \/ toServer' = toServer
        /\ UNCHANGED <<executed, toClient, rpc, rline>>
    BY <1>8, <2>1 DEF CmdWrites, Sent
  <2>5. QED
    BY <2>1, <2>2, <2>3, <2>4, <1>6, <1>8
<1>9. ASSUME NEW k \in Callers, CallContinues(k) \/ CmdTimesOut(k) PROVE GoesOn
  BY <1>3, <1>8, <1>9 DEF CallContinues, CmdAdds, CmdWriteFails, CmdForgets,
     CmdIsAnswered, CallReturns, CleanupReturns, CleanupReports, CmdTimesOut
<1>10. ASSUME NEW k \in Callers, NEW kind \in Sync, NEW o \in Owners, Calls(k, kind, o)
       PROVE  GoesOn
  BY <1>3, <1>10 DEF Calls
<1>11. ASSUME NEW o \in Owners, Reports(o) PROVE GoesOn
  <2>1. /\ toClient' = Append(toClient, [what |-> "report", of |-> 0, owner |-> o,
                                         code |-> "ok"])
        /\ UNCHANGED <<executed, toServer, rpc, rline>>
    BY <1>11 DEF Reports
  <2>2. \A j \in DOMAIN toClient' :
           \/ j + 0 \in DOMAIN toClient /\ toClient'[j] = toClient[j + 0]
           \/ /\ toClient'[j].what = "report" /\ toClient'[j].of = 0
              /\ j = Len(toClient) + 1
    BY <1>1, <2>1
  <2>3. QED
    BY <1>1, <2>1, <2>2 DEF GoesOn
<1>12. ASSUME NEW o \in Owners, Formats(o) \/ AsyncSet(o) \/ CloseWithoutServer(o)
       PROVE  GoesOn
  <2>1. stamp[o] \in Nat /\ "set" \in Kinds \ Sync
    BY DEF Base, TypeOK, Kinds, Sync
  <2>2. CASE AsyncSet(o)
    BY <1>7, <2>1, <2>2 DEF AsyncSet, Sends, SendFails
  <2>3. QED
    BY <1>3, <1>12, <2>2 DEF Formats, CloseWithoutServer
<1>13. CASE ReadsReport \/ DropsLine \/ ReadEnds \/ PuClose \/ PeerCloses
  <2>1. CASE ReadsReport
    BY <2>1, <1>5 DEF ReadsReport, ReaderAt
  <2>2. CASE DropsLine
    BY <2>2, <1>5 DEF DropsLine
  <2>3. CASE ReadEnds
    BY <2>3, <1>1 DEF ReadEnds, ReaderAt, GoesOn
  <2>4. CASE PuClose \/ PeerCloses
    BY <2>4, <1>4 DEF PuClose, PeerCloses
  <2>5. QED
    BY <1>13, <2>1, <2>2, <2>3, <2>4
<1>14. CASE Authorize \/ AuthorizationGoesOn
  <2>1. NextTag \in Nat /\ {"authenticate", "password"} \subseteq Kinds \ Sync
    BY NextTagType DEF Base, Kinds, Auth, Sync
  <2>2. QED
    BY <1>7, <1>14, <2>1 DEF Authorize, AuthorizationGoesOn, Sends, SendFails, ReaderAt
<1>15. CASE \/ ReportReturns \/ NotifiesCaller \/ NotifiesOwner \/ AuthorizationEnds
            \/ FinishesCaller \/ FinishesAsync \/ DrainEnds \/ CleanedUp
  BY <1>3, <1>15 DEF ReportReturns, NotifiesCaller, NotifiesOwner, AuthorizationEnds,
     FinishesCaller, FinishesAsync, DrainEnds, CleanedUp, ReaderAt
<1>16. CASE UNCHANGED vars
  BY <1>3, <1>16 DEF vars
<1>17. QED
  BY <1>9, <1>10, <1>11, <1>12, <1>13, <1>14, <1>15, <1>16, Zenon DEF Next, Reader

\* A reply with a line that is not bad ends in one that is not bad.
LEMMA ReplyEnds ==
  ASSUME TypeOK, NEW n \in Numbers, NEW r \in Replies(n), NEW i \in 1..Len(r),
         r[i].code # "bad"
  PROVE  r[Len(r)].code # "bad"
<1>1. Len(r) \in {1, 2} /\ (r[i].code = "more" <=> i # Len(r))
  BY RepliesAre
<1>2. CASE i = Len(r)
  BY <1>2
<1>3. CASE r[i].code = "more"
  <2>1. r = <<Line(n, "more"), Line(n, "ok")>>
    BY <1>3, <1>1 DEF Replies, Line
  <2>2. QED
    BY <2>1 DEF Line
<1>4. QED
  BY <1>1, <1>2, <1>3

\* Commands are sent and executed once, and answered in the order of execution.
LEMMA LinesKept ==
  ASSUME Base, LockIsHeld, Lines, [Next]_vars
  PROVE  Lines'
<1>1. /\ toServer \in Seq(Numbers) /\ toClient \in Seq(ReplyLine \cup ReportLine)
      /\ Len(cmds) + 1 \in Nat \ {0} /\ Len(cmds) + 1 \notin Numbers
      /\ 0 \notin Numbers
  BY DEF Base, TypeOK, Numbers
<1>2. Lines
  OBVIOUS
<1>3. ASSUME NEW k \in Callers, Unsent(k)'
      PROVE  own'[k] # 0 /\ Unused(own'[k])
  <2>1. CASE Unsent(k) /\ own'[k] = own[k]
    BY <2>1, <1>1, <1>2 DEF Lines, UnsentIsNew, Unsent, Base, CommandOfCaller, Issued, Live
  <2>2. CASE own'[k] = Len(cmds) + 1
    BY <2>2, <1>1, NewIsUnused
  <2>3. QED
    BY <2>1, <2>2, <1>3, UnsentStep
<1>4. DOMAIN toClient' \subseteq Nat \ {0}
  <2>1. toClient' \in Seq((ReplyLine \cup ReportLine)')
    BY LineTypesStep
  <2>2. QED
    BY <2>1
<1>5. CASE GoesOn
  <2>1. PICK d \in {0, 1} : \A j \in DOMAIN toClient' :
           \/ j + d \in DOMAIN toClient /\ toClient'[j] = toClient[j + d]
           \/ /\ toClient'[j].what = "report" /\ toClient'[j].of = 0
              /\ j = Len(toClient) + 1 /\ d = 0
    BY <1>5 DEF GoesOn
  <2>2. /\ executed' = executed
        /\ rpc' = "notify" => rpc = "notify" /\ rline' = rline
    BY <1>5 DEF GoesOn
  <2>3. \A i \in DOMAIN toServer' :
           \/ i \in DOMAIN toServer /\ toServer'[i] = toServer[i]
           \/ /\ i = Len(toServer) + 1 /\ Unused(toServer'[i])
              /\ \A k \in Callers : Unsent(k)' => own'[k] # toServer'[i]
    BY <1>5 DEF GoesOn
  <2>4. \A i \in DOMAIN toServer' : toServer'[i] \in Numbers'
    BY <1>1, BaseStep DEF Base, TypeOK
  <2>5. 0 \notin Numbers'
    BY DEF Numbers
  <2>6. SentOnce'
    BY <1>1, <1>2, <2>3 DEF Lines, SentOnce, Unused
  <2>7. SentIsNew'
    BY <1>2, <2>1, <2>2, <2>3, <2>4, <2>5 DEF Lines, SentIsNew, Unused
  <2>8. LastLineEnds'
    <3>1. \A j \in DOMAIN toClient : toClient[j].what = "reply" => toClient[j].of # 0
      BY <1>1 DEF ReplyLine, ReportLine
    <3>2. DOMAIN toClient' \subseteq Nat
      BY <1>4
    <3>3. ASSUME NEW i \in DOMAIN toClient', NEW j \in DOMAIN toClient', i < j,
                 toClient'[i].what = "reply", toClient'[i].of = toClient'[j].of
          PROVE  toClient'[i].code = "more"
      <4>1. i + d \in DOMAIN toClient /\ toClient'[i] = toClient[i + d]
        BY <2>1, <3>3
      <4>2. j + d \in DOMAIN toClient /\ toClient'[j] = toClient[j + d]
        BY <2>1, <3>1, <3>3, <4>1
      <4>3. i + d < j + d
        BY <3>2, <3>3
      <4>4. QED
        BY <1>2, <3>3, <4>1, <4>2, <4>3 DEF Lines, LastLineEnds
    <3>4. QED
      BY <3>3 DEF LastLineEnds
  <2>9. LinesAreDone'
    BY <1>2, <2>1, <2>2 DEF Lines, LinesAreDone
  <2>10. NotifiedIsDone'
    <3>1. rpc = "notify" => rline.of # 0
      BY <1>1 DEF Base, TypeOK, ReplyLine
    <3>2. QED
      BY <1>2, <2>1, <2>2, <2>3, <3>1 DEF Lines, NotifiedIsDone, Unused
  <2>11. UnsentIsNew'
    BY <1>3, <2>1, <2>2, <2>3 DEF UnsentIsNew, Unused
  <2>12. QED
    BY <2>6, <2>7, <2>8, <2>9, <2>10, <2>11 DEF Lines
<1>6. CASE ReadsReply
  <2>1. /\ UNCHANGED <<toServer, executed, own, cpc>>
        /\ rline' = toClient[1] /\ 1 \in DOMAIN toClient /\ toClient[1].what = "reply"
        /\ \A j \in DOMAIN toClient' : j + 1 \in DOMAIN toClient /\ 1 < j + 1
                                       /\ toClient'[j] = toClient[j + 1]
    BY <1>1, <1>6, HeadTailProperties DEF ReadsReply
  <2>2. SentOnce' /\ SentIsNew' /\ LinesAreDone'
    BY <1>2, <2>1 DEF Lines, SentOnce, SentIsNew, LinesAreDone
  <2>3. LastLineEnds'
    <3>1. \A i, j \in DOMAIN toClient' : i < j => i + 1 < j + 1
      BY <1>1, <1>6, HeadTailProperties DEF ReadsReply
    <3>2. QED
      BY <1>2, <2>1, <3>1 DEF Lines, LastLineEnds
  <2>4. NotifiedIsDone'
    <3>1. \A i \in DOMAIN toServer' : toServer'[i] # rline'.of
      BY <1>2, <2>1 DEF Lines, SentIsNew
    <3>2. rline'.code # "more" => \A j \in DOMAIN toClient' : toClient'[j].of # rline'.of
      BY <1>2, <2>1 DEF Lines, LastLineEnds
    <3>3. rline'.code # "bad" => rline'.of \in executed'
      BY <1>2, <2>1 DEF Lines, LinesAreDone
    <3>4. QED
      BY <3>1, <3>2, <3>3 DEF NotifiedIsDone
  <2>5. UnsentIsNew'
    BY <1>2, <2>1 DEF Lines, UnsentIsNew, Unused, Unsent
  <2>6. QED
    BY <2>2, <2>3, <2>4, <2>5 DEF Lines
<1>7. CASE Answers
  <2>0. PICK n \in Numbers : toServer # <<>> /\ n = toServer[1] /\ n = Head(toServer)
    BY <1>1, <1>7, HeadTailProperties DEF Answers
  <2>1. PICK r \in Replies(n) :
           /\ toServer # <<>> /\ n = toServer[1] /\ toServer' = Tail(toServer)
           /\ toClient' = toClient \o r
           /\ executed' = IF r[Len(r)].code = "bad" THEN executed ELSE executed \cup {n}
           /\ UNCHANGED <<own, cpc, rpc, rline>>
    BY <1>7, <2>0 DEF Answers
  <2>2. /\ 1 \in DOMAIN toServer
        /\ \A i \in DOMAIN toServer' : i + 1 \in DOMAIN toServer /\ i + 1 # 1
                                       /\ toServer'[i] = toServer[i + 1]
    BY <1>1, <2>1, HeadTailProperties
  <2>3. /\ r \in Seq(ReplyLine) /\ Len(r) \in {1, 2}
        /\ \A i \in 1..Len(r) : r[i].what = "reply" /\ r[i].of = n
        /\ \A i \in 1..Len(r) : r[i].code = "more" <=> i # Len(r)
        /\ \A i \in 1..Len(r) : r[i].code # "bad" => r[Len(r)].code # "bad"
    BY RepliesAre, ReplyEnds DEF Base
  <2>4. \A j \in DOMAIN toClient' :
           \/ j \in DOMAIN toClient /\ toClient'[j] = toClient[j]
           \/ \E i \in 1..Len(r) : j = Len(toClient) + i /\ toClient'[j] = r[i]
    BY <1>1, <2>1, <2>3
  <2>5. \A j \in DOMAIN toClient : toClient[j].of # n
    BY <1>2, <2>1, <2>2 DEF Lines, SentIsNew
  <2>6. SentOnce'
    <3>1. \A i, j \in DOMAIN toServer' : i + 1 = j + 1 => i = j
      BY <1>1, <2>1
    <3>2. QED
      BY <1>2, <2>2, <3>1 DEF Lines, SentOnce
  <2>7. SentIsNew'
    <3>1. \A i \in DOMAIN toServer' : toServer'[i] # n /\ toServer'[i] \notin executed
                                      /\ \A j \in DOMAIN toClient : toClient[j].of # toServer'[i]
      BY <1>2, <2>1, <2>2 DEF Lines, SentOnce, SentIsNew
    <3>2. QED
      BY <2>1, <2>3, <2>4, <3>1 DEF SentIsNew
  <2>8. LastLineEnds'
    <3>1. ASSUME NEW i \in DOMAIN toClient', NEW j \in DOMAIN toClient', i < j,
                 toClient'[i].what = "reply", toClient'[i].of = toClient'[j].of
          PROVE  toClient'[i].code = "more"
      <4>1. CASE j \in DOMAIN toClient
        <5>1. i \in DOMAIN toClient
          BY <1>1, <1>4, <3>1, <4>1
        <5>2. toClient'[i] = toClient[i] /\ toClient'[j] = toClient[j]
          BY <1>1, <2>1, <2>3, <4>1, <5>1
        <5>3. QED
          BY <1>2, <3>1, <4>1, <5>1, <5>2 DEF Lines, LastLineEnds
      <4>2. CASE j \notin DOMAIN toClient
        <5>1. PICK b \in 1..Len(r) : j = Len(toClient) + b /\ toClient'[j] = r[b]
          BY <2>4, <4>2
        <5>2. i \notin DOMAIN toClient
          <6>1. toClient'[i].of = n
            BY <2>3, <3>1, <5>1
          <6>2. i \in DOMAIN toClient => toClient'[i] = toClient[i]
            BY <1>1, <2>1, <2>3
          <6>3. QED
            BY <2>5, <6>1, <6>2
        <5>3. PICK a \in 1..Len(r) : i = Len(toClient) + a /\ toClient'[i] = r[a]
          BY <2>4, <5>2
        <5>4. a # Len(r)
          BY <1>1, <2>3, <3>1, <5>1, <5>3
        <5>5. QED
          BY <2>3, <5>3, <5>4
      <4>3. QED
        BY <4>1, <4>2
    <3>2. QED
      BY <3>1 DEF LastLineEnds
  <2>9. LinesAreDone'
    BY <1>2, <2>1, <2>3, <2>4 DEF Lines, LinesAreDone
  <2>10. NotifiedIsDone'
    <3>1. rpc = "notify" => rline.of # n
      BY <1>2, <2>1, <2>2 DEF Lines, NotifiedIsDone
    <3>2. QED
      BY <1>2, <2>1, <2>2, <2>3, <2>4, <3>1 DEF Lines, NotifiedIsDone
  <2>11. UnsentIsNew'
    <3>1. \A k \in Callers : Unsent(k) => own[k] # n
      BY <1>2, <2>1, <2>2 DEF Lines, UnsentIsNew, Unused
    <3>2. QED
      BY <1>2, <2>1, <2>2, <2>3, <2>4, <3>1 DEF Lines, UnsentIsNew, Unused, Unsent
  <2>12. QED
    BY <2>6, <2>7, <2>8, <2>9, <2>10, <2>11 DEF Lines
<1>8. QED
  BY <1>5, <1>6, <1>7, LineStep DEF Lines

-----------------------------------------------------------------------------
(* Tag 0 is enough while no caller gives up.                                *)

\* No reply can come for a synchronous command whose result is gone.
Fresh == timeouts = 0 \/ ~trouble

\* The caller of the command waits for its reply, or has timed out just now.
Awaited(n) ==
    \E k \in Callers :
        /\ own[k] = n /\ answer[k].code = "none"
        /\ cpc[k] = "wait" \/ (cpc[k] = "expired" /\ timeouts > 0)

\* A synchronous command on its way is awaited, and so is its reply.
RepliesAreAwaited ==
    Fresh =>
        /\ \A i \in DOMAIN toServer : IsSync(toServer[i]) => Awaited(toServer[i])
        /\ \A j \in DOMAIN toClient :
              toClient[j].what = "reply" /\ IsSync(toClient[j].of)
                  => Awaited(toClient[j].of)
        /\ rpc = "notify" /\ IsSync(rcmd) => rline.of = rcmd /\ Awaited(rcmd)

\* A caller is given the code of its own reply, and 200 for a command that was
\* executed.
AnswersAreTrue ==
    Fresh =>
        \A k \in Callers :
            /\ answer[k].code # "none" => answer[k].of = own[k]
            /\ answer[k].code = "ok" \/ cpc[k] = "answered" => own[k] \in executed

\* A time out is not undone, nor is a failure.
LEMMA FreshStep ==
  ASSUME Base, [Next]_vars, Fresh'
  PROVE  /\ Fresh /\ timeouts' \in Nat /\ timeouts' >= timeouts
         /\ \A k \in Callers : CmdForgets(k) => cpc[k] = "unwritten" \/ timeouts = 0
         /\ timeouts' = timeouts \/ \E k \in Callers : CmdTimesOut(k)
<1>1. timeouts \in Nat /\ trouble \in BOOLEAN
  BY DEF Base, TypeOK
<1>2. timeouts' = timeouts \/ (timeouts' = timeouts + 1 /\ \E k \in Callers : CmdTimesOut(k))
  <2>1. ASSUME NEW k \in Callers, CallContinues(k) PROVE timeouts' = timeouts
    BY <2>1 DEF CallContinues, CmdAdds, CmdWrites, CmdWriteFails, CmdForgets,
       CmdIsAnswered, CallReturns, CleanupReturns, CleanupReports
  <2>2. CASE Reader \/ Authorize \/ PuClose \/ Answers \/ PeerCloses
    BY <2>2 DEF Reader, ReadsReply, DropsLine, ReadsReport, ReportReturns,
       NotifiesCaller, NotifiesOwner, AuthorizationEnds, AuthorizationGoesOn, ReadEnds,
       FinishesCaller, FinishesAsync, DrainEnds, CleanedUp, Authorize, PuClose, Answers,
       PeerCloses
  <2>3. ASSUME NEW o \in Owners,
               Formats(o) \/ AsyncSet(o) \/ CloseWithoutServer(o) \/ Reports(o)
        PROVE  timeouts' = timeouts
    BY <2>3 DEF Formats, AsyncSet, CloseWithoutServer, Reports
  <2>4. ASSUME NEW k \in Callers, NEW kind \in Sync, NEW o \in Owners, Calls(k, kind, o)
        PROVE  timeouts' = timeouts
    BY <2>4 DEF Calls
  <2>5. ASSUME NEW k \in Callers, CmdTimesOut(k) PROVE timeouts' = timeouts + 1
    BY <2>5 DEF CmdTimesOut
  <2>6. CASE UNCHANGED vars
    BY <2>6 DEF vars
  <2>7. QED
    BY <2>1, <2>2, <2>3, <2>4, <2>5, <2>6, Zenon DEF Next
<1>3. timeouts' \in Nat /\ timeouts' >= timeouts
  BY <1>1, <1>2
<1>4. Fresh
  <2>1. timeouts' = 0 => timeouts = 0
    BY <1>1, <1>3
  <2>2. trouble => trouble'
    BY <1>1, TroubleStep
  <2>3. QED
    BY <2>1, <2>2 DEF Fresh
<1>5. \A k \in Callers : CmdForgets(k) => cpc[k] = "unwritten" \/ timeouts = 0
  BY DEF CmdForgets, Fresh
<1>6. QED
  BY <1>2, <1>3, <1>4, <1>5

\* A command is awaited until its last line is notified or the socket is closed.
LEMMA AwaitedStep ==
  ASSUME Base, [Next]_vars, Fresh', NEW n, Awaited(n)
  PROVE  \/ Awaited(n)'
         \/ NotifiesCaller /\ n = rcmd /\ rline.code # "more"
         \/ FinishesCaller
<1>1. /\ cpc = [k \in Callers |-> cpc[k]] /\ own = [k \in Callers |-> own[k]]
      /\ answer = [k \in Callers |-> answer[k]]
      /\ timeouts \in Nat /\ timeouts' \in Nat /\ timeouts' >= timeouts
      /\ \A k \in Callers : CmdForgets(k) => cpc[k] = "unwritten" \/ timeouts = 0
  BY FreshStep DEF Base, TypeOK
<1>2. PICK j \in Callers : /\ own[j] = n /\ answer[j].code = "none"
                           /\ cpc[j] = "wait" \/ (cpc[j] = "expired" /\ timeouts > 0)
  BY DEF Awaited
<1>3. ASSUME /\ own'[j] = own[j] /\ answer'[j] = answer[j]
             /\ cpc'[j] = cpc[j] \/ (cpc'[j] = "expired" /\ timeouts' = timeouts + 1)
      PROVE  Awaited(n)'
  <2>1. timeouts > 0 => timeouts' > 0
    BY <1>1
  <2>2. timeouts' = timeouts + 1 => timeouts' > 0
    BY <1>1
  <2>3. QED
    BY <1>2, <1>3, <2>1, <2>2 DEF Awaited
<1>4. ASSUME NEW k \in Callers, CallContinues(k) \/ CmdTimesOut(k) PROVE Awaited(n)'
  <2>1. k # j => own'[j] = own[j] /\ answer'[j] = answer[j] /\ cpc'[j] = cpc[j]
    <3>1. CASE CmdAdds(k) \/ CmdWrites(k) \/ CmdWriteFails(k) \/ CmdForgets(k) \/ CmdIsAnswered(k)
      BY <3>1, <1>1 DEF CmdAdds, CmdWrites, CmdWriteFails, CmdForgets, CmdIsAnswered, CallerAt
    <3>2. CASE CallReturns(k) \/ CleanupReturns(k) \/ CleanupReports(k) \/ CmdTimesOut(k)
      BY <3>2, <1>1 DEF CallReturns, CleanupReturns, CleanupReports, CmdTimesOut, CallerAt
    <3>3. QED
      BY <1>4, <3>1, <3>2 DEF CallContinues
  <2>2. CASE k = j
    <3>1. CmdTimesOut(k)
      <4>1. ~CmdAdds(j) /\ ~CmdWrites(j) /\ ~CmdWriteFails(j) /\ ~CmdForgets(j) /\ ~CmdIsAnswered(j)
        BY <1>1, <1>2 DEF CmdAdds, CmdWrites, CmdWriteFails, CmdForgets, CmdIsAnswered, CallerAt
      <4>2. ~CallReturns(j) /\ ~CleanupReturns(j) /\ ~CleanupReports(j)
        BY <1>2 DEF CallReturns, CleanupReturns, CleanupReports, CallerAt
      <4>3. QED
        BY <1>4, <2>2, <4>1, <4>2 DEF CallContinues
    <3>2. QED
      BY <1>1, <1>3, <2>2, <3>1 DEF CmdTimesOut, CallerAt
  <2>3. QED
    BY <1>3, <2>1, <2>2
<1>5. ASSUME NEW k \in Callers, NEW kind \in Sync, NEW o \in Owners, Calls(k, kind, o)
      PROVE  Awaited(n)'
  BY <1>1, <1>2, <1>3, <1>5 DEF Calls, CallerAt
<1>6. CASE NotifiesCaller
  <2>1. UNCHANGED <<own, cpc>>
    BY <1>6 DEF NotifiesCaller
  <2>2. own[j] # rcmd \/ rline.code = "more" => answer'[j] = answer[j]
    BY <1>1, <1>6 DEF NotifiesCaller
  <2>3. QED
    BY <1>2, <1>3, <1>6, <2>1, <2>2
<1>7. ASSUME UNCHANGED <<own, answer, cpc>> PROVE Awaited(n)'
  BY <1>3, <1>7
<1>8. CASE \/ ReadsReply \/ DropsLine \/ ReadsReport \/ ReportReturns \/ NotifiesOwner
           \/ AuthorizationEnds \/ AuthorizationGoesOn \/ ReadEnds \/ FinishesAsync
           \/ DrainEnds \/ CleanedUp \/ Authorize \/ PuClose \/ Answers \/ PeerCloses
  BY <1>7, <1>8 DEF ReadsReply, DropsLine, ReadsReport, ReportReturns, NotifiesOwner,
     AuthorizationEnds, AuthorizationGoesOn, ReadEnds, FinishesAsync, DrainEnds,
     CleanedUp, Authorize, PuClose, Answers, PeerCloses
<1>9. ASSUME NEW o \in Owners,
             Formats(o) \/ AsyncSet(o) \/ CloseWithoutServer(o) \/ Reports(o)
      PROVE  Awaited(n)'
  BY <1>7, <1>9 DEF Formats, AsyncSet, CloseWithoutServer, Reports
<1>10. CASE UNCHANGED vars
  BY <1>7, <1>10 DEF vars
<1>11. QED
  BY <1>4, <1>5, <1>6, <1>8, <1>9, <1>10, Zenon DEF Next, Reader

\* The reply to a synchronous command finds that command pending, not another.
LEMMA RepliesStep ==
  ASSUME Base, LockIsHeld, CommandIsOwn, PendingIsLive, ClosedIsEmpty, Lines,
         RepliesAreAwaited, [Next]_vars
  PROVE  RepliesAreAwaited'
<1> SUFFICES ASSUME Fresh'
             PROVE  /\ \A i \in DOMAIN toServer' :
                          IsSync(toServer[i])' => Awaited(toServer[i])'
                    /\ \A j \in DOMAIN toClient' :
                          toClient'[j].what = "reply" /\ IsSync(toClient[j].of)'
                              => Awaited(toClient[j].of)'
                    /\ rpc' = "notify" /\ IsSync(rcmd)'
                          => rline'.of = rcmd' /\ Awaited(rcmd)'
  BY DEF RepliesAreAwaited
<1>1. /\ toServer \in Seq(Numbers) /\ toClient \in Seq(ReplyLine \cup ReportLine)
      /\ rpc = "notify" => rcmd \in Numbers /\ rline \in ReplyLine
      /\ pending \subseteq Numbers
  BY DEF Base, TypeOK
<1>2. \A n \in Numbers : IsSync(n)' = IsSync(n)
  BY CmdsKept DEF Base
<1>3. /\ \A i \in DOMAIN toServer : IsSync(toServer[i]) => Awaited(toServer[i])
      /\ \A j \in DOMAIN toClient :
            toClient[j].what = "reply" /\ IsSync(toClient[j].of) => Awaited(toClient[j].of)
      /\ rpc = "notify" /\ IsSync(rcmd) => rline.of = rcmd /\ Awaited(rcmd)
  BY FreshStep DEF RepliesAreAwaited
<1>4. ASSUME NEW n \in Numbers, IsSync(n)', rpc' = "notify" /\ Awaited(n)
      PROVE  Awaited(n)'
  BY <1>4, AwaitedStep DEF NotifiesCaller, FinishesCaller, ReaderAt
<1>5. CASE FinishesCaller
  <2>1. rpc = "drain" /\ UNCHANGED <<rpc, toServer, toClient>>
    BY <1>5 DEF FinishesCaller
  <2>2. toServer' = <<>> /\ toClient' = <<>> /\ rpc' # "notify"
    BY <2>1 DEF ClosedIsEmpty
  <2>3. QED
    BY <2>2
<1>6. CASE ~FinishesCaller
  <2>1. ASSUME NEW n \in Numbers, IsSync(n)', Awaited(n),
               \/ \E i \in DOMAIN toServer : n = toServer[i]
               \/ \E j \in DOMAIN toClient : n = toClient[j].of
        PROVE  Awaited(n)'
    <3>1. NotifiesCaller /\ n = rcmd => rpc = "notify" /\ IsSync(rcmd)
      BY DEF NotifiesCaller, ReaderAt
    <3>2. NotifiesCaller /\ n = rcmd => n = rline.of
      BY <1>3, <3>1
    <3>3. ~(NotifiesCaller /\ n = rcmd /\ rline.code # "more")
      BY <2>1, <3>1, <3>2 DEF Lines, NotifiedIsDone
    <3>4. QED
      BY <1>6, <2>1, <3>3, AwaitedStep
  <2>2. ASSUME NEW i \in DOMAIN toServer', IsSync(toServer[i])'
        PROVE  Awaited(toServer[i])'
    <3>1. PICK n : n = toServer'[i]
      OBVIOUS
    <3>2. CASE \E h \in DOMAIN toServer : n = toServer[h]
      <4>1. n \in Numbers /\ IsSync(n)' /\ IsSync(n)
        BY <1>1, <1>2, <2>2, <3>1, <3>2
      <4>2. Awaited(n)
        BY <1>3, <3>2, <4>1
      <4>3. QED
        BY <2>1, <3>1, <3>2, <4>1, <4>2
    <3>3. CASE \E k \in Callers : CmdWrites(k) /\ own[k] = n
      <4>1. PICK k \in Callers : CmdWrites(k) /\ own[k] = n
        BY <3>3
      <4>2. /\ cpc[k] = "write" /\ cpc' = [cpc EXCEPT ![k] = "wait"]
            /\ own' = own /\ answer' = answer /\ cpc = [c \in Callers |-> cpc[c]]
        BY <4>1 DEF CmdWrites, CallerAt, Base, TypeOK
      <4>3. cpc'[k] = "wait" /\ own'[k] = n /\ answer'[k].code = "none"
        BY <4>1, <4>2 DEF CommandIsOwn
      <4>4. Awaited(n)'
        BY <4>3 DEF Awaited
      <4>5. QED
        BY <3>1, <4>4
    <3>4. CASE Answers
      BY <1>1, <3>1, <3>2, <3>4, HeadTailProperties DEF Answers
    <3>5. CASE ReadsReply
      BY <3>1, <3>2, <3>5 DEF ReadsReply
    <3>6. CASE GoesOn
      BY <2>2, <3>1, <3>2, <3>3, <3>6 DEF GoesOn
    <3>7. QED
      BY <3>4, <3>5, <3>6, LineStep DEF Lines
  <2>3. ASSUME NEW j \in DOMAIN toClient', toClient'[j].what = "reply",
               IsSync(toClient[j].of)'
        PROVE  Awaited(toClient[j].of)'
    <3>1. PICK n : n = toClient'[j].of
      OBVIOUS
    <3>2. CASE \E h \in DOMAIN toClient : toClient'[j] = toClient[h]
      <4>1. PICK h \in DOMAIN toClient : toClient'[j] = toClient[h]
        BY <3>2
      <4>2. n \in Numbers /\ toClient[h].what = "reply" /\ n = toClient[h].of
        BY <1>1, <2>3, <3>1, <4>1 DEF ReplyLine, ReportLine
      <4>3. IsSync(n)' /\ IsSync(n)
        BY <1>2, <2>3, <3>1, <4>2
      <4>4. Awaited(n)
        BY <1>3, <4>2, <4>3
      <4>5. QED
        BY <2>1, <3>1, <4>2, <4>3, <4>4
    <3>3. CASE Answers
      <4>1. PICK m \in Numbers : m = toServer[1] /\ 1 \in DOMAIN toServer /\ m = Head(toServer)
        BY <1>1, <3>3, HeadTailProperties DEF Answers
      <4>2. PICK r \in Replies(m) : toClient' = toClient \o r
        BY <3>3, <4>1 DEF Answers
      <4>3. /\ r \in Seq(ReplyLine) /\ Len(r) \in {1, 2}
            /\ \A i \in 1..Len(r) : r[i].of = m
        BY RepliesAre DEF Base
      <4>4. \A h \in DOMAIN toClient' :
               \/ h \in DOMAIN toClient /\ toClient'[h] = toClient[h]
               \/ \E i \in 1..Len(r) : h = Len(toClient) + i /\ toClient'[h] = r[i]
        BY <1>1, <4>2, <4>3
      <4>5. CASE n = m
        <5>1. IsSync(n)' /\ IsSync(n)
          BY <1>2, <2>3, <3>1, <4>5
        <5>2. Awaited(n)
          BY <1>3, <4>1, <4>5, <5>1
        <5>3. QED
          BY <2>1, <3>1, <4>1, <4>5, <5>1, <5>2
      <4>6. QED
        BY <3>1, <3>2, <4>3, <4>4, <4>5
    <3>4. CASE ReadsReply
      BY <1>1, <3>2, <3>4, HeadTailProperties DEF ReadsReply
    <3>5. CASE GoesOn
      BY <2>3, <3>2, <3>5 DEF GoesOn
    <3>6. QED
      BY <3>3, <3>4, <3>5, LineStep DEF Lines
  <2>4. ASSUME rpc' = "notify", IsSync(rcmd)'
        PROVE  rline'.of = rcmd' /\ Awaited(rcmd)'
    <3>1. PICK n : n = rcmd'
      OBVIOUS
    <3>2. CASE ReadsReply
      <4>1. PICK m \in Numbers : /\ m = toClient[1].of /\ 1 \in DOMAIN toClient
                                 /\ toClient[1].what = "reply" /\ rline' = toClient[1]
        BY <1>1, <3>2, HeadTailProperties DEF ReadsReply, ReplyLine, ReportLine
      <4>2. n \in pending /\ cmds[m].text = Tag(n) /\ n \in Numbers
        BY <1>1, <3>1, <3>2, <4>1, HeadTailProperties DEF ReadsReply, Matches
      <4>3. IsSync(n) /\ IsSync(n)'
        BY <1>2, <2>4, <3>1, <4>2
      <4>4. IsSync(m)
        BY <4>2, <4>3, TagType DEF Base, TextOfCommand
      <4>5. Awaited(m)
        BY <1>3, <4>1, <4>4
      <4>6. m = n
        <5>1. PICK k \in Callers : own[k] = m /\ cpc[k] \in {"wait", "expired"}
          BY <4>5 DEF Awaited
        <5>2. own[k] = n
          BY <4>2, <4>3, <5>1, PendingIsOwn DEF Busy
        <5>3. QED
          BY <5>1, <5>2
      <4>7. Awaited(n)'
        BY <2>1, <4>1, <4>2, <4>3, <4>5, <4>6
      <4>8. QED
        BY <3>1, <4>1, <4>6, <4>7
    <3>3. CASE rpc = "notify" /\ rcmd' = rcmd /\ rline' = rline
      <4>1. n \in Numbers /\ n = rcmd
        BY <1>1, <3>1, <3>3
      <4>2. IsSync(n) /\ IsSync(n)'
        BY <1>2, <2>4, <3>1, <4>1
      <4>3. rline.of = n /\ Awaited(n)
        BY <1>3, <3>3, <4>1, <4>2
      <4>4. Awaited(n)'
        BY <1>4, <2>4, <4>1, <4>2, <4>3
      <4>5. QED
        BY <3>1, <3>3, <4>3, <4>4
    <3>4. QED
      BY <2>4, <3>2, <3>3, NotifyStep
  <2>5. QED
    BY <2>2, <2>3, <2>4
<1>7. QED
  BY <1>5, <1>6

\* A caller that is given an answer is given its own.
LEMMA AnswersStep ==
  ASSUME Base, LockIsHeld, CommandIsOwn, ClosedIsEmpty, Lines, RepliesAreAwaited,
         AnswersAreTrue, [Next]_vars
  PROVE  AnswersAreTrue'
<1>1. /\ cpc = [k \in Callers |-> cpc[k]] /\ own = [k \in Callers |-> own[k]]
      /\ answer = [k \in Callers |-> answer[k]]
      /\ executed \subseteq executed'
  <2>1. executed \subseteq executed'
    <3>1. Answers => executed \subseteq executed'
      BY DEF Answers
    <3>2. QED
      BY <3>1, LineStep DEF ReadsReply, GoesOn, Lines
  <2>2. QED
    BY <2>1 DEF Base, TypeOK
<1> SUFFICES ASSUME Fresh', NEW j \in Callers
             PROVE  /\ answer'[j].code # "none" => answer'[j].of = own'[j]
                    /\ answer'[j].code = "ok" \/ cpc'[j] = "answered" => own'[j] \in executed'
  BY DEF AnswersAreTrue
<1> DEFINE True(k) == /\ answer'[k].code # "none" => answer'[k].of = own'[k]
                      /\ answer'[k].code = "ok" \/ cpc'[k] = "answered" => own'[k] \in executed'
<1>2. Fresh
  BY FreshStep
<1>3. /\ answer[j].code # "none" => answer[j].of = own[j]
      /\ answer[j].code = "ok" \/ cpc[j] = "answered" => own[j] \in executed
  BY <1>2 DEF AnswersAreTrue
<1>4. ASSUME own'[j] = own[j], answer'[j] = answer[j], cpc'[j] = "answered" => cpc[j] = "answered"
      PROVE  True(j)
  BY <1>1, <1>3, <1>4
<1>5. ASSUME NEW k \in Callers, CallContinues(k) \/ CmdTimesOut(k) PROVE True(j)
  <2>1. CASE CmdAdds(k) \/ CmdWrites(k) \/ CmdWriteFails(k) \/ CmdForgets(k) \/ CmdTimesOut(k)
    BY <1>1, <1>3, <2>1 DEF CmdAdds, CmdWrites, CmdWriteFails, CmdForgets, CmdTimesOut,
       CallerAt, NoAnswer
  <2>2. CASE CmdIsAnswered(k)
    BY <1>1, <1>3, <2>2 DEF CmdIsAnswered, CallerAt
  <2>3. CASE CallReturns(k) \/ CleanupReturns(k) \/ CleanupReports(k)
    BY <1>1, <1>3, <2>3 DEF CallReturns, CleanupReturns, CleanupReports, CallerAt, NoAnswer
  <2>4. QED
    BY <1>5, <2>1, <2>2, <2>3 DEF CallContinues
<1>6. ASSUME NEW k \in Callers, NEW kind \in Sync, NEW o \in Owners, Calls(k, kind, o)
      PROVE  True(j)
  BY <1>1, <1>4, <1>6 DEF Calls, CallerAt
<1>7. CASE NotifiesCaller
  <2>1. rline.of = rcmd /\ (rline.code = "ok" => rcmd \in executed)
    BY <1>2, <1>7 DEF NotifiesCaller, ReaderAt, RepliesAreAwaited, Lines, NotifiedIsDone
  <2>2. UNCHANGED <<own, cpc>>
    BY <1>7 DEF NotifiesCaller
  <2>3. \/ answer'[j] = answer[j]
        \/ own[j] = rcmd /\ cpc[j] = "wait" /\ answer'[j].code = rline.code /\ answer'[j].of = rline.of
    BY <1>1, <1>7 DEF NotifiesCaller
  <2>4. QED
    BY <1>1, <1>3, <2>1, <2>2, <2>3
<1>8. CASE FinishesCaller
  <2>1. UNCHANGED <<own, cpc>>
    BY <1>8 DEF FinishesCaller
  <2>2. \/ answer'[j] = answer[j]
        \/ answer'[j].code = "lost" /\ answer'[j].of = own[j]
    BY <1>1, <1>8 DEF FinishesCaller
  <2>3. QED
    BY <1>1, <1>3, <2>1, <2>2
<1>9. ASSUME UNCHANGED <<own, answer, cpc>> PROVE True(j)
  BY <1>4, <1>9
<1>10. CASE \/ ReadsReply \/ DropsLine \/ ReadsReport \/ ReportReturns \/ NotifiesOwner
            \/ AuthorizationEnds \/ AuthorizationGoesOn \/ ReadEnds \/ FinishesAsync
            \/ DrainEnds \/ CleanedUp \/ Authorize \/ PuClose \/ Answers \/ PeerCloses
  BY <1>9, <1>10 DEF ReadsReply, DropsLine, ReadsReport, ReportReturns, NotifiesOwner,
     AuthorizationEnds, AuthorizationGoesOn, ReadEnds, FinishesAsync, DrainEnds,
     CleanedUp, Authorize, PuClose, Answers, PeerCloses
<1>11. ASSUME NEW o \in Owners,
              Formats(o) \/ AsyncSet(o) \/ CloseWithoutServer(o) \/ Reports(o)
       PROVE  True(j)
  BY <1>9, <1>11 DEF Formats, AsyncSet, CloseWithoutServer, Reports
<1>12. CASE UNCHANGED vars
  BY <1>9, <1>12 DEF vars
<1>13. QED
  BY <1>5, <1>6, <1>7, <1>8, <1>10, <1>11, <1>12, Zenon DEF Next, Reader

-----------------------------------------------------------------------------
(* The theorems.                                                            *)

AnswersInv ==
    /\ Base /\ LockIsHeld /\ CommandIsOwn /\ PendingIsLive /\ ClosedIsEmpty
    /\ Tells /\ Lines /\ RepliesAreAwaited /\ AnswersAreTrue

\* A new session satisfies the invariant.
LEMMA AnswersInit == Init => AnswersInv
<1> SUFFICES ASSUME Init PROVE AnswersInv
  OBVIOUS
<1>1. Base
  BY BaseInit
<1>2. LockIsHeld /\ CommandIsOwn /\ PendingIsLive /\ ClosedIsEmpty
  BY NoOneAssumption DEF Init, LockIsHeld, Busy, CommandIsOwn, PendingIsLive, ClosedIsEmpty,
     Issued, Live, NoAnswer
<1>3. Tells
  BY DEF Init, Tells, Live
<1>4. Lines
  BY DEF Init, Lines, SentOnce, SentIsNew, LastLineEnds, LinesAreDone, NotifiedIsDone,
     UnsentIsNew, Unsent
<1>5. RepliesAreAwaited /\ AnswersAreTrue
  BY DEF Init, RepliesAreAwaited, AnswersAreTrue, NoAnswer
<1>6. QED
  BY <1>1, <1>2, <1>3, <1>4, <1>5 DEF AnswersInv

\* Every step of the session keeps the invariant.
LEMMA AnswersInvStep == AnswersInv /\ [Next]_vars => AnswersInv'
  BY BaseStep, LockStep, OwnStep, LiveStep, ClosedStep, TellsStep, LinesKept, RepliesStep,
     AnswersStep DEF AnswersInv

\* At most one synchronous command is pending, whatever the threads do: the
\* assert(!or) of cmd and jcmd.
LEMMA TagIsFreeHolds == AnswersInv => TagIsFree
<1> SUFFICES ASSUME AnswersInv PROVE TagIsFree
  OBVIOUS
<1>1. ASSUME NEW n \in SyncPending, NEW m \in SyncPending PROVE n = m
  <2>1. PICK k \in Callers : own[k] = n /\ Live(k)
    BY DEF AnswersInv, PendingIsLive, SyncPending
  <2>2. own[k] = m
    BY <2>1, PendingIsOwn DEF AnswersInv, SyncPending, Live, Busy
  <2>3. QED
    BY <2>1, <2>2
<1>2. CASE SyncPending = {}
  BY <1>2, FS_EmptySet DEF TagIsFree
<1>3. CASE SyncPending # {}
  <2>1. PICK n \in SyncPending : SyncPending = {n}
    BY <1>1, <1>3
  <2>2. Cardinality({n}) = 1
    BY FS_Singleton
  <2>3. QED
    BY <2>1, <2>2 DEF TagIsFree
<1>4. QED
  BY <1>2, <1>3

\* A result is notified while it exists, as long as nobody has timed out.
LEMMA NotifyIsOfLiveHolds == AnswersInv => NotifyIsOfLive
<1> SUFFICES ASSUME AnswersInv, rpc = "notify", timeouts = 0 PROVE rcmd \notin freed
  BY DEF NotifyIsOfLive
<1>1. CASE ~IsSync(rcmd)
  BY <1>1 DEF AnswersInv, Tells
<1>2. CASE IsSync(rcmd)
  <2>1. Awaited(rcmd)
    BY <1>2 DEF AnswersInv, RepliesAreAwaited, Fresh
  <2>2. PICK k \in Callers : own[k] = rcmd /\ Live(k)
    BY <2>1 DEF Awaited, Live
  <2>3. QED
    BY <2>2 DEF AnswersInv, Tells
<1>3. QED
  BY <1>1, <1>2

\* No two synchronous commands are ever pending at once, a result is notified
\* only while it exists, a caller of cmd or jcmd is given the answer to its own
\* command, and the end of a command is reported once.
THEOREM EveryAnswerIsOwn == Spec => []AnswersAreOwn
<1>1. AnswersInv => AnswersAreOwn
  <2> SUFFICES ASSUME AnswersInv PROVE AnswersAreOwn
    OBVIOUS
  <2>1. AnswerIsOwn
    BY DEF AnswersInv, AnswersAreTrue, AnswerIsOwn, Fresh
  <2>2. ToldOnce
    BY DEF AnswersInv, Tells, ToldOnce
  <2>3. QED
    BY <2>1, <2>2, TagIsFreeHolds, NotifyIsOfLiveHolds DEF AnswersAreOwn
<1>2. QED
  BY <1>1, AnswersInit, AnswersInvStep, PTL DEF Spec

-----------------------------------------------------------------------------
(* The session does what Commands promises.                                 *)

\* Two asynchronous commands have two tags.
LEMMA TagIsOwn ==
  ASSUME TypeOK, NEW i \in Asynchronous, NEW j \in Asynchronous, Tag(i) = Tag(j)
  PROVE  i = j
<1> DEFINE upTo(n) == {m \in Asynchronous : m <= n}
<1>1. /\ Asynchronous \subseteq Nat /\ IsFiniteSet(Asynchronous)
      /\ Tag(i) = Cardinality(upTo(i)) /\ Tag(j) = Cardinality(upTo(j))
  <2>1. Len(cmds) \in Nat
    BY DEF TypeOK
  <2>2. IsFiniteSet(Numbers)
    BY <2>1, FS_Interval DEF Numbers
  <2>3. IsFiniteSet(Asynchronous)
    BY <2>2, FS_Subset DEF Asynchronous
  <2>4. Asynchronous \subseteq Nat /\ \A n \in Asynchronous : ~IsSync(n)
    BY DEF Asynchronous, Numbers
  <2>5. Tag(i) = Cardinality(upTo(i)) /\ Tag(j) = Cardinality(upTo(j))
    BY <2>4, Zenon DEF Tag
  <2>6. QED
    BY <2>3, <2>4, <2>5
<1>2. ASSUME NEW n \in Asynchronous, NEW m \in Asynchronous, n < m
      PROVE  Cardinality(upTo(n)) # Cardinality(upTo(m))
  <2>0. n \in Nat /\ m \in Nat /\ \A x \in Asynchronous : x \in Nat
    BY <1>1
  <2>1. upTo(n) \subseteq upTo(m) /\ m \in upTo(m) /\ m \notin upTo(n)
    <3>1. \A x \in Asynchronous : x <= n => x <= m
      BY <2>0, <1>2
    <3>2. m <= m /\ ~(m <= n)
      BY <2>0, <1>2
    <3>3. QED
      BY <3>1, <3>2
  <2>2. IsFiniteSet(upTo(m))
    BY <1>1, FS_Subset
  <2>3. QED
    BY <2>1, <2>2, FS_Subset
<1>3. ~(i < j) /\ ~(j < i)
  BY <1>1, <1>2
<1>4. QED
  BY <1>1, <1>3

\* The answer to an asynchronous command is notified to this very command, if
\* every command went out with the tag it is registered with.
LEMMA MatchIsOwn ==
  ASSUME Base, ~Misnumbered, rpc = "notify", ~IsSync(rcmd)
  PROVE  rline.of = rcmd
<1>1. rcmd \in Numbers /\ rline.of \in Numbers /\ cmds[rline.of].text = Tag(rcmd)
  BY DEF Base, TypeOK, NotifyFits, ReplyLine
<1>2. Tag(rline.of) = Tag(rcmd) /\ ~IsSync(rline.of)
  BY <1>1, TagType DEF Misnumbered, Base
<1>3. QED
  BY <1>1, <1>2, TagIsOwn DEF Base, Asynchronous

\* A command whose success is reported has been executed.
LEMMA OkIsExecuted ==
  ASSUME AnswersInv, timeouts = 0, ~Misnumbered, [Next]_vars,
         NEW n \in DOMAIN outcome, outcome'[n] # outcome[n], outcome'[n] = "ok"
  PROVE  n \in executed
<1>1. ASSUME NEW S, Told(S, "failed") PROVE FALSE
  BY <1>1 DEF Told
<1>2. outcome' # outcome
  OBVIOUS
<1>3. ASSUME rpc = "notify", Told({rcmd}, Result(rline.code)) \/ rline.code = "challenge",
             Told({rcmd}, Result(rline.code)) \/ Told({rcmd}, "ok"), ~IsSync(rcmd)
      PROVE  n \in executed
  <2>1. n = rcmd /\ rline.code # "bad"
    BY <1>3 DEF Told, Result
  <2>2. rline.of = rcmd
    BY <1>3, MatchIsOwn DEF AnswersInv
  <2>3. QED
    BY <1>3, <2>1, <2>2 DEF AnswersInv, Lines, NotifiedIsDone
<1>4. ASSUME NEW k \in Callers, CallContinues(k) \/ CmdTimesOut(k) PROVE n \in executed
  <2>1. CASE CmdIsAnswered(k)
    <3>1. n = own[k] /\ answer[k].code = "ok"
      BY <2>1 DEF CmdIsAnswered, Told, Result
    <3>2. QED
      BY <3>1 DEF AnswersInv, AnswersAreTrue, Fresh
  <2>2. CASE CmdForgets(k) \/ CleanupReports(k)
    BY <1>1, <2>2 DEF CmdForgets, CleanupReports
  <2>3. CASE CmdAdds(k) \/ CmdWrites(k) \/ CmdWriteFails(k) \/ CallReturns(k)
             \/ CleanupReturns(k) \/ CmdTimesOut(k)
    BY <1>2, <2>3 DEF CmdAdds, CmdWrites, CmdWriteFails, CallReturns, CleanupReturns, CmdTimesOut
  <2>4. QED
    BY <1>4, <2>1, <2>2, <2>3 DEF CallContinues
<1>5. CASE NotifiesOwner \/ AuthorizationEnds
  BY <1>3, <1>5 DEF NotifiesOwner, AuthorizationEnds, ReaderAt, IsSync, Sync, Auth
<1>6. CASE AuthorizationGoesOn
  BY <1>1, <1>3, <1>6 DEF AuthorizationGoesOn, ReaderAt, IsSync, Sync, Auth
<1>7. CASE FinishesAsync
  BY <1>1, <1>7 DEF FinishesAsync
<1>8. CASE \/ ReadsReply \/ DropsLine \/ ReadsReport \/ ReportReturns \/ NotifiesCaller
           \/ ReadEnds \/ FinishesCaller \/ DrainEnds \/ CleanedUp
           \/ PuClose \/ Answers \/ PeerCloses
  BY <1>2, <1>8 DEF ReadsReply, DropsLine, ReadsReport, ReportReturns, NotifiesCaller,
     ReadEnds, FinishesCaller, DrainEnds, CleanedUp, PuClose, Answers, PeerCloses
<1>9. CASE Authorize
  BY <1>1, <1>2, <1>9 DEF Authorize, Sends, SendFails
<1>10. ASSUME NEW o \in Owners,
              Formats(o) \/ AsyncSet(o) \/ CloseWithoutServer(o) \/ Reports(o)
       PROVE  n \in executed
  BY <1>1, <1>2, <1>10 DEF Formats, AsyncSet, CloseWithoutServer, Reports, Sends, SendFails
<1>11. ASSUME NEW k \in Callers, NEW kind \in Sync, NEW o \in Owners, Calls(k, kind, o)
       PROVE  n \in executed
  BY <1>2, <1>11 DEF Calls
<1>12. CASE UNCHANGED vars
  BY <1>2, <1>12 DEF vars
<1>13. QED
  BY <1>4, <1>5, <1>6, <1>7, <1>8, <1>9, <1>10, <1>11, <1>12, Zenon DEF Next, Reader

\* Every step of the session is one of Commands or changes nothing of it.
LEMMA ServiceStep ==
  ASSUME AnswersInv, timeouts = 0, ~Misnumbered, [Next]_vars
  PROVE  Service!Next
<1>1. Service!Issues
  <2>1. Len(cmds') \in {Len(cmds), Len(cmds) + 1}
    <3>1. TypeOK
      BY DEF AnswersInv, Base
    <3>2. QED
      BY <3>1, CmdsStep, IssueExtends
  <2>2. Len(cmds') <= MaxCommands
    BY BaseStep DEF AnswersInv, Base, TypeOK
  <2>3. QED
    BY <2>1, <2>2 DEF Service!Issues
<1>2. Service!Executes
  <2>1. CASE Answers
    <3>1. PICK n \in Numbers : n = Head(toServer) /\ 1 \in DOMAIN toServer /\ n = toServer[1]
      BY <2>1, HeadTailProperties DEF Answers, AnswersInv, Base, TypeOK
    <3>2. n \notin executed
      BY <3>1 DEF AnswersInv, Lines, SentIsNew
    <3>3. executed' \in {executed, executed \cup {n}}
      BY <2>1, <3>1 DEF Answers
    <3>4. QED
      BY <3>2, <3>3 DEF Service!Executes, Numbers
  <2>2. CASE ReadsReply \/ GoesOn
    BY <2>2 DEF ReadsReply, GoesOn, Service!Executes
  <2>3. QED
    BY <2>1, <2>2, LineStep DEF AnswersInv, Lines
<1>3. Service!Reports
  <2>1. CASE UNCHANGED outcome
    BY <2>1 DEF Service!Reports
  <2>2. ASSUME NEW S \in SUBSET Numbers', NEW result \in {"ok", "failed"},
               Told(S, result), MayEnd(S)
        PROVE  Service!Reports
    <3>1. DOMAIN outcome' = DOMAIN outcome
      BY <2>2 DEF Told
    <3>2. ASSUME NEW n \in DOMAIN outcome, outcome'[n] # outcome[n]
          PROVE  /\ outcome[n] = "none" /\ n <= Len(cmds')
                 /\ outcome'[n] = "ok" => n \in executed
      <4>1. n \in S
        BY <2>2, <3>2 DEF Told
      <4>2. outcome[n] = "none"
        BY <2>2, <4>1 DEF AnswersInv, Tells, MayEnd
      <4>3. n <= Len(cmds')
        BY <2>2, <4>1 DEF Numbers
      <4>4. QED
        BY <3>2, <4>2, <4>3, OkIsExecuted
    <3>3. QED
      BY <3>1, <3>2 DEF Service!Reports
  <2>3. QED
    BY <2>1, <2>2, EndsStep DEF AnswersInv
<1>4. QED
  BY <1>1, <1>2, <1>3 DEF Service!Next

\* As long as no command times out and every command goes out with its own tag,
\* the session does what Commands promises: it has every command executed at
\* most once, and reports its end once, as a success only if this very command
\* was executed.
THEOREM SessionServes ==
  Spec /\ [](timeouts = 0 /\ ~Misnumbered) => ServiceSpec
<1>1. Init => Service!Init
  BY DEF Init, Service!Init
<1>2. AnswersInv /\ (timeouts = 0 /\ ~Misnumbered) /\ [Next]_vars
         => [Service!Next]_(Service!vars)
  BY ServiceStep
<1>3. QED
  BY <1>1, <1>2, AnswersInit, AnswersInvStep, PTL DEF Spec, ServiceSpec, Service!Spec

\* A new asynchronous command is registered with the next tag.
LEMMA IssueTags ==
  ASSUME TypeOK, NEW kind \in Kinds, NEW x \in Owners \cup {NoOne}, NEW text \in Nat,
         Issue(kind, x, text), NEW n, n = Len(cmds) + 1
  PROVE  /\ kind \in Sync => NextTag' = NextTag /\ Tag(n)' = 0
         /\ kind \notin Sync => NextTag' = NextTag + 1 /\ Tag(n)' = NextTag
<1>1. /\ Numbers' = Numbers \cup {n} /\ n \notin Numbers /\ cmds'[n].kind = kind
      /\ \A i \in Numbers : cmds'[i] = cmds[i]
  BY IssueExtends
<1>2. IsFiniteSet(Asynchronous) /\ \A i \in Asynchronous : i <= n
  <2>1. Len(cmds) \in Nat
    BY DEF TypeOK
  <2>2. IsFiniteSet(Numbers) /\ \A i \in Numbers : i <= n
    BY <2>1, FS_Interval DEF Numbers
  <2>3. QED
    BY <2>2, FS_Subset DEF Asynchronous
<1>3. CASE kind \in Sync
  <2>1. Asynchronous' = Asynchronous /\ IsSync(n)'
    BY <1>1, <1>3 DEF Asynchronous, IsSync, Kind
  <2>2. QED
    BY <1>3, <2>1 DEF NextTag, Tag
<1>4. CASE kind \notin Sync
  <2>1. Asynchronous' = Asynchronous \cup {n} /\ n \notin Asynchronous /\ ~IsSync(n)'
    BY <1>1, <1>4 DEF Asynchronous, IsSync, Kind
  <2>2. /\ Cardinality(Asynchronous') = Cardinality(Asynchronous) + 1
        /\ Cardinality(Asynchronous) \in Nat
    BY <1>2, <2>1, FS_AddElement, FS_CardinalityType
  <2>3. n <= n
    BY DEF TypeOK
  <2>4. {i \in Asynchronous' : i <= n} = Asynchronous'
    BY <1>2, <2>1, <2>3
  <2>5. NextTag' = NextTag + 1
    BY <2>2 DEF NextTag
  <2>6. Tag(n)' = Cardinality(Asynchronous')
    BY <2>1, <2>4 DEF Tag
  <2>7. QED
    BY <1>4, <2>2, <2>5, <2>6 DEF NextTag
<1>5. QED
  BY <1>3, <1>4

\* With one handle nobody issues a command between the two steps of a set.
Numbered ==
    /\ \A n \in Numbers : cmds[n].text = Tag(n)
    /\ \A o \in Owners : stamp[o] # 0 => stamp[o] = NextTag
    /\ timeouts = 0

\* One handle's commands go out with their own tags.
LEMMA NumberedStep ==
  ASSUME Base, Numbered, [Next]_vars, NEW o \in Owners, Owners = {o}, MaxTimeouts = 0
  PROVE  Numbered'
<1>1. /\ TypeOK /\ NextTag \in Nat \ {0} /\ timeouts = 0
      /\ stamp = [p \in Owners |-> stamp[p]]
  BY NextTagType DEF Base, Numbered, TypeOK
<1>2. /\ \A n \in Numbers : cmds'[n].text = Tag(n)'
      /\ \A p \in Owners : stamp[p] # 0 => stamp[p] = NextTag
  BY <1>1, CmdsKept DEF Numbered
<1>3. ASSUME cmds' = cmds, stamp' = stamp, timeouts' = timeouts PROVE Numbered'
  BY <1>3 DEF Numbered, Numbers, Tag, NextTag, Asynchronous, IsSync, Kind
<1>4. ASSUME NEW kind \in Kinds, NEW x \in Owners \cup {NoOne}, NEW text \in Nat,
             Issue(kind, x, text), text = IF kind \in Sync THEN 0 ELSE NextTag,
             (kind \in Sync /\ stamp' = stamp) \/ stamp'[o] = 0,
             timeouts' = timeouts
      PROVE  Numbered'
  <2>1. PICK n : n = Len(cmds) + 1
    OBVIOUS
  <2>2. Numbers' = Numbers \cup {n} /\ cmds'[n].text = text
    BY <1>1, <1>4, <2>1, IssueExtends
  <2>3. /\ kind \in Sync => NextTag' = NextTag /\ Tag(n)' = 0
        /\ kind \notin Sync => Tag(n)' = NextTag
    BY <1>1, <1>4, <2>1, IssueTags
  <2>4. ASSUME NEW m \in Numbers' PROVE cmds'[m].text = Tag(m)'
    <3>1. CASE m = n
      BY <1>4, <2>2, <2>3, <3>1
    <3>2. CASE m \in Numbers
      BY <1>2, <3>2
    <3>3. QED
      BY <2>2, <3>1, <3>2
  <2>5. \A p \in Owners : stamp'[p] # 0 => stamp'[p] = NextTag'
    BY <1>2, <1>4, <2>3
  <2>6. QED
    BY <1>1, <1>4, <2>4, <2>5 DEF Numbered
<1>5. ASSUME NEW k \in Callers, CmdAdds(k) PROVE Numbered'
  <2>1. /\ doing[k] \in Kinds /\ doing[k] \in Sync /\ forOwner[k] \in Owners \cup {NoOne}
    BY DEF Base, TypeOK, Kinds
  <2>2. QED
    BY <1>4, <1>5, <2>1 DEF CmdAdds
<1>6. ASSUME AsyncSet(o) PROVE Numbered'
  <2>1. "set" \in Kinds \ Sync /\ stamp[o] = NextTag /\ stamp'[o] = 0
    BY <1>1, <1>2, <1>6 DEF Kinds, Sync, AsyncSet
  <2>2. Issue("set", o, NextTag) /\ timeouts' = timeouts
    BY <1>6, <2>1 DEF AsyncSet, Sends, SendFails
  <2>3. QED
    BY <1>1, <1>4, <2>1, <2>2
<1>7. ASSUME Formats(o) PROVE Numbered'
  <2>1. stamp' = [stamp EXCEPT ![o] = NextTag] /\ cmds' = cmds /\ timeouts' = timeouts
    BY <1>7 DEF Formats
  <2>2. NextTag' = NextTag
    BY <2>1 DEF NextTag, Asynchronous, Numbers, IsSync, Kind
  <2>3. Numbers' = Numbers
    BY <2>1 DEF Numbers
  <2>4. QED
    BY <1>1, <1>2, <2>1, <2>2, <2>3 DEF Numbered
<1>8. ASSUME Authorize \/ AuthorizationGoesOn PROVE Numbered'
  <2>1. {"authenticate", "password"} \subseteq Kinds \ Sync
    BY DEF Kinds, Auth, Sync
  <2>2. stamp[o] = 0
    <3>1. auth \in {"none", "sent"}
      BY <1>8 DEF Authorize, AuthorizationGoesOn, ReaderAt, Base, TypeOK, AuthorizationFirst
    <3>2. QED
      BY <3>1 DEF Base, AuthorizationFirst
  <2>3. /\ Issue("authenticate", NoOne, NextTag) \/ Issue("password", NoOne, NextTag)
        /\ stamp' = stamp /\ timeouts' = timeouts
    BY <1>8 DEF Authorize, AuthorizationGoesOn, Sends, SendFails
  <2>4. QED
    BY <1>1, <1>4, <2>1, <2>2, <2>3
<1>9. ASSUME NEW k \in Callers, CallContinues(k) \/ CmdTimesOut(k) PROVE Numbered'
  <2>1. ~CmdTimesOut(k)
    BY <1>1 DEF CmdTimesOut
  <2>2. QED
    BY <1>3, <1>5, <1>9, <2>1 DEF CallContinues, CmdWrites, CmdWriteFails, CmdForgets,
       CmdIsAnswered, CallReturns, CleanupReturns, CleanupReports
<1>10. ASSUME NEW k \in Callers, NEW kind \in Sync, NEW p \in Owners, Calls(k, kind, p)
       PROVE  Numbered'
  BY <1>3, <1>10 DEF Calls
<1>11. ASSUME NEW p \in Owners,
              Formats(p) \/ AsyncSet(p) \/ CloseWithoutServer(p) \/ Reports(p)
       PROVE  Numbered'
  BY <1>3, <1>6, <1>7, <1>11 DEF CloseWithoutServer, Reports
<1>12. CASE \/ ReadsReply \/ DropsLine \/ ReadsReport \/ ReportReturns \/ NotifiesCaller
            \/ NotifiesOwner \/ AuthorizationEnds \/ ReadEnds \/ FinishesCaller
            \/ FinishesAsync \/ DrainEnds \/ CleanedUp \/ PuClose \/ Answers \/ PeerCloses
  BY <1>3, <1>12 DEF ReadsReply, DropsLine, ReadsReport, ReportReturns, NotifiesCaller,
     NotifiesOwner, AuthorizationEnds, ReadEnds, FinishesCaller, FinishesAsync, DrainEnds,
     CleanedUp, PuClose, Answers, PeerCloses
<1>13. CASE UNCHANGED vars
  BY <1>3, <1>13 DEF vars
<1>14. QED
  BY <1>8, <1>9, <1>10, <1>11, <1>12, <1>13, Zenon DEF Next, Reader

\* With one handle and as long as no command times out the session does what
\* Commands promises, whatever the threads, the reader and the socket do.
THEOREM OneHandleServes ==
  ASSUME NEW o \in Owners, Owners = {o}, MaxTimeouts = 0
  PROVE  Spec => ServiceSpec
<1>1. Init => Numbered
  BY DEF Init, Numbered, Numbers
<1>2. Base /\ Numbered /\ [Next]_vars => Numbered'
  BY NumberedStep
<1>3. Numbered => timeouts = 0 /\ ~Misnumbered
  BY DEF Numbered, Misnumbered
<1>4. QED
  BY <1>1, <1>2, <1>3, BaseInit, BaseStep, SessionServes, PTL DEF Spec

-----------------------------------------------------------------------------
(* A handle that is closed is forgotten: the sets of a handle go out before  *)
(* the ignore of its close, the webservice answers in order, and by then     *)
(* sends no more reports.                                                    *)

\* The caller closes a handle: its pdc_ignore or the cleanup_pending after it.
Closing(k) == cpc[k] # "idle" /\ doing[k] = "ignore"

\* A handle is in the stage its caller has brought it to, one caller closes it,
\* and no set of it is under way unless it is open.
StagesAgree ==
    /\ \A k \in Callers : Closing(k) => stage[forOwner[k]] = "closing"
    /\ \A k \in Callers :
          Busy(k) /\ doing[k] = "listen" => stage[forOwner[k]] = "connecting"
    /\ \A k, j \in Callers :
          Closing(k) /\ Closing(j) /\ forOwner[k] = forOwner[j] => j = k
    /\ \A o \in Owners :
          stage[o] \in {"closed", "closing"} \/ rpc = "done" => stamp[o] = 0
    /\ \A k \in Callers : cpc[k] = "failed" => trouble

\* The stages agree after every step.
LEMMA StagesStep ==
  ASSUME Base, LockIsHeld, CommandIsOwn, StagesAgree, [Next]_vars
  PROVE  StagesAgree'
<1>1. /\ StagesAgree
      /\ cpc = [k \in Callers |-> cpc[k]] /\ doing = [k \in Callers |-> doing[k]]
      /\ forOwner = [k \in Callers |-> forOwner[k]]
      /\ stage = [o \in Owners |-> stage[o]] /\ stamp = [o \in Owners |-> stamp[o]]
      /\ \A k \in Callers : cpc[k] # "idle" => forOwner[k] \in Owners
      /\ NoOne \notin Callers /\ trouble \in BOOLEAN
  BY NoOneAssumption DEF Base, TypeOK, CommandOfCaller
<1>2. /\ \A k \in Callers : Busy(k) <=> pdcLock = k
      /\ \A k \in Callers : cpc[k] = "cleanup" => doing[k] = "ignore"
  BY DEF LockIsHeld, CommandIsOwn
<1>3. trouble => trouble'
  BY <1>1, TroubleStep
<1>4. ASSUME UNCHANGED <<cpc, doing, forOwner, stage, stamp>>, rpc' = "done" => rpc = "done"
      PROVE  StagesAgree'
  BY <1>1, <1>3, <1>4 DEF StagesAgree, Closing, Busy
<1>5. ASSUME NEW k \in Callers, CmdAdds(k)
      PROVE  StagesAgree'
  BY <1>5, <1>1, <1>2, <1>3
     DEF CmdAdds, CallerAt, NoAnswer, StagesAgree, Closing, Busy
<1>6. ASSUME NEW k \in Callers, CmdWrites(k)
      PROVE  StagesAgree'
  BY <1>6, <1>1, <1>2, <1>3
     DEF CmdWrites, CallerAt, StagesAgree, Closing, Busy
<1>7. ASSUME NEW k \in Callers, CmdWriteFails(k)
      PROVE  StagesAgree'
  BY <1>7, <1>1, <1>2, <1>3
     DEF CmdWriteFails, CallerAt, StagesAgree, Closing, Busy
<1>8. ASSUME NEW k \in Callers, CmdForgets(k)
      PROVE  StagesAgree'
  BY <1>8, <1>1, <1>2, <1>3
     DEF CmdForgets, StagesAgree, Closing, Busy
<1>9. ASSUME NEW k \in Callers, CmdIsAnswered(k)
      PROVE  StagesAgree'
  BY <1>9, <1>1, <1>2, <1>3
     DEF CmdIsAnswered, CallerAt, StagesAgree, Closing, Busy
<1>10. ASSUME NEW k \in Callers, CallReturns(k)
       PROVE  StagesAgree'
  <2>1. Busy(k) /\ \A j \in Callers : j # k => ~Busy(j)
    BY <1>10, <1>1, <1>2 DEF CallReturns, Busy
  <2>2. /\ stamp' = stamp /\ doing' = doing /\ rpc' = rpc
        /\ \A j \in Callers : j # k => cpc'[j] = cpc[j] /\ forOwner'[j] = forOwner[j]
        /\ cpc'[k] = IF doing[k] = "ignore" THEN "cleanup" ELSE "idle"
        /\ doing[k] = "ignore" => forOwner'[k] = forOwner[k]
        /\ cpc[k] # "idle" /\ forOwner[k] \in Owners
    BY <1>10, <1>1 DEF CallReturns
  <2>3. CASE doing[k] = "listen"
    <3>1. /\ stage[forOwner[k]] = "connecting"
          /\ \A o \in Owners : o # forOwner[k] => stage'[o] = stage[o]
          /\ stage'[forOwner[k]] \in {"open", "closed"}
          /\ stage'[forOwner[k]] = "closed" => stamp[forOwner[k]] = 0
      BY <1>10, <1>1, <2>1, <2>3 DEF CallReturns, StagesAgree
    <3>2. \A j \in Callers : Closing(j)' => j # k /\ Closing(j) /\ forOwner[j] # forOwner[k]
      BY <1>1, <2>2, <2>3, <3>1 DEF StagesAgree, Closing
    <3>3. \A j \in Callers : ~(Busy(j)')
      BY <2>1, <2>2, <2>3 DEF Busy
    <3>4. QED
      BY <1>1, <1>3, <2>2, <3>1, <3>2, <3>3 DEF StagesAgree, Busy, Closing
  <2>4. CASE doing[k] # "listen"
    <3>1. stage' = stage
      BY <1>10, <2>4 DEF CallReturns
    <3>2. QED
      BY <1>1, <1>3, <2>1, <2>2, <2>4, <3>1 DEF StagesAgree, Busy, Closing
  <2>5. QED
    BY <2>3, <2>4
<1>11. ASSUME NEW k \in Callers,
              \/ CleanupReturns(k) \/ CleanupReports(k)
       PROVE  StagesAgree'
  <2>1. /\ stamp' = stamp /\ doing' = doing /\ rpc' = rpc
        /\ \A j \in Callers : j # k => cpc'[j] = cpc[j] /\ forOwner'[j] = forOwner[j]
        /\ cpc'[k] = "idle" /\ cpc[k] = "cleanup" /\ forOwner[k] \in Owners
        /\ \A o \in Owners : o # forOwner[k] => stage'[o] = stage[o]
        /\ stage'[forOwner[k]] = "closed"
    BY <1>11, <1>1 DEF CleanupReturns, CleanupReports, CallerAt
  <2>2. Closing(k) /\ stage[forOwner[k]] = "closing"
    BY <1>1, <1>2, <2>1 DEF Closing, StagesAgree
  <2>3. \A j \in Callers : Closing(j)' => j # k /\ Closing(j) /\ forOwner[j] # forOwner[k]
    BY <1>1, <2>1, <2>2 DEF StagesAgree, Closing
  <2>4. \A j \in Callers : Busy(j)' => j # k /\ Busy(j)
    BY <2>1 DEF Busy
  <2>5. /\ \A j \in Callers : Closing(j)' => stage'[forOwner'[j]] = "closing"
        /\ \A j \in Callers : Busy(j)' /\ doing'[j] = "listen" => stage'[forOwner'[j]] = "connecting"
    <3>1. ASSUME NEW j \in Callers, Closing(j)' PROVE stage'[forOwner'[j]] = "closing"
      BY <1>1, <2>1, <2>3, <3>1 DEF StagesAgree, Closing
    <3>2. ASSUME NEW j \in Callers, Busy(j)', doing'[j] = "listen"
          PROVE  stage'[forOwner'[j]] = "connecting"
      <4>1. j # k /\ stage[forOwner[j]] = "connecting" /\ forOwner[j] \in Owners
        BY <1>1, <2>1, <2>4, <3>2 DEF StagesAgree, Busy
      <4>2. QED
        BY <2>1, <2>2, <4>1
    <3>3. QED
      BY <3>1, <3>2
  <2>6. \A i, j \in Callers : Closing(i)' /\ Closing(j)' /\ forOwner'[i] = forOwner'[j] => i = j
    BY <1>1, <2>1, <2>3 DEF StagesAgree
  <2>7. \A p \in Owners : stage'[p] \in {"closed", "closing"} \/ rpc' = "done" => stamp'[p] = 0
    BY <1>1, <2>1, <2>2 DEF StagesAgree
  <2>8. \A j \in Callers : cpc'[j] = "failed" => trouble'
    BY <1>1, <1>3, <2>1 DEF StagesAgree
  <2>9. QED
    BY <2>5, <2>6, <2>7, <2>8, Zenon DEF StagesAgree
<1>12. ASSUME NEW k \in Callers, CmdTimesOut(k)
       PROVE  StagesAgree'
  BY <1>12, <1>1, <1>2, <1>3
     DEF CmdTimesOut, CallerAt, StagesAgree, Closing, Busy
<1>13. ASSUME NEW k \in Callers, NEW kind \in Sync, NEW o \in Owners, Calls(k, kind, o)
       PROVE  StagesAgree'
  <2>1. /\ stamp' = stamp /\ rpc' = rpc /\ cpc[k] = "idle" /\ cpc'[k] = "add"
        /\ \A j \in Callers : j # k => /\ cpc'[j] = cpc[j] /\ forOwner'[j] = forOwner[j]
                                       /\ doing'[j] = doing[j]
        /\ doing'[k] = kind /\ forOwner'[k] = o
        /\ \A p \in Owners : p # o => stage'[p] = stage[p]
        /\ \/ kind = "listen" /\ stage[o] = "closed" /\ stage'[o] = "connecting"
           \/ kind = "ignore" /\ stage[o] = "open" /\ stage'[o] = "closing" /\ stamp[o] = 0
           \/ kind = "get" /\ stage' = stage
        /\ \A j \in Callers : ~Busy(j)
    BY <1>13, <1>1, <1>2 DEF Calls, CallerAt
  <2>2. \A j \in Callers : j # k => (Closing(j)' <=> Closing(j)) /\ ~(Busy(j)')
    BY <2>1 DEF Closing, Busy
  <2>3. Closing(k)' <=> kind = "ignore"
    BY <2>1 DEF Closing
  <2>4. \A j \in Callers : Closing(j)' => stage'[forOwner'[j]] = "closing"
    <3>1. ASSUME NEW j \in Callers, j # k, Closing(j)' PROVE stage'[forOwner'[j]] = "closing"
      <4>1. Closing(j) /\ forOwner'[j] = forOwner[j] /\ forOwner[j] \in Owners
        BY <1>1, <2>1, <2>2, <3>1 DEF Closing
      <4>2. stage[forOwner[j]] = "closing"
        BY <1>1, <4>1 DEF StagesAgree
      <4>3. QED
        BY <2>1, <4>1, <4>2
    <3>2. QED
      BY <2>1, <2>3, <3>1
  <2>5. \A j \in Callers : Busy(j)' /\ doing'[j] = "listen" => stage'[forOwner'[j]] = "connecting"
    BY <2>1, <2>2
  <2>6. \A i, j \in Callers : Closing(i)' /\ Closing(j)' /\ forOwner'[i] = forOwner'[j] => i = j
    <3>1. ASSUME NEW j \in Callers, j # k, Closing(j)', Closing(k)' PROVE forOwner'[j] # o
      <4>1. Closing(j) /\ forOwner'[j] = forOwner[j] /\ stage[o] = "open"
        BY <2>1, <2>2, <2>3, <3>1
      <4>2. stage[forOwner[j]] = "closing"
        BY <1>1, <4>1 DEF StagesAgree
      <4>3. QED
        BY <4>1, <4>2
    <3>2. QED
      BY <1>1, <2>1, <2>2, <3>1 DEF StagesAgree
  <2>7. \A p \in Owners : stage'[p] \in {"closed", "closing"} \/ rpc' = "done" => stamp'[p] = 0
    BY <1>1, <2>1 DEF StagesAgree
  <2>8. \A j \in Callers : cpc'[j] = "failed" => trouble'
    BY <1>1, <1>3, <2>1 DEF StagesAgree
  <2>9. QED
    BY <2>4, <2>5, <2>6, <2>7, <2>8, Zenon DEF StagesAgree
<1>14. ASSUME NEW o \in Owners, Formats(o)
       PROVE  StagesAgree'
  BY <1>14, <1>1, <1>2, <1>3
     DEF Formats, StagesAgree, Closing, Busy
<1>15. ASSUME NEW o \in Owners, AsyncSet(o)
       PROVE  StagesAgree'
  BY <1>15, <1>1, <1>2, <1>3
     DEF AsyncSet, StagesAgree, Closing, Busy
<1>16. ASSUME NEW o \in Owners, CloseWithoutServer(o)
       PROVE  StagesAgree'
  BY <1>16, <1>1, <1>2, <1>3
     DEF CloseWithoutServer, StagesAgree, Closing, Busy
<1>17. CASE CleanedUp
  BY <1>17, <1>1, <1>2, <1>3
     DEF CleanedUp, ReaderAt, StagesAgree, Closing, Busy
<1>18. CASE \/ ReadsReply \/ DropsLine \/ ReadsReport \/ ReportReturns
            \/ NotifiesCaller \/ NotifiesOwner \/ AuthorizationEnds
            \/ AuthorizationGoesOn \/ ReadEnds \/ FinishesCaller
            \/ FinishesAsync \/ DrainEnds \/ Authorize \/ PuClose \/ Answers
            \/ PeerCloses
  BY <1>18, <1>4
     DEF ReadsReply, ReaderAt, DropsLine, ReadsReport, ReportReturns, NoLine,
         NotifiesCaller, NotifiesOwner, AuthorizationEnds,
         AuthorizationGoesOn, ReadEnds, FinishesCaller, FinishesAsync,
         DrainEnds, Authorize, PuClose, Answers, PeerCloses
<1>19. ASSUME NEW o \in Owners, Reports(o)
       PROVE  StagesAgree'
  BY <1>19, <1>4
     DEF Reports
<1>20. CASE UNCHANGED vars
  BY <1>20, <1>4
     DEF vars
<1>21. QED
  BY <1>5, <1>6, <1>7, <1>8, <1>9, <1>10, <1>11, <1>12, <1>13, <1>14, <1>15,
     <1>16, <1>17, <1>18, <1>19, <1>20
     DEF Next, Reader, CallContinues

-----------------------------------------------------------------------------
(* No report for it. *)

\* The answer to the ignore of a close has been read.
Ignored(k) ==
    /\ Closing(k)
    /\ \/ cpc[k] \in {"answered", "cleanup"}
       \/ answer[k].code \in {"ok", "bad"}
       \/ rpc = "notify" /\ rcmd = own[k] /\ rline.code # "more"

\* Behind the line i no report for the owner comes.
QuietAfter(o, i) ==
    /\ ~(socket = "open" /\ o \in subscribed)
    /\ \A j \in DOMAIN toClient : j > i => toClient[j].owner # o

\* No report for the owner comes, nor is one with the read thread.
Quiet(o) == QuietAfter(o, 0) /\ ~(rpc = "report" /\ rline.owner = o)

\* Reports stop when the reply to the ignore is on the line, and have been
\* handled when it is read.
ReportsStop ==
    ~trouble =>
        /\ \A o \in Owners : stage[o] = "closed" => Quiet(o)
        /\ \A k \in Callers : Ignored(k) => Quiet(forOwner[k])
        /\ \A k \in Callers, i \in DOMAIN toClient :
              Closing(k) /\ toClient[i].what = "reply" /\ toClient[i].of = own[k]
                  => QuietAfter(forOwner[k], i)

\* The step reads the reply to the ignore of the close.
ReadsIgnored(c) ==
    /\ ReadsReply /\ Closing(c) /\ forOwner'[c] = forOwner[c] /\ own'[c] = own[c]
    /\ rcmd' = own[c] /\ rline'.code # "more" /\ rpc' = "notify"
IgnoredBefore(c) == (Ignored(c) /\ forOwner'[c] = forOwner[c]) \/ ReadsIgnored(c)

\* A close is ignored before a step, or by the reply that is read in it.
LEMMA IgnoredStep ==
  ASSUME Base, CommandIsOwn, StagesAgree, [Next]_vars, ~trouble', NEW c \in Callers, Ignored(c)'
  PROVE  IgnoredBefore(c)
<1>1. /\ cpc = [j \in Callers |-> cpc[j]] /\ doing = [j \in Callers |-> doing[j]]
      /\ forOwner = [j \in Callers |-> forOwner[j]] /\ own = [j \in Callers |-> own[j]]
      /\ answer = [j \in Callers |-> answer[j]]
      /\ rpc = "notify" => rcmd \in Numbers
      /\ 0 \notin Numbers /\ Len(cmds) + 1 \notin Numbers /\ trouble \in BOOLEAN
  BY DEF Base, TypeOK, Numbers
<1>2. /\ \A j \in Callers : ~Issued(j) => own[j] = 0
      /\ \A j \in Callers : ~Issued(j) => answer[j].code = "none"
      /\ \A j \in Callers : cpc[j] = "failed" => trouble
  BY DEF Base, CommandOfCaller, CommandIsOwn, StagesAgree
<1>3. ~trouble
  BY <1>1, TroubleStep
<1>4. ASSUME UNCHANGED <<cpc, doing, forOwner, own, answer>>,
             rpc' = "notify" => rpc = "notify" /\ rcmd' = rcmd /\ rline' = rline
      PROVE  IgnoredBefore(c)
  BY <1>4 DEF IgnoredBefore, Ignored, Closing
<1>5. ASSUME NEW k \in Callers, CmdAdds(k)
      PROVE  IgnoredBefore(c)
  BY <1>5, <1>1, <1>2, <1>3
     DEF CmdAdds, CallerAt, NoAnswer, Issued, Live, IgnoredBefore, Ignored,
         Closing
<1>6. ASSUME NEW k \in Callers, CmdWrites(k)
      PROVE  IgnoredBefore(c)
  BY <1>6, <1>1, <1>2, <1>3
     DEF CmdWrites, CallerAt, IgnoredBefore, Ignored, Closing
<1>7. ASSUME NEW k \in Callers, CmdWriteFails(k)
      PROVE  IgnoredBefore(c)
  BY <1>7, <1>1, <1>2, <1>3
     DEF CmdWriteFails, CallerAt, IgnoredBefore, Ignored, Closing
<1>8. ASSUME NEW k \in Callers, CmdForgets(k)
      PROVE  IgnoredBefore(c)
  BY <1>8, <1>1, <1>2, <1>3
     DEF CmdForgets, IgnoredBefore, Ignored, Closing
<1>9. ASSUME NEW k \in Callers, CmdIsAnswered(k)
      PROVE  IgnoredBefore(c)
  BY <1>9, <1>1, <1>2, <1>3
     DEF CmdIsAnswered, CallerAt, IgnoredBefore, Ignored, Closing
<1>10. ASSUME NEW k \in Callers, CallReturns(k)
       PROVE  IgnoredBefore(c)
  BY <1>10, <1>1, <1>2, <1>3
     DEF CallReturns, NoAnswer, IgnoredBefore, Ignored, Closing
<1>11. ASSUME NEW k \in Callers, CleanupReturns(k)
       PROVE  IgnoredBefore(c)
  BY <1>11, <1>1, <1>2, <1>3
     DEF CleanupReturns, CallerAt, IgnoredBefore, Ignored, Closing
<1>12. ASSUME NEW k \in Callers, CleanupReports(k)
       PROVE  IgnoredBefore(c)
  BY <1>12, <1>1, <1>2, <1>3
     DEF CleanupReports, CallerAt, IgnoredBefore, Ignored, Closing
<1>13. ASSUME NEW k \in Callers, CmdTimesOut(k)
       PROVE  IgnoredBefore(c)
  BY <1>13, <1>1, <1>2, <1>3
     DEF CmdTimesOut, CallerAt, IgnoredBefore, Ignored, Closing
<1>14. ASSUME NEW k \in Callers, NEW kind \in Sync, NEW o \in Owners, Calls(k, kind, o)
       PROVE  IgnoredBefore(c)
  BY <1>14, <1>1, <1>2, <1>3
     DEF Calls, CallerAt, Issued, Live, IgnoredBefore, Ignored, Closing
<1>15. CASE NotifiesCaller
  BY <1>15, <1>1, <1>2, <1>3
     DEF NotifiesCaller, ReaderAt, NoLine, IgnoredBefore, Ignored, Closing
<1>16. CASE FinishesCaller
  BY <1>16, <1>1, <1>2, <1>3
     DEF FinishesCaller, IgnoredBefore, Ignored, Closing
<1>17. CASE ReadsReply
  <2>1. UNCHANGED <<cpc, doing, forOwner, own, answer>> /\ rpc = "read" /\ rpc' = "notify"
    BY <1>17 DEF ReadsReply, ReaderAt
  <2>2. QED
    BY <1>17, <2>1 DEF IgnoredBefore, ReadsIgnored, Ignored, Closing
<1>18. CASE \/ DropsLine \/ ReadsReport \/ ReportReturns \/ NotifiesOwner
            \/ AuthorizationEnds \/ AuthorizationGoesOn \/ ReadEnds
            \/ FinishesAsync \/ DrainEnds \/ CleanedUp \/ Authorize \/ PuClose
            \/ Answers \/ PeerCloses
  BY <1>18, <1>4
     DEF DropsLine, ReadsReport, ReaderAt, ReportReturns, NoLine,
         NotifiesOwner, AuthorizationEnds, AuthorizationGoesOn, ReadEnds,
         FinishesAsync, DrainEnds, CleanedUp, Authorize, PuClose, Answers,
         PeerCloses
<1>19. ASSUME NEW o \in Owners,
              \/ Formats(o) \/ AsyncSet(o) \/ CloseWithoutServer(o)
              \/ Reports(o)
       PROVE  IgnoredBefore(c)
  BY <1>19, <1>4
     DEF Formats, AsyncSet, CloseWithoutServer, Reports
<1>20. CASE UNCHANGED vars
  BY <1>20, <1>4
     DEF vars
<1>21. QED
  BY <1>5, <1>6, <1>7, <1>8, <1>9, <1>10, <1>11, <1>12, <1>13, <1>14, <1>15,
     <1>16, <1>17, <1>18, <1>19, <1>20
     DEF Next, Reader, CallContinues

\* What the command of a close becomes: it stays, or is new, or is none.
OwnBefore(c) ==
    \/ Closing(c) /\ forOwner'[c] = forOwner[c] /\ own'[c] = own[c]
    \/ own'[c] = 0 \/ own'[c] = Len(cmds) + 1

\* The command of a close is issued once.
LEMMA OwnOfClose ==
  ASSUME Base, [Next]_vars, NEW c \in Callers, Closing(c)'
  PROVE  OwnBefore(c)
<1>1. /\ cpc = [j \in Callers |-> cpc[j]] /\ doing = [j \in Callers |-> doing[j]]
      /\ forOwner = [j \in Callers |-> forOwner[j]] /\ own = [j \in Callers |-> own[j]]
      /\ \A j \in Callers : ~Issued(j) => own[j] = 0
  BY DEF Base, TypeOK, CommandOfCaller
<1>2. ASSUME UNCHANGED <<cpc, doing, forOwner, own>> PROVE OwnBefore(c)
  BY <1>2 DEF OwnBefore, Closing
<1>3. ASSUME NEW k \in Callers, CmdAdds(k)
      PROVE  OwnBefore(c)
  BY <1>3, <1>1
     DEF CmdAdds, CallerAt, NoAnswer, OwnBefore, Closing
<1>4. ASSUME NEW k \in Callers, CmdWrites(k)
      PROVE  OwnBefore(c)
  BY <1>4, <1>1
     DEF CmdWrites, CallerAt, OwnBefore, Closing
<1>5. ASSUME NEW k \in Callers, CmdWriteFails(k)
      PROVE  OwnBefore(c)
  BY <1>5, <1>1
     DEF CmdWriteFails, CallerAt, OwnBefore, Closing
<1>6. ASSUME NEW k \in Callers, CmdForgets(k)
      PROVE  OwnBefore(c)
  BY <1>6, <1>1
     DEF CmdForgets, OwnBefore, Closing
<1>7. ASSUME NEW k \in Callers, CmdIsAnswered(k)
      PROVE  OwnBefore(c)
  BY <1>7, <1>1
     DEF CmdIsAnswered, CallerAt, OwnBefore, Closing
<1>8. ASSUME NEW k \in Callers, CallReturns(k)
      PROVE  OwnBefore(c)
  BY <1>8, <1>1
     DEF CallReturns, NoAnswer, OwnBefore, Closing
<1>9. ASSUME NEW k \in Callers, CleanupReturns(k)
      PROVE  OwnBefore(c)
  BY <1>9, <1>1
     DEF CleanupReturns, CallerAt, OwnBefore, Closing
<1>10. ASSUME NEW k \in Callers, CleanupReports(k)
       PROVE  OwnBefore(c)
  BY <1>10, <1>1
     DEF CleanupReports, CallerAt, OwnBefore, Closing
<1>11. ASSUME NEW k \in Callers, CmdTimesOut(k)
       PROVE  OwnBefore(c)
  BY <1>11, <1>1
     DEF CmdTimesOut, CallerAt, OwnBefore, Closing
<1>12. ASSUME NEW k \in Callers, NEW kind \in Sync, NEW o \in Owners, Calls(k, kind, o)
       PROVE  OwnBefore(c)
  BY <1>12, <1>1
     DEF Calls, CallerAt, Issued, Live, OwnBefore, Closing
<1>13. CASE \/ ReadsReply \/ DropsLine \/ ReadsReport \/ ReportReturns
            \/ NotifiesCaller \/ NotifiesOwner \/ AuthorizationEnds
            \/ AuthorizationGoesOn \/ ReadEnds \/ FinishesCaller
            \/ FinishesAsync \/ DrainEnds \/ CleanedUp \/ Authorize \/ PuClose
            \/ Answers \/ PeerCloses
  BY <1>13, <1>2
     DEF ReadsReply, ReaderAt, DropsLine, ReadsReport, ReportReturns, NoLine,
         NotifiesCaller, NotifiesOwner, AuthorizationEnds,
         AuthorizationGoesOn, ReadEnds, FinishesCaller, FinishesAsync,
         DrainEnds, CleanedUp, Authorize, PuClose, Answers, PeerCloses
<1>14. ASSUME NEW o \in Owners,
              \/ Formats(o) \/ AsyncSet(o) \/ CloseWithoutServer(o)
              \/ Reports(o)
       PROVE  OwnBefore(c)
  BY <1>14, <1>2
     DEF Formats, AsyncSet, CloseWithoutServer, Reports
<1>15. CASE UNCHANGED vars
  BY <1>15, <1>2
     DEF vars
<1>16. QED
  BY <1>3, <1>4, <1>5, <1>6, <1>7, <1>8, <1>9, <1>10, <1>11, <1>12, <1>13,
     <1>14, <1>15
     DEF Next, Reader, CallContinues

\* How a handle comes to be closed.
ClosedBefore(p) ==
    \/ stage[p] = "closed" \/ (stage[p] = "open" /\ rpc = "done")
    \/ \E c \in Callers : (cpc[c] = "cleanup" \/ cpc[c] = "failed") /\ forOwner[c] = p

\* A handle is closed by the end of a close, or because its listener failed, or
\* because the server is gone.
LEMMA HandleCloses ==
  ASSUME Base, [Next]_vars, NEW p \in Owners, stage'[p] = "closed"
  PROVE  ClosedBefore(p)
<1>1. stage = [q \in Owners |-> stage[q]]
  BY DEF Base, TypeOK
<1>2. ASSUME UNCHANGED stage PROVE ClosedBefore(p)
  BY <1>2 DEF ClosedBefore
<1>3. ASSUME NEW k \in Callers, CallReturns(k)
      PROVE  ClosedBefore(p)
  BY <1>3, <1>1
     DEF CallReturns, NoAnswer, ClosedBefore
<1>4. ASSUME NEW k \in Callers, CleanupReturns(k)
      PROVE  ClosedBefore(p)
  BY <1>4, <1>1
     DEF CleanupReturns, CallerAt, ClosedBefore
<1>5. ASSUME NEW k \in Callers, CleanupReports(k)
      PROVE  ClosedBefore(p)
  BY <1>5, <1>1
     DEF CleanupReports, CallerAt, ClosedBefore
<1>6. ASSUME NEW k \in Callers, NEW kind \in Sync, NEW o \in Owners, Calls(k, kind, o)
      PROVE  ClosedBefore(p)
  BY <1>6, <1>1
     DEF Calls, CallerAt, ClosedBefore
<1>7. ASSUME NEW o \in Owners, CloseWithoutServer(o)
      PROVE  ClosedBefore(p)
  BY <1>7, <1>1
     DEF CloseWithoutServer, ClosedBefore
<1>8. CASE \/ ReadsReply \/ DropsLine \/ ReadsReport \/ ReportReturns
           \/ NotifiesCaller \/ NotifiesOwner \/ AuthorizationEnds
           \/ AuthorizationGoesOn \/ ReadEnds \/ FinishesCaller
           \/ FinishesAsync \/ DrainEnds \/ CleanedUp \/ Authorize \/ PuClose
           \/ Answers \/ PeerCloses
  BY <1>8, <1>2
     DEF ReadsReply, ReaderAt, DropsLine, ReadsReport, ReportReturns, NoLine,
         NotifiesCaller, NotifiesOwner, AuthorizationEnds,
         AuthorizationGoesOn, ReadEnds, FinishesCaller, FinishesAsync,
         DrainEnds, CleanedUp, Authorize, PuClose, Answers, PeerCloses
<1>9. ASSUME NEW k \in Callers,
             \/ CmdAdds(k) \/ CmdWrites(k) \/ CmdWriteFails(k)
             \/ CmdForgets(k) \/ CmdIsAnswered(k) \/ CmdTimesOut(k)
      PROVE  ClosedBefore(p)
  BY <1>9, <1>2
     DEF CmdAdds, CallerAt, NoAnswer, CmdWrites, CmdWriteFails, CmdForgets,
         CmdIsAnswered, CmdTimesOut
<1>10. ASSUME NEW o \in Owners,
              \/ Formats(o) \/ AsyncSet(o) \/ Reports(o)
       PROVE  ClosedBefore(p)
  BY <1>10, <1>2
     DEF Formats, AsyncSet, Reports
<1>11. CASE UNCHANGED vars
  BY <1>11, <1>2
     DEF vars
<1>12. QED
  BY <1>3, <1>4, <1>5, <1>6, <1>7, <1>8, <1>9, <1>10, <1>11
     DEF Next, Reader, CallContinues

\* What a step other than Answers does to the lines to the client: it takes d of
\* them, adds a report for a subscribed owner, or closes the socket.
ClientGoesOn(d) ==
    /\ \A j \in DOMAIN toClient' :
          \/ j + d \in DOMAIN toClient /\ toClient'[j] = toClient[j + d]
          \/ /\ d = 0 /\ j = Len(toClient) + 1 /\ toClient'[j].what = "report"
             /\ socket = "open" /\ toClient'[j].owner \in subscribed
    /\ socket' = "open" => socket = "open"
    /\ subscribed' = subscribed

\* Only ReadsReply, DropsLine and ReadsReport take a line.
LEMMA ClientStep ==
  ASSUME Base, [Next]_vars
  PROVE  Answers \/ \E d \in {0, 1} : ClientGoesOn(d) /\ (ReadsReply => d = 1)
<1> DEFINE Goal == \E d \in {0, 1} : ClientGoesOn(d) /\ (ReadsReply => d = 1)
<1>1. toClient \in Seq(ReplyLine \cup ReportLine)
  BY DEF Base, TypeOK
<1>2. ASSUME toClient' \in {toClient, <<>>}, socket' = "open" => socket = "open",
             subscribed' = subscribed, ~ReadsReply
      PROVE  ClientGoesOn(0) /\ Goal
  BY <1>1, <1>2 DEF ClientGoesOn
<1>3. CASE ReadsReply \/ DropsLine \/ ReadsReport
  <2>1. /\ toClient # <<>> /\ toClient' = Tail(toClient)
        /\ UNCHANGED <<socket, subscribed>>
    BY <1>3 DEF ReadsReply, DropsLine, ReadsReport
  <2>2. \A j \in DOMAIN toClient' : j + 1 \in DOMAIN toClient /\ toClient'[j] = toClient[j + 1]
    BY <1>1, <2>1, HeadTailProperties
  <2>3. ClientGoesOn(1)
    BY <2>1, <2>2 DEF ClientGoesOn
  <2>4. QED
    BY <2>3
<1>4. ASSUME \/ ReportReturns \/ NotifiesCaller \/ NotifiesOwner \/ AuthorizationEnds
             \/ AuthorizationGoesOn \/ ReadEnds \/ FinishesCaller \/ FinishesAsync
             \/ DrainEnds \/ CleanedUp \/ Authorize \/ PuClose \/ PeerCloses,
             ~ReadsReply
      PROVE Goal
  BY <1>2, <1>4 DEF ReportReturns, NotifiesCaller, NotifiesOwner, AuthorizationEnds,
     AuthorizationGoesOn, ReadEnds, FinishesCaller, FinishesAsync, DrainEnds, CleanedUp, Authorize, PuClose, PeerCloses
<1>5. ASSUME NEW c \in Callers, CallContinues(c) \/ CmdTimesOut(c), ~ReadsReply PROVE Goal
  <2>1. UNCHANGED <<toClient, subscribed, socket>>
    BY <1>5 DEF CallContinues, CmdAdds, CmdWrites, CmdWriteFails, CmdForgets,
       CmdIsAnswered, CallReturns, CleanupReturns, CleanupReports, CmdTimesOut
  <2>2. QED
    BY <1>2, <1>5, <2>1
<1>6. ASSUME NEW c \in Callers, NEW kind \in Sync, NEW p \in Owners, Calls(c, kind, p), ~ReadsReply
      PROVE  Goal
  BY <1>2, <1>6 DEF Calls
<1>7. ASSUME NEW p \in Owners, Formats(p) \/ AsyncSet(p) \/ CloseWithoutServer(p), ~ReadsReply
      PROVE  Goal
  BY <1>2, <1>7 DEF Formats, AsyncSet, CloseWithoutServer
<1>8. ASSUME NEW p \in Owners, Reports(p), ~ReadsReply PROVE Goal
  <2>1. PICK l : /\ l.what = "report" /\ l.owner = p
                 /\ toClient' = Append(toClient, l)
                 /\ UNCHANGED <<socket, subscribed>> /\ socket = "open" /\ p \in subscribed
    BY <1>8 DEF Reports
  <2>2. \A j \in DOMAIN toClient' : \/ j \in DOMAIN toClient /\ toClient'[j] = toClient[j]
                                    \/ j = Len(toClient) + 1 /\ toClient'[j] = l
    BY <1>1, <2>1
  <2>3. \A j \in DOMAIN toClient' : j + 0 = j
    BY <1>1, <2>1
  <2>4. ClientGoesOn(0)
    BY <2>1, <2>2, <2>3 DEF ClientGoesOn
  <2>5. QED
    BY <1>8, <2>4
<1>9. ASSUME UNCHANGED vars, ~ReadsReply PROVE Goal
  BY <1>2, <1>9 DEF vars
<1>10. QED
  BY <1>3, <1>4, <1>5, <1>6, <1>7, <1>8, <1>9, Zenon DEF Next, Reader

\* The webservice takes the first command and adds its reply as the last lines.
AnswersFirst(n) ==
    /\ n \in Numbers /\ 1 \in DOMAIN toServer /\ toServer[1] = n
    /\ socket = "open" /\ socket' = "open"
    /\ \A j \in DOMAIN toClient : j \in DOMAIN toClient' /\ toClient'[j] = toClient[j]
    /\ \A j \in DOMAIN toClient' \ DOMAIN toClient :
          /\ j > Len(toClient)
          /\ toClient'[j].what = "reply" /\ toClient'[j].of = n /\ toClient'[j].owner = NoOne
    /\ \E j \in DOMAIN toClient' : j > Len(toClient)
    /\ subscribed' = CASE Kind(n) = "listen" -> subscribed \cup {Owner(n)}
                       [] Kind(n) = "ignore" -> subscribed \ {Owner(n)}
                       [] OTHER -> subscribed
    /\ toServer' = Tail(toServer)
    /\ \A i \in DOMAIN toServer' : i + 1 \in DOMAIN toServer /\ toServer'[i] = toServer[i + 1]
    /\ \A i \in DOMAIN toServer : i > 1 => i - 1 \in DOMAIN toServer' /\ toServer'[i - 1] = toServer[i]

\* So it is with every answer.
LEMMA AnswersAre ==
  ASSUME Base, Answers
  PROVE  /\ \E n \in Numbers : AnswersFirst(n)
         /\ UNCHANGED <<cmds, treeVars, readVars, callVars, stage, stamp, trouble>>
<1>1. /\ toClient \in Seq(ReplyLine \cup ReportLine) /\ toServer \in Seq(Numbers)
      /\ toServer # <<>>
  BY DEF Base, TypeOK, Answers
<1>2. PICK n : n = Head(toServer)
  OBVIOUS
<1>3. /\ n \in Numbers /\ toServer[1] = n /\ 1 \in DOMAIN toServer
      /\ Tail(toServer) \in Seq(Numbers) /\ Len(Tail(toServer)) = Len(toServer) - 1
      /\ \A i \in 1..Len(Tail(toServer)) : Tail(toServer)[i] = toServer[i + 1]
  BY <1>1, <1>2, HeadTailProperties
<1>4. PICK r \in Replies(n) : toClient' = toClient \o r
  BY <1>2 DEF Answers
<1>5. /\ r \in Seq(ReplyLine) /\ Len(r) \in {1, 2}
      /\ \A i \in 1..Len(r) : r[i].what = "reply" /\ r[i].of = n
  BY <1>3, RepliesAre DEF Base
<1>6. ASSUME NEW i \in 1..Len(r) PROVE r[i].owner = NoOne
  <2>1. r[i] \in ReplyLine
    BY <1>5
  <2>2. QED
    BY <2>1 DEF ReplyLine
<1>7. /\ toServer' = Tail(toServer) /\ socket = "open" /\ socket' = "open"
      /\ subscribed' = CASE Kind(n) = "listen" -> subscribed \cup {Owner(n)}
                         [] Kind(n) = "ignore" -> subscribed \ {Owner(n)}
                         [] OTHER -> subscribed
      /\ UNCHANGED <<cmds, treeVars, readVars, callVars, stage, stamp, trouble>>
  BY <1>2 DEF Answers
<1>8. /\ \A i \in DOMAIN toServer' : i + 1 \in DOMAIN toServer /\ toServer'[i] = toServer[i + 1]
      /\ \A i \in DOMAIN toServer : i > 1 => i - 1 \in DOMAIN toServer' /\ toServer'[i - 1] = toServer[i]
  <2>1. /\ DOMAIN toServer = 1..Len(toServer) /\ Len(toServer) \in Nat
        /\ DOMAIN toServer' = 1..(Len(toServer) - 1)
    BY <1>1, <1>3, <1>7
  <2>2. \A i \in 1..(Len(toServer) - 1) : toServer'[i] = toServer[i + 1]
    BY <1>3, <1>7
  <2>3. ASSUME NEW i \in DOMAIN toServer, i > 1
        PROVE  i - 1 \in DOMAIN toServer' /\ toServer'[i - 1] = toServer[i]
    <3>1. i - 1 \in 1..(Len(toServer) - 1) /\ (i - 1) + 1 = i
      BY <2>1, <2>3
    <3>2. QED
      BY <2>1, <2>2, <3>1
  <2>4. QED
    BY <2>1, <2>2, <2>3
<1>9. /\ \A j \in DOMAIN toClient : j \in DOMAIN toClient' /\ toClient'[j] = toClient[j]
      /\ \A j \in DOMAIN toClient' \ DOMAIN toClient :
            /\ j > Len(toClient)
            /\ toClient'[j].what = "reply" /\ toClient'[j].of = n /\ toClient'[j].owner = NoOne
      /\ \E j \in DOMAIN toClient' : j > Len(toClient)
  <2>1. /\ Len(toClient) \in Nat /\ DOMAIN toClient = 1..Len(toClient)
        /\ DOMAIN toClient' = 1..(Len(toClient) + Len(r))
        /\ \A j \in 1..Len(toClient) : toClient'[j] = toClient[j]
        /\ \A j \in 1..(Len(toClient) + Len(r)) : j > Len(toClient) => toClient'[j] = r[j - Len(toClient)]
    BY <1>1, <1>4, <1>5
  <2>2. \A j \in 1..(Len(toClient) + Len(r)) : j > Len(toClient) => j - Len(toClient) \in 1..Len(r)
    BY <1>5, <2>1
  <2>3. Len(toClient) + 1 \in DOMAIN toClient'
    BY <1>5, <2>1
  <2>4. QED
    BY <1>5, <1>6, <2>1, <2>2, <2>3
<1>10. AnswersFirst(n)
  BY <1>3, <1>7, <1>8, <1>9, Zenon DEF AnswersFirst
<1>11. QED
  BY <1>3, <1>7, <1>10

\* Who listens and waits for the answer has a handle that is connecting; who
\* ignores is closing his.
LEMMA FirstIsOf ==
  ASSUME Base, CommandIsOwn, LockIsHeld, StagesAgree, RepliesAreAwaited, ~trouble,
         NEW i \in DOMAIN toServer, IsSync(toServer[i])
  PROVE  \E c \in Callers :
            /\ Busy(c) /\ own[c] = toServer[i] /\ doing[c] = Kind(toServer[i])
            /\ forOwner[c] = Owner(toServer[i])
            /\ Kind(toServer[i]) = "listen" => stage[Owner(toServer[i])] = "connecting"
            /\ Kind(toServer[i]) = "ignore" => Closing(c)
<1>1. Awaited(toServer[i])
  BY DEF RepliesAreAwaited, Fresh
<1>2. PICK c \in Callers : own[c] = toServer[i] /\ cpc[c] \in {"wait", "expired"}
  BY <1>1 DEF Awaited
<1>3. Busy(c) /\ Issued(c) /\ cpc[c] # "idle"
  BY <1>2 DEF Busy, Issued, Live
<1>4. Kind(own[c]) = doing[c] /\ Owner(own[c]) = forOwner[c]
  BY <1>3 DEF CommandIsOwn
<1>5. QED
  BY <1>2, <1>3, <1>4 DEF StagesAgree, Closing

\* Where no report comes none will, unless the handle listens again.
LEMMA QuietAfterStep ==
  ASSUME Base, CommandIsOwn, LockIsHeld, StagesAgree, RepliesAreAwaited, ~trouble, [Next]_vars,
         NEW p \in Owners, stage[p] # "connecting", NEW i \in Nat, QuietAfter(p, i)
  PROVE  /\ QuietAfter(p, i)'
         /\ \A d \in {0, 1}, h \in Nat : ClientGoesOn(d) /\ i = h + d => QuietAfter(p, h)'
<1>1. /\ toClient \in Seq(ReplyLine \cup ReportLine) /\ DOMAIN toClient \subseteq Nat
      /\ NoOne \notin Owners
  BY NoOneAssumption DEF Base, TypeOK
<1>2. toClient' \in Seq((ReplyLine \cup ReportLine)')
  BY LineTypesStep
<1>3. DOMAIN toClient' \subseteq Nat
  BY <1>2
<1>4. ASSUME NEW d \in {0, 1}, NEW h \in Nat, ClientGoesOn(d), h + d >= i PROVE QuietAfter(p, h)'
  <2>1. ~(socket' = "open" /\ p \in subscribed')
    BY <1>4 DEF ClientGoesOn, QuietAfter
  <2>2. ASSUME NEW j \in DOMAIN toClient', j > h PROVE toClient'[j].owner # p
    <3>1. CASE j + d \in DOMAIN toClient /\ toClient'[j] = toClient[j + d]
      <4>1. j + d > i
        BY <1>3, <1>4, <2>2
      <4>2. QED
        BY <3>1, <4>1 DEF QuietAfter
    <3>2. CASE socket = "open" /\ toClient'[j].owner \in subscribed
      BY <3>2 DEF QuietAfter
    <3>3. QED
      BY <3>1, <3>2, <1>4 DEF ClientGoesOn
  <2>3. QED
    BY <2>1, <2>2 DEF QuietAfter
<1>5. CASE Answers
  <2>1. PICK n \in Numbers : AnswersFirst(n)
    BY <1>5, AnswersAre
  <2>2. p \notin subscribed'
    <3>1. CASE Kind(n) = "listen"
      <4>1. stage[Owner(n)] = "connecting"
        BY <2>1, <3>1, FirstIsOf DEF AnswersFirst, IsSync, Sync
      <4>2. QED
        BY <2>1, <3>1, <4>1 DEF AnswersFirst, QuietAfter
    <3>2. CASE Kind(n) # "listen"
      BY <2>1, <3>2 DEF AnswersFirst, QuietAfter
    <3>3. QED
      BY <3>1, <3>2
  <2>3. ASSUME NEW j \in DOMAIN toClient', j > i PROVE toClient'[j].owner # p
    BY <1>1, <2>1, <2>3 DEF AnswersFirst, QuietAfter
  <2>4. QuietAfter(p, i)'
    BY <2>2, <2>3 DEF QuietAfter
  <2>5. QED
    BY <1>4, <2>4
<1>6. ASSUME NEW d \in {0, 1}, ClientGoesOn(d) PROVE QuietAfter(p, i)'
  <2>1. i + d >= i
    OBVIOUS
  <2>2. QED
    BY <1>4, <1>6, <2>1
<1>7. QED
  BY <1>4, <1>5, <1>6, ClientStep

\* Nor will one that the read thread has in hand.
LEMMA QuietStep ==
  ASSUME Base, CommandIsOwn, LockIsHeld, StagesAgree, RepliesAreAwaited, ~trouble, [Next]_vars,
         NEW p \in Owners, stage[p] # "connecting", Quiet(p)
  PROVE  Quiet(p)'
<1>1. QuietAfter(p, 0)'
  BY QuietAfterStep DEF Quiet
<1>2. toClient \in Seq(ReplyLine \cup ReportLine)
  BY DEF Base, TypeOK
<1>3. rpc' = "report" => ReadsReport \/ (rpc = "report" /\ rline' = rline)
  BY ReportStep
<1>4. CASE ReadsReport
  <2>1. toClient # <<>> /\ rline' = toClient[1] /\ 1 \in DOMAIN toClient
    BY <1>2, <1>4, HeadTailProperties DEF ReadsReport
  <2>2. QED
    BY <1>1, <2>1 DEF Quiet, QuietAfter
<1>5. QED
  BY <1>1, <1>3, <1>4 DEF Quiet

\* What brings a handle's stage to "closed" found no listener that is answered.
LEMMA ReportsStopStep ==
  ASSUME Base, CommandIsOwn, LockIsHeld, ClosedIsEmpty, StagesAgree, RepliesAreAwaited,
         RepliesAreAwaited', ReportsStop, [Next]_vars
  PROVE  ReportsStop'
<1> SUFFICES ASSUME ~trouble' PROVE ReportsStop'
  BY DEF ReportsStop
<1>1. /\ trouble \in BOOLEAN /\ toClient \in Seq(ReplyLine \cup ReportLine)
      /\ 0 \notin Numbers /\ Len(cmds) + 1 \notin Numbers
      /\ \A c \in Callers : cpc[c] # "idle" => forOwner[c] \in Owners
  BY DEF Base, TypeOK, CommandOfCaller, Numbers
<1>2. ~trouble
  BY <1>1, TroubleStep
<1>3. /\ \A p \in Owners : stage[p] = "closed" => Quiet(p)
      /\ \A c \in Callers : Ignored(c) => Quiet(forOwner[c])
      /\ \A c \in Callers, i \in DOMAIN toClient :
            Closing(c) /\ toClient[i].what = "reply" /\ toClient[i].of = own[c]
                => QuietAfter(forOwner[c], i)
  BY <1>2 DEF ReportsStop
<1>4. \A p \in Owners : stage[p] # "connecting" /\ Quiet(p) => Quiet(p)'
  BY <1>2, QuietStep
<1>5. \A c \in Callers : Closing(c) => /\ forOwner[c] \in Owners /\ stage[forOwner[c]] = "closing"
                                      /\ stage[forOwner[c]] # "connecting"
  BY <1>1 DEF StagesAgree, Closing
<1>6. ASSUME NEW p \in Owners, stage'[p] = "closed" PROVE Quiet(p)'
  <2>1. CASE stage[p] = "closed"
    BY <1>3, <1>4, <2>1
  <2>2. CASE stage[p] = "open" /\ rpc = "done"
    <3>1. Quiet(p)
      BY <2>2 DEF ClosedIsEmpty, Quiet, QuietAfter
    <3>2. QED
      BY <1>4, <2>2, <3>1
  <2>3. CASE \E c \in Callers : (cpc[c] = "cleanup" \/ cpc[c] = "failed") /\ forOwner[c] = p
    <3>1. PICK c \in Callers : cpc[c] = "cleanup" /\ forOwner[c] = p
      BY <1>2, <2>3 DEF StagesAgree
    <3>2. Ignored(c)
      BY <3>1 DEF Ignored, Closing, CommandIsOwn
    <3>3. QED
      BY <1>3, <1>4, <1>5, <3>1, <3>2 DEF Ignored
  <2>4. QED
    BY <1>6, <2>1, <2>2, <2>3, HandleCloses DEF ClosedBefore
<1>7. ASSUME NEW c \in Callers, Ignored(c)' PROVE Quiet(forOwner[c])'
  <2>1. CASE Ignored(c) /\ forOwner'[c] = forOwner[c]
    <3>1. PICK p \in Owners : p = forOwner[c] /\ stage[p] # "connecting"
      BY <1>5, <2>1 DEF Ignored
    <3>2. Quiet(p)
      BY <1>3, <2>1, <3>1
    <3>3. Quiet(p)' /\ forOwner'[c] = p
      BY <1>4, <2>1, <3>1, <3>2
    <3>4. QED
      BY <3>3, Zenon
  <2>2. CASE ReadsIgnored(c)
    <3>1. /\ ReadsReply /\ Closing(c) /\ forOwner'[c] = forOwner[c] /\ own'[c] = own[c]
          /\ rcmd' = own[c] /\ rpc' = "notify"
      BY <2>2 DEF ReadsIgnored
    <3>2. /\ toClient # <<>> /\ rline' = toClient[1] /\ 1 \in DOMAIN toClient
          /\ toClient[1].what = "reply" /\ rcmd' \in pending /\ cmds' = cmds
      BY <1>1, <3>1, HeadTailProperties DEF ReadsReply, Matches
    <3>3. Issued(c) /\ IsSync(own[c])
      <4>1. own[c] # 0
        BY <1>1, <3>1, <3>2 DEF Base, TypeOK
      <4>2. Issued(c)
        BY <4>1 DEF Base, CommandOfCaller
      <4>3. Kind(own[c]) = "ignore"
        BY <3>1, <4>2 DEF CommandIsOwn, Closing
      <4>4. QED
        BY <4>2, <4>3 DEF IsSync, Sync
    <3>4. IsSync(rcmd)'
      BY <3>1, <3>2, <3>3 DEF IsSync, Kind
    <3>5. rline'.of = own[c]
      BY <3>1, <3>4 DEF RepliesAreAwaited, Fresh
    <3>6. QuietAfter(forOwner[c], 1)
      BY <1>3, <3>1, <3>2, <3>5
    <3>7. PICK p \in Owners : p = forOwner[c] /\ stage[p] # "connecting"
      BY <1>5, <3>1
    <3>8. ClientGoesOn(1)
      <4>1. ~Answers
        BY <3>1, AnswersAre DEF ReadsReply, ReaderAt
      <4>2. QED
        BY <3>1, <4>1, ClientStep
    <3>9. 1 \in Nat /\ 0 \in Nat /\ 1 = 0 + 1 /\ 1 \in {0, 1}
      OBVIOUS
    <3>10. QuietAfter(p, 0)'
      BY <1>2, <3>6, <3>7, <3>8, <3>9, QuietAfterStep
    <3>11. Quiet(p)' /\ forOwner'[c] = p
      BY <3>1, <3>7, <3>10 DEF Quiet
    <3>12. QED
      BY <3>11, Zenon
  <2>3. QED
    BY <1>7, <2>1, <2>2, IgnoredStep DEF IgnoredBefore
<1>8. ASSUME NEW c \in Callers, NEW i \in DOMAIN toClient',
             Closing(c)', toClient'[i].what = "reply", toClient'[i].of = own'[c]
      PROVE  QuietAfter(forOwner[c], i)'
  <2>1. \A j \in DOMAIN toClient : toClient[j].what = "reply" => toClient[j].of \in Numbers
    <3>1. \A j \in DOMAIN toClient : toClient[j] \in ReplyLine \cup ReportLine
      BY <1>1
    <3>2. QED
      BY <3>1 DEF ReplyLine, ReportLine
  <2>2. i \in Nat
    <3>1. toClient' \in Seq((ReplyLine \cup ReportLine)')
      BY LineTypesStep
    <3>2. QED
      BY <3>1
  <2>3. CASE Answers
    <3>1. PICK n \in Numbers : AnswersFirst(n)
      BY <2>3, AnswersAre
    <3>2. UNCHANGED <<own, cpc, doing, forOwner>>
      BY <2>3, AnswersAre
    <3>3. Closing(c) /\ forOwner'[c] = forOwner[c] /\ own'[c] = own[c]
      BY <1>8, <3>2 DEF Closing
    <3>4. CASE i \in DOMAIN toClient
      <4>1. QuietAfter(forOwner[c], i)
        BY <1>3, <1>8, <3>1, <3>3, <3>4 DEF AnswersFirst
      <4>2. PICK p \in Owners : p = forOwner[c] /\ stage[p] # "connecting"
        BY <1>5, <3>3
      <4>3. QuietAfter(p, i)' /\ forOwner'[c] = p
        BY <1>2, <2>2, <3>3, <4>1, <4>2, QuietAfterStep
      <4>4. QED
        BY <4>3, Zenon
    <3>5. CASE i \notin DOMAIN toClient
      <4>1. n = own[c] /\ i > Len(toClient)
        BY <1>8, <3>1, <3>3, <3>5 DEF AnswersFirst
      <4>2. Kind(n) = "ignore" /\ Owner(n) = forOwner[c]
        <5>1. Issued(c)
          BY <1>1, <4>1 DEF Base, CommandOfCaller
        <5>2. QED
          BY <3>3, <4>1, <5>1 DEF CommandIsOwn, Closing
      <4>3. forOwner[c] \notin subscribed'
        BY <3>1, <4>2, "listen" # "ignore" DEF AnswersFirst
      <4>4. ASSUME NEW j \in DOMAIN toClient', j > i PROVE toClient'[j].owner # forOwner[c]
        <5>1. DOMAIN toClient = 1..Len(toClient) /\ Len(toClient) \in Nat
          BY <1>1
        <5>2. j \in DOMAIN toClient' \ DOMAIN toClient
          BY <2>2, <4>1, <4>4, <5>1
        <5>3. QED
          BY <1>5, <3>1, <3>3, <5>2, NoOneAssumption DEF AnswersFirst
      <4>5. PICK p \in Owners : p = forOwner[c] /\ p = forOwner'[c]
        BY <1>5, <3>3
      <4>6. QuietAfter(p, i)' /\ forOwner'[c] = p
        BY <4>3, <4>4, <4>5 DEF QuietAfter
      <4>7. QED
        BY <4>6, Zenon
    <3>6. QED
      BY <3>4, <3>5
  <2>4. ASSUME NEW d \in {0, 1}, ClientGoesOn(d) PROVE QuietAfter(forOwner[c], i)'
    <3>1. i + d \in DOMAIN toClient /\ toClient'[i] = toClient[i + d]
      BY <1>8, <2>4 DEF ClientGoesOn
    <3>2. own'[c] \in Numbers
      BY <1>8, <2>1, <3>1
    <3>3. Closing(c) /\ forOwner'[c] = forOwner[c] /\ own'[c] = own[c]
      BY <1>1, <1>8, <3>2, OwnOfClose DEF OwnBefore
    <3>4. QuietAfter(forOwner[c], i + d)
      BY <1>3, <1>8, <3>1, <3>3
    <3>5. i + d \in Nat
      BY <2>2
    <3>6. PICK p \in Owners : p = forOwner[c] /\ stage[p] # "connecting"
      BY <1>5, <3>3
    <3>7. QuietAfter(p, i)' /\ forOwner'[c] = p
      BY <1>2, <2>2, <2>4, <3>3, <3>4, <3>5, <3>6, QuietAfterStep
    <3>8. QED
      BY <3>7, Zenon
  <2>5. QED
    BY <2>3, <2>4, ClientStep
<1>9. QED
  BY <1>6, <1>7, <1>8 DEF ReportsStop

-----------------------------------------------------------------------------
(* No command of it. *)

\* No set of the owner is pending, nor is one with the read thread.
Clear(o) ==
    PendingOf(o) = {} /\ (rpc = "notify" => Kind(rcmd) # "set" \/ Owner(rcmd) # o)

\* The command n, or its reply, is on its way ahead of the place i.
SentAhead(n, i) == \E j \in DOMAIN toServer : j < i /\ toServer[j] = n
Answered(n, i) ==
    \E j \in DOMAIN toClient : j < i /\ toClient[j].what = "reply" /\ toClient[j].of = n
InServer(n) == \E j \in DOMAIN toServer : toServer[j] = n
InClient(n) == \E j \in DOMAIN toClient : toClient[j].what = "reply" /\ toClient[j].of = n

\* When the read thread has dealt with the end of the socket, only a caller that
\* has come since has a command in the tree.
DrainedIsSync == rpc \in {"cleanup", "done"} => \A n \in pending : IsSync(n)

\* While the socket is open, an asynchronous command that is pending is on its
\* way, or its reply is.
SetsAreSent ==
    socket = "open" => \A n \in pending : ~IsSync(n) => InServer(n) \/ InClient(n)

\* The sets of a handle go out before the ignore of its close,
SentBeforeIgnore ==
    \A c \in Callers, i \in DOMAIN toServer :
        Closing(c) /\ toServer[i] = own[c]
            => \A n \in PendingOf(forOwner[c]) : SentAhead(n, i) \/ InClient(n)

\* and are answered before it.
AnsweredBeforeIgnore ==
    \A c \in Callers, i \in DOMAIN toClient :
        Closing(c) /\ toClient[i].what = "reply" /\ toClient[i].of = own[c]
            => \A n \in PendingOf(forOwner[c]) : Answered(n, i)

\* So the handle has none when the ignore has been answered, nor ever after.
SetsEnd ==
    ~trouble /\ ~Misnumbered =>
        /\ SetsAreSent /\ SentBeforeIgnore /\ AnsweredBeforeIgnore
        /\ \A c \in Callers : Ignored(c) => Clear(forOwner[c])
        /\ \A o \in Owners : stage[o] = "closed" => Clear(o)

\* Nobody but a caller adds to the tree when the socket is closed.
LEMMA DrainedStep ==
  ASSUME Base, ClosedIsEmpty, DrainedIsSync, [Next]_vars
  PROVE  DrainedIsSync'
<1>1. /\ pending \subseteq Numbers
      /\ \A n \in Numbers : IsSync(n)' = IsSync(n)
      /\ rpc \in {"cleanup", "done"} => socket = "closed"
  BY CmdsKept DEF Base, TypeOK, ClosedIsEmpty
<1>2. ASSUME pending' \subseteq pending, rpc' \in {"cleanup", "done"} => rpc \in {"cleanup", "done"}
      PROVE  DrainedIsSync'
  BY <1>1, <1>2 DEF DrainedIsSync
<1>3. ASSUME NEW k \in Callers, CmdAdds(k)
      PROVE  DrainedIsSync'
  <2>1. PICK n : n = Len(cmds) + 1 /\ pending' = pending \cup {n} /\ rpc' = rpc
    BY <1>3 DEF CmdAdds, Insert
  <2>2. doing[k] \in Sync /\ doing[k] \in Kinds /\ forOwner[k] \in Owners \cup {NoOne}
    BY DEF Base, TypeOK, Kinds
  <2>3. cmds'[n].kind = doing[k]
    BY <1>3, <2>1, <2>2, IssueExtends DEF CmdAdds, Base
  <2>4. IsSync(n)'
    BY <2>2, <2>3 DEF IsSync, Kind
  <2>5. QED
    BY <1>1, <2>1, <2>4 DEF DrainedIsSync
<1>4. ASSUME NEW o \in Owners, AsyncSet(o)
      PROVE  DrainedIsSync'
  BY <1>4, <1>1, <1>2
     DEF AsyncSet, Sends, SendFails, Writable, DrainedIsSync
<1>5. CASE Authorize
  BY <1>5, <1>1, <1>2
     DEF Authorize, Sends, SendFails, Writable, DrainedIsSync
<1>6. CASE AuthorizationGoesOn
  BY <1>6, <1>2
     DEF AuthorizationGoesOn, ReaderAt, NoLine, DrainedIsSync
<1>7. CASE DrainEnds
  BY <1>7, <1>2
     DEF DrainEnds, ReaderAt, DrainedIsSync
<1>8. CASE CleanedUp
  BY <1>8, <1>1, <1>2
     DEF CleanedUp, ReaderAt, DrainedIsSync
<1>9. CASE ReadsReply
  BY <1>9, <1>2
     DEF ReadsReply, ReaderAt, Remove
<1>10. ASSUME NEW k \in Callers, CmdForgets(k)
       PROVE  DrainedIsSync'
  BY <1>10, <1>2
     DEF CmdForgets, Remove
<1>11. ASSUME NEW k \in Callers, CleanupReports(k)
       PROVE  DrainedIsSync'
  BY <1>11, <1>2
     DEF CleanupReports, CallerAt, Remove
<1>12. CASE FinishesCaller
  BY <1>12, <1>2
     DEF FinishesCaller, Remove
<1>13. CASE FinishesAsync
  BY <1>13, <1>2
     DEF FinishesAsync, Remove
<1>14. CASE \/ DropsLine \/ ReadsReport \/ ReportReturns \/ NotifiesCaller
            \/ NotifiesOwner \/ AuthorizationEnds \/ ReadEnds \/ PuClose
            \/ Answers \/ PeerCloses
  BY <1>14, <1>2
     DEF DropsLine, ReadsReport, ReaderAt, ReportReturns, NoLine,
         NotifiesCaller, NotifiesOwner, AuthorizationEnds, ReadEnds, PuClose,
         Answers, PeerCloses
<1>15. ASSUME NEW k \in Callers,
              \/ CmdWrites(k) \/ CmdWriteFails(k) \/ CmdIsAnswered(k)
              \/ CallReturns(k) \/ CleanupReturns(k) \/ CmdTimesOut(k)
       PROVE  DrainedIsSync'
  BY <1>15, <1>2
     DEF CmdWrites, CallerAt, CmdWriteFails, CmdIsAnswered, CallReturns,
         NoAnswer, CleanupReturns, CmdTimesOut
<1>16. ASSUME NEW k \in Callers, NEW kind \in Sync, NEW o \in Owners, Calls(k, kind, o)
       PROVE  DrainedIsSync'
  BY <1>16, <1>2
     DEF Calls, CallerAt
<1>17. ASSUME NEW o \in Owners,
              \/ Formats(o) \/ CloseWithoutServer(o) \/ Reports(o)
       PROVE  DrainedIsSync'
  BY <1>17, <1>2
     DEF Formats, CloseWithoutServer, Reports
<1>18. CASE UNCHANGED vars
  BY <1>18, <1>2
     DEF vars
<1>19. QED
  BY <1>3, <1>4, <1>5, <1>6, <1>7, <1>8, <1>9, <1>10, <1>11, <1>12, <1>13,
     <1>14, <1>15, <1>16, <1>17, <1>18
     DEF Next, Reader, CallContinues

\* Tags that are right were right before.
LEMMA TagsStep ==
  ASSUME Base, [Next]_vars, ~Misnumbered'
  PROVE  ~Misnumbered
BY CmdsKept DEF Misnumbered, Base

\* A handle gets a command only by a set that was formatted.
LEMMA SetsStep ==
  ASSUME Base, [Next]_vars, NEW p \in Owners, stamp[p] = 0
  PROVE  PendingOf(p)' \subseteq PendingOf(p)
<1>1. /\ pending \subseteq Numbers
      /\ \A n \in Numbers : Kind(n)' = Kind(n) /\ Owner(n)' = Owner(n)
      /\ "set" \notin Sync /\ NoOne \notin Owners
      /\ TypeOK /\ NextTag \in Nat /\ {"set", "authenticate", "password"} \subseteq Kinds
      /\ stamp \in [Owners -> Nat]
  BY CmdsKept, NextTagType, NoOneAssumption DEF Base, TypeOK, Kind, Owner, Kinds, Auth, Sync
<1>2. PICK m : m = Len(cmds) + 1
  OBVIOUS
<1>3. ASSUME \/ pending' \subseteq pending
             \/ pending' = pending \cup {m} /\ ~(Kind(m)' = "set" /\ Owner(m)' = p)
      PROVE  PendingOf(p)' \subseteq PendingOf(p)
  BY <1>1, <1>3 DEF PendingOf
<1>4. ASSUME NEW kind \in Kinds, NEW x \in Owners \cup {NoOne}, NEW text \in Nat,
             Issue(kind, x, text), kind # "set" \/ x # p
      PROVE  ~(Kind(m)' = "set" /\ Owner(m)' = p)
  BY <1>1, <1>2, <1>4, IssueExtends DEF Kind, Owner
<1>5. ASSUME NEW k \in Callers, CmdAdds(k)
      PROVE  PendingOf(p)' \subseteq PendingOf(p)
  <2>1. doing[k] \in Sync /\ doing[k] \in Kinds /\ forOwner[k] \in Owners \cup {NoOne} /\ 0 \in Nat
    BY DEF Base, TypeOK, Kinds
  <2>2. Issue(doing[k], forOwner[k], 0) /\ pending' = pending \cup {m} /\ doing[k] # "set"
    BY <1>5, <1>1, <1>2, <2>1 DEF CmdAdds, Insert
  <2>3. QED
    BY <1>3, <1>4, <2>1, <2>2
<1>6. ASSUME NEW o \in Owners, AsyncSet(o)
      PROVE  PendingOf(p)' \subseteq PendingOf(p)
  <2>1. CASE Sends("set", o, stamp[o])
    <3>1. Issue("set", o, stamp[o]) /\ pending' = pending \cup {m} /\ o # p /\ stamp[o] \in Nat
      BY <1>6, <1>1, <1>2, <2>1 DEF AsyncSet, Sends, Insert
    <3>2. QED
      BY <1>1, <1>3, <1>4, <3>1
  <2>2. CASE SendFails("set", o, stamp[o])
    BY <1>3, <2>2 DEF SendFails
  <2>3. QED
    BY <1>6, <2>1, <2>2 DEF AsyncSet
<1>7. CASE Authorize
  <2>1. Issue("authenticate", NoOne, NextTag) /\ pending' \in {pending, pending \cup {m}}
    BY <1>7, <1>2 DEF Authorize, Sends, SendFails, Insert
  <2>2. QED
    BY <1>1, <1>3, <1>4, <2>1
<1>8. CASE AuthorizationGoesOn
  <2>1. Issue("password", NoOne, NextTag) /\ pending' \in {pending, pending \cup {m}}
    BY <1>8, <1>2 DEF AuthorizationGoesOn, Insert
  <2>2. QED
    BY <1>1, <1>3, <1>4, <2>1
<1>9. CASE ReadsReply
  BY <1>9, <1>3
     DEF ReadsReply, ReaderAt, Remove
<1>10. ASSUME NEW k \in Callers, CmdForgets(k)
       PROVE  PendingOf(p)' \subseteq PendingOf(p)
  BY <1>10, <1>3
     DEF CmdForgets, Remove
<1>11. ASSUME NEW k \in Callers, CleanupReports(k)
       PROVE  PendingOf(p)' \subseteq PendingOf(p)
  BY <1>11, <1>3
     DEF CleanupReports, CallerAt, Remove
<1>12. CASE FinishesCaller
  BY <1>12, <1>3
     DEF FinishesCaller, Remove
<1>13. CASE FinishesAsync
  BY <1>13, <1>3
     DEF FinishesAsync, Remove
<1>14. CASE \/ DropsLine \/ ReadsReport \/ ReportReturns \/ NotifiesCaller
            \/ NotifiesOwner \/ AuthorizationEnds \/ ReadEnds \/ DrainEnds
            \/ CleanedUp \/ PuClose \/ Answers \/ PeerCloses
  BY <1>14, <1>3
     DEF DropsLine, ReadsReport, ReaderAt, ReportReturns, NoLine,
         NotifiesCaller, NotifiesOwner, AuthorizationEnds, ReadEnds,
         DrainEnds, CleanedUp, PuClose, Answers, PeerCloses
<1>15. ASSUME NEW k \in Callers,
              \/ CmdWrites(k) \/ CmdWriteFails(k) \/ CmdIsAnswered(k)
              \/ CallReturns(k) \/ CleanupReturns(k) \/ CmdTimesOut(k)
       PROVE  PendingOf(p)' \subseteq PendingOf(p)
  BY <1>15, <1>3
     DEF CmdWrites, CallerAt, CmdWriteFails, CmdIsAnswered, CallReturns,
         NoAnswer, CleanupReturns, CmdTimesOut
<1>16. ASSUME NEW k \in Callers, NEW kind \in Sync, NEW o \in Owners, Calls(k, kind, o)
       PROVE  PendingOf(p)' \subseteq PendingOf(p)
  BY <1>16, <1>3
     DEF Calls, CallerAt
<1>17. ASSUME NEW o \in Owners,
              \/ Formats(o) \/ CloseWithoutServer(o) \/ Reports(o)
       PROVE  PendingOf(p)' \subseteq PendingOf(p)
  BY <1>17, <1>3
     DEF Formats, CloseWithoutServer, Reports
<1>18. CASE UNCHANGED vars
  BY <1>18, <1>3
     DEF vars
<1>19. QED
  BY <1>5, <1>6, <1>7, <1>8, <1>9, <1>10, <1>11, <1>12, <1>13, <1>14, <1>15,
     <1>16, <1>17, <1>18
     DEF Next, Reader, CallContinues

\* A handle without commands stays without, unless it sets a key.
LEMMA ClearStep ==
  ASSUME Base, [Next]_vars, NEW p \in Owners, stamp[p] = 0, Clear(p)
  PROVE  Clear(p)'
<1>1. PendingOf(p)' = {}
  BY SetsStep DEF Clear
<1>2. pending \subseteq Numbers /\ (rpc = "notify" => rcmd \in Numbers)
  BY DEF Base, TypeOK
<1>3. ASSUME rpc' = "notify" PROVE Kind(rcmd)' # "set" \/ Owner(rcmd)' # p
  <2>1. CASE ReadsReply
    <3>1. rcmd' \in pending /\ cmds' = cmds
      BY <2>1 DEF ReadsReply, Matches
    <3>2. QED
      BY <3>1 DEF Clear, PendingOf, Kind, Owner
  <2>2. CASE rpc = "notify" /\ rcmd' = rcmd
    <3>1. cmds'[rcmd] = cmds[rcmd]
      BY <1>2, <2>2, CmdsKept DEF Base
    <3>2. QED
      BY <2>2, <3>1 DEF Clear, Kind, Owner
  <2>3. QED
    BY <1>3, <2>1, <2>2, NotifyStep
<1>4. QED
  BY <1>1, <1>3 DEF Clear

\* All but the first d lines to the client stay.
ClientKeeps(d) ==
    \A j \in DOMAIN toClient : j > d => j - d \in DOMAIN toClient' /\ toClient'[j - d] = toClient[j]

\* The first line is taken.
TakesLine == ReadsReply \/ DropsLine \/ ReadsReport

\* Lines stay while the socket is not closed, but for the one that is taken.
LEMMA ClientKept ==
  ASSUME Base, [Next]_vars, socket' # "closed"
  PROVE  \/ ClientKeeps(1) /\ ClientGoesOn(1) /\ TakesLine
         \/ ClientKeeps(0) /\ ClientGoesOn(0) /\ ~TakesLine
         \/ ClientKeeps(0) /\ Answers /\ ~TakesLine
<1>1. /\ toClient \in Seq(ReplyLine \cup ReportLine)
      /\ DOMAIN toClient = 1..Len(toClient) /\ Len(toClient) \in Nat
      /\ \A j \in DOMAIN toClient : j - 0 = j
  BY DEF Base, TypeOK
<1>2. CASE TakesLine
  <2>1. /\ toClient # <<>> /\ toClient' = Tail(toClient)
        /\ UNCHANGED <<socket, subscribed>>
    BY <1>2 DEF TakesLine, ReadsReply, DropsLine, ReadsReport
  <2>2. /\ DOMAIN toClient' = 1..(Len(toClient) - 1)
        /\ \A j \in DOMAIN toClient' : toClient'[j] = toClient[j + 1]
    BY <1>1, <2>1, HeadTailProperties
  <2>3. \A j \in DOMAIN toClient : j > 1 => j - 1 \in DOMAIN toClient' /\ (j - 1) + 1 = j
    BY <1>1, <2>2
  <2>4. ClientKeeps(1)
    BY <2>2, <2>3 DEF ClientKeeps
  <2>5. \A j \in DOMAIN toClient' : j + 1 \in DOMAIN toClient
    BY <1>1, <2>2
  <2>6. ClientGoesOn(1)
    BY <2>1, <2>2, <2>5 DEF ClientGoesOn
  <2>7. QED
    BY <1>2, <2>4, <2>6
<1>3. CASE Answers
  <2>1. PICK n \in Numbers : AnswersFirst(n)
    BY <1>3, AnswersAre
  <2>2. ClientKeeps(0)
    BY <1>1, <2>1 DEF AnswersFirst, ClientKeeps
  <2>3. toClient' # Tail(toClient) \/ ~(toClient # <<>>)
    <3>1. Len(toClient) \in DOMAIN toClient' \/ toClient = <<>>
      BY <1>1, <2>1 DEF AnswersFirst
    <3>2. toClient # <<>> => Len(toClient) \notin DOMAIN Tail(toClient)
      BY <1>1, HeadTailProperties
    <3>3. QED
      BY <3>1, <3>2
  <2>4. ~TakesLine
    BY <2>3 DEF TakesLine, ReadsReply, DropsLine, ReadsReport
  <2>5. QED
    BY <1>3, <2>2, <2>4
<1>4. ASSUME ~TakesLine, ~Answers PROVE ClientKeeps(0) /\ ClientGoesOn(0)
  <2>1. PICK d \in {0, 1} : ClientGoesOn(d)
    BY <1>4, ClientStep
  <2>2. subscribed' = subscribed /\ (socket' = "open" => socket = "open")
    BY <2>1 DEF ClientGoesOn
  <2>3. ASSUME toClient' = toClient PROVE ClientKeeps(0) /\ ClientGoesOn(0)
    BY <1>1, <2>2, <2>3 DEF ClientKeeps, ClientGoesOn
  <2>4. ASSUME NEW p \in Owners, Reports(p) PROVE ClientKeeps(0) /\ ClientGoesOn(0)
    <3>1. PICK l : /\ l.what = "report" /\ l.owner = p
                   /\ toClient' = Append(toClient, l)
                   /\ socket = "open" /\ p \in subscribed
      BY <2>4 DEF Reports
    <3>2. /\ DOMAIN toClient' = 1..(Len(toClient) + 1)
          /\ \A j \in DOMAIN toClient : toClient'[j] = toClient[j]
          /\ toClient'[Len(toClient) + 1] = l
      BY <1>1, <3>1
    <3>3. ClientKeeps(0)
      BY <1>1, <3>2 DEF ClientKeeps
    <3>4. \A j \in DOMAIN toClient' : /\ j + 0 = j
                                      /\ j \in DOMAIN toClient \/ j = Len(toClient) + 1
      BY <1>1, <3>2
    <3>5. ClientGoesOn(0)
      BY <2>2, <3>1, <3>2, <3>4 DEF ClientGoesOn
    <3>6. QED
      BY <3>3, <3>5
  <2>5. CASE UNCHANGED toClient
    BY <2>3, <2>5
  <2>6. CASE Reader
    BY <1>4, <2>6, <2>3 DEF Reader, TakesLine, ReportReturns, NotifiesCaller, NotifiesOwner,
       AuthorizationEnds, AuthorizationGoesOn, ReadEnds, FinishesCaller, FinishesAsync,
       DrainEnds, CleanedUp
  <2>7. CASE PuClose
    BY <2>7 DEF PuClose
  <2>8. ASSUME NEW c \in Callers, CallContinues(c) \/ CmdTimesOut(c) PROVE UNCHANGED toClient
    BY <2>8 DEF CallContinues, CmdAdds, CmdWrites, CmdWriteFails, CmdForgets,
       CmdIsAnswered, CallReturns, CleanupReturns, CleanupReports, CmdTimesOut
  <2>9. ASSUME NEW c \in Callers, NEW kind \in Sync, NEW p \in Owners, Calls(c, kind, p)
        PROVE  UNCHANGED toClient
    BY <2>9 DEF Calls
  <2>10. ASSUME NEW p \in Owners, Formats(p) \/ AsyncSet(p) \/ CloseWithoutServer(p)
         PROVE  UNCHANGED toClient
    BY <2>10 DEF Formats, AsyncSet, CloseWithoutServer
  <2>11. CASE Authorize \/ PeerCloses \/ UNCHANGED vars
    BY <2>11, <2>3 DEF Authorize, PeerCloses, vars
  <2>12. QED
    BY <1>4, <2>4, <2>5, <2>6, <2>7, <2>8, <2>9, <2>10, <2>11, Zenon DEF Next
<1>5. QED
  BY <1>2, <1>3, <1>4

\* A command goes to the webservice behind the others, while the socket is open:
\* one that is given its number in the step, or that of a caller.
LEMMA ServerStep ==
  ASSUME Base, ClosedIsEmpty, [Next]_vars, socket' = "open", NEW n, n = Len(cmds) + 1
  PROVE  /\ socket = "open"
         /\ \/ Answers
            \/ toServer' = toServer /\ (n \in pending' => IsSync(n)')
            \/ toServer' = Append(toServer, n) /\ own' = own
            \/ \E c \in Callers : CmdWrites(c) /\ toServer' = Append(toServer, own[c])
<1>1. ClosedIsEmpty'
  BY ClosedStep
<1>2. pending' \subseteq pending \cup {n} /\ n \notin pending
  BY PendingStep DEF Base, TypeOK, Numbers
<1>3. socket = "open"
  <2>1. CASE Answers
    BY <2>1 DEF Answers
  <2>2. QED
    BY <2>1, ClientStep DEF ClientGoesOn
<1> DEFINE Kept == toServer' = toServer /\ (n \in pending' => IsSync(n)')
           Goal == \/ Answers \/ Kept
                   \/ toServer' = Append(toServer, n) /\ own' = own
                   \/ \E c \in Callers : CmdWrites(c) /\ toServer' = Append(toServer, own[c])
<1>4. ASSUME toServer' = toServer, pending' \subseteq pending PROVE Goal
  BY <1>2, <1>4
<1>5. ASSUME NEW c \in Callers, CallContinues(c) \/ CmdTimesOut(c) PROVE Goal
  <2>1. CASE CmdAdds(c)
    <3>1. doing[c] \in Sync /\ doing[c] \in Kinds /\ forOwner[c] \in Owners \cup {NoOne} /\ 0 \in Nat
      BY DEF Base, TypeOK, Kinds
    <3>2. Issue(doing[c], forOwner[c], 0) /\ toServer' = toServer
      BY <2>1 DEF CmdAdds
    <3>3. cmds'[n].kind = doing[c]
      BY <3>1, <3>2, IssueExtends DEF Base
    <3>4. IsSync(n)'
      BY <3>1, <3>3 DEF IsSync, Kind
    <3>5. QED
      BY <3>2, <3>4
  <2>2. CASE CmdWrites(c)
    BY <1>3, <2>2 DEF CmdWrites, Sent
  <2>3. CASE \/ CmdWriteFails(c) \/ CmdForgets(c) \/ CmdIsAnswered(c) \/ CallReturns(c)
             \/ CleanupReturns(c) \/ CleanupReports(c) \/ CmdTimesOut(c)
    BY <1>4, <2>3 DEF CmdWriteFails, CmdForgets, CmdIsAnswered, CallReturns,
       CleanupReturns, CleanupReports, CmdTimesOut, Remove
  <2>4. QED
    BY <1>5, <2>1, <2>2, <2>3 DEF CallContinues
<1>6. ASSUME NEW c \in Callers, NEW kind \in Sync, NEW p \in Owners, Calls(c, kind, p) PROVE Goal
  BY <1>4, <1>6 DEF Calls
<1>7. ASSUME NEW p \in Owners, Formats(p) \/ CloseWithoutServer(p) \/ Reports(p) PROVE Goal
  BY <1>4, <1>7 DEF Formats, CloseWithoutServer, Reports
<1>8. ASSUME NEW p \in Owners, AsyncSet(p) PROVE Goal
  <2>1. CASE Sends("set", p, stamp[p])
    BY <1>3, <1>8, <2>1 DEF AsyncSet, Sends, Sent
  <2>2. CASE SendFails("set", p, stamp[p])
    BY <1>3, <2>2 DEF SendFails
  <2>3. QED
    BY <1>8, <2>1, <2>2 DEF AsyncSet
<1>9. CASE Authorize
  BY <1>3, <1>9 DEF Authorize, Sends, SendFails, Sent
<1>10. CASE AuthorizationGoesOn
  BY <1>3, <1>10 DEF AuthorizationGoesOn, Sent
<1>11. CASE \/ ReadsReply \/ DropsLine \/ ReadsReport \/ ReportReturns \/ NotifiesCaller
            \/ NotifiesOwner \/ AuthorizationEnds \/ FinishesCaller \/ FinishesAsync
            \/ DrainEnds \/ CleanedUp
  BY <1>4, <1>11 DEF ReadsReply, DropsLine, ReadsReport, ReportReturns, NotifiesCaller,
     NotifiesOwner, AuthorizationEnds, FinishesCaller, FinishesAsync, DrainEnds, CleanedUp, Remove
<1>12. CASE ReadEnds \/ PuClose \/ PeerCloses
  BY <1>12 DEF ReadEnds, PuClose, PeerCloses
<1>13. CASE UNCHANGED vars
  BY <1>4, <1>13 DEF vars
<1>14. Goal
  BY <1>5, <1>6, <1>7, <1>8, <1>9, <1>10, <1>11, <1>12, <1>13, Zenon DEF Next, Reader
<1>15. QED
  BY <1>2, <1>3, <1>14


\* The reply to a command that stays pending is not taken.
LEMMA ReplyStays ==
  ASSUME Base, ~Misnumbered, [Next]_vars, NEW n \in pending, n \in pending', ~IsSync(n),
         NEW j \in DOMAIN toClient, toClient[j].what = "reply", toClient[j].of = n, TakesLine
  PROVE  j > 1
<1>1. /\ toClient \in Seq(ReplyLine \cup ReportLine) /\ pending \subseteq Numbers
      /\ n \in Numbers /\ cmds[n].text = Tag(n) /\ Tag(n) # 0 /\ DOMAIN toClient = 1..Len(toClient)
  BY TagType DEF Base, TypeOK, Misnumbered
<1> SUFFICES ASSUME j = 1 PROVE FALSE
  BY <1>1
<1>2. Head(toClient) = toClient[1]
  BY <1>1
<1>3. CASE ReadsReply
  <2>1. PICK m \in pending : rcmd' = m /\ Tag(m) = Tag(n)
    BY <1>1, <1>2, <1>3 DEF ReadsReply, Matches
  <2>2. ~IsSync(m)
    BY <1>1, <2>1, TagType DEF Base
  <2>3. m = n
    BY <1>1, <2>1, <2>2, TagIsOwn DEF Base, Asynchronous
  <2>4. toClient[1].code # "more"
    BY DEF Base, LinesFit, Fits
  <2>5. pending' = pending \ {n}
    BY <1>2, <1>3, <2>1, <2>3, <2>4 DEF ReadsReply, Remove
  <2>6. QED
    BY <2>5
<1>4. CASE DropsLine
  BY <1>1, <1>2, <1>4 DEF DropsLine, Matches
<1>5. CASE ReadsReport
  BY <1>2, <1>5 DEF ReadsReport
<1>6. QED
  BY <1>3, <1>4, <1>5 DEF TakesLine

\* The replies to all that stays pending move up by d places.
RepliesMove(d) ==
    /\ ClientKeeps(d) /\ (ClientGoesOn(d) \/ (d = 0 /\ Answers))
    /\ \A n \in pending, j \in DOMAIN toClient :
          n \in pending' /\ ~IsSync(n) /\ toClient[j].what = "reply" /\ toClient[j].of = n => j > d

\* By no place or by one.
LEMMA RepliesMoveStep ==
  ASSUME Base, ~Misnumbered, [Next]_vars, socket' # "closed"
  PROVE  \E d \in {0, 1} : RepliesMove(d)
<1>1. \A j \in DOMAIN toClient : j > 0
  BY DEF Base, TypeOK
<1>2. CASE TakesLine
  <2>1. ClientKeeps(1) /\ ClientGoesOn(1)
    BY <1>2, ClientKept
  <2>2. RepliesMove(1)
    BY <1>2, <2>1, ReplyStays DEF RepliesMove
  <2>3. QED
    BY <2>2
<1>3. CASE ~TakesLine
  <2>1. ClientKeeps(0) /\ (ClientGoesOn(0) \/ Answers)
    BY <1>3, ClientKept
  <2>2. RepliesMove(0)
    BY <1>1, <2>1 DEF RepliesMove
  <2>3. QED
    BY <2>2
<1>4. QED
  BY <1>2, <1>3

\* So none is lost.
LEMMA ReplyStaysIn ==
  ASSUME Base, ~Misnumbered, [Next]_vars, socket' # "closed",
         NEW n \in pending, n \in pending', ~IsSync(n), InClient(n)
  PROVE  InClient(n)'
<1>1. PICK d \in {0, 1} : RepliesMove(d)
  BY RepliesMoveStep
<1>2. PICK j \in DOMAIN toClient : toClient[j].what = "reply" /\ toClient[j].of = n
  BY DEF InClient
<1>3. j - d \in DOMAIN toClient' /\ toClient'[j - d] = toClient[j]
  BY <1>1, <1>2 DEF RepliesMove, ClientKeeps
<1>4. QED
  BY <1>2, <1>3 DEF InClient

\* A command on its way moves up, or is answered.
LEMMA SentStays ==
  ASSUME Base, ClosedIsEmpty, [Next]_vars, socket' = "open",
         NEW n, NEW j \in DOMAIN toServer, toServer[j] = n
  PROVE  \/ ~Answers /\ j \in DOMAIN toServer' /\ toServer'[j] = n
         \/ Answers /\ j > 1 /\ j - 1 \in DOMAIN toServer' /\ toServer'[j - 1] = n
         \/ Answers /\ j = 1 /\ InClient(n)'
<1>1. toServer \in Seq(Numbers) /\ j \in Nat /\ j >= 1
  BY DEF Base, TypeOK
<1>2. CASE Answers
  <2>1. PICK m \in Numbers : AnswersFirst(m)
    BY <1>2, AnswersAre
  <2>2. CASE j = 1
    <3>1. PICK i \in DOMAIN toClient' : i > Len(toClient)
      BY <2>1 DEF AnswersFirst
    <3>2. i \notin DOMAIN toClient
      BY <3>1 DEF Base, TypeOK
    <3>3. QED
      BY <1>2, <2>1, <2>2, <3>1, <3>2 DEF AnswersFirst, InClient
  <2>3. CASE j > 1
    BY <1>2, <2>1, <2>3 DEF AnswersFirst
  <2>4. QED
    BY <1>1, <2>2, <2>3
<1>3. CASE ~Answers
  <2>1. PICK m : m = Len(cmds) + 1
    OBVIOUS
  <2>2. toServer' = toServer \/ \E x : toServer' = Append(toServer, x)
    BY <1>3, <2>1, ServerStep
  <2>3. j \in DOMAIN toServer' /\ toServer'[j] = toServer[j]
    BY <1>1, <2>2
  <2>4. QED
    BY <1>3, <2>3
<1>4. QED
  BY <1>2, <1>3

\* The sets are sent after every step.
LEMMA SentStep ==
  ASSUME Base, ClosedIsEmpty, ~Misnumbered, SetsAreSent, [Next]_vars
  PROVE  SetsAreSent'
<1> SUFFICES ASSUME socket' = "open", NEW n \in pending', ~IsSync(n)'
             PROVE  InServer(n)' \/ InClient(n)'
  BY DEF SetsAreSent
<1>1. PICK new : new = Len(cmds) + 1
  OBVIOUS
<1>2. /\ socket = "open" /\ pending \subseteq Numbers /\ new \notin Numbers
      /\ toServer \in Seq(Numbers) /\ new \in Nat
      /\ \A i \in Numbers : IsSync(i)' = IsSync(i)
  <2>1. /\ pending \subseteq Numbers /\ toServer \in Seq(Numbers)
        /\ new \in Nat /\ new \notin Numbers
    BY <1>1 DEF Base, TypeOK, Numbers
  <2>2. socket = "open"
    BY <1>1, ServerStep
  <2>3. \A i \in Numbers : IsSync(i)' = IsSync(i)
    BY CmdsKept DEF Base
  <2>4. QED
    BY <2>1, <2>2, <2>3
<1>3. CASE n \in pending
  <2>1. ~IsSync(n) /\ (InServer(n) \/ InClient(n))
    BY <1>2, <1>3 DEF SetsAreSent
  <2>2. CASE InClient(n)
    BY <1>3, <2>1, <2>2, ReplyStaysIn
  <2>3. CASE InServer(n)
    BY <2>3, SentStays DEF InServer
  <2>4. QED
    BY <2>1, <2>2, <2>3
<1>4. CASE n = new
  <2>1. ~Answers /\ \A c \in Callers : ~CmdWrites(c)
    BY <1>2, <1>4 DEF Answers, CmdWrites
  <2>2. toServer' = Append(toServer, n)
    BY <1>1, <1>4, <2>1, ServerStep
  <2>3. Len(toServer) + 1 \in DOMAIN toServer' /\ toServer'[Len(toServer) + 1] = n
    BY <1>2, <2>2
  <2>4. QED
    BY <2>3 DEF InServer
<1>5. QED
  BY <1>1, <1>3, <1>4, PendingStep

\* Who closes a handle that had a command before adds none to it.
LEMMA CloseKeeps ==
  ASSUME Base, StagesAgree, [Next]_vars, NEW c \in Callers, Closing(c)', own'[c] \in Numbers
  PROVE  /\ Closing(c) /\ forOwner'[c] = forOwner[c] /\ own'[c] = own[c]
         /\ forOwner[c] \in Owners /\ stamp[forOwner[c]] = 0
         /\ \A n \in PendingOf(forOwner[c])' :
               n \in PendingOf(forOwner[c]) /\ n \in pending /\ n \in pending' /\ ~IsSync(n)
<1>1. Closing(c) /\ forOwner'[c] = forOwner[c] /\ own'[c] = own[c]
  <2>1. 0 \notin Numbers /\ Len(cmds) + 1 \notin Numbers
    BY DEF Base, TypeOK, Numbers
  <2>2. OwnBefore(c)
    BY OwnOfClose
  <2>3. \/ Closing(c) /\ forOwner'[c] = forOwner[c] /\ own'[c] = own[c]
        \/ own'[c] \notin Numbers
    BY <2>1, <2>2 DEF OwnBefore
  <2>4. QED
    BY <2>3
<1>2. PICK p \in Owners : p = forOwner[c] /\ stamp[p] = 0
  BY <1>1 DEF StagesAgree, Closing, Base, CommandOfCaller
<1>3. \A n \in PendingOf(p)' : n \in PendingOf(p) /\ n \in pending'
  BY <1>2, SetsStep DEF PendingOf
<1>4. \A n \in PendingOf(p) : n \in pending /\ ~IsSync(n)
  BY DEF PendingOf, IsSync, Sync
<1>5. PendingOf(forOwner[c])' = PendingOf(p)'
  BY <1>1, <1>2
<1>6. QED
  BY <1>1, <1>2, <1>3, <1>4, <1>5

\* The sets of a handle are ahead of its ignore, after every step.
LEMMA SentBeforeStep ==
  ASSUME Base, ClosedIsEmpty, ~Misnumbered, StagesAgree, SetsAreSent, SentBeforeIgnore, [Next]_vars
  PROVE  SentBeforeIgnore'
<1> SUFFICES ASSUME NEW c \in Callers, NEW i \in DOMAIN toServer', Closing(c)', toServer'[i] = own'[c],
                    NEW n \in PendingOf(forOwner[c])'
             PROVE  SentAhead(n, i)' \/ InClient(n)'
  BY DEF SentBeforeIgnore
<1>1. PICK new : new = Len(cmds) + 1
  OBVIOUS
<1>2. /\ toServer \in Seq(Numbers) /\ DOMAIN toServer = 1..Len(toServer) /\ Len(toServer) \in Nat
      /\ new \notin Numbers
      /\ \A k \in Callers : own[k] # new
  <2>1. toServer \in Seq(Numbers) /\ new \notin Numbers /\ 0 # new
    BY <1>1 DEF Base, TypeOK, Numbers
  <2>2. \A k \in Callers : own[k] \in Numbers \cup {0}
    BY DEF Base, CommandOfCaller
  <2>3. QED
    BY <2>1, <2>2
<1>3. socket' = "open"
  <2>1. toServer' \in Seq(Numbers')
    BY LineTypesStep
  <2>2. toServer' # <<>>
    BY <2>1
  <2>3. QED
    BY <2>2, ClosedStep DEF ClosedIsEmpty
<1>4. /\ own'[c] \in Numbers
      /\ ~Answers => \/ i \in DOMAIN toServer /\ toServer'[i] = toServer[i]
                     \/ i = Len(toServer) + 1
  <2>1. CASE Answers
    <3>1. PICK m \in Numbers : AnswersFirst(m)
      BY <2>1, AnswersAre
    <3>2. QED
      BY <1>2, <2>1, <3>1 DEF AnswersFirst
  <2>2. CASE toServer' = toServer
    BY <1>2, <2>2
  <2>3. CASE toServer' = Append(toServer, new) /\ own' = own
    <3>1. \/ i \in DOMAIN toServer /\ toServer'[i] = toServer[i]
          \/ i = Len(toServer) + 1 /\ toServer'[i] = new
      BY <1>2, <2>3
    <3>2. QED
      BY <1>2, <2>3, <3>1
  <2>4. ASSUME NEW k \in Callers, CmdWrites(k), toServer' = Append(toServer, own[k])
        PROVE  /\ own'[c] \in Numbers
               /\ \/ i \in DOMAIN toServer /\ toServer'[i] = toServer[i]
                  \/ i = Len(toServer) + 1
    <3>1. \/ i \in DOMAIN toServer /\ toServer'[i] = toServer[i]
          \/ i = Len(toServer) + 1 /\ toServer'[i] = own[k]
      BY <1>2, <2>4
    <3>2. own[k] \in Numbers
      BY <2>4 DEF CmdWrites, CallerAt, Base, CommandOfCaller, Issued, Live
    <3>3. QED
      BY <1>2, <3>1, <3>2
  <2>5. QED
    BY <1>1, <1>3, <2>1, <2>2, <2>3, <2>4, ServerStep
<1>5. /\ Closing(c) /\ forOwner'[c] = forOwner[c] /\ own'[c] = own[c]
      /\ n \in PendingOf(forOwner[c]) /\ n \in pending /\ n \in pending' /\ ~IsSync(n)
  BY <1>4, CloseKeeps
<1>6. InClient(n) => InClient(n)'
  BY <1>3, <1>5, ReplyStaysIn
<1>7. CASE Answers
  <2>1. i + 1 \in DOMAIN toServer /\ toServer'[i] = toServer[i + 1] /\ i \in Nat
    <3>1. PICK m \in Numbers : AnswersFirst(m)
      BY <1>7, AnswersAre
    <3>2. i + 1 \in DOMAIN toServer /\ toServer'[i] = toServer[i + 1]
      BY <3>1 DEF AnswersFirst
    <3>3. toServer' \in Seq(Numbers')
      BY LineTypesStep
    <3>4. QED
      BY <3>2, <3>3
  <2>2. SentAhead(n, i + 1) \/ InClient(n)
    BY <1>5, <2>1 DEF SentBeforeIgnore
  <2>3. ASSUME SentAhead(n, i + 1) PROVE SentAhead(n, i)' \/ InClient(n)'
    <3>1. PICK j \in DOMAIN toServer : j < i + 1 /\ toServer[j] = n
      BY <2>3 DEF SentAhead
    <3>2. j \in Nat
      BY <1>2
    <3>3. CASE j > 1 /\ j - 1 \in DOMAIN toServer' /\ toServer'[j - 1] = n
      <4>1. j - 1 < i
        BY <2>1, <3>1, <3>2
      <4>2. QED
        BY <3>3, <4>1 DEF SentAhead
    <3>4. QED
      BY <1>3, <1>7, <3>1, <3>3, SentStays
  <2>4. QED
    BY <1>6, <2>2, <2>3
<1>8. CASE ~Answers
  <2>1. SentAhead(n, i) \/ InClient(n)
    <3>1. CASE i \in DOMAIN toServer /\ toServer'[i] = toServer[i]
      BY <1>5, <3>1 DEF SentBeforeIgnore
    <3>2. CASE i = Len(toServer) + 1
      <4>1. InServer(n) \/ InClient(n)
        BY <1>3, <1>5, ServerStep, <1>1 DEF SetsAreSent
      <4>2. \A j \in DOMAIN toServer : j < i
        BY <1>2, <3>2
      <4>3. QED
        BY <4>1, <4>2 DEF InServer, SentAhead
    <3>3. QED
      BY <1>4, <1>8, <3>1, <3>2
  <2>2. SentAhead(n, i) => SentAhead(n, i)'
    BY <1>3, <1>8, SentStays DEF SentAhead
  <2>3. QED
    BY <1>6, <2>1, <2>2
<1>9. QED
  BY <1>7, <1>8

\* So are their replies.
LEMMA AnsweredBeforeStep ==
  ASSUME Base, ClosedIsEmpty, ~Misnumbered, StagesAgree, SentBeforeIgnore, AnsweredBeforeIgnore, [Next]_vars
  PROVE  AnsweredBeforeIgnore'
<1> SUFFICES ASSUME NEW c \in Callers, NEW i \in DOMAIN toClient', Closing(c)',
                    toClient'[i].what = "reply", toClient'[i].of = own'[c],
                    NEW n \in PendingOf(forOwner[c])'
             PROVE  Answered(n, i)'
  BY DEF AnsweredBeforeIgnore
<1>1. /\ toClient \in Seq(ReplyLine \cup ReportLine) /\ DOMAIN toClient = 1..Len(toClient)
      /\ Len(toClient) \in Nat
      /\ \A j \in DOMAIN toClient : toClient[j].what = "reply" => toClient[j].of \in Numbers
  <2>1. toClient \in Seq(ReplyLine \cup ReportLine)
    BY DEF Base, TypeOK
  <2>2. \A j \in DOMAIN toClient : toClient[j] \in ReplyLine \cup ReportLine
    BY <2>1
  <2>3. \A j \in DOMAIN toClient : toClient[j].what = "reply" => toClient[j].of \in Numbers
    BY <2>2 DEF ReplyLine, ReportLine
  <2>4. QED
    BY <2>1, <2>3
<1>2. i \in Nat /\ toClient' # <<>>
  <2>1. toClient' \in Seq((ReplyLine \cup ReportLine)')
    BY LineTypesStep
  <2>2. QED
    BY <2>1
<1>3. socket' # "closed"
  BY <1>2, ClosedStep DEF ClosedIsEmpty
<1>4. PICK d \in {0, 1} : RepliesMove(d)
  BY <1>3, RepliesMoveStep
<1>5. CASE ClientGoesOn(d)
  <2>1. i + d \in DOMAIN toClient /\ toClient'[i] = toClient[i + d]
    BY <1>5 DEF ClientGoesOn
  <2>2. own'[c] \in Numbers
    BY <1>1, <2>1
  <2>3. /\ Closing(c) /\ own'[c] = own[c] /\ n \in PendingOf(forOwner[c])
        /\ n \in pending /\ n \in pending' /\ ~IsSync(n)
    BY <2>2, CloseKeeps
  <2>4. Answered(n, i + d)
    BY <2>1, <2>3 DEF AnsweredBeforeIgnore
  <2>5. PICK j \in DOMAIN toClient : j < i + d /\ toClient[j].what = "reply" /\ toClient[j].of = n
    BY <2>4 DEF Answered
  <2>6. j - d \in DOMAIN toClient' /\ toClient'[j - d] = toClient[j]
    BY <1>4, <2>3, <2>5 DEF RepliesMove, ClientKeeps
  <2>7. j - d < i
    BY <1>1, <1>2, <2>5
  <2>8. QED
    BY <2>5, <2>6, <2>7 DEF Answered
<1>6. CASE d = 0 /\ Answers
  <2>1. PICK m \in Numbers : AnswersFirst(m)
    BY <1>6, AnswersAre
  <2>2. own'[c] \in Numbers
    BY <1>1, <2>1 DEF AnswersFirst
  <2>3. /\ Closing(c) /\ own'[c] = own[c] /\ n \in PendingOf(forOwner[c])
        /\ n \in pending /\ n \in pending' /\ ~IsSync(n)
    BY <2>2, CloseKeeps
  <2>4. PICK j \in DOMAIN toClient : j < i /\ toClient[j].what = "reply" /\ toClient[j].of = n
    <3>1. CASE i \in DOMAIN toClient
      BY <2>1, <2>3, <3>1 DEF AnswersFirst, AnsweredBeforeIgnore, Answered
    <3>2. CASE i \notin DOMAIN toClient
      <4>1. i > Len(toClient) /\ toServer[1] = own[c] /\ 1 \in DOMAIN toServer
        BY <2>1, <2>3, <3>2 DEF AnswersFirst
      <4>2. SentAhead(n, 1) \/ InClient(n)
        BY <2>3, <4>1 DEF SentBeforeIgnore
      <4>3. ~SentAhead(n, 1)
        BY DEF SentAhead, Base, TypeOK
      <4>4. \A j \in DOMAIN toClient : j < i
        BY <1>1, <1>2, <4>1
      <4>5. QED
        BY <4>2, <4>3, <4>4 DEF InClient
    <3>3. QED
      BY <3>1, <3>2
  <2>5. j \in DOMAIN toClient' /\ toClient'[j] = toClient[j]
    BY <2>1 DEF AnswersFirst
  <2>6. QED
    BY <2>4, <2>5 DEF Answered
<1>7. QED
  BY <1>4, <1>5, <1>6 DEF RepliesMove

\* When the reply to the ignore is read, the handle has no command.
LEMMA ReadLeavesNone ==
  ASSUME Base, CommandIsOwn, StagesAgree, RepliesAreAwaited', AnsweredBeforeIgnore, ~trouble',
         [Next]_vars, NEW c \in Callers, ReadsIgnored(c)
  PROVE  Clear(forOwner[c])'
<1>1. /\ ReadsReply /\ Closing(c) /\ forOwner'[c] = forOwner[c] /\ rcmd' = own[c] /\ rpc' = "notify"
  BY DEF ReadsIgnored
<1>2. /\ rline' = toClient[1] /\ 1 \in DOMAIN toClient /\ toClient[1].what = "reply"
      /\ rcmd' \in pending /\ cmds' = cmds
  <2>1. toClient \in Seq(ReplyLine \cup ReportLine) /\ toClient # <<>>
    BY <1>1 DEF Base, TypeOK, ReadsReply
  <2>2. Head(toClient) = toClient[1] /\ 1 \in DOMAIN toClient
    BY <2>1
  <2>3. QED
    BY <1>1, <2>2 DEF ReadsReply, Matches
<1>3. Kind(own[c]) = "ignore"
  <2>1. own[c] # 0
    BY <1>1, <1>2 DEF Base, TypeOK, Numbers
  <2>2. Issued(c)
    BY <2>1 DEF Base, CommandOfCaller
  <2>3. QED
    BY <1>1, <2>2 DEF CommandIsOwn, Closing
<1>4. IsSync(rcmd)' /\ Kind(rcmd)' = "ignore"
  BY <1>1, <1>2, <1>3 DEF IsSync, Kind, Sync
<1>5. rline'.of = own[c]
  BY <1>1, <1>4 DEF RepliesAreAwaited, Fresh
<1>6. PICK p \in Owners : p = forOwner[c] /\ stamp[p] = 0
  BY <1>1 DEF StagesAgree, Closing, Base, CommandOfCaller
<1>7. PendingOf(p) = {}
  <2>1. \A n \in PendingOf(p) : Answered(n, 1)
    BY <1>1, <1>2, <1>5, <1>6 DEF AnsweredBeforeIgnore
  <2>2. \A n \in pending : ~Answered(n, 1)
    BY DEF Answered, Base, TypeOK
  <2>3. QED
    BY <2>1, <2>2 DEF PendingOf
<1>8. Clear(p)' /\ forOwner'[c] = p
  BY <1>1, <1>4, <1>6, <1>7, SetsStep DEF Clear
<1>9. QED
  BY <1>8, Zenon

\* A handle that is closed, or whose ignore has been answered, has no command.
LEMMA SetsEndStep ==
  ASSUME Base, CommandIsOwn, ClosedIsEmpty, StagesAgree, RepliesAreAwaited', DrainedIsSync,
         SetsEnd, [Next]_vars
  PROVE  SetsEnd'
<1> SUFFICES ASSUME ~trouble', ~Misnumbered' PROVE SetsEnd'
  BY DEF SetsEnd
<1>1. ~trouble /\ ~Misnumbered
  BY TroubleStep, TagsStep DEF Base, TypeOK
<1>2. /\ SetsAreSent /\ SentBeforeIgnore /\ AnsweredBeforeIgnore
      /\ \A c \in Callers : Ignored(c) => Clear(forOwner[c])
      /\ \A o \in Owners : stage[o] = "closed" => Clear(o)
  BY <1>1 DEF SetsEnd
<1>3. SetsAreSent' /\ SentBeforeIgnore' /\ AnsweredBeforeIgnore'
  BY <1>1, <1>2, SentStep, SentBeforeStep, AnsweredBeforeStep
<1>4. \A c \in Callers : Closing(c) => \E p \in Owners : p = forOwner[c] /\ stamp[p] = 0
  BY DEF StagesAgree, Closing, Base, CommandOfCaller
<1>5. ASSUME NEW c \in Callers, Ignored(c)' PROVE Clear(forOwner[c])'
  <2>1. CASE Ignored(c) /\ forOwner'[c] = forOwner[c]
    <3>1. PICK p \in Owners : p = forOwner[c] /\ stamp[p] = 0
      BY <1>4, <2>1 DEF Ignored
    <3>2. Clear(p)
      BY <1>2, <2>1, <3>1
    <3>3. Clear(p)' /\ forOwner'[c] = p
      BY <2>1, <3>1, <3>2, ClearStep
    <3>4. QED
      BY <3>3, Zenon
  <2>2. CASE ReadsIgnored(c)
    BY <1>2, <2>2, ReadLeavesNone
  <2>3. QED
    BY <1>5, <2>1, <2>2, IgnoredStep DEF IgnoredBefore
<1>6. ASSUME NEW p \in Owners, stage'[p] = "closed" PROVE Clear(p)'
  <2>1. CASE stage[p] = "closed"
    <3>1. Clear(p) /\ stamp[p] = 0
      BY <1>2, <2>1 DEF StagesAgree
    <3>2. QED
      BY <3>1, ClearStep
  <2>2. CASE stage[p] = "open" /\ rpc = "done"
    <3>1. PendingOf(p) = {}
      BY <2>2 DEF DrainedIsSync, PendingOf, IsSync, Sync
    <3>2. Clear(p) /\ stamp[p] = 0
      BY <2>2, <3>1 DEF StagesAgree, Clear
    <3>3. QED
      BY <3>2, ClearStep
  <2>3. CASE \E c \in Callers : (cpc[c] = "cleanup" \/ cpc[c] = "failed") /\ forOwner[c] = p
    <3>1. PICK c \in Callers : cpc[c] = "cleanup" /\ forOwner[c] = p
      BY <1>1, <2>3 DEF StagesAgree
    <3>2. Ignored(c) /\ Closing(c)
      BY <3>1 DEF Ignored, Closing, CommandIsOwn
    <3>3. Clear(p) /\ stamp[p] = 0
      BY <1>2, <1>4, <3>1, <3>2
    <3>4. QED
      BY <3>3, ClearStep
  <2>4. QED
    BY <1>6, <2>1, <2>2, <2>3, HandleCloses DEF ClosedBefore
<1>7. QED
  BY <1>3, <1>5, <1>6 DEF SetsEnd

-----------------------------------------------------------------------------

\* What keeps a closed handle from being called.
ClosedInv == AnswersInv /\ StagesAgree /\ ReportsStop /\ DrainedIsSync /\ SetsEnd

LEMMA ClosedInit == Init => ClosedInv
<1> SUFFICES ASSUME Init PROVE ClosedInv
  OBVIOUS
<1>1. AnswersInv
  BY AnswersInit
<1>2. StagesAgree
  BY DEF Init, StagesAgree, Closing, Busy
<1>3. /\ toClient = <<>> /\ toServer = <<>> /\ pending = {} /\ subscribed = {} /\ rpc = "read"
      /\ \A c \in Callers : ~Closing(c)
  BY DEF Init, Closing
<1>4. ReportsStop /\ DrainedIsSync
  BY <1>3 DEF ReportsStop, DrainedIsSync, Ignored, Quiet, QuietAfter
<1>5. SetsEnd
  <2>1. SetsAreSent /\ SentBeforeIgnore /\ AnsweredBeforeIgnore
    BY <1>3 DEF SetsAreSent, SentBeforeIgnore, AnsweredBeforeIgnore
  <2>2. \A o : Clear(o)
    BY <1>3 DEF Clear, PendingOf
  <2>3. QED
    BY <2>1, <2>2 DEF SetsEnd
<1>6. QED
  BY <1>1, <1>2, <1>4, <1>5 DEF ClosedInv

LEMMA ClosedInvStep == ClosedInv /\ [Next]_vars => ClosedInv'
<1> SUFFICES ASSUME ClosedInv, [Next]_vars PROVE ClosedInv'
  OBVIOUS
<1>1. /\ AnswersInv /\ StagesAgree /\ ReportsStop /\ DrainedIsSync /\ SetsEnd
      /\ Base /\ LockIsHeld /\ CommandIsOwn /\ ClosedIsEmpty /\ RepliesAreAwaited
  BY DEF ClosedInv, AnswersInv
<1>2. AnswersInv' /\ RepliesAreAwaited'
  BY <1>1, AnswersInvStep DEF AnswersInv
<1>3. QED
  BY <1>1, <1>2, StagesStep, ReportsStopStep, DrainedStep, SetsEndStep DEF ClosedInv

\* Nothing reaches a handle that has been closed, however many handles and
\* threads there are: handle_report has given its last report to the handler
\* before pdc_ignore returns, and when cleanup_pending has returned no command is
\* left whose async_cmd_cb would be called with the handle; unless a synchronous
\* command failed, or (for the commands) one went out with another's tag.
THEOREM ClosedHandlesAreForgotten == Spec => []ClosedIsForgotten
<1>1. ClosedInv => ClosedIsForgotten
  <2> SUFFICES ASSUME ClosedInv PROVE ClosedIsForgotten
    OBVIOUS
  <2>1. ReportReachesOpen
    <3> SUFFICES ASSUME rpc = "report", ~trouble PROVE stage[rline.owner] # "closed"
      BY DEF ReportReachesOpen
    <3>1. rline.owner \in Owners
      BY DEF ClosedInv, AnswersInv, Base, TypeOK, ReportLine
    <3>2. QED
      BY <3>1 DEF ClosedInv, ReportsStop, Quiet
  <2>2. ClosedHasNoPending
    BY DEF ClosedInv, SetsEnd, ClosedHasNoPending, Clear
  <2>3. QED
    BY <2>1, <2>2 DEF ClosedIsForgotten
<1>2. QED
  BY <1>1, ClosedInit, ClosedInvStep, PTL DEF Spec
=============================================================================
