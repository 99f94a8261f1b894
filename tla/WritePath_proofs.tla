--------------------------- MODULE WritePath_proofs ---------------------------
(***************************************************************************)
(* Theorems about WritePath: for every set of senders, every bound and     *)
(* every choice of the flags, its types and its safety invariants hold in  *)
(* every reachable state.  The types are kept in two lemmas, the Booleans  *)
(* apart from the data.                                                    *)
(***************************************************************************)
EXTENDS WritePath, TLAPS

USE DEF flags, queue, writer, history

-----------------------------------------------------------------------------
(* Types.                                                                   *)

\* Every Boolean field of phid stays Boolean.
LEMMA FlagTypesStep == FlagTypes /\ [Next]_vars => FlagTypes'
<1> SUFFICES ASSUME FlagTypes, [Next]_vars PROVE FlagTypes'
  OBVIOUS
<1>1. ASSUME NEW s \in Senders, Sender(s) PROVE FlagTypes'
  BY ZenonT(60), <1>1 DEF Sender, SetterEnters, SetterLocks, SendChecksAttached,
       SendNotAttached, SendFindsFull, SendDeposits, SendSignals, SendWakes,
       SendTimesOut, SenderAt, SenderReturns, FlagTypes
<1>2. CASE Writer
  BY ZenonT(60), <1>2 DEF Writer, WriterAt, WriterLoops, WriterWakes, WriterTimesOut,
       WriterChecksStop, WriteResets, WriteGets, WriteChecksHandle,
       WriteTransmits, WriteFails, WriteSignals, WriterExits, FlagTypes
<1>3. CASE Attach
  BY ZenonT(60), <1>3 DEF Attach, LifeAt, WriterJoined, AttachOpensUsb, AttachInits,
       AttachInitFails, AttachResetsEvents, AttachSetsFlag,
       AttachCreatesWriter, AttachCreateFails, AttachSetsStatus,
       AttachCompletes, AttachReadFails, AttachReadStops, AttachReadJoins,
       AttachClosesUsb, FlagTypes
<1>4. CASE Detach
  BY ZenonT(60), <1>4 DEF Detach, LifeAt, WriterJoined, DetachStops, DetachSignals,
       DetachClearsFlag, DetachClosesUsb, DetachJoins, FlagTypes
<1>5. CASE Open \/ Close
  BY ZenonT(60), <1>5 DEF Open, Close, LifeAt, WriterJoined, CloseUnattached,
       CloseStops, CloseJoins, CloseClearsFlag, CloseClosesUsb, FlagTypes
<1>6. CASE UNCHANGED vars
  BY ZenonT(60), <1>6 DEF vars, FlagTypes
<1>7. QED
  BY <1>1, <1>2, <1>3, <1>4, <1>5, <1>6 DEF Next

\* Counters, program counters, results and the mutex keep their types.
LEMMA DataTypesStep == DataTypes /\ [Next]_vars => DataTypes'
<1> SUFFICES ASSUME DataTypes, [Next]_vars PROVE DataTypes'
  OBVIOUS
<1> USE DEF DataTypes, SenderPc, WriterPc, Result, LifePc
<1>1. ASSUME NEW s \in Senders, Sender(s) PROVE DataTypes'
  BY <1>1 DEF Sender, SetterEnters, SetterLocks, SendChecksAttached,
       SendNotAttached, SendFindsFull, SendDeposits, SendSignals, SendWakes,
       SendTimesOut, SenderAt, SenderReturns
<1>2. CASE Writer
  BY <1>2 DEF Writer, WriterAt, WriterLoops, WriterWakes, WriterTimesOut,
       WriterChecksStop, WriteResets, WriteGets, WriteChecksHandle,
       WriteTransmits, WriteFails, WriteSignals, WriterExits
<1>3. CASE Attach
  BY <1>3 DEF Attach, LifeAt, WriterJoined, AttachOpensUsb, AttachInits,
       AttachInitFails, AttachResetsEvents, AttachSetsFlag,
       AttachCreatesWriter, AttachCreateFails, AttachSetsStatus,
       AttachCompletes, AttachReadFails, AttachReadStops, AttachReadJoins,
       AttachClosesUsb
<1>4. CASE Detach
  BY <1>4 DEF Detach, LifeAt, WriterJoined, DetachStops, DetachSignals,
       DetachClearsFlag, DetachClosesUsb, DetachJoins
<1>5. CASE Open \/ Close
  BY <1>5 DEF Open, Close, LifeAt, WriterJoined, CloseUnattached,
       CloseStops, CloseJoins, CloseClearsFlag, CloseClosesUsb
<1>6. CASE UNCHANGED vars
  BY <1>6 DEF vars
<1>7. QED
  BY <1>1, <1>2, <1>3, <1>4, <1>5, <1>6 DEF Next

\* Every reachable state is well typed: the fields of phid that sendpacket,
\* the write thread, attach, detach and close assign keep their types.
THEOREM TypeCorrect == Spec => []TypeOK
<1>1. Init => FlagTypes
  BY DEF Init, FlagTypes
<1>2. Init => DataTypes
  BY DEF Init, DataTypes, SenderPc, WriterPc, Result, LifePc
<1>3. TypeOK <=> FlagTypes /\ DataTypes
  BY DEF TypeOK
<1>4. QED
  BY <1>1, <1>2, <1>3, FlagTypesStep, DataTypesStep, PTL DEF Spec

-----------------------------------------------------------------------------
(* The inductive invariant of the safety properties.                        *)

\* Which flags, and whether a write thread, each step of attach, detach and
\* close may leave behind.
Lifecycle ==
    /\ attached => life \in {"create", "status", "readthread", "attached",
                             "detachevent", "detachflag", "closejoin", "closeflag"}
    /\ life \in {"closed", "opened"} => ~devHandle
    /\ life = "detachjoin" => ~devHandle
    /\ wpc # "none" => life \in {"status", "readthread", "attached", "readfailed",
                                 "readjoin", "detachevent", "detachflag",
                                 "detachusb", "detachjoin", "closejoin"}
    /\ life # "status" /\ wpc \notin {"none", "done"} => wstatus

\* PendingIsSignalled, already before the write thread is created.
Signalled ==
    /\ slotEra <= era
    /\ slot # 0 /\ slotEra = era /\ (WriterAlive \/ life = "create")
         => availEv \/ Signalling \/ wpc \in {"reset", "get"}

\* Nothing is numbered beyond the packets accepted so far.
Numbered == slot <= accepted /\ wbuf <= accepted /\ last <= accepted

Inductive == Lifecycle /\ Signalled /\ Numbered /\ NeverResent

\* attach, detach and close leave no flag, handle or write thread behind.
LEMMA LifecycleStep == Lifecycle /\ [Next]_vars => Lifecycle'
<1> SUFFICES ASSUME Lifecycle, [Next]_vars PROVE Lifecycle'
  OBVIOUS
<1>1. ASSUME NEW s \in Senders, Sender(s) PROVE Lifecycle'
  BY <1>1 DEF Sender, SetterEnters, SetterLocks, SendChecksAttached,
         SendNotAttached, SendFindsFull, SendDeposits, SendSignals,
         SendWakes, SendTimesOut, SenderAt, SenderReturns, Lifecycle
<1>2. CASE Writer
  <2>1. CASE WriterExits
    BY <2>1 DEF WriterExits, WriterAt, Lifecycle
  <2>2. CASE \/ WriterLoops \/ WriterWakes \/ WriterTimesOut
                 \/ WriterChecksStop \/ WriteResets \/ WriteGets
                 \/ WriteChecksHandle \/ WriteTransmits \/ WriteFails
                 \/ WriteSignals
    BY <2>2 DEF WriterLoops, WriterWakes, WriterTimesOut, WriterChecksStop,
         WriteResets, WriteGets, WriteChecksHandle, WriteTransmits,
         WriteFails, WriteSignals, WriterAt, Lifecycle
  <2>3. QED
    BY <1>2, <2>1, <2>2 DEF Writer
<1>3. CASE Attach
  <2>1. CASE AttachOpensUsb
    BY <2>1 DEF AttachOpensUsb, LifeAt, Lifecycle
  <2>2. CASE AttachInitFails
    BY <2>2 DEF AttachInitFails, LifeAt, Lifecycle
  <2>3. CASE AttachSetsFlag
    BY <2>3 DEF AttachSetsFlag, LifeAt, Lifecycle
  <2>4. CASE AttachCreatesWriter
    BY <2>4 DEF AttachCreatesWriter, LifeAt, Lifecycle
  <2>5. CASE AttachCreateFails
    BY <2>5 DEF AttachCreateFails, LifeAt, Lifecycle
  <2>6. CASE AttachSetsStatus
    BY <2>6 DEF AttachSetsStatus, LifeAt, Lifecycle
  <2>7. CASE AttachReadFails
    BY <2>7 DEF AttachReadFails, LifeAt, Lifecycle
  <2>8. CASE AttachReadJoins
    BY <2>8 DEF AttachReadJoins, LifeAt, WriterJoined, Lifecycle
  <2>9. CASE AttachClosesUsb
    BY <2>9 DEF AttachClosesUsb, LifeAt, Lifecycle
  <2>10. CASE \/ AttachInits \/ AttachResetsEvents \/ AttachCompletes
                 \/ AttachReadStops
    BY <2>10 DEF AttachInits, AttachResetsEvents, AttachCompletes, AttachReadStops,
         LifeAt, Lifecycle
  <2>11. QED
    BY <1>3, <2>1, <2>2, <2>3, <2>4, <2>5, <2>6, <2>7, <2>8, <2>9, <2>10 DEF Attach
<1>4. CASE Detach
  <2>1. CASE DetachClearsFlag
    BY <2>1 DEF DetachClearsFlag, LifeAt, Lifecycle
  <2>2. CASE DetachClosesUsb
    BY <2>2 DEF DetachClosesUsb, LifeAt, Lifecycle
  <2>3. CASE DetachJoins
    BY <2>3 DEF DetachJoins, LifeAt, WriterJoined, Lifecycle
  <2>4. CASE \/ DetachStops \/ DetachSignals
    BY <2>4 DEF DetachStops, DetachSignals, LifeAt, Lifecycle
  <2>5. QED
    BY <1>4, <2>1, <2>2, <2>3, <2>4 DEF Detach
<1>5. CASE Close
  <2>1. CASE CloseUnattached
    BY <2>1 DEF CloseUnattached, LifeAt, Lifecycle
  <2>2. CASE CloseStops
    BY <2>2 DEF CloseStops, LifeAt, Lifecycle
  <2>3. CASE CloseJoins
    BY <2>3 DEF CloseJoins, LifeAt, WriterJoined, Lifecycle
  <2>4. CASE CloseClearsFlag
    BY <2>4 DEF CloseClearsFlag, LifeAt, Lifecycle
  <2>5. CASE CloseClosesUsb
    BY <2>5 DEF CloseClosesUsb, LifeAt, Lifecycle
  <2>6. QED
    BY <1>5, <2>1, <2>2, <2>3, <2>4, <2>5 DEF Close
<1>6. CASE Open
  BY <1>6 DEF Open, LifeAt, Lifecycle
<1>7. CASE UNCHANGED vars
  BY <1>7 DEF vars, Lifecycle
<1>8. QED
  BY <1>1, <1>2, <1>3, <1>4, <1>5, <1>6, <1>7 DEF Next

\* A packet gets its number when sendpacket accepts it.
LEMMA NumberedStep == DataTypes /\ Numbered /\ [Next]_vars => Numbered'
<1> SUFFICES ASSUME DataTypes, Numbered, [Next]_vars PROVE Numbered'
  OBVIOUS
<1>1. ASSUME NEW s \in Senders, Sender(s) PROVE Numbered'
  BY <1>1 DEF Sender, SetterEnters, SetterLocks, SendChecksAttached,
       SendNotAttached, SendFindsFull, SendDeposits, SendSignals, SendWakes,
       SendTimesOut, SenderAt, SenderReturns, Numbered, DataTypes
<1>2. CASE Writer
  BY <1>2 DEF Writer, WriterAt, WriterLoops, WriterWakes, WriterTimesOut,
       WriterChecksStop, WriteResets, WriteGets, WriteChecksHandle,
       WriteTransmits, WriteFails, WriteSignals, WriterExits, Numbered, DataTypes
<1>3. CASE Attach
  BY <1>3 DEF Attach, LifeAt, WriterJoined, AttachOpensUsb, AttachInits,
       AttachInitFails, AttachResetsEvents, AttachSetsFlag,
       AttachCreatesWriter, AttachCreateFails, AttachSetsStatus,
       AttachCompletes, AttachReadFails, AttachReadStops, AttachReadJoins,
       AttachClosesUsb, Numbered, DataTypes
<1>4. CASE Detach
  BY <1>4 DEF Detach, LifeAt, WriterJoined, DetachStops, DetachSignals,
       DetachClearsFlag, DetachClosesUsb, DetachJoins, Numbered, DataTypes
<1>5. CASE Open \/ Close
  BY <1>5 DEF Open, Close, LifeAt, WriterJoined, CloseUnattached,
       CloseStops, CloseJoins, CloseClearsFlag, CloseClosesUsb, Numbered, DataTypes
<1>6. CASE UNCHANGED vars
  BY <1>6 DEF vars, Numbered, DataTypes
<1>7. QED
  BY <1>1, <1>2, <1>3, <1>4, <1>5, <1>6 DEF Next

\* The buffer, the local copy of CPhidget_write and libusb see each packet once,
\* in this order.
LEMMA NeverResentStep == DataTypes /\ Numbered /\ NeverResent /\ [Next]_vars => NeverResent'
<1> SUFFICES ASSUME DataTypes, Numbered, NeverResent, [Next]_vars PROVE NeverResent'
  OBVIOUS
<1>1. ASSUME NEW s \in Senders, Sender(s) PROVE NeverResent'
  <2>1. CASE SendDeposits(s)
    BY <2>1 DEF SendDeposits, SenderAt, SenderReturns, NeverResent, Numbered,
         DataTypes
  <2>2. CASE \/ SetterEnters(s) \/ SetterLocks(s)
                 \/ SendChecksAttached(s) \/ SendNotAttached(s)
                 \/ SendFindsFull(s) \/ SendSignals(s) \/ SendWakes(s)
                 \/ SendTimesOut(s)
    BY <2>2 DEF SetterEnters, SetterLocks, SendChecksAttached, SendNotAttached,
         SendFindsFull, SendSignals, SendWakes, SendTimesOut, SenderAt,
         SenderReturns, NeverResent, Numbered, DataTypes
  <2>3. QED
    BY <1>1, <2>1, <2>2 DEF Sender
<1>2. CASE Writer
  <2>1. CASE WriterWakes
    BY <2>1 DEF WriterWakes, WriterAt, NeverResent, Numbered, DataTypes
  <2>2. CASE WriteResets
    BY <2>2 DEF WriteResets, WriterAt, NeverResent, Numbered, DataTypes
  <2>3. CASE WriteGets
    BY <2>3 DEF WriteGets, WriterAt, NeverResent, Numbered, DataTypes
  <2>4. CASE WriteChecksHandle
    BY <2>4 DEF WriteChecksHandle, NeverResent, Numbered, DataTypes
  <2>5. CASE WriteTransmits
    BY <2>5 DEF WriteTransmits, WriterAt, NeverResent, Numbered, DataTypes
  <2>6. CASE WriteFails
    BY <2>6 DEF WriteFails, WriterAt, NeverResent, Numbered, DataTypes
  <2>7. CASE WriteSignals
    BY <2>7 DEF WriteSignals, NeverResent, Numbered, DataTypes
  <2>8. CASE \/ WriterLoops \/ WriterTimesOut \/ WriterChecksStop
                 \/ WriterExits
    BY <2>8 DEF WriterLoops, WriterTimesOut, WriterChecksStop, WriterExits,
         WriterAt, NeverResent, Numbered, DataTypes
  <2>9. QED
    BY <1>2, <2>1, <2>2, <2>3, <2>4, <2>5, <2>6, <2>7, <2>8 DEF Writer
<1>3. CASE Attach
  <2>1. CASE AttachInits
    BY <2>1 DEF AttachInits, LifeAt, NeverResent, Numbered, DataTypes
  <2>2. CASE AttachCreatesWriter
    BY <2>2 DEF AttachCreatesWriter, LifeAt, NeverResent, Numbered, DataTypes
  <2>3. CASE \/ AttachOpensUsb \/ AttachInitFails \/ AttachResetsEvents
                 \/ AttachSetsFlag \/ AttachCreateFails \/ AttachSetsStatus
                 \/ AttachCompletes \/ AttachReadFails \/ AttachReadStops
                 \/ AttachReadJoins \/ AttachClosesUsb
    BY <2>3 DEF AttachOpensUsb, AttachInitFails, AttachResetsEvents,
         AttachSetsFlag, AttachCreateFails, AttachSetsStatus,
         AttachCompletes, AttachReadFails, AttachReadStops, AttachReadJoins,
         AttachClosesUsb, LifeAt, WriterJoined, NeverResent, Numbered,
         DataTypes
  <2>4. QED
    BY <1>3, <2>1, <2>2, <2>3 DEF Attach
<1>4. CASE Detach
  BY <1>4 DEF Detach, DetachStops, DetachSignals, DetachClearsFlag,
         DetachClosesUsb, DetachJoins, LifeAt, WriterJoined, NeverResent,
         Numbered, DataTypes
<1>5. CASE Close
  BY <1>5 DEF Close, CloseUnattached, CloseStops, CloseJoins, CloseClearsFlag,
         CloseClosesUsb, LifeAt, WriterJoined, NeverResent, Numbered,
         DataTypes
<1>6. CASE Open
  BY <1>6 DEF Open, LifeAt, NeverResent, Numbered, DataTypes
<1>7. CASE UNCHANGED vars
  BY <1>7 DEF vars, NeverResent, Numbered, DataTypes
<1>8. QED
  BY <1>1, <1>2, <1>3, <1>4, <1>5, <1>6, <1>7 DEF Next

\* No step of any thread loses the wake-up of a packet in the buffer.
LEMMA SignalledStep == DataTypes /\ Lifecycle /\ Signalled /\ [Next]_vars => Signalled'
<1> SUFFICES ASSUME DataTypes, Lifecycle, Signalled, [Next]_vars PROVE Signalled'
  OBVIOUS
<1>1. ASSUME NEW s \in Senders, Sender(s) PROVE Signalled'
  <2>1. CASE SendDeposits(s)
    BY <2>1 DEF SendDeposits, SenderAt, SenderReturns, Signalled, Signalling,
         WriterAlive, Lifecycle, DataTypes
  <2>2. CASE SendSignals(s)
    BY <2>2 DEF SendSignals, SenderAt, SenderReturns, Signalled, Signalling,
         WriterAlive, Lifecycle, DataTypes
  <2>3. CASE \/ SetterEnters(s) \/ SetterLocks(s)
                 \/ SendChecksAttached(s) \/ SendNotAttached(s)
                 \/ SendFindsFull(s) \/ SendWakes(s) \/ SendTimesOut(s)
    BY <2>3 DEF SetterEnters, SetterLocks, SendChecksAttached, SendNotAttached,
         SendFindsFull, SendWakes, SendTimesOut, SenderAt, SenderReturns,
         Signalled, Signalling, WriterAlive, Lifecycle, DataTypes
  <2>4. QED
    BY <1>1, <2>1, <2>2, <2>3 DEF Sender
<1>2. CASE Writer
  <2>1. CASE WriterWakes
    BY <2>1 DEF WriterWakes, WriterAt, Signalled, Signalling, WriterAlive,
         Lifecycle, DataTypes
  <2>2. CASE WriteResets
    BY <2>2 DEF WriteResets, WriterAt, Signalled, Signalling, WriterAlive,
         Lifecycle, DataTypes
  <2>3. CASE WriteGets
    BY <2>3 DEF WriteGets, WriterAt, Signalled, Signalling, WriterAlive, Lifecycle,
         DataTypes
  <2>4. CASE \/ WriterLoops \/ WriterTimesOut \/ WriterChecksStop
                 \/ WriteChecksHandle \/ WriteTransmits \/ WriteFails
                 \/ WriteSignals \/ WriterExits
    BY <2>4 DEF WriterLoops, WriterTimesOut, WriterChecksStop, WriteChecksHandle,
         WriteTransmits, WriteFails, WriteSignals, WriterExits, WriterAt,
         Signalled, Signalling, WriterAlive, Lifecycle, DataTypes
  <2>5. QED
    BY <1>2, <2>1, <2>2, <2>3, <2>4 DEF Writer
<1>3. CASE Attach
  <2>1. CASE AttachInits
    BY <2>1 DEF AttachInits, LifeAt, Signalled, Signalling, WriterAlive, Lifecycle,
         DataTypes
  <2>2. CASE AttachResetsEvents
    BY <2>2 DEF AttachResetsEvents, LifeAt, Signalled, Signalling, WriterAlive,
         Lifecycle, DataTypes
  <2>3. CASE AttachSetsFlag
    BY <2>3 DEF AttachSetsFlag, LifeAt, Signalled, Signalling, WriterAlive,
         Lifecycle, DataTypes
  <2>4. CASE AttachCreatesWriter
    BY <2>4 DEF AttachCreatesWriter, LifeAt, Signalled, Signalling, WriterAlive,
         Lifecycle, DataTypes
  <2>5. CASE \/ AttachOpensUsb \/ AttachInitFails \/ AttachCreateFails
                 \/ AttachSetsStatus \/ AttachCompletes \/ AttachReadFails
                 \/ AttachReadStops \/ AttachReadJoins \/ AttachClosesUsb
    BY <2>5 DEF AttachOpensUsb, AttachInitFails, AttachCreateFails,
         AttachSetsStatus, AttachCompletes, AttachReadFails,
         AttachReadStops, AttachReadJoins, AttachClosesUsb, LifeAt,
         WriterJoined, Signalled, Signalling, WriterAlive, Lifecycle,
         DataTypes
  <2>6. QED
    BY <1>3, <2>1, <2>2, <2>3, <2>4, <2>5 DEF Attach
<1>4. CASE Detach
  <2>1. CASE DetachSignals
    BY <2>1 DEF DetachSignals, LifeAt, Signalled, Signalling, WriterAlive,
         Lifecycle, DataTypes
  <2>2. CASE \/ DetachStops \/ DetachClearsFlag \/ DetachClosesUsb
                 \/ DetachJoins
    BY <2>2 DEF DetachStops, DetachClearsFlag, DetachClosesUsb, DetachJoins,
         LifeAt, WriterJoined, Signalled, Signalling, WriterAlive,
         Lifecycle, DataTypes
  <2>3. QED
    BY <1>4, <2>1, <2>2 DEF Detach
<1>5. CASE Close
  BY <1>5 DEF Close, CloseUnattached, CloseStops, CloseJoins, CloseClearsFlag,
         CloseClosesUsb, LifeAt, WriterJoined, Signalled, Signalling,
         WriterAlive, Lifecycle, DataTypes
<1>6. CASE Open
  BY <1>6 DEF Open, LifeAt, Signalled, Signalling, WriterAlive, Lifecycle,
         DataTypes
<1>7. CASE UNCHANGED vars
  BY <1>7 DEF vars, Signalled, Signalling, WriterAlive, Lifecycle, DataTypes
<1>8. QED
  BY <1>1, <1>2, <1>3, <1>4, <1>5, <1>6, <1>7 DEF Next

\* The inductive invariant holds in every reachable state.
THEOREM InductiveCorrect == Spec => []Inductive
<1>1. Init => DataTypes
  BY DEF Init, DataTypes, SenderPc, WriterPc, Result, LifePc
<1>2. Init => Inductive
  BY DEF Init, Inductive, Lifecycle, Signalled, Numbered, NeverResent,
         WriterAlive
<1>3. DataTypes /\ Inductive /\ [Next]_vars => Inductive'
  BY LifecycleStep, NumberedStep, NeverResentStep, SignalledStep DEF Inductive
<1>4. QED
  BY <1>1, <1>2, <1>3, DataTypesStep, PTL DEF Spec

\* No lost wake-up between sendpacket and the write thread, whatever the
\* interleaving with attach, detach, close and failed writes.
THEOREM PendingIsSignalledCorrect == Spec => []PendingIsSignalled
<1>1. Inductive => PendingIsSignalled
  BY DEF Inductive, Signalled, PendingIsSignalled
<1>2. QED
  BY <1>1, InductiveCorrect, PTL

\* sendpacket and CPhidget_write transmit every packet at most once and in the
\* order of acceptance.
THEOREM NeverResentCorrect == Spec => []NeverResent
<1>1. Inductive => NeverResent
  BY DEF Inductive
<1>2. QED
  BY <1>1, InductiveCorrect, PTL

\* After CPhidget_close, a detach or a failed attach nothing of the handle runs.
THEOREM ClosedIsQuietCorrect == Spec => []ClosedIsQuiet
<1>1. Inductive => ClosedIsQuiet
  BY DEF Inductive, Lifecycle, ClosedIsQuiet
<1>2. QED
  BY <1>1, InductiveCorrect, PTL
=============================================================================
