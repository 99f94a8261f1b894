-------------------------- MODULE InterfaceKit_proofs --------------------------
(***************************************************************************)
(* Theorems about InterfaceKit: the types; what was told of the outputs,   *)
(* the inputs and the settings is what was told last of them; if the kind  *)
(* sends its outputs in one packet, what was set last is what the device   *)
(* settles at; and a sensor value reported is one of the ratiometric       *)
(* setting reported with it.                                               *)
(***************************************************************************)
EXTENDS InterfaceKit, TLAPS

USE DEF device, flags, events, outs, ratio, inputs, setter, writer, reader,
        history, bounds

-----------------------------------------------------------------------------
(* Types.                                                                   *)

\* The types, one part for each group of variables.
DeviceTypes ==
    /\ kind \in Kinds /\ plugged \in BOOLEAN
    /\ dev \in State /\ report \in State \cup {Unknown}
FlagTypes ==
    /\ attached \in BOOLEAN /\ usbError \in BOOLEAN /\ stop \in BOOLEAN
    /\ writtenEv \in BOOLEAN /\ availEv \in BOOLEAN
OutTypes ==
    /\ nextOutputStates \in [Outputs -> Tri] /\ changedOutputs \subseteq Outputs
    /\ \A o \in changedOutputs : nextOutputStates[o] # Unknown
    /\ outputStates \in [Outputs -> Tri] /\ outputEchoStates \in [Outputs -> Tri]
    /\ lastChangedOutput \in Outputs
ValueTypes ==
    /\ ratiometric \in Tri /\ ratiometricEcho \in Tri
    /\ ratiometricSwitching \in 0..2
    /\ physicalState \in Tri /\ sensorValue \in Tri
LifeTypes == life \in LifePc /\ tries \in 0..ReadTries
SetterTypes ==
    /\ writelock \in Setters \cup {NoThread}
    /\ spc \in [Setters -> SetterPc] /\ req \in [Setters -> Requests \cup {Idle}]
    /\ \A s \in Setters :
          /\ spc[s] \notin {"idle", "lock"} <=> writelock = s
          /\ spc[s] = "idle" <=> req[s] = Idle
WriterTypes ==
    wpc \in WriterPc /\ packet \in IF wpc = "send" THEN Packet ELSE {Unknown}
ReaderTypes ==
    /\ reading \in BOOLEAN /\ rpc \in ReaderPc
    /\ rbuf \in IF rpc = "idle" THEN {Unknown} ELSE Reading
    /\ rpc = "count" => rbuf.left > 0
HistoryTypes ==
    /\ told \in [Reported -> Tri] /\ wanted \in [Outputs -> Tri]
    /\ stray \in BOOLEAN /\ overlapped \in BOOLEAN

LEMMA TypeParts ==
  TypeOK <=> /\ DeviceTypes /\ FlagTypes /\ OutTypes /\ ValueTypes /\ LifeTypes
             /\ SetterTypes /\ WriterTypes /\ ReaderTypes /\ HistoryTypes
BY DEF TypeOK, DeviceTypes, FlagTypes, OutTypes, ValueTypes, LifeTypes,
       SetterTypes, WriterTypes, ReaderTypes, HistoryTypes

LEMMA KindIsKind == ASSUME DeviceTypes PROVE kind \in Kind
BY KindsAssumption DEF DeviceTypes

LEMMA KindStays == [Next]_vars => kind' = kind
<1> SUFFICES ASSUME [Next]_vars PROVE kind' = kind
  OBVIOUS
<1>1. ASSUME NEW s \in Setters,
             \/ SetterCalls(s) \/ OutputLocks(s) \/ OutputFindsAttached(s)
             \/ OutputMustWait(s) \/ OutputDeposits(s) \/ OutputWaits(s)
             \/ OutputSignals(s) \/ RatioSets(s) \/ RatioSwitches(s)
             \/ OutputNotAttached(s) \/ OutputIsSet(s) \/ OutputTimesOut(s)
             \/ OutputFires(s) \/ RatioSignals(s)
      PROVE  kind' = kind
  BY <1>1
     DEF SetterCalls, SetterAt, OutputLocks, OutputFindsAttached,
         OutputMustWait, OutputDeposits, OutputWaits, OutputSignals,
         RatioSets, RatioSwitches, OutputNotAttached, Returns, OutputIsSet,
         OutputTimesOut, OutputFires, RatioSignals
<1>2. CASE \/ WriterLoops \/ WriterWakes \/ WriterTimesOut \/ WriterResets
           \/ WriterGets \/ WriterSends \/ WriterNotAttached \/ WriterFails
           \/ WriterSignals \/ ReaderReads \/ ReaderStops \/ FirstReadFails
           \/ ReaderFails \/ RatioTests \/ RatioCounts \/ RatioShows
           \/ ReaderStores \/ ReaderFires \/ AttachClears \/ AttachSetsFlag
           \/ AttachTells \/ DetachStops \/ DetachClearsFlag \/ DetachEnds
           \/ DeviceReports \/ InputChanges \/ Unplug \/ Plug
  BY <1>2
     DEF WriterLoops, WriterAt, WriterWakes, WriterTimesOut, WriterResets,
         WriterGets, WriterSends, WriterNotAttached, WriterFails,
         WriterSignals, ReaderReads, ReaderStops, FirstReadFails, ReaderFails,
         RatioTests, ReaderAt, RatioCounts, RatioShows, ReaderStores,
         ReaderFires, AttachClears, LifeAt, AttachSetsFlag, AttachTells,
         DetachStops, DetachClearsFlag, DetachEnds, DeviceReports,
         InputChanges, Unplug, Plug
<1>3. CASE UNCHANGED vars
  BY <1>3
     DEF vars
<1>4. QED
  BY Zenon, <1>1, <1>2, <1>3
     DEF Next, SetterContinues, Writer, Reader, Life, Environment

\* The flag, the read thread and the write thread follow attach and detach;
\* initAfterOpen reads only while it has reads left.
LifeFlags ==
    /\ attached <=> life \in {"tell", "attached", "detach"}
    /\ reading => life \in {"attached", "detach", "join"}
    /\ rpc # "idle" => reading \/ (life = "init" /\ tries > 0)
    /\ wpc # "off" => life \notin {"off", "init"}

\* What a setter does after it has taken writelock is what it was called for.
OutputPc == {"test", "deposit", "wait", "signal", "event"}
Sets == \A s \in Setters : spc[s] \in OutputPc => req[s].what = "output"

Base == TypeOK /\ LifeFlags /\ Sets

LEMMA LifeFlagsStep ==
  ASSUME TypeOK, LifeFlags, [Next]_vars
  PROVE  LifeFlags'
<1>1. /\ attached \in BOOLEAN /\ reading \in BOOLEAN /\ life \in LifePc
      /\ wpc \in WriterPc /\ rpc \in ReaderPc /\ tries \in 0..ReadTries
  BY DEF TypeOK
<1>2. ASSUME UNCHANGED <<attached, reading, life, tries, wpc, rpc>> PROVE LifeFlags'
  BY <1>2 DEF LifeFlags
<1>3. CASE \/ WriterLoops \/ WriterWakes \/ WriterTimesOut
  BY <1>3, <1>1
     DEF WriterLoops, WriterAt, WriterWakes, WriterTimesOut, LifeFlags,
         LifePc, WriterPc, ReaderPc
<1>4. CASE WriterResets
  BY <1>4, <1>1
     DEF WriterResets, WriterAt, LifeFlags, LifePc, WriterPc, ReaderPc
<1>5. CASE WriterGets
  BY <1>5, <1>1
     DEF WriterGets, WriterAt, LifeFlags, LifePc, WriterPc, ReaderPc
<1>6. CASE \/ WriterSends \/ WriterNotAttached \/ WriterFails
  BY <1>6, <1>1
     DEF WriterSends, WriterAt, WriterNotAttached, WriterFails, LifeFlags,
         LifePc, WriterPc, ReaderPc
<1>7. CASE WriterSignals
  BY <1>7, <1>1
     DEF WriterSignals, LifeFlags, LifePc, WriterPc, ReaderPc
<1>8. CASE \/ ReaderReads \/ ReaderStops \/ FirstReadFails \/ ReaderFails
  BY <1>8, <1>1
     DEF ReaderReads, ReaderStops, FirstReadFails, ReaderFails, MayRead,
         LifeFlags, LifePc, WriterPc, ReaderPc
<1>9. CASE \/ RatioTests \/ RatioCounts \/ RatioShows \/ ReaderStores
           \/ ReaderFires
  BY <1>9, <1>1
     DEF RatioTests, ReaderAt, RatioCounts, RatioShows, ReaderStores,
         ReaderFires, LifeFlags, LifePc, WriterPc, ReaderPc
<1>10. CASE AttachClears
  BY <1>10, <1>1
     DEF AttachClears, LifeAt, LifeFlags, LifePc, WriterPc, ReaderPc
<1>11. CASE AttachSetsFlag
  BY <1>11, <1>1
     DEF AttachSetsFlag, LifeAt, LifeFlags, LifePc, WriterPc, ReaderPc
<1>12. CASE AttachTells
  BY <1>12, <1>1
     DEF AttachTells, LifeAt, LifeFlags, LifePc, WriterPc, ReaderPc
<1>13. CASE \/ DetachStops \/ DetachClearsFlag \/ DetachEnds
  BY <1>13, <1>1
     DEF DetachStops, LifeAt, DetachClearsFlag, DetachEnds, LifeFlags, LifePc,
         WriterPc, ReaderPc
<1>14. ASSUME NEW s \in Setters,
              \/ SetterCalls(s) \/ OutputLocks(s) \/ OutputFindsAttached(s)
              \/ OutputMustWait(s) \/ OutputDeposits(s) \/ OutputWaits(s)
              \/ OutputSignals(s) \/ RatioSets(s) \/ RatioSwitches(s)
              \/ OutputNotAttached(s) \/ OutputIsSet(s) \/ OutputTimesOut(s)
              \/ OutputFires(s) \/ RatioSignals(s)
       PROVE  LifeFlags'
  BY <1>14, <1>2
     DEF SetterCalls, SetterAt, OutputLocks, OutputFindsAttached,
         OutputMustWait, OutputDeposits, OutputWaits, OutputSignals,
         RatioSets, RatioSwitches, OutputNotAttached, Returns, OutputIsSet,
         OutputTimesOut, OutputFires, RatioSignals
<1>15. CASE \/ DeviceReports \/ InputChanges \/ Unplug \/ Plug
  BY <1>15, <1>2
     DEF DeviceReports, InputChanges, Unplug, Plug
<1>16. CASE UNCHANGED vars
  BY <1>16, <1>2
     DEF vars
<1>17. QED
  BY Zenon, <1>3, <1>4, <1>5, <1>6, <1>7, <1>8, <1>9, <1>10, <1>11, <1>12,
     <1>13, <1>14, <1>15, <1>16
     DEF Next, SetterContinues, Writer, Reader, Life, Environment

LEMMA SetsStep ==
  ASSUME TypeOK, Sets, [Next]_vars
  PROVE  Sets'
<1>1. /\ Sets /\ spc = [s \in Setters |-> spc[s]] /\ req = [s \in Setters |-> req[s]]
  BY DEF TypeOK
<1>2. ASSUME UNCHANGED <<spc, req>> PROVE Sets'
  BY <1>1, <1>2 DEF Sets
<1>3. ASSUME NEW s \in Setters, SetterCalls(s)
      PROVE  Sets'
  BY <1>3, <1>1
     DEF SetterCalls, SetterAt, Sets, OutputPc
<1>4. ASSUME NEW s \in Setters,
             \/ OutputLocks(s) \/ OutputFindsAttached(s) \/ OutputMustWait(s)
      PROVE  Sets'
  BY <1>4, <1>1
     DEF OutputLocks, SetterAt, OutputFindsAttached, OutputMustWait, Sets,
         OutputPc
<1>5. ASSUME NEW s \in Setters,
             \/ OutputDeposits(s) \/ OutputWaits(s) \/ OutputSignals(s)
      PROVE  Sets'
  BY <1>5, <1>1
     DEF OutputDeposits, SetterAt, OutputWaits, OutputSignals, Sets, OutputPc
<1>6. ASSUME NEW s \in Setters,
             \/ RatioSets(s) \/ RatioSwitches(s)
      PROVE  Sets'
  BY <1>6, <1>1
     DEF RatioSets, SetterAt, RatioSwitches, Sets, OutputPc
<1>7. ASSUME NEW s \in Setters,
             \/ OutputNotAttached(s) \/ OutputIsSet(s)
      PROVE  Sets'
  BY <1>7, <1>1
     DEF OutputNotAttached, Returns, OutputIsSet, Sets, OutputPc
<1>8. ASSUME NEW s \in Setters,
             \/ OutputTimesOut(s) \/ OutputFires(s) \/ RatioSignals(s)
      PROVE  Sets'
  BY <1>8, <1>1
     DEF OutputTimesOut, Returns, OutputFires, RatioSignals, Sets, OutputPc
<1>9. CASE \/ WriterLoops \/ WriterWakes \/ WriterTimesOut \/ WriterResets
           \/ WriterGets \/ WriterSends \/ WriterNotAttached \/ WriterFails
           \/ WriterSignals \/ ReaderReads \/ ReaderStops \/ FirstReadFails
           \/ ReaderFails \/ RatioTests \/ RatioCounts \/ RatioShows
           \/ ReaderStores \/ ReaderFires \/ AttachClears \/ AttachSetsFlag
           \/ AttachTells \/ DetachStops \/ DetachClearsFlag \/ DetachEnds
           \/ DeviceReports \/ InputChanges \/ Unplug \/ Plug
  BY <1>9, <1>2
     DEF WriterLoops, WriterAt, WriterWakes, WriterTimesOut, WriterResets,
         WriterGets, WriterSends, WriterNotAttached, WriterFails,
         WriterSignals, ReaderReads, ReaderStops, FirstReadFails, ReaderFails,
         RatioTests, ReaderAt, RatioCounts, RatioShows, ReaderStores,
         ReaderFires, AttachClears, LifeAt, AttachSetsFlag, AttachTells,
         DetachStops, DetachClearsFlag, DetachEnds, DeviceReports,
         InputChanges, Unplug, Plug
<1>10. CASE UNCHANGED vars
  BY <1>10, <1>2
     DEF vars
<1>11. QED
  BY Zenon, <1>3, <1>4, <1>5, <1>6, <1>7, <1>8, <1>9, <1>10
     DEF Next, SetterContinues, Writer, Reader, Life, Environment

LEMMA DeviceTypesStep ==
  ASSUME TypeOK, [Next]_vars
  PROVE  DeviceTypes'
<1>1. DeviceTypes /\ WriterTypes
  BY TypeParts
<1>2. ASSUME UNCHANGED <<kind, plugged, dev, report>> PROVE DeviceTypes'
  BY <1>1, <1>2 DEF DeviceTypes
<1>3. ASSUME wpc = "send" PROVE Executed(packet) \in State
  <2>1. /\ packet.outs \in [Outputs -> BOOLEAN] /\ packet.last \in Outputs
        /\ kind.ratio => packet.ratio \in BOOLEAN
        /\ dev \in State /\ kind \in Kind
    BY <1>1, <1>3, KindIsKind DEF DeviceTypes, WriterTypes, Packet
  <2> DEFINE p == IF kind.one THEN [dev.outs EXCEPT ![packet.last] = packet.outs[packet.last]]
                  ELSE packet.outs
             m == IF kind.ratio THEN packet.ratio ELSE dev.mode
  <2>2. p \in [Outputs -> BOOLEAN] /\ m \in BOOLEAN
    BY <2>1 DEF State
  <2>3. Executed(packet) = [dev EXCEPT !.outs = p, !.mode = m]
    BY DEF Executed
  <2> HIDE DEF p, m
  <2>4. QED
    BY <2>1, <2>2, <2>3 DEF State
<1>4. [o \in Outputs |-> FALSE] \in [Outputs -> BOOLEAN]
  OBVIOUS
<1>5. Powered \in State
  BY <1>4 DEF Powered, State
<1>6. CASE WriterSends
  BY <1>6, <1>3, <1>1
     DEF WriterSends, WriterAt, DeviceTypes, State
<1>7. CASE ReaderReads
  BY <1>7, <1>1
     DEF ReaderReads, DeviceTypes, State
<1>8. CASE AttachClears
  BY <1>8, <1>1
     DEF AttachClears, LifeAt, DeviceTypes, State
<1>9. CASE DeviceReports
  BY <1>9, <1>1
     DEF DeviceReports, DeviceTypes, State
<1>10. CASE InputChanges
  BY <1>10, <1>1
     DEF InputChanges, DeviceTypes, State
<1>11. CASE Unplug
  BY <1>11, <1>1
     DEF Unplug, DeviceTypes, State
<1>12. CASE Plug
  BY <1>12, <1>5, <1>1
     DEF Plug, DeviceTypes, State
<1>13. ASSUME NEW s \in Setters,
              \/ SetterCalls(s) \/ OutputLocks(s) \/ OutputFindsAttached(s)
              \/ OutputMustWait(s) \/ OutputDeposits(s) \/ OutputWaits(s)
              \/ OutputSignals(s) \/ RatioSets(s) \/ RatioSwitches(s)
              \/ OutputNotAttached(s) \/ OutputIsSet(s) \/ OutputTimesOut(s)
              \/ OutputFires(s) \/ RatioSignals(s)
       PROVE  DeviceTypes'
  BY <1>13, <1>2
     DEF SetterCalls, SetterAt, OutputLocks, OutputFindsAttached,
         OutputMustWait, OutputDeposits, OutputWaits, OutputSignals,
         RatioSets, RatioSwitches, OutputNotAttached, Returns, OutputIsSet,
         OutputTimesOut, OutputFires, RatioSignals
<1>14. CASE \/ WriterLoops \/ WriterWakes \/ WriterTimesOut \/ WriterResets
            \/ WriterGets \/ WriterNotAttached \/ WriterFails \/ WriterSignals
            \/ ReaderStops \/ FirstReadFails \/ ReaderFails \/ RatioTests
            \/ RatioCounts \/ RatioShows \/ ReaderStores \/ ReaderFires
            \/ AttachSetsFlag \/ AttachTells \/ DetachStops
            \/ DetachClearsFlag \/ DetachEnds
  BY <1>14, <1>2
     DEF WriterLoops, WriterAt, WriterWakes, WriterTimesOut, WriterResets,
         WriterGets, WriterNotAttached, WriterFails, WriterSignals,
         ReaderStops, FirstReadFails, ReaderFails, RatioTests, ReaderAt,
         RatioCounts, RatioShows, ReaderStores, ReaderFires, AttachSetsFlag,
         LifeAt, AttachTells, DetachStops, DetachClearsFlag, DetachEnds
<1>15. CASE UNCHANGED vars
  BY <1>15, <1>2
     DEF vars
<1>16. QED
  BY Zenon, <1>6, <1>7, <1>8, <1>9, <1>10, <1>11, <1>12, <1>13, <1>14, <1>15
     DEF Next, SetterContinues, Writer, Reader, Life, Environment

LEMMA FlagTypesStep ==
  ASSUME TypeOK, [Next]_vars
  PROVE  FlagTypes'
<1>1. FlagTypes /\ reading \in BOOLEAN /\ kind.awdc \in BOOLEAN
  BY TypeParts, KindIsKind DEF ReaderTypes, Kind
<1>2. ASSUME UNCHANGED <<attached, usbError, stop, writtenEv, availEv>> PROVE FlagTypes'
  BY <1>1, <1>2 DEF FlagTypes
<1>3. ASSUME NEW s \in Setters,
             \/ OutputDeposits(s) \/ OutputSignals(s)
      PROVE  FlagTypes'
  BY <1>3, <1>1
     DEF OutputDeposits, SetterAt, OutputSignals, FlagTypes
<1>4. ASSUME NEW s \in Setters, RatioSignals(s)
      PROVE  FlagTypes'
  BY <1>4, <1>1
     DEF RatioSignals, Returns, FlagTypes
<1>5. CASE \/ WriterLoops \/ WriterTimesOut
  BY <1>5, <1>1
     DEF WriterLoops, WriterAt, WriterTimesOut, FlagTypes
<1>6. CASE \/ WriterResets \/ WriterSignals
  BY <1>6, <1>1
     DEF WriterResets, WriterAt, WriterSignals, FlagTypes
<1>7. CASE ReaderFails
  BY <1>7, <1>1
     DEF ReaderFails, FlagTypes
<1>8. CASE AttachSetsFlag
  BY <1>8, <1>1
     DEF AttachSetsFlag, LifeAt, FlagTypes
<1>9. CASE \/ DetachStops \/ DetachClearsFlag \/ DetachEnds
  BY <1>9, <1>1
     DEF DetachStops, LifeAt, DetachClearsFlag, DetachEnds, FlagTypes
<1>10. ASSUME NEW s \in Setters,
              \/ SetterCalls(s) \/ OutputLocks(s) \/ OutputFindsAttached(s)
              \/ OutputMustWait(s) \/ OutputWaits(s) \/ RatioSets(s)
              \/ RatioSwitches(s) \/ OutputNotAttached(s) \/ OutputIsSet(s)
              \/ OutputTimesOut(s) \/ OutputFires(s)
       PROVE  FlagTypes'
  BY <1>10, <1>2
     DEF SetterCalls, SetterAt, OutputLocks, OutputFindsAttached,
         OutputMustWait, OutputWaits, RatioSets, RatioSwitches,
         OutputNotAttached, Returns, OutputIsSet, OutputTimesOut, OutputFires
<1>11. CASE \/ WriterWakes \/ WriterGets \/ WriterSends \/ WriterNotAttached
            \/ WriterFails \/ ReaderReads \/ ReaderStops \/ FirstReadFails
            \/ RatioTests \/ RatioCounts \/ RatioShows \/ ReaderStores
            \/ ReaderFires \/ AttachClears \/ AttachTells \/ DeviceReports
            \/ InputChanges \/ Unplug \/ Plug
  BY <1>11, <1>2
     DEF WriterWakes, WriterAt, WriterGets, WriterSends, WriterNotAttached,
         WriterFails, ReaderReads, ReaderStops, FirstReadFails, RatioTests,
         ReaderAt, RatioCounts, RatioShows, ReaderStores, ReaderFires,
         AttachClears, LifeAt, AttachTells, DeviceReports, InputChanges,
         Unplug, Plug
<1>12. CASE UNCHANGED vars
  BY <1>12, <1>2
     DEF vars
<1>13. QED
  BY Zenon, <1>3, <1>4, <1>5, <1>6, <1>7, <1>8, <1>9, <1>10, <1>11, <1>12
     DEF Next, SetterContinues, Writer, Reader, Life, Environment

LEMMA SetOutput ==
  ASSUME Base, NEW s \in Setters, spc[s] \in OutputPc
  PROVE  req[s].what = "output" /\ req[s].o \in Outputs /\ req[s].v \in BOOLEAN
BY DEF Base, Sets, TypeOK, OutputPc, Requests, Idle

LEMMA OutTypesStep ==
  ASSUME Base, [Next]_vars
  PROVE  OutTypes'
<1>1. OutTypes /\ Unknown \in Tri /\ BOOLEAN \subseteq Tri /\ Unknown \notin BOOLEAN
  BY TypeParts, ThreadsAssumption DEF Base, Tri
<1>2. ASSUME UNCHANGED <<nextOutputStates, changedOutputs, outputStates,
                         outputEchoStates, lastChangedOutput>>
      PROVE  OutTypes'
  BY <1>1, <1>2 DEF OutTypes
<1>3. AllUnknown \in [Outputs -> Tri] /\ First \in Outputs
  BY <1>1, ThreadsAssumption DEF AllUnknown, First
<1>4. Merged \in [Outputs -> Tri]
  BY <1>1 DEF OutTypes, Merged
<1>5. ASSUME NEW s \in Setters, OutputLocks(s)
      PROVE  OutTypes'

  <2>1. req[s].o \in Outputs
    BY <1>5 DEF OutputLocks, Base, TypeOK, SetterAt, Requests, Idle
  <2>2. QED
    BY <2>1, <1>5, <1>1 DEF OutputLocks, OutTypes
<1>6. ASSUME NEW s \in Setters, OutputDeposits(s)
      PROVE  OutTypes'

  <2>1. req[s].o \in Outputs /\ req[s].v \in BOOLEAN
    BY <1>6, SetOutput DEF OutputDeposits, SetterAt, OutputPc
  <2>2. QED
    BY <2>1, <1>6, <1>1 DEF OutputDeposits, OutTypes
<1>7. ASSUME NEW s \in Setters, OutputFires(s)
      PROVE  OutTypes'

  <2>1. req[s].o \in Outputs /\ req[s].v \in BOOLEAN
    BY <1>7, SetOutput DEF OutputFires, OutputPc
  <2>2. QED
    BY <2>1, <1>7, <1>1 DEF OutputFires, OutTypes
<1>8. CASE WriterGets
  BY <1>8, <1>4, <1>1
     DEF WriterGets, WriterAt, OutTypes
<1>9. CASE ReaderStores

  <2>1. rbuf.new.outs \in [Outputs -> Tri]
    BY <1>9, TypeParts DEF Base, ReaderTypes, ReaderStores, ReaderAt, Reading
  <2>2. QED
    BY <2>1, <1>9, <1>1 DEF ReaderStores, OutTypes
<1>10. CASE AttachClears
  BY <1>10, <1>3, <1>1
     DEF AttachClears, LifeAt, OutTypes
<1>11. CASE AttachSetsFlag
  BY <1>11, <1>1
     DEF AttachSetsFlag, LifeAt, OutTypes
<1>12. ASSUME NEW s \in Setters,
              \/ SetterCalls(s) \/ OutputFindsAttached(s) \/ OutputMustWait(s)
              \/ OutputWaits(s) \/ OutputSignals(s) \/ RatioSets(s)
              \/ RatioSwitches(s) \/ OutputNotAttached(s) \/ OutputIsSet(s)
              \/ OutputTimesOut(s) \/ RatioSignals(s)
       PROVE  OutTypes'
  BY <1>12, <1>2
     DEF SetterCalls, SetterAt, OutputFindsAttached, OutputMustWait,
         OutputWaits, OutputSignals, RatioSets, RatioSwitches,
         OutputNotAttached, Returns, OutputIsSet, OutputTimesOut, RatioSignals
<1>13. CASE \/ WriterLoops \/ WriterWakes \/ WriterTimesOut \/ WriterResets
            \/ WriterSends \/ WriterNotAttached \/ WriterFails
            \/ WriterSignals \/ ReaderReads \/ ReaderStops \/ FirstReadFails
            \/ ReaderFails \/ RatioTests \/ RatioCounts \/ RatioShows
            \/ ReaderFires \/ AttachTells \/ DetachStops \/ DetachClearsFlag
            \/ DetachEnds \/ DeviceReports \/ InputChanges \/ Unplug \/ Plug
  BY <1>13, <1>2
     DEF WriterLoops, WriterAt, WriterWakes, WriterTimesOut, WriterResets,
         WriterSends, WriterNotAttached, WriterFails, WriterSignals,
         ReaderReads, ReaderStops, FirstReadFails, ReaderFails, RatioTests,
         ReaderAt, RatioCounts, RatioShows, ReaderFires, AttachTells, LifeAt,
         DetachStops, DetachClearsFlag, DetachEnds, DeviceReports,
         InputChanges, Unplug, Plug
<1>14. CASE UNCHANGED vars
  BY <1>14, <1>2
     DEF vars
<1>15. QED
  BY Zenon, <1>5, <1>6, <1>7, <1>8, <1>9, <1>10, <1>11, <1>12, <1>13, <1>14
     DEF Next, SetterContinues, Writer, Reader, Life, Environment

LEMMA ValueTypesStep ==
  ASSUME Base, [Next]_vars
  PROVE  ValueTypes'
<1>1. ValueTypes /\ Unknown \in Tri /\ BOOLEAN \subseteq Tri
  BY TypeParts DEF Base, Tri
<1>2. ASSUME UNCHANGED <<ratiometric, ratiometricEcho, ratiometricSwitching,
                         physicalState, sensorValue>>
      PROVE  ValueTypes'
  BY <1>1, <1>2 DEF ValueTypes
<1>3. ASSUME rpc # "idle"
      PROVE  /\ rbuf.new.input \in BOOLEAN /\ rbuf.new.mode \in Tri
             /\ rbuf.new.measured \in BOOLEAN /\ rbuf.left \in 0..2
             /\ rpc = "count" => rbuf.left > 0
  BY <1>3, TypeParts DEF Base, ReaderTypes, Reading
<1>4. ASSUME NEW s \in Setters, RatioSets(s)
      PROVE  ValueTypes'

  <2>1. req[s].v \in BOOLEAN
    BY <1>4 DEF RatioSets, Base, TypeOK, SetterAt, Requests, Idle
  <2>2. QED
    BY <2>1, <1>4, <1>1 DEF RatioSets, ValueTypes
<1>5. ASSUME NEW s \in Setters, RatioSwitches(s)
      PROVE  ValueTypes'
  BY <1>5, <1>1
     DEF RatioSwitches, SetterAt, ValueTypes
<1>6. CASE WriterGets
  BY <1>6, <1>1
     DEF WriterGets, WriterAt, ValueTypes
<1>7. CASE RatioTests
  BY <1>7, <1>3, <1>1
     DEF RatioTests, ReaderAt, ValueTypes
<1>8. CASE RatioCounts
  BY <1>8, <1>3, <1>1
     DEF RatioCounts, ReaderAt, ValueTypes
<1>9. CASE RatioShows
  BY <1>9, <1>3, <1>1
     DEF RatioShows, ReaderAt, ValueTypes
<1>10. CASE ReaderStores
  BY <1>10, <1>3, <1>1
     DEF ReaderStores, ReaderAt, ValueTypes
<1>11. CASE AttachClears
  BY <1>11, <1>1
     DEF AttachClears, LifeAt, ValueTypes
<1>12. ASSUME NEW s \in Setters,
              \/ SetterCalls(s) \/ OutputLocks(s) \/ OutputFindsAttached(s)
              \/ OutputMustWait(s) \/ OutputDeposits(s) \/ OutputWaits(s)
              \/ OutputSignals(s) \/ OutputNotAttached(s) \/ OutputIsSet(s)
              \/ OutputTimesOut(s) \/ OutputFires(s) \/ RatioSignals(s)
       PROVE  ValueTypes'
  BY <1>12, <1>2
     DEF SetterCalls, SetterAt, OutputLocks, OutputFindsAttached,
         OutputMustWait, OutputDeposits, OutputWaits, OutputSignals,
         OutputNotAttached, Returns, OutputIsSet, OutputTimesOut, OutputFires,
         RatioSignals
<1>13. CASE \/ WriterLoops \/ WriterWakes \/ WriterTimesOut \/ WriterResets
            \/ WriterSends \/ WriterNotAttached \/ WriterFails
            \/ WriterSignals \/ ReaderReads \/ ReaderStops \/ FirstReadFails
            \/ ReaderFails \/ ReaderFires \/ AttachSetsFlag \/ AttachTells
            \/ DetachStops \/ DetachClearsFlag \/ DetachEnds \/ DeviceReports
            \/ InputChanges \/ Unplug \/ Plug
  BY <1>13, <1>2
     DEF WriterLoops, WriterAt, WriterWakes, WriterTimesOut, WriterResets,
         WriterSends, WriterNotAttached, WriterFails, WriterSignals,
         ReaderReads, ReaderStops, FirstReadFails, ReaderFails, ReaderFires,
         ReaderAt, AttachSetsFlag, LifeAt, AttachTells, DetachStops,
         DetachClearsFlag, DetachEnds, DeviceReports, InputChanges, Unplug,
         Plug
<1>14. CASE UNCHANGED vars
  BY <1>14, <1>2
     DEF vars
<1>15. QED
  BY Zenon, <1>4, <1>5, <1>6, <1>7, <1>8, <1>9, <1>10, <1>11, <1>12, <1>13,
     <1>14
     DEF Next, SetterContinues, Writer, Reader, Life, Environment

LEMMA LifeTypesStep ==
  ASSUME Base, [Next]_vars
  PROVE  LifeTypes'
<1>1. /\ LifeTypes /\ LifeFlags /\ reading \in BOOLEAN /\ ReadTries \in Nat \ {0}
  BY TypeParts, BoundsAssumption DEF Base, ReaderTypes
<1>2. ASSUME UNCHANGED <<life, tries>> PROVE LifeTypes'
  BY <1>1, <1>2 DEF LifeTypes
<1>3. Reads \in 0..ReadTries
  BY <1>1 DEF Reads
<1>4. CASE FirstReadFails
  BY <1>4, <1>1
     DEF FirstReadFails, LifeTypes, LifeFlags, LifePc
<1>5. CASE ReaderFails
  BY <1>5, <1>1
     DEF ReaderFails, MayRead, LifeTypes, LifeFlags, LifePc
<1>6. CASE ReaderFires
  BY <1>6, <1>1
     DEF ReaderFires, ReaderAt, LifeTypes, LifeFlags, LifePc
<1>7. CASE AttachClears
  BY <1>7, <1>3, <1>1
     DEF AttachClears, LifeAt, LifeTypes, LifeFlags, LifePc
<1>8. CASE AttachSetsFlag
  BY <1>8, <1>1
     DEF AttachSetsFlag, LifeAt, LifeTypes, LifeFlags, LifePc
<1>9. CASE AttachTells
  BY <1>9, <1>1
     DEF AttachTells, LifeAt, LifeTypes, LifeFlags, LifePc
<1>10. CASE \/ DetachStops \/ DetachClearsFlag \/ DetachEnds
  BY <1>10, <1>1
     DEF DetachStops, LifeAt, DetachClearsFlag, DetachEnds, LifeTypes,
         LifeFlags, LifePc
<1>11. ASSUME NEW s \in Setters,
              \/ SetterCalls(s) \/ OutputLocks(s) \/ OutputFindsAttached(s)
              \/ OutputMustWait(s) \/ OutputDeposits(s) \/ OutputWaits(s)
              \/ OutputSignals(s) \/ RatioSets(s) \/ RatioSwitches(s)
              \/ OutputNotAttached(s) \/ OutputIsSet(s) \/ OutputTimesOut(s)
              \/ OutputFires(s) \/ RatioSignals(s)
       PROVE  LifeTypes'
  BY <1>11, <1>2
     DEF SetterCalls, SetterAt, OutputLocks, OutputFindsAttached,
         OutputMustWait, OutputDeposits, OutputWaits, OutputSignals,
         RatioSets, RatioSwitches, OutputNotAttached, Returns, OutputIsSet,
         OutputTimesOut, OutputFires, RatioSignals
<1>12. CASE \/ WriterLoops \/ WriterWakes \/ WriterTimesOut \/ WriterResets
            \/ WriterGets \/ WriterSends \/ WriterNotAttached \/ WriterFails
            \/ WriterSignals \/ ReaderReads \/ ReaderStops \/ RatioTests
            \/ RatioCounts \/ RatioShows \/ ReaderStores \/ DeviceReports
            \/ InputChanges \/ Unplug \/ Plug
  BY <1>12, <1>2
     DEF WriterLoops, WriterAt, WriterWakes, WriterTimesOut, WriterResets,
         WriterGets, WriterSends, WriterNotAttached, WriterFails,
         WriterSignals, ReaderReads, ReaderStops, RatioTests, ReaderAt,
         RatioCounts, RatioShows, ReaderStores, DeviceReports, InputChanges,
         Unplug, Plug
<1>13. CASE UNCHANGED vars
  BY <1>13, <1>2
     DEF vars
<1>14. QED
  BY Zenon, <1>4, <1>5, <1>6, <1>7, <1>8, <1>9, <1>10, <1>11, <1>12, <1>13
     DEF Next, SetterContinues, Writer, Reader, Life, Environment

LEMMA SetterTypesStep ==
  ASSUME Base, [Next]_vars
  PROVE  SetterTypes'
<1>1. SetterTypes /\ NoThread \notin Setters /\ Idle \notin Requests
  BY TypeParts, ThreadsAssumption DEF Base, Idle, Requests
<1>2. Requests' = Requests
  BY KindStays DEF Requests
<1>3. ASSUME UNCHANGED <<writelock, spc, req>> PROVE SetterTypes'
  BY <1>1, <1>2, <1>3 DEF SetterTypes
<1>4. ASSUME NEW s \in Setters, SetterCalls(s)
      PROVE  SetterTypes'
  BY <1>4, <1>1, <1>2
     DEF SetterCalls, SetterAt, SetterTypes, SetterPc
<1>5. ASSUME NEW s \in Setters,
             \/ OutputLocks(s) \/ OutputFindsAttached(s)
      PROVE  SetterTypes'
  BY <1>5, <1>1, <1>2
     DEF OutputLocks, SetterAt, OutputFindsAttached, SetterTypes, SetterPc
<1>6. ASSUME NEW s \in Setters,
             \/ OutputMustWait(s) \/ OutputDeposits(s)
      PROVE  SetterTypes'
  BY <1>6, <1>1, <1>2
     DEF OutputMustWait, SetterAt, OutputDeposits, SetterTypes, SetterPc
<1>7. ASSUME NEW s \in Setters,
             \/ OutputWaits(s) \/ OutputSignals(s)
      PROVE  SetterTypes'
  BY <1>7, <1>1, <1>2
     DEF OutputWaits, SetterAt, OutputSignals, SetterTypes, SetterPc
<1>8. ASSUME NEW s \in Setters,
             \/ RatioSets(s) \/ RatioSwitches(s)
      PROVE  SetterTypes'
  BY <1>8, <1>1, <1>2
     DEF RatioSets, SetterAt, RatioSwitches, SetterTypes, SetterPc
<1>9. ASSUME NEW s \in Setters,
             \/ OutputNotAttached(s) \/ OutputIsSet(s)
      PROVE  SetterTypes'
  BY <1>9, <1>1, <1>2
     DEF OutputNotAttached, Returns, OutputIsSet, SetterTypes, SetterPc
<1>10. ASSUME NEW s \in Setters,
              \/ OutputTimesOut(s) \/ OutputFires(s) \/ RatioSignals(s)
       PROVE  SetterTypes'
  BY <1>10, <1>1, <1>2
     DEF OutputTimesOut, Returns, OutputFires, RatioSignals, SetterTypes,
         SetterPc
<1>11. CASE \/ WriterLoops \/ WriterWakes \/ WriterTimesOut \/ WriterResets
            \/ WriterGets \/ WriterSends \/ WriterNotAttached \/ WriterFails
            \/ WriterSignals \/ ReaderReads \/ ReaderStops \/ FirstReadFails
            \/ ReaderFails \/ RatioTests \/ RatioCounts \/ RatioShows
            \/ ReaderStores \/ ReaderFires \/ AttachClears \/ AttachSetsFlag
            \/ AttachTells \/ DetachStops \/ DetachClearsFlag \/ DetachEnds
            \/ DeviceReports \/ InputChanges \/ Unplug \/ Plug
  BY <1>11, <1>3
     DEF WriterLoops, WriterAt, WriterWakes, WriterTimesOut, WriterResets,
         WriterGets, WriterSends, WriterNotAttached, WriterFails,
         WriterSignals, ReaderReads, ReaderStops, FirstReadFails, ReaderFails,
         RatioTests, ReaderAt, RatioCounts, RatioShows, ReaderStores,
         ReaderFires, AttachClears, LifeAt, AttachSetsFlag, AttachTells,
         DetachStops, DetachClearsFlag, DetachEnds, DeviceReports,
         InputChanges, Unplug, Plug
<1>12. CASE UNCHANGED vars
  BY <1>12, <1>3
     DEF vars
<1>13. QED
  BY Zenon, <1>4, <1>5, <1>6, <1>7, <1>8, <1>9, <1>10, <1>11, <1>12
     DEF Next, SetterContinues, Writer, Reader, Life, Environment

LEMMA WriterTypesStep ==
  ASSUME Base, [Next]_vars
  PROVE  WriterTypes'
<1>1. WriterTypes
  BY TypeParts DEF Base
<1>2. Packet' = Packet
  BY KindStays DEF Packet
<1>3. ASSUME UNCHANGED <<wpc, packet>> PROVE WriterTypes'
  BY <1>1, <1>2, <1>3 DEF WriterTypes
<1>4. CASE \/ WriterLoops \/ WriterWakes
  BY <1>4, <1>1
     DEF WriterLoops, WriterAt, WriterWakes, WriterTypes, WriterPc
<1>5. CASE WriterTimesOut
  BY <1>5, <1>1
     DEF WriterTimesOut, WriterAt, WriterTypes, WriterPc
<1>6. CASE WriterResets
  BY <1>6, <1>1
     DEF WriterResets, WriterAt, WriterTypes, WriterPc
<1>7. CASE WriterGets

  <2>1. /\ OutTypes /\ kind \in Kind /\ ratiometric \in Tri
        /\ Unknown \notin BOOLEAN
    BY TypeParts, KindIsKind, ThreadsAssumption DEF Base, ValueTypes
  <2>2. Merged \in [Outputs -> BOOLEAN]
    BY <2>1 DEF OutTypes, Merged, Tri
  <2>3. ratiometric' \in IF kind.ratio THEN BOOLEAN ELSE Tri
    BY <1>7, <2>1 DEF WriterGets, Tri
  <2>4. /\ wpc' = "send"
        /\ packet' = [outs |-> Merged, ratio |-> ratiometric', last |-> lastChangedOutput]
    BY <1>7 DEF WriterGets, WriterAt
  <2>5. packet' \in Packet
    BY <2>1, <2>2, <2>3, <2>4 DEF Packet, OutTypes
  <2>6. QED
    BY <2>4, <2>5, <1>2 DEF WriterTypes, WriterPc
<1>8. CASE \/ WriterSends \/ WriterNotAttached \/ WriterFails
  BY <1>8, <1>1
     DEF WriterSends, WriterAt, WriterNotAttached, WriterFails, WriterTypes,
         WriterPc
<1>9. CASE WriterSignals
  BY <1>9, <1>1
     DEF WriterSignals, WriterTypes, WriterPc
<1>10. CASE AttachSetsFlag
  BY <1>10, <1>1
     DEF AttachSetsFlag, LifeAt, Base, LifeFlags, WriterTypes, WriterPc
<1>11. ASSUME NEW s \in Setters,
              \/ SetterCalls(s) \/ OutputLocks(s) \/ OutputFindsAttached(s)
              \/ OutputMustWait(s) \/ OutputDeposits(s) \/ OutputWaits(s)
              \/ OutputSignals(s) \/ RatioSets(s) \/ RatioSwitches(s)
              \/ OutputNotAttached(s) \/ OutputIsSet(s) \/ OutputTimesOut(s)
              \/ OutputFires(s) \/ RatioSignals(s)
       PROVE  WriterTypes'
  BY <1>11, <1>3
     DEF SetterCalls, SetterAt, OutputLocks, OutputFindsAttached,
         OutputMustWait, OutputDeposits, OutputWaits, OutputSignals,
         RatioSets, RatioSwitches, OutputNotAttached, Returns, OutputIsSet,
         OutputTimesOut, OutputFires, RatioSignals
<1>12. CASE \/ ReaderReads \/ ReaderStops \/ FirstReadFails \/ ReaderFails
            \/ RatioTests \/ RatioCounts \/ RatioShows \/ ReaderStores
            \/ ReaderFires \/ AttachClears \/ AttachTells \/ DetachStops
            \/ DetachClearsFlag \/ DetachEnds \/ DeviceReports \/ InputChanges
            \/ Unplug \/ Plug
  BY <1>12, <1>3
     DEF ReaderReads, ReaderStops, FirstReadFails, ReaderFails, RatioTests,
         ReaderAt, RatioCounts, RatioShows, ReaderStores, ReaderFires,
         AttachClears, LifeAt, AttachTells, DetachStops, DetachClearsFlag,
         DetachEnds, DeviceReports, InputChanges, Unplug, Plug
<1>13. CASE UNCHANGED vars
  BY <1>13, <1>3
     DEF vars
<1>14. QED
  BY Zenon, <1>4, <1>5, <1>6, <1>7, <1>8, <1>9, <1>10, <1>11, <1>12, <1>13
     DEF Next, SetterContinues, Writer, Reader, Life, Environment

LEMMA ReportIsRead ==
  ASSUME Base, report # Unknown
  PROVE  /\ report \in State
         /\ Parsed(report).input = report.input
         /\ Parsed(report).measured = report.measured
         /\ Parsed(report).outs = IF kind.echo THEN report.outs ELSE AllUnknown
         /\ Parsed(report).mode = IF kind.ratio THEN report.mode ELSE Unknown
         /\ Parsed(report) \in [outs : [Outputs -> Tri], input : BOOLEAN,
                                mode : Tri, measured : BOOLEAN]
<1>1. report \in State
  BY TypeParts DEF Base, DeviceTypes
<1> DEFINE os == IF kind.echo THEN report.outs ELSE AllUnknown
           md == IF kind.ratio THEN report.mode ELSE Unknown
<1>2. os \in [Outputs -> Tri] /\ md \in Tri
  BY <1>1 DEF State, AllUnknown, Tri
<1>3. Parsed(report) = [report EXCEPT !.outs = os, !.mode = md]
  BY DEF Parsed
<1> HIDE DEF os, md
<1>4. /\ Parsed(report) = [outs |-> os, input |-> report.input, mode |-> md,
                           measured |-> report.measured]
      /\ report.input \in BOOLEAN /\ report.measured \in BOOLEAN
  BY <1>1, <1>3 DEF State
<1>5. QED
  BY <1>1, <1>2, <1>4 DEF os, md

LEMMA HeardTypes == ASSUME Base, NEW x \in Reported PROVE Heard(x) \in Tri
BY TypeParts DEF Base, OutTypes, ValueTypes, Heard, Reported

LEMMA ReaderTypesStep ==
  ASSUME Base, [Next]_vars
  PROVE  ReaderTypes'
<1>1. ReaderTypes /\ ratiometricSwitching \in 0..2
  BY TypeParts DEF Base, ValueTypes
<1>2. Reading' = Reading
  BY KindStays DEF Reading, Reported
<1>3. ASSUME UNCHANGED <<reading, rpc, rbuf>> PROVE ReaderTypes'
  BY <1>1, <1>2, <1>3 DEF ReaderTypes
<1>4. ASSUME rpc # "idle", NEW n \in 0..2
      PROVE  [rbuf EXCEPT !.left = n] \in Reading /\ [rbuf EXCEPT !.left = n].left = n
  BY <1>1, <1>4 DEF ReaderTypes, Reading
<1>5. CASE ReaderReads

  <2>1. /\ rpc' = "ratio" /\ reading' = reading /\ report # Unknown
        /\ rbuf' = [new |-> Parsed(report), old |-> [x \in Reported |-> Heard(x)], left |-> 0]
    BY <1>5 DEF ReaderReads
  <2>2. rbuf' \in Reading
    BY <2>1, ReportIsRead, HeardTypes DEF Reading
  <2>3. QED
    BY <2>1, <2>2, <1>1, <1>2 DEF ReaderTypes, ReaderPc
<1>6. CASE \/ ReaderStops \/ ReaderFails
  BY <1>6, <1>1, <1>2
     DEF ReaderStops, ReaderFails, ReaderTypes, ReaderPc
<1>7. CASE RatioTests

  <2>1. /\ rpc = "ratio" /\ rpc' \in {"count", "show", "store"} /\ reading' = reading
        /\ rpc' = "count" => ratiometricSwitching > 0
        /\ rbuf' = IF rpc' = "count" THEN [rbuf EXCEPT !.left = ratiometricSwitching] ELSE rbuf
    BY <1>7 DEF RatioTests, ReaderAt
  <2>2. rbuf' \in Reading
    BY <2>1, <1>1, <1>4 DEF ReaderTypes
  <2>3. rpc' = "count" => rbuf'.left > 0
    BY <2>1, <1>1, <1>4
  <2>4. QED
    BY <2>1, <2>2, <2>3, <1>1, <1>2 DEF ReaderTypes, ReaderPc
<1>8. CASE RatioCounts
  BY <1>8, <1>4, <1>1, <1>2
     DEF RatioCounts, ReaderAt, ReaderTypes, ReaderPc
<1>9. CASE \/ RatioShows \/ ReaderStores
  BY <1>9, <1>1, <1>2
     DEF RatioShows, ReaderAt, ReaderStores, ReaderTypes, ReaderPc
<1>10. CASE ReaderFires
  BY <1>10, <1>1, <1>2
     DEF ReaderFires, ReaderAt, ReaderTypes, ReaderPc
<1>11. CASE AttachTells
  BY <1>11, <1>1, <1>2
     DEF AttachTells, LifeAt, ReaderTypes, ReaderPc
<1>12. ASSUME NEW s \in Setters,
              \/ SetterCalls(s) \/ OutputLocks(s) \/ OutputFindsAttached(s)
              \/ OutputMustWait(s) \/ OutputDeposits(s) \/ OutputWaits(s)
              \/ OutputSignals(s) \/ RatioSets(s) \/ RatioSwitches(s)
              \/ OutputNotAttached(s) \/ OutputIsSet(s) \/ OutputTimesOut(s)
              \/ OutputFires(s) \/ RatioSignals(s)
       PROVE  ReaderTypes'
  BY <1>12, <1>3
     DEF SetterCalls, SetterAt, OutputLocks, OutputFindsAttached,
         OutputMustWait, OutputDeposits, OutputWaits, OutputSignals,
         RatioSets, RatioSwitches, OutputNotAttached, Returns, OutputIsSet,
         OutputTimesOut, OutputFires, RatioSignals
<1>13. CASE \/ WriterLoops \/ WriterWakes \/ WriterTimesOut \/ WriterResets
            \/ WriterGets \/ WriterSends \/ WriterNotAttached \/ WriterFails
            \/ WriterSignals \/ FirstReadFails \/ AttachClears
            \/ AttachSetsFlag \/ DetachStops \/ DetachClearsFlag \/ DetachEnds
            \/ DeviceReports \/ InputChanges \/ Unplug \/ Plug
  BY <1>13, <1>3
     DEF WriterLoops, WriterAt, WriterWakes, WriterTimesOut, WriterResets,
         WriterGets, WriterSends, WriterNotAttached, WriterFails,
         WriterSignals, FirstReadFails, AttachClears, LifeAt, AttachSetsFlag,
         DetachStops, DetachClearsFlag, DetachEnds, DeviceReports,
         InputChanges, Unplug, Plug
<1>14. CASE UNCHANGED vars
  BY <1>14, <1>3
     DEF vars
<1>15. QED
  BY Zenon, <1>5, <1>6, <1>7, <1>8, <1>9, <1>10, <1>11, <1>12, <1>13, <1>14
     DEF Next, SetterContinues, Writer, Reader, Life, Environment

LEMMA HistoryTypesStep ==
  ASSUME Base, [Next]_vars
  PROVE  HistoryTypes'
<1>1. HistoryTypes /\ kind.ratio \in BOOLEAN
  BY TypeParts, KindIsKind DEF Base, Kind
<1>2. Reported' = Reported
  BY KindStays DEF Reported
<1>3. ASSUME UNCHANGED <<told, wanted, stray, overlapped>> PROVE HistoryTypes'
  BY <1>1, <1>2, <1>3 DEF HistoryTypes
<1>4. AllUnknown \in [Outputs -> Tri]
  BY DEF AllUnknown, Tri
<1>5. ASSUME NEW s \in Setters, OutputIsSet(s)
      PROVE  HistoryTypes'

  <2>1. req[s].o \in Outputs /\ req[s].v \in BOOLEAN
    BY <1>5, SetOutput DEF OutputIsSet, OutputPc
  <2>2. QED
    BY <2>1, <1>5, <1>1, <1>2 DEF OutputIsSet, Accepts, HistoryTypes, Tri
<1>6. ASSUME NEW s \in Setters, OutputDeposits(s)
      PROVE  HistoryTypes'

  <2>1. req[s].o \in Outputs /\ req[s].v \in BOOLEAN
    BY <1>6, SetOutput DEF OutputDeposits, SetterAt, OutputPc
  <2>2. QED
    BY <2>1, <1>6, <1>1, <1>2 DEF OutputDeposits, Accepts, HistoryTypes, Tri
<1>7. ASSUME NEW s \in Setters, RatioSets(s)
      PROVE  HistoryTypes'
  BY <1>7, <1>1, <1>2
     DEF RatioSets, SetterAt, RatioSettled, HistoryTypes
<1>8. CASE WriterGets
  BY <1>8, <1>1, <1>2
     DEF WriterGets, WriterAt, Presumes, HistoryTypes
<1>9. CASE ReaderFires
  BY <1>9, HeardTypes, <1>1, <1>2
     DEF ReaderFires, ReaderAt, HistoryTypes
<1>10. CASE AttachTells
  BY <1>10, HeardTypes, <1>1, <1>2
     DEF AttachTells, LifeAt, HistoryTypes
<1>11. CASE AttachClears
  BY <1>11, <1>4, <1>1, <1>2
     DEF AttachClears, LifeAt, HistoryTypes
<1>12. ASSUME NEW s \in Setters,
              \/ SetterCalls(s) \/ OutputLocks(s) \/ OutputFindsAttached(s)
              \/ OutputMustWait(s) \/ OutputWaits(s) \/ OutputSignals(s)
              \/ RatioSwitches(s) \/ OutputNotAttached(s) \/ OutputTimesOut(s)
              \/ OutputFires(s) \/ RatioSignals(s)
       PROVE  HistoryTypes'
  BY <1>12, <1>3
     DEF SetterCalls, SetterAt, OutputLocks, OutputFindsAttached,
         OutputMustWait, OutputWaits, OutputSignals, RatioSwitches,
         OutputNotAttached, Returns, OutputTimesOut, OutputFires, RatioSignals
<1>13. CASE \/ WriterLoops \/ WriterWakes \/ WriterTimesOut \/ WriterResets
            \/ WriterSends \/ WriterNotAttached \/ WriterFails
            \/ WriterSignals \/ ReaderReads \/ ReaderStops \/ FirstReadFails
            \/ ReaderFails \/ RatioTests \/ RatioCounts \/ RatioShows
            \/ ReaderStores \/ AttachSetsFlag \/ DetachStops
            \/ DetachClearsFlag \/ DetachEnds \/ DeviceReports \/ InputChanges
            \/ Unplug \/ Plug
  BY <1>13, <1>3
     DEF WriterLoops, WriterAt, WriterWakes, WriterTimesOut, WriterResets,
         WriterSends, WriterNotAttached, WriterFails, WriterSignals,
         ReaderReads, ReaderStops, FirstReadFails, ReaderFails, RatioTests,
         ReaderAt, RatioCounts, RatioShows, ReaderStores, AttachSetsFlag,
         LifeAt, DetachStops, DetachClearsFlag, DetachEnds, DeviceReports,
         InputChanges, Unplug, Plug
<1>14. CASE UNCHANGED vars
  BY <1>14, <1>3
     DEF vars
<1>15. QED
  BY Zenon, <1>5, <1>6, <1>7, <1>8, <1>9, <1>10, <1>11, <1>12, <1>13, <1>14
     DEF Next, SetterContinues, Writer, Reader, Life, Environment

LEMMA BaseInit == Init => Base
<1> SUFFICES ASSUME Init PROVE Base
  OBVIOUS
<1>1. /\ Powered \in State /\ AllUnknown \in [Outputs -> Tri] /\ First \in Outputs
      /\ NoThread \notin Setters
  BY ThreadsAssumption DEF Powered, State, AllUnknown, Tri, First
<1>2. DeviceTypes /\ FlagTypes /\ WriterTypes
  BY <1>1 DEF Init, DeviceTypes, FlagTypes, WriterTypes, WriterPc
<1>3. LifeTypes /\ ReaderTypes
  <2>1. /\ life = "off" /\ tries = 0 /\ reading = FALSE /\ rpc = "idle" /\ rbuf = Unknown
    BY DEF Init
  <2>2. LifeTypes
    BY <2>1, BoundsAssumption DEF LifeTypes, LifePc
  <2>3. ReaderTypes
    BY <2>1 DEF ReaderTypes, ReaderPc
  <2>4. QED
    BY <2>2, <2>3
<1>4. OutTypes /\ ValueTypes
  BY <1>1 DEF Init, OutTypes, ValueTypes, Tri
<1>5. SetterTypes
  BY <1>1 DEF Init, SetterTypes, SetterPc
<1>6. HistoryTypes
  BY <1>1 DEF Init, HistoryTypes, Tri
<1>7. LifeFlags /\ Sets
  BY DEF Init, LifeFlags, Sets, OutputPc
<1>8. QED
  BY <1>2, <1>3, <1>4, <1>5, <1>6, <1>7, TypeParts DEF Base

LEMMA BaseStep == Base /\ [Next]_vars => Base'
<1> SUFFICES ASSUME Base, [Next]_vars PROVE Base'
  OBVIOUS
<1>1. TypeOK'
  BY TypeParts, DeviceTypesStep, FlagTypesStep, OutTypesStep, ValueTypesStep,
     LifeTypesStep, SetterTypesStep, WriterTypesStep, ReaderTypesStep,
     HistoryTypesStep, PTL DEF Base
<1>2. QED
  BY <1>1, LifeFlagsStep, SetsStep DEF Base

\* The types of a behaviour's states, for every set of kinds, outputs and
\* setters: no handler leaves writelock behind, no counter runs below zero.
THEOREM TypeCorrect == Spec => []TypeOK
<1>1. Base => TypeOK
  BY DEF Base
<1>2. QED
  BY BaseInit, BaseStep, <1>1, PTL DEF Spec

-----------------------------------------------------------------------------
(* Events.                                                                  *)

\* While dataInput is on its way the handlers have been told of the old values
\* it keeps, and until it stores they are the handle's.
Hears ==
    life \in {"attached", "detach"} =>
        \A x \in Reported :
            /\ rpc = "idle" /\ Heard(x) # Unknown => told[x] = Heard(x)
            /\ rpc # "idle" /\ rbuf.old[x] # Unknown => told[x] = rbuf.old[x]
            /\ rpc \notin {"idle", "fire"} => Heard(x) = rbuf.old[x]

LEMMA HearsStep ==
  ASSUME Base, Hears, [Next]_vars
  PROVE  Hears'
<1>1. /\ Hears /\ LifeFlags /\ attached \in BOOLEAN /\ life \in LifePc
      /\ rpc \in ReaderPc /\ Reported' = Reported /\ kind' = kind
  BY TypeParts, KindStays DEF Base, LifeTypes, ReaderTypes, FlagTypes, Reported
<1>2. ASSUME UNCHANGED <<life, physicalState, told, rpc, rbuf>>,
             \A o \in Outputs : kind.echo => outputEchoStates'[o] = outputEchoStates[o]
      PROVE  Hears'
  <2>1. \A x \in Reported : Heard(x)' = Heard(x)
    BY <1>1, <1>2 DEF Heard, Reported, Input
  <2>2. QED
    BY <1>1, <1>2, <2>1 DEF Hears
<1>3. ASSUME UNCHANGED <<life, physicalState, outputEchoStates, told>>
      PROVE  /\ \A x \in Reported : Heard(x)' = Heard(x)
             /\ UNCHANGED <<rpc, rbuf>> => Hears'
  BY <1>1, <1>3, <1>2 DEF Heard
<1>4. ASSUME NEW s \in Setters, OutputFires(s)
      PROVE  Hears'
  BY <1>4, <1>2, <1>1
     DEF OutputFires, Returns
<1>5. CASE WriterGets
  BY <1>5, <1>2, <1>1
     DEF WriterGets, WriterAt
<1>6. CASE ReaderReads

  <2>1. /\ rpc = "idle" /\ rpc' = "ratio"
        /\ rbuf'.old = [x \in Reported |-> Heard(x)]
        /\ UNCHANGED <<life, physicalState, outputEchoStates, told>>
    BY <1>6 DEF ReaderReads, MayRead
  <2>2. QED
    BY <1>1, <1>3, <2>1 DEF Hears
<1>7. CASE RatioTests

  <2>1. /\ rpc = "ratio" /\ rpc' \in {"count", "show", "store"}
        /\ UNCHANGED <<life, physicalState, outputEchoStates, told>>
    BY <1>7 DEF RatioTests, ReaderAt
  <2>2. rbuf'.old = rbuf.old
    BY <1>7, <2>1, TypeParts DEF RatioTests, Base, ReaderTypes, Reading
  <2>3. QED
    BY <1>1, <1>3, <2>1, <2>2 DEF Hears
<1>8. CASE RatioCounts

  <2>1. /\ rpc = "count" /\ rpc' = "show"
        /\ UNCHANGED <<life, physicalState, outputEchoStates, told>>
    BY <1>8 DEF RatioCounts, ReaderAt
  <2>2. rbuf'.old = rbuf.old
    BY <1>8, <2>1, TypeParts DEF RatioCounts, Base, ReaderTypes, Reading
  <2>3. QED
    BY <1>1, <1>3, <2>1, <2>2 DEF Hears
<1>9. CASE RatioShows

  <2>1. /\ rpc = "show" /\ rpc' = "store"
        /\ UNCHANGED <<life, physicalState, outputEchoStates, told, rbuf>>
    BY <1>9 DEF RatioShows, ReaderAt
  <2>2. QED
    BY <1>1, <1>3, <2>1 DEF Hears
<1>10. CASE ReaderStores

  <2>1. rpc = "store" /\ rpc' = "fire" /\ UNCHANGED <<life, told, rbuf>>
    BY <1>10 DEF ReaderStores, ReaderAt
  <2>2. QED
    BY <1>1, <2>1 DEF Hears
<1>11. CASE ReaderFires

  <2>1. /\ rpc = "fire" /\ rpc' = "idle"
        /\ UNCHANGED <<life, physicalState, outputEchoStates>>
        /\ told' = [x \in Reported |->
                       IF attached /\ Heard(x) # Unknown /\ Heard(x) # rbuf.old[x]
                       THEN Heard(x) ELSE told[x]]
    BY <1>11 DEF ReaderFires, ReaderAt
  <2>2. \A x \in Reported : Heard(x)' = Heard(x)
    BY <2>1 DEF Heard
  <2>3. life \in {"attached", "detach"} => attached
    BY <1>1 DEF LifeFlags
  <2>4. QED
    BY <1>1, <2>1, <2>2, <2>3 DEF Hears
<1>12. CASE AttachClears
  BY <1>12, <1>1
     DEF AttachClears, LifeAt, Hears
<1>13. CASE AttachSetsFlag
  BY <1>13, <1>1
     DEF AttachSetsFlag, LifeAt, Hears
<1>14. CASE AttachTells

  <2>1. /\ rpc = "idle" /\ UNCHANGED <<physicalState, outputEchoStates, rpc>>
        /\ told' = [x \in Reported |-> IF Heard(x) # Unknown THEN Heard(x) ELSE told[x]]
    BY <1>14, <1>1 DEF AttachTells, LifeAt, LifeFlags
  <2>2. \A x \in Reported : Heard(x)' = Heard(x)
    BY <2>1 DEF Heard
  <2>3. QED
    BY <1>1, <2>1, <2>2 DEF Hears
<1>15. CASE DetachStops

  <2>1. /\ life = "attached" /\ life' = "detach"
        /\ UNCHANGED <<physicalState, outputEchoStates, told, rpc, rbuf>>
    BY <1>15 DEF DetachStops, LifeAt
  <2>2. \A x \in Reported : Heard(x)' = Heard(x)
    BY <2>1 DEF Heard
  <2>3. QED
    BY <1>1, <2>1, <2>2 DEF Hears
<1>16. CASE \/ DetachClearsFlag \/ DetachEnds
  BY <1>16, <1>1
     DEF DetachClearsFlag, LifeAt, DetachEnds, Hears
<1>17. ASSUME NEW s \in Setters,
              \/ SetterCalls(s) \/ OutputLocks(s) \/ OutputFindsAttached(s)
              \/ OutputMustWait(s) \/ OutputDeposits(s) \/ OutputWaits(s)
              \/ OutputSignals(s) \/ RatioSets(s) \/ RatioSwitches(s)
              \/ OutputNotAttached(s) \/ OutputIsSet(s) \/ OutputTimesOut(s)
              \/ RatioSignals(s)
       PROVE  Hears'
  BY <1>17, <1>3
     DEF SetterCalls, SetterAt, OutputLocks, OutputFindsAttached,
         OutputMustWait, OutputDeposits, OutputWaits, OutputSignals,
         RatioSets, RatioSwitches, OutputNotAttached, Returns, OutputIsSet,
         OutputTimesOut, RatioSignals
<1>18. CASE \/ WriterLoops \/ WriterWakes \/ WriterTimesOut \/ WriterResets
            \/ WriterSends \/ WriterNotAttached \/ WriterFails
            \/ WriterSignals \/ ReaderStops \/ FirstReadFails \/ ReaderFails
            \/ DeviceReports \/ InputChanges \/ Unplug \/ Plug
  BY <1>18, <1>3
     DEF WriterLoops, WriterAt, WriterWakes, WriterTimesOut, WriterResets,
         WriterSends, WriterNotAttached, WriterFails, WriterSignals,
         ReaderStops, FirstReadFails, ReaderFails, DeviceReports,
         InputChanges, Unplug, Plug
<1>19. CASE UNCHANGED vars
  BY <1>19, <1>3
     DEF vars
<1>20. QED
  BY Zenon, <1>4, <1>5, <1>6, <1>7, <1>8, <1>9, <1>10, <1>11, <1>12, <1>13,
     <1>14, <1>15, <1>16, <1>17, <1>18, <1>19
     DEF Next, SetterContinues, Writer, Reader, Life, Environment

\* No event is lost between initAfterOpen, eventsAfterOpen and the read thread,
\* for every set of kinds, outputs and setters: between two reports the last
\* one a handler was called with gives the state the getter returns.
THEOREM ToldOfEveryState == Spec => []ToldIsCurrent
<1>1. Init => Hears
  BY DEF Init, Hears
<1>2. Base /\ Hears /\ [Next]_vars => Base' /\ Hears'
  BY BaseStep, HearsStep
<1>3. ASSUME Base, Hears PROVE ToldIsCurrent
  BY <1>3 DEF Base, LifeFlags, Hears, ToldIsCurrent
<1>4. QED
  BY BaseInit, <1>1, <1>2, <1>3, PTL DEF Spec

-----------------------------------------------------------------------------
(* Outputs.                                                                 *)

Dead == wpc \in {"off", "failed", "gone"}

\* What the device says of its outputs is how they are.
Truthful ==
    kind.echo =>
        /\ report # Unknown => report.outs = dev.outs
        /\ rpc # "idle" => rbuf.new.outs = dev.outs

\* initAfterOpen: no setter deposits, what is read is how the outputs are.
Fresh ==
    /\ \A s \in Setters : spc[s] \notin {"deposit", "wait", "signal", "event"}
    /\ changedOutputs = {} /\ wanted = AllUnknown
    /\ Truthful
    /\ \A o \in Outputs : outputEchoStates[o] \in {Unknown, dev.outs[o]}

\* A set output is queued or in outputStates.
Queued ==
    \A o \in Outputs :
        wanted[o] # Unknown =>
            wanted[o] = IF o \in changedOutputs THEN nextOutputStates[o]
                        ELSE outputStates[o]

\* Whoever has queued one has seen to it that the write thread will look.
Noticed ==
    changedOutputs # {} =>
        availEv \/ Signalling \/ wpc \in {"reset", "get"} \/ Dead

\* outputStates is in the packet or in the device.
Passed ==
    /\ wpc = "send" => packet.outs = outputStates
    /\ ~Dead /\ wpc # "send" =>
           \A o \in Outputs : outputStates[o] \in {Unknown, dev.outs[o]}

\* The device's outputs are what they were as long as one state is unknown.
Unwritten == (\E o \in Outputs : outputStates[o] = Unknown) => Truthful

OutsInv ==
    /\ ~stray /\ life = "init" => Fresh
    /\ ~stray /\ life \notin {"off", "init"} =>
           Queued /\ Noticed /\ Passed /\ Unwritten

\* A packet is for all the outputs: no device is a 4/8/8.
AllInOne == \A k \in Kinds : ~k.one

\* What dataInput has parsed: of some devices neither outputs nor mode.
Parses ==
    rpc # "idle" =>
        /\ ~kind.echo => rbuf.new.outs = AllUnknown
        /\ rbuf.new.mode \in IF kind.ratio THEN BOOLEAN ELSE {Unknown}

LEMMA ParsesStep ==
  ASSUME Base, Parses, [Next]_vars
  PROVE  Parses'
<1>1. /\ Parses /\ kind' = kind
  BY KindStays
<1>2. ASSUME UNCHANGED <<rpc, rbuf>> PROVE Parses'
  BY <1>1, <1>2 DEF Parses, AllUnknown
<1>3. CASE ReaderReads

  <2>1. /\ report # Unknown /\ rbuf'.new = Parsed(report)
    BY <1>3 DEF ReaderReads
  <2>2. report.mode \in BOOLEAN
    BY <2>1, ReportIsRead DEF State
  <2>3. QED
    BY <1>1, <2>1, <2>2, ReportIsRead DEF Parses, AllUnknown
<1>4. CASE RatioTests

  <2>1. rpc # "idle" /\ rbuf'.new = rbuf.new
    BY <1>4, TypeParts DEF RatioTests, ReaderAt, Base, ReaderTypes, Reading
  <2>2. QED
    BY <1>1, <2>1 DEF Parses, AllUnknown
<1>5. CASE RatioCounts

  <2>1. rpc # "idle" /\ rbuf'.new = rbuf.new
    BY <1>5, TypeParts DEF RatioCounts, ReaderAt, Base, ReaderTypes, Reading
  <2>2. QED
    BY <1>1, <2>1 DEF Parses, AllUnknown
<1>6. CASE \/ RatioShows \/ ReaderStores
  BY <1>6, <1>1
     DEF RatioShows, ReaderAt, ReaderStores, Parses, AllUnknown
<1>7. CASE ReaderFires
  BY <1>7, <1>1
     DEF ReaderFires, ReaderAt, Parses, AllUnknown
<1>8. ASSUME NEW s \in Setters,
             \/ SetterCalls(s) \/ OutputLocks(s) \/ OutputFindsAttached(s)
             \/ OutputMustWait(s) \/ OutputDeposits(s) \/ OutputWaits(s)
             \/ OutputSignals(s) \/ RatioSets(s) \/ RatioSwitches(s)
             \/ OutputNotAttached(s) \/ OutputIsSet(s) \/ OutputTimesOut(s)
             \/ OutputFires(s) \/ RatioSignals(s)
      PROVE  Parses'
  BY <1>8, <1>2
     DEF SetterCalls, SetterAt, OutputLocks, OutputFindsAttached,
         OutputMustWait, OutputDeposits, OutputWaits, OutputSignals,
         RatioSets, RatioSwitches, OutputNotAttached, Returns, OutputIsSet,
         OutputTimesOut, OutputFires, RatioSignals
<1>9. CASE \/ WriterLoops \/ WriterWakes \/ WriterTimesOut \/ WriterResets
           \/ WriterGets \/ WriterSends \/ WriterNotAttached \/ WriterFails
           \/ WriterSignals \/ ReaderStops \/ FirstReadFails \/ ReaderFails
           \/ AttachClears \/ AttachSetsFlag \/ AttachTells \/ DetachStops
           \/ DetachClearsFlag \/ DetachEnds \/ DeviceReports \/ InputChanges
           \/ Unplug \/ Plug
  BY <1>9, <1>2
     DEF WriterLoops, WriterAt, WriterWakes, WriterTimesOut, WriterResets,
         WriterGets, WriterSends, WriterNotAttached, WriterFails,
         WriterSignals, ReaderStops, FirstReadFails, ReaderFails,
         AttachClears, LifeAt, AttachSetsFlag, AttachTells, DetachStops,
         DetachClearsFlag, DetachEnds, DeviceReports, InputChanges, Unplug,
         Plug
<1>10. CASE UNCHANGED vars
  BY <1>10, <1>2
     DEF vars
<1>11. QED
  BY Zenon, <1>3, <1>4, <1>5, <1>6, <1>7, <1>8, <1>9, <1>10
     DEF Next, SetterContinues, Writer, Reader, Life, Environment

LEMMA TruthfulStep ==
  ASSUME Base, Truthful, [Next]_vars, dev'.outs = dev.outs, life # "off"
  PROVE  Truthful'
<1>1. /\ Truthful /\ kind' = kind
  BY KindStays
<1>2. ASSUME UNCHANGED <<report, rpc, rbuf>> PROVE Truthful'
  BY <1>1, <1>2 DEF Truthful
<1>3. CASE ReaderReads

  <2>1. /\ report # Unknown /\ report' = Unknown /\ rbuf'.new = Parsed(report)
    BY <1>3 DEF ReaderReads
  <2>2. kind.echo => rbuf'.new.outs = dev.outs
    BY <2>1, <1>1, ReportIsRead DEF Truthful
  <2>3. QED
    BY <1>1, <2>1, <2>2 DEF Truthful
<1>4. CASE RatioTests

  <2>1. rpc # "idle" /\ rbuf'.new = rbuf.new /\ report' = report
    BY <1>4, TypeParts DEF RatioTests, ReaderAt, Base, ReaderTypes, Reading
  <2>2. QED
    BY <1>1, <2>1 DEF Truthful
<1>5. CASE RatioCounts

  <2>1. rpc # "idle" /\ rbuf'.new = rbuf.new /\ report' = report
    BY <1>5, TypeParts DEF RatioCounts, ReaderAt, Base, ReaderTypes, Reading
  <2>2. QED
    BY <1>1, <2>1 DEF Truthful
<1>6. CASE \/ RatioShows \/ ReaderStores
  BY <1>6, <1>1
     DEF RatioShows, ReaderAt, ReaderStores, Truthful
<1>7. CASE ReaderFires
  BY <1>7, <1>1
     DEF ReaderFires, ReaderAt, Truthful
<1>8. CASE AttachClears
  BY <1>8, <1>1
     DEF AttachClears, LifeAt, Truthful
<1>9. CASE DeviceReports
  BY <1>9, <1>1
     DEF DeviceReports, Truthful
<1>10. CASE Unplug
  BY <1>10, <1>1
     DEF Unplug, Truthful
<1>11. CASE Plug
  BY <1>11, <1>1
     DEF Plug, Truthful
<1>12. ASSUME NEW s \in Setters,
              \/ SetterCalls(s) \/ OutputLocks(s) \/ OutputFindsAttached(s)
              \/ OutputMustWait(s) \/ OutputDeposits(s) \/ OutputWaits(s)
              \/ OutputSignals(s) \/ RatioSets(s) \/ RatioSwitches(s)
              \/ OutputNotAttached(s) \/ OutputIsSet(s) \/ OutputTimesOut(s)
              \/ OutputFires(s) \/ RatioSignals(s)
       PROVE  Truthful'
  BY <1>12, <1>2
     DEF SetterCalls, SetterAt, OutputLocks, OutputFindsAttached,
         OutputMustWait, OutputDeposits, OutputWaits, OutputSignals,
         RatioSets, RatioSwitches, OutputNotAttached, Returns, OutputIsSet,
         OutputTimesOut, OutputFires, RatioSignals
<1>13. CASE \/ WriterLoops \/ WriterWakes \/ WriterTimesOut \/ WriterResets
            \/ WriterGets \/ WriterSends \/ WriterNotAttached \/ WriterFails
            \/ WriterSignals \/ ReaderStops \/ FirstReadFails \/ ReaderFails
            \/ AttachSetsFlag \/ AttachTells \/ DetachStops
            \/ DetachClearsFlag \/ DetachEnds \/ InputChanges
  BY <1>13, <1>2
     DEF WriterLoops, WriterAt, WriterWakes, WriterTimesOut, WriterResets,
         WriterGets, WriterSends, WriterNotAttached, WriterFails,
         WriterSignals, ReaderStops, FirstReadFails, ReaderFails,
         AttachSetsFlag, LifeAt, AttachTells, DetachStops, DetachClearsFlag,
         DetachEnds, InputChanges
<1>14. CASE UNCHANGED vars
  BY <1>14, <1>2
     DEF vars
<1>15. QED
  BY Zenon, <1>3, <1>4, <1>5, <1>6, <1>7, <1>8, <1>9, <1>10, <1>11, <1>12,
     <1>13, <1>14
     DEF Next, SetterContinues, Writer, Reader, Life, Environment

LEMMA OutsStay ==
  ASSUME Base, life # "off", wpc # "send", [Next]_vars
  PROVE  dev'.outs = dev.outs
<1>1. dev \in State
  BY TypeParts DEF Base, DeviceTypes
<1>2. ASSUME dev' = dev PROVE dev'.outs = dev.outs
  BY <1>2
<1>3. CASE WriterSends
  BY <1>3, <1>1
     DEF WriterSends, WriterAt, State
<1>4. CASE AttachClears
  BY <1>4, <1>1
     DEF AttachClears, LifeAt, State
<1>5. CASE DeviceReports
  BY <1>5, <1>1
     DEF DeviceReports, State
<1>6. CASE InputChanges
  BY <1>6, <1>1
     DEF InputChanges, State
<1>7. CASE Plug
  BY <1>7, <1>1
     DEF Plug, State
<1>8. ASSUME NEW s \in Setters,
             \/ SetterCalls(s) \/ OutputLocks(s) \/ OutputFindsAttached(s)
             \/ OutputMustWait(s) \/ OutputDeposits(s) \/ OutputWaits(s)
             \/ OutputSignals(s) \/ RatioSets(s) \/ RatioSwitches(s)
             \/ OutputNotAttached(s) \/ OutputIsSet(s) \/ OutputTimesOut(s)
             \/ OutputFires(s) \/ RatioSignals(s)
      PROVE  dev'.outs = dev.outs
  BY <1>8, <1>2
     DEF SetterCalls, SetterAt, OutputLocks, OutputFindsAttached,
         OutputMustWait, OutputDeposits, OutputWaits, OutputSignals,
         RatioSets, RatioSwitches, OutputNotAttached, Returns, OutputIsSet,
         OutputTimesOut, OutputFires, RatioSignals
<1>9. CASE \/ WriterLoops \/ WriterWakes \/ WriterTimesOut \/ WriterResets
           \/ WriterGets \/ WriterNotAttached \/ WriterFails \/ WriterSignals
           \/ ReaderReads \/ ReaderStops \/ FirstReadFails \/ ReaderFails
           \/ RatioTests \/ RatioCounts \/ RatioShows \/ ReaderStores
           \/ ReaderFires \/ AttachSetsFlag \/ AttachTells \/ DetachStops
           \/ DetachClearsFlag \/ DetachEnds \/ Unplug
  BY <1>9, <1>2
     DEF WriterLoops, WriterAt, WriterWakes, WriterTimesOut, WriterResets,
         WriterGets, WriterNotAttached, WriterFails, WriterSignals,
         ReaderReads, ReaderStops, FirstReadFails, ReaderFails, RatioTests,
         ReaderAt, RatioCounts, RatioShows, ReaderStores, ReaderFires,
         AttachSetsFlag, LifeAt, AttachTells, DetachStops, DetachClearsFlag,
         DetachEnds, Unplug
<1>10. CASE UNCHANGED vars
  BY <1>10, <1>2
     DEF vars
<1>11. QED
  BY Zenon, <1>3, <1>4, <1>5, <1>6, <1>7, <1>8, <1>9, <1>10
     DEF Next, SetterContinues, Writer, Reader, Life, Environment

LEMMA FreshStep ==
  ASSUME Base, Parses, life = "init", Fresh, [Next]_vars, ~AttachSetsFlag
  PROVE  Fresh'
<1>1. /\ kind' = kind /\ dev'.outs = dev.outs /\ Truthful' /\ AllUnknown' = AllUnknown
      /\ wpc = "off"
      /\ outputEchoStates = [o \in Outputs |-> outputEchoStates[o]]
      /\ spc = [s \in Setters |-> spc[s]]
  BY KindStays, OutsStay, TruthfulStep, TypeParts
     DEF Fresh, Base, LifeFlags, OutTypes, SetterTypes, AllUnknown
<1>2. ~attached
  BY DEF Base, LifeFlags
<1>3. ASSUME UNCHANGED <<spc, changedOutputs, wanted, outputEchoStates>> PROVE Fresh'
  BY <1>1, <1>3 DEF Fresh
<1>4. ASSUME UNCHANGED <<changedOutputs, wanted, outputEchoStates>>,
             NEW s \in Setters, NEW to \in {"idle", "lock", "test", "switching", "ratioSignal"},
             spc' = [spc EXCEPT ![s] = to]
      PROVE  Fresh'
  BY <1>1, <1>4 DEF Fresh
<1>5. ASSUME NEW s \in Setters,
             \/ SetterCalls(s) \/ OutputLocks(s) \/ OutputWaits(s)
      PROVE  Fresh'
  BY <1>5, <1>4, <1>1, <1>2
     DEF SetterCalls, SetterAt, OutputLocks, OutputWaits, Fresh
<1>6. ASSUME NEW s \in Setters,
             \/ OutputFindsAttached(s) \/ OutputMustWait(s)
      PROVE  Fresh'
  BY <1>6, <1>1, <1>2
     DEF OutputFindsAttached, SetterAt, OutputMustWait, Fresh
<1>7. ASSUME NEW s \in Setters,
             \/ OutputDeposits(s) \/ OutputSignals(s)
      PROVE  Fresh'
  BY <1>7, <1>1, <1>2
     DEF OutputDeposits, SetterAt, OutputSignals, Fresh
<1>8. ASSUME NEW s \in Setters,
             \/ RatioSets(s) \/ RatioSwitches(s)
      PROVE  Fresh'
  BY <1>8, <1>4, <1>1, <1>2
     DEF RatioSets, SetterAt, RatioSwitches
<1>9. ASSUME NEW s \in Setters, OutputNotAttached(s)
      PROVE  Fresh'
  BY <1>9, <1>4, <1>1, <1>2
     DEF OutputNotAttached, Returns
<1>10. ASSUME NEW s \in Setters,
              \/ OutputTimesOut(s) \/ RatioSignals(s)
       PROVE  Fresh'
  BY <1>10, <1>4, <1>1, <1>2
     DEF OutputTimesOut, Returns, RatioSignals
<1>11. ASSUME NEW s \in Setters,
              \/ OutputIsSet(s) \/ OutputFires(s)
       PROVE  Fresh'
  BY <1>11, <1>1, <1>2
     DEF OutputIsSet, Returns, OutputFires, Fresh
<1>12. CASE WriterGets
  BY <1>12, <1>1, <1>2
     DEF WriterGets, WriterAt
<1>13. CASE ReaderStores

  <2>1. /\ rpc # "idle" /\ UNCHANGED <<spc, changedOutputs, wanted>>
        /\ outputEchoStates' = IF kind.echo THEN rbuf.new.outs ELSE outputEchoStates
    BY <1>13 DEF ReaderStores, ReaderAt
  <2>2. kind.echo => rbuf.new.outs = dev.outs
    BY <2>1 DEF Fresh, Truthful
  <2>3. QED
    BY <1>1, <2>1, <2>2 DEF Fresh
<1>14. CASE AttachClears
  BY <1>14, <1>1, <1>2
     DEF AttachClears, LifeAt
<1>15. CASE AttachSetsFlag
  BY <1>15, <1>1, <1>2
     DEF AttachSetsFlag, LifeAt
<1>16. CASE \/ WriterLoops \/ WriterWakes \/ WriterTimesOut \/ WriterResets
            \/ WriterSends \/ WriterNotAttached \/ WriterFails
            \/ WriterSignals \/ ReaderReads \/ ReaderStops \/ FirstReadFails
            \/ ReaderFails \/ RatioTests \/ RatioCounts \/ RatioShows
            \/ ReaderFires \/ AttachTells \/ DetachStops \/ DetachClearsFlag
            \/ DetachEnds \/ DeviceReports \/ InputChanges \/ Unplug \/ Plug
  BY <1>16, <1>3
     DEF WriterLoops, WriterAt, WriterWakes, WriterTimesOut, WriterResets,
         WriterSends, WriterNotAttached, WriterFails, WriterSignals,
         ReaderReads, ReaderStops, FirstReadFails, ReaderFails, RatioTests,
         ReaderAt, RatioCounts, RatioShows, ReaderFires, AttachTells, LifeAt,
         DetachStops, DetachClearsFlag, DetachEnds, DeviceReports,
         InputChanges, Unplug, Plug
<1>17. CASE UNCHANGED vars
  BY <1>17, <1>3
     DEF vars
<1>18. QED
  BY Zenon, <1>5, <1>6, <1>7, <1>8, <1>9, <1>10, <1>11, <1>12, <1>13, <1>14,
     <1>15, <1>16, <1>17
     DEF Next, SetterContinues, Writer, Reader, Life, Environment

LEMMA FreshClears ==
  ASSUME Base, AttachClears, ~stray'
  PROVE  Fresh'
<1>1. /\ rpc = "idle" /\ rpc' = rpc /\ report' = Unknown /\ spc' = spc
      /\ changedOutputs' = {} /\ wanted' = AllUnknown
      /\ outputEchoStates' = AllUnknown /\ AllUnknown' = AllUnknown
  BY DEF AttachClears, LifeAt, Base, LifeFlags, AllUnknown
<1>2. \A s \in Setters : spc[s] \in {"idle", "lock", "test"}
  BY DEF AttachClears
<1>3. Truthful'
  BY <1>1 DEF Truthful
<1>4. QED
  BY <1>1, <1>2, <1>3 DEF Fresh, AllUnknown

\* AttachSetsFlag: what initAfterOpen has read is how the outputs are.
LEMMA AttachIsFresh ==
  ASSUME Base, Fresh, AttachSetsFlag
  PROVE  Queued' /\ Noticed' /\ Passed' /\ Unwritten'
<1>1. /\ outputStates' = outputEchoStates /\ wpc' = "loop"
      /\ wanted' = AllUnknown /\ changedOutputs' = {}
      /\ UNCHANGED <<kind, dev, report, rpc, rbuf>> /\ AllUnknown' = AllUnknown
  BY DEF AttachSetsFlag, LifeAt, Fresh, AllUnknown
<1>2. Queued' /\ Noticed'
  BY <1>1 DEF Queued, Noticed, AllUnknown
<1>3. Passed'
  BY <1>1 DEF Passed, Fresh
<1>4. Unwritten'
  BY <1>1 DEF Unwritten, Fresh, Truthful
<1>5. QED
  BY <1>2, <1>3, <1>4

LEMMA QueuedStep ==
  ASSUME Base, Queued, life \notin {"off", "init"}, [Next]_vars
  PROVE  Queued'
<1>1. Queued /\ OutTypes /\ wanted = [o \in Outputs |-> wanted[o]]
  BY TypeParts DEF Base, HistoryTypes
<1>2. ASSUME UNCHANGED <<wanted, changedOutputs, nextOutputStates, outputStates>>
      PROVE  Queued'
  BY <1>1, <1>2 DEF Queued
<1>3. ASSUME NEW s \in Setters, OutputIsSet(s)
      PROVE  Queued'

  <2>1. req[s].o \in Outputs
    BY <1>3, SetOutput DEF OutputIsSet, OutputPc
  <2>2. QED
    BY <2>1, <1>3, <1>1 DEF OutputIsSet, Accepts, Queued, OutTypes
<1>4. ASSUME NEW s \in Setters, OutputDeposits(s)
      PROVE  Queued'

  <2>1. req[s].o \in Outputs
    BY <1>4, SetOutput DEF OutputDeposits, SetterAt, OutputPc
  <2>2. QED
    BY <2>1, <1>4, <1>1 DEF OutputDeposits, Accepts, Queued, OutTypes
<1>5. CASE WriterGets
  BY <1>5, <1>1
     DEF WriterGets, WriterAt, Queued, Merged
<1>6. CASE ReaderStores
  BY <1>6, <1>1
     DEF ReaderStores, ReaderAt, Queued
<1>7. CASE AttachClears
  BY <1>7, <1>1
     DEF AttachClears, LifeAt
<1>8. CASE AttachSetsFlag
  BY <1>8, <1>1
     DEF AttachSetsFlag, LifeAt
<1>9. ASSUME NEW s \in Setters,
             \/ SetterCalls(s) \/ OutputLocks(s) \/ OutputFindsAttached(s)
             \/ OutputMustWait(s) \/ OutputWaits(s) \/ OutputSignals(s)
             \/ RatioSets(s) \/ RatioSwitches(s) \/ OutputNotAttached(s)
             \/ OutputTimesOut(s) \/ OutputFires(s) \/ RatioSignals(s)
      PROVE  Queued'
  BY <1>9, <1>2
     DEF SetterCalls, SetterAt, OutputLocks, OutputFindsAttached,
         OutputMustWait, OutputWaits, OutputSignals, RatioSets, RatioSwitches,
         OutputNotAttached, Returns, OutputTimesOut, OutputFires, RatioSignals
<1>10. CASE \/ WriterLoops \/ WriterWakes \/ WriterTimesOut \/ WriterResets
            \/ WriterSends \/ WriterNotAttached \/ WriterFails
            \/ WriterSignals \/ ReaderReads \/ ReaderStops \/ FirstReadFails
            \/ ReaderFails \/ RatioTests \/ RatioCounts \/ RatioShows
            \/ ReaderFires \/ AttachTells \/ DetachStops \/ DetachClearsFlag
            \/ DetachEnds \/ DeviceReports \/ InputChanges \/ Unplug \/ Plug
  BY <1>10, <1>2
     DEF WriterLoops, WriterAt, WriterWakes, WriterTimesOut, WriterResets,
         WriterSends, WriterNotAttached, WriterFails, WriterSignals,
         ReaderReads, ReaderStops, FirstReadFails, ReaderFails, RatioTests,
         ReaderAt, RatioCounts, RatioShows, ReaderFires, AttachTells, LifeAt,
         DetachStops, DetachClearsFlag, DetachEnds, DeviceReports,
         InputChanges, Unplug, Plug
<1>11. CASE UNCHANGED vars
  BY <1>11, <1>2
     DEF vars
<1>12. QED
  BY Zenon, <1>3, <1>4, <1>5, <1>6, <1>7, <1>8, <1>9, <1>10, <1>11
     DEF Next, SetterContinues, Writer, Reader, Life, Environment

LEMMA NoticedStep ==
  ASSUME Base, Noticed, life \notin {"off", "init"}, [Next]_vars
  PROVE  Noticed'
<1>1. Noticed /\ spc = [s \in Setters |-> spc[s]]
  BY TypeParts DEF Base, SetterTypes
<1>2. ASSUME UNCHANGED <<changedOutputs, availEv, spc, wpc>> PROVE Noticed'
  BY <1>1, <1>2 DEF Noticed, Signalling, Dead
<1>3. ASSUME UNCHANGED <<changedOutputs, availEv, wpc>>, NEW s \in Setters,
             NEW to \in SetterPc, spc' = [spc EXCEPT ![s] = to],
             spc[s] # "signal"
      PROVE  Noticed'
  BY <1>1, <1>3 DEF Noticed, Signalling, Dead
<1>4. ASSUME NEW s \in Setters,
             \/ SetterCalls(s) \/ OutputLocks(s) \/ OutputFindsAttached(s)
             \/ OutputMustWait(s)
      PROVE  Noticed'
  BY <1>4, <1>3, <1>1
     DEF SetterCalls, SetterAt, OutputLocks, OutputFindsAttached,
         OutputMustWait, SetterPc
<1>5. ASSUME NEW s \in Setters, OutputDeposits(s)
      PROVE  Noticed'
  BY <1>5, <1>1
     DEF OutputDeposits, SetterAt, Noticed, Signalling
<1>6. ASSUME NEW s \in Setters,
             \/ OutputWaits(s) \/ RatioSets(s) \/ RatioSwitches(s)
      PROVE  Noticed'
  BY <1>6, <1>3, <1>1
     DEF OutputWaits, SetterAt, RatioSets, RatioSwitches, SetterPc
<1>7. ASSUME NEW s \in Setters, OutputSignals(s)
      PROVE  Noticed'
  BY <1>7, <1>1
     DEF OutputSignals, SetterAt, Noticed
<1>8. ASSUME NEW s \in Setters,
             \/ OutputNotAttached(s) \/ OutputIsSet(s)
      PROVE  Noticed'
  BY <1>8, <1>3, <1>1
     DEF OutputNotAttached, Returns, OutputIsSet, SetterPc
<1>9. ASSUME NEW s \in Setters,
             \/ OutputTimesOut(s) \/ OutputFires(s)
      PROVE  Noticed'
  BY <1>9, <1>3, <1>1
     DEF OutputTimesOut, Returns, OutputFires, SetterPc
<1>10. ASSUME NEW s \in Setters, RatioSignals(s)
       PROVE  Noticed'
  BY <1>10, <1>1
     DEF RatioSignals, Returns, Noticed
<1>11. CASE \/ WriterLoops \/ WriterWakes \/ WriterTimesOut
  BY <1>11, <1>1
     DEF WriterLoops, WriterAt, WriterWakes, WriterTimesOut, Noticed,
         Signalling, Dead
<1>12. CASE WriterResets
  BY <1>12, <1>1
     DEF WriterResets, WriterAt, Noticed
<1>13. CASE WriterGets
  BY <1>13, <1>1
     DEF WriterGets, WriterAt, Noticed
<1>14. CASE \/ WriterSends \/ WriterNotAttached \/ WriterFails
  BY <1>14, <1>1
     DEF WriterSends, WriterAt, WriterNotAttached, WriterFails, Noticed,
         Signalling, Dead
<1>15. CASE WriterSignals
  BY <1>15, <1>1
     DEF WriterSignals, Noticed, Signalling, Dead
<1>16. CASE AttachClears
  BY <1>16, <1>1
     DEF AttachClears, LifeAt
<1>17. CASE AttachSetsFlag
  BY <1>17, <1>1
     DEF AttachSetsFlag, LifeAt
<1>18. CASE DetachStops
  BY <1>18, <1>1
     DEF DetachStops, LifeAt, Noticed
<1>19. CASE \/ ReaderReads \/ ReaderStops \/ FirstReadFails \/ ReaderFails
            \/ RatioTests \/ RatioCounts \/ RatioShows \/ ReaderStores
            \/ ReaderFires \/ AttachTells \/ DetachClearsFlag \/ DetachEnds
            \/ DeviceReports \/ InputChanges \/ Unplug \/ Plug
  BY <1>19, <1>2
     DEF ReaderReads, ReaderStops, FirstReadFails, ReaderFails, RatioTests,
         ReaderAt, RatioCounts, RatioShows, ReaderStores, ReaderFires,
         AttachTells, LifeAt, DetachClearsFlag, DetachEnds, DeviceReports,
         InputChanges, Unplug, Plug
<1>20. CASE UNCHANGED vars
  BY <1>20, <1>2
     DEF vars
<1>21. QED
  BY Zenon, <1>4, <1>5, <1>6, <1>7, <1>8, <1>9, <1>10, <1>11, <1>12, <1>13,
     <1>14, <1>15, <1>16, <1>17, <1>18, <1>19, <1>20
     DEF Next, SetterContinues, Writer, Reader, Life, Environment

LEMMA StoredStates ==
  ASSUME Base, Parses, Unwritten, ReaderStores, NEW o \in Outputs
  PROVE  /\ outputStates[o] # Unknown => outputStates'[o] = outputStates[o]
         /\ outputStates[o] = Unknown => outputStates'[o] \in {Unknown, dev.outs[o]}
<1>1. /\ rpc # "idle"
      /\ outputStates'[o] = IF outputStates[o] = Unknown THEN rbuf.new.outs[o]
                            ELSE outputStates[o]
  BY DEF ReaderStores, ReaderAt
<1>2. ASSUME outputStates[o] = Unknown PROVE rbuf.new.outs[o] \in {Unknown, dev.outs[o]}
  <2>1. CASE kind.echo
    BY <2>1, <1>1, <1>2 DEF Unwritten, Truthful
  <2>2. CASE ~kind.echo
    BY <2>2, <1>1 DEF Parses, AllUnknown
  <2>3. QED
    BY <2>1, <2>2
<1>3. QED
  BY <1>1, <1>2

LEMMA PassedStep ==
  ASSUME Base, Parses, Passed, Unwritten, life \notin {"off", "init"}, ~kind.one, [Next]_vars
  PROVE  Passed'
<1>1. /\ Passed /\ outputStates = [o \in Outputs |-> outputStates[o]]
      /\ Unknown \notin BOOLEAN
      /\ wpc = "send" => packet.outs \in [Outputs -> BOOLEAN]
  BY TypeParts, ThreadsAssumption DEF Base, OutTypes, WriterTypes, Packet
<1>2. ASSUME wpc # "send" PROVE dev'.outs = dev.outs
  BY <1>2, OutsStay
<1>3. ASSUME UNCHANGED <<wpc, packet, outputStates>> PROVE Passed'
  BY <1>1, <1>2, <1>3 DEF Passed, Dead
<1>4. CASE \/ WriterLoops \/ WriterWakes \/ WriterTimesOut
  BY <1>4, <1>2, <1>1
     DEF WriterLoops, WriterAt, WriterWakes, WriterTimesOut, Passed, Dead
<1>5. CASE WriterResets
  BY <1>5, <1>2, <1>1
     DEF WriterResets, WriterAt, Passed, Dead
<1>6. CASE WriterGets

  <2>1. wpc' = "send" /\ packet'.outs = Merged /\ outputStates' = Merged
    BY <1>6 DEF WriterGets, WriterAt
  <2>2. QED
    BY <2>1 DEF Passed
<1>7. CASE WriterSends

  <2>1. wpc = "send" /\ wpc' = "signal" /\ dev' = Executed(packet) /\ outputStates' = outputStates
    BY <1>7 DEF WriterSends, WriterAt
  <2>2. dev'.outs = packet.outs
    BY <2>1, TypeParts DEF Executed, Base, DeviceTypes, State
  <2>3. QED
    BY <1>1, <2>1, <2>2 DEF Passed
<1>8. CASE \/ WriterNotAttached \/ WriterFails
  BY <1>8, <1>1
     DEF WriterNotAttached, WriterAt, WriterFails, Passed, Dead
<1>9. CASE WriterSignals
  BY <1>9, <1>2, <1>1
     DEF WriterSignals, Passed, Dead
<1>10. CASE ReaderStores

  <2>1. UNCHANGED <<wpc, packet>>
        /\ outputStates' = [o \in Outputs |-> outputStates'[o]]
    BY <1>10 DEF ReaderStores
  <2>2. CASE wpc = "send"
    <3>1. outputStates' = outputStates
      BY <1>10, <1>1, <2>1, <2>2, StoredStates DEF Passed
    <3>2. QED
      BY <3>1, <2>1, <2>2, <1>1 DEF Passed
  <2>3. CASE wpc # "send"
    BY <1>10, <1>1, <1>2, <2>1, <2>3, StoredStates DEF Passed, Dead
  <2>4. QED
    BY <2>2, <2>3
<1>11. CASE AttachClears
  BY <1>11, <1>1
     DEF AttachClears, LifeAt
<1>12. CASE AttachSetsFlag
  BY <1>12, <1>1
     DEF AttachSetsFlag, LifeAt
<1>13. ASSUME NEW s \in Setters,
              \/ SetterCalls(s) \/ OutputLocks(s) \/ OutputFindsAttached(s)
              \/ OutputMustWait(s) \/ OutputDeposits(s) \/ OutputWaits(s)
              \/ OutputSignals(s) \/ RatioSets(s) \/ RatioSwitches(s)
              \/ OutputNotAttached(s) \/ OutputIsSet(s) \/ OutputTimesOut(s)
              \/ OutputFires(s) \/ RatioSignals(s)
       PROVE  Passed'
  BY <1>13, <1>3
     DEF SetterCalls, SetterAt, OutputLocks, OutputFindsAttached,
         OutputMustWait, OutputDeposits, OutputWaits, OutputSignals,
         RatioSets, RatioSwitches, OutputNotAttached, Returns, OutputIsSet,
         OutputTimesOut, OutputFires, RatioSignals
<1>14. CASE \/ ReaderReads \/ ReaderStops \/ FirstReadFails \/ ReaderFails
            \/ RatioTests \/ RatioCounts \/ RatioShows \/ ReaderFires
            \/ AttachTells \/ DetachStops \/ DetachClearsFlag \/ DetachEnds
            \/ DeviceReports \/ InputChanges \/ Unplug \/ Plug
  BY <1>14, <1>3
     DEF ReaderReads, ReaderStops, FirstReadFails, ReaderFails, RatioTests,
         ReaderAt, RatioCounts, RatioShows, ReaderFires, AttachTells, LifeAt,
         DetachStops, DetachClearsFlag, DetachEnds, DeviceReports,
         InputChanges, Unplug, Plug
<1>15. CASE UNCHANGED vars
  BY <1>15, <1>3
     DEF vars
<1>16. QED
  BY Zenon, <1>4, <1>5, <1>6, <1>7, <1>8, <1>9, <1>10, <1>11, <1>12, <1>13,
     <1>14, <1>15
     DEF Next, SetterContinues, Writer, Reader, Life, Environment

LEMMA UnwrittenStep ==
  ASSUME Base, Parses, Passed, Unwritten, life \notin {"off", "init"}, [Next]_vars
  PROVE  Unwritten'
<1>1. /\ Unwritten /\ Passed /\ Unknown \notin BOOLEAN /\ OutTypes
      /\ wpc = "send" => packet.outs \in [Outputs -> BOOLEAN]
  BY TypeParts, ThreadsAssumption DEF Base, WriterTypes, Packet
<1>2. ASSUME wpc = "send" PROVE \A o \in Outputs : outputStates[o] # Unknown
  BY <1>1, <1>2 DEF Passed
<1>3. ASSUME \A o \in Outputs : outputStates'[o] = Unknown => outputStates[o] = Unknown
      PROVE  Unwritten'
  <2>1. CASE \E o \in Outputs : outputStates[o] = Unknown
    <3>1. Truthful /\ dev'.outs = dev.outs
      BY <2>1, <1>1, <1>2, OutsStay DEF Unwritten
    <3>2. QED
      BY <3>1, TruthfulStep DEF Unwritten
  <2>2. CASE \A o \in Outputs : outputStates[o] # Unknown
    BY <2>2, <1>3 DEF Unwritten
  <2>3. QED
    BY <2>1, <2>2
<1>4. ASSUME UNCHANGED outputStates PROVE Unwritten'
  BY <1>3, <1>4
<1>5. CASE WriterGets
  BY <1>5, <1>3, <1>1
     DEF WriterGets, WriterAt, OutTypes, Merged
<1>6. CASE ReaderStores
  BY <1>6, <1>3, StoredStates, <1>1
     DEF ReaderStores, ReaderAt
<1>7. CASE AttachClears
  BY <1>7, <1>1
     DEF AttachClears, LifeAt
<1>8. CASE AttachSetsFlag
  BY <1>8, <1>1
     DEF AttachSetsFlag, LifeAt
<1>9. ASSUME NEW s \in Setters,
             \/ SetterCalls(s) \/ OutputLocks(s) \/ OutputFindsAttached(s)
             \/ OutputMustWait(s) \/ OutputDeposits(s) \/ OutputWaits(s)
             \/ OutputSignals(s) \/ RatioSets(s) \/ RatioSwitches(s)
             \/ OutputNotAttached(s) \/ OutputIsSet(s) \/ OutputTimesOut(s)
             \/ OutputFires(s) \/ RatioSignals(s)
      PROVE  Unwritten'
  BY <1>9, <1>4
     DEF SetterCalls, SetterAt, OutputLocks, OutputFindsAttached,
         OutputMustWait, OutputDeposits, OutputWaits, OutputSignals,
         RatioSets, RatioSwitches, OutputNotAttached, Returns, OutputIsSet,
         OutputTimesOut, OutputFires, RatioSignals
<1>10. CASE \/ WriterLoops \/ WriterWakes \/ WriterTimesOut \/ WriterResets
            \/ WriterSends \/ WriterNotAttached \/ WriterFails
            \/ WriterSignals \/ ReaderReads \/ ReaderStops \/ FirstReadFails
            \/ ReaderFails \/ RatioTests \/ RatioCounts \/ RatioShows
            \/ ReaderFires \/ AttachTells \/ DetachStops \/ DetachClearsFlag
            \/ DetachEnds \/ DeviceReports \/ InputChanges \/ Unplug \/ Plug
  BY <1>10, <1>4
     DEF WriterLoops, WriterAt, WriterWakes, WriterTimesOut, WriterResets,
         WriterSends, WriterNotAttached, WriterFails, WriterSignals,
         ReaderReads, ReaderStops, FirstReadFails, ReaderFails, RatioTests,
         ReaderAt, RatioCounts, RatioShows, ReaderFires, AttachTells, LifeAt,
         DetachStops, DetachClearsFlag, DetachEnds, DeviceReports,
         InputChanges, Unplug, Plug
<1>11. CASE UNCHANGED vars
  BY <1>11, <1>4
     DEF vars
<1>12. QED
  BY Zenon, <1>5, <1>6, <1>7, <1>8, <1>9, <1>10, <1>11
     DEF Next, SetterContinues, Writer, Reader, Life, Environment

\* An attach begins, sets the flag, or the life cycle stays on its side of it.
LifeMoves ==
    \/ AttachClears \/ AttachSetsFlag
    \/ life' = "off"
    \/ /\ stray' = stray /\ life # "off"
       /\ life = "init" <=> life' = "init"

LEMMA LifeStep ==
  ASSUME [Next]_vars
  PROVE  LifeMoves
<1>1. ASSUME UNCHANGED <<life, stray>> PROVE LifeMoves
  BY <1>1 DEF LifeMoves
<1>2. CASE AttachClears
  BY <1>2
     DEF AttachClears, LifeAt, LifeMoves
<1>3. CASE AttachSetsFlag
  BY <1>3
     DEF AttachSetsFlag, LifeAt, LifeMoves
<1>4. CASE AttachTells
  BY <1>4
     DEF AttachTells, LifeAt, LifeMoves
<1>5. CASE \/ DetachStops \/ DetachClearsFlag \/ DetachEnds
  BY <1>5
     DEF DetachStops, LifeAt, DetachClearsFlag, DetachEnds, LifeMoves
<1>6. ASSUME NEW s \in Setters,
             \/ SetterCalls(s) \/ OutputLocks(s) \/ OutputFindsAttached(s)
             \/ OutputMustWait(s) \/ OutputDeposits(s) \/ OutputWaits(s)
             \/ OutputSignals(s) \/ RatioSets(s) \/ RatioSwitches(s)
             \/ OutputNotAttached(s) \/ OutputIsSet(s) \/ OutputTimesOut(s)
             \/ OutputFires(s) \/ RatioSignals(s)
      PROVE  LifeMoves
  BY <1>6, <1>1
     DEF SetterCalls, SetterAt, OutputLocks, OutputFindsAttached,
         OutputMustWait, OutputDeposits, OutputWaits, OutputSignals,
         RatioSets, RatioSwitches, OutputNotAttached, Returns, OutputIsSet,
         OutputTimesOut, OutputFires, RatioSignals
<1>7. CASE \/ WriterLoops \/ WriterWakes \/ WriterTimesOut \/ WriterResets
           \/ WriterGets \/ WriterSends \/ WriterNotAttached \/ WriterFails
           \/ WriterSignals \/ ReaderReads \/ ReaderStops \/ FirstReadFails
           \/ ReaderFails \/ RatioTests \/ RatioCounts \/ RatioShows
           \/ ReaderStores \/ ReaderFires \/ DeviceReports \/ InputChanges
           \/ Unplug \/ Plug
  BY <1>7, <1>1
     DEF WriterLoops, WriterAt, WriterWakes, WriterTimesOut, WriterResets,
         WriterGets, WriterSends, WriterNotAttached, WriterFails,
         WriterSignals, ReaderReads, ReaderStops, FirstReadFails, ReaderFails,
         RatioTests, ReaderAt, RatioCounts, RatioShows, ReaderStores,
         ReaderFires, DeviceReports, InputChanges, Unplug, Plug
<1>8. CASE UNCHANGED vars
  BY <1>8, <1>1
     DEF vars
<1>9. QED
  BY Zenon, <1>2, <1>3, <1>4, <1>5, <1>6, <1>7, <1>8
     DEF Next, SetterContinues, Writer, Reader, Life, Environment

LEMMA OutsInvStep ==
  ASSUME AllInOne, Base, Parses, OutsInv, [Next]_vars
  PROVE  OutsInv'
<1>1. OutsInv /\ ~kind.one
  BY TypeParts DEF AllInOne, Base, DeviceTypes
<1>2. CASE AttachClears
  <2>1. life' = "init"
    BY <1>2 DEF AttachClears, LifeAt
  <2>2. QED
    BY <1>2, <2>1, FreshClears DEF OutsInv
<1>3. CASE AttachSetsFlag
  <2>1. life = "init" /\ life' = "tell" /\ stray' = stray
    BY <1>3 DEF AttachSetsFlag, LifeAt
  <2>2. QED
    BY <1>1, <1>3, <2>1, AttachIsFresh DEF OutsInv
<1>4. CASE life' = "off"
  BY <1>4 DEF OutsInv
<1>5. ASSUME ~AttachSetsFlag, stray' = stray, life # "off", life = "init", life' = "init"
      PROVE  OutsInv'
  BY <1>1, <1>5, FreshStep DEF OutsInv
<1>6. ASSUME stray' = stray, life # "off", life # "init", life' # "init"
      PROVE  OutsInv'
  <2>1. CASE stray
    BY <1>6, <2>1 DEF OutsInv
  <2>2. CASE ~stray
    <3>1. Queued /\ Noticed /\ Passed /\ Unwritten
      BY <1>1, <1>6, <2>2 DEF OutsInv
    <3>2. Queued' /\ Noticed' /\ Passed' /\ Unwritten'
      BY <1>1, <1>6, <3>1, QueuedStep, NoticedStep, PassedStep, UnwrittenStep
    <3>3. QED
      BY <1>6, <3>2 DEF OutsInv
  <2>3. QED
    BY <2>1, <2>2
<1>7. QED
  BY <1>2, <1>3, <1>4, <1>5, <1>6, LifeStep DEF LifeMoves

\* What setters have set gets to the device, in whatever order setters and
\* packets have overtaken each other: for every set of outputs and setters, any
\* number of calls, attaches, unplugs and failed transfers, if no device is a
\* 4/8/8.
THEOREM SetOutputsSettle == AllInOne => (Spec => []OutputsSettle)
<1> SUFFICES ASSUME AllInOne PROVE Spec => []OutputsSettle
  OBVIOUS
<1>1. Init => Parses /\ OutsInv
  BY DEF Init, Parses, OutsInv
<1>2. Base /\ Parses /\ OutsInv /\ [Next]_vars => Base' /\ Parses' /\ OutsInv'
  BY BaseStep, ParsesStep, OutsInvStep
<1>3. ASSUME Base, OutsInv PROVE OutputsSettle
  <2>1. SUFFICES ASSUME attached, WriterRests, ~Signalling, ~stray, NEW o \in Outputs,
                        wanted[o] # Unknown
                 PROVE  dev.outs[o] = wanted[o]
    BY DEF OutputsSettle
  <2>2. Queued /\ Noticed /\ Passed
    BY <1>3, <2>1 DEF Base, LifeFlags, OutsInv
  <2>3. changedOutputs = {}
    BY <2>1, <2>2 DEF Noticed, WriterRests, Dead
  <2>4. outputStates[o] = wanted[o]
    BY <2>1, <2>2, <2>3 DEF Queued
  <2>5. QED
    BY <2>1, <2>2, <2>4 DEF Passed, WriterRests, Dead
<1>4. QED
  BY BaseInit, <1>1, <1>2, <1>3, PTL DEF Spec

-----------------------------------------------------------------------------
(* The ratiometric state.                                                   *)

Even(e, o) == e.mode = o /\ e.measured = o
ReportEven(o) == report = Unknown \/ Even(report, o)
ReadEven(o) == rpc = "idle" \/ Even(rbuf.new, o)

\* The device is in mode o and so is all it has reported; the other mode, n, may
\* have been asked for.
Steady(o, n) ==
    /\ Even(dev, o) /\ ReportEven(o) /\ ReadEven(o)
    /\ ratiometricEcho \in {o, Unknown} /\ sensorValue \in {o, Unknown}
    /\ ratiometric = n => ~OutputLockFree \/ ratiometricSwitching = 2
    /\ ~OutputLockFree => ratiometricSwitching = 0 /\ rpc # "count"
    /\ rpc = "count" => ratiometric = o /\ rbuf.left = ratiometricSwitching
    /\ wpc = "send" /\ packet.ratio # o => packet.ratio = ratiometric /\ OutputLockFree

\* It has left mode o for mode n.
Turned(o, n) ==
    /\ dev.mode = n /\ ratiometric = n /\ OutputLockFree
    /\ wpc = "send" => packet.ratio = n
    /\ sensorValue \in {o, Unknown}

\* Its next report has mode n and a value that was measured under mode o.
AboutToReport(o, n) ==
    /\ dev.measured = o /\ ReportEven(o) /\ ReadEven(o) /\ rpc # "count"
    /\ ratiometricSwitching = 2 /\ ratiometricEcho \in {o, Unknown}

\* It has made up that report, or has been unplugged with it.
HasReported(o, n) ==
    /\ dev.measured = n
    /\ \/ report # Unknown /\ report.mode = n /\ report.measured = o
       \/ report = Unknown /\ ~plugged
    /\ ReadEven(o) /\ rpc # "count"
    /\ ratiometricSwitching = 2 /\ ratiometricEcho \in {o, Unknown}

\* dataInput is given that report and skips it.
Skips(o, n) ==
    /\ dev.measured = n /\ ReportEven(n) /\ ratiometricEcho \in {o, Unknown}
    /\ rpc # "idle" /\ rbuf.new.mode = n /\ rbuf.new.measured = o
    /\ ratiometricSwitching = IF rpc \in {"ratio", "count"} THEN 2 ELSE 1
    /\ rpc = "count" => rbuf.left = 2

\* It has skipped it; the next one it counts down to the last, which it shows.
HasSkipped(o, n) ==
    /\ dev.measured = n /\ ReportEven(n) /\ ReadEven(n)
    /\ \/ /\ ratiometricSwitching > 0 /\ ratiometricEcho \in {o, Unknown}
          /\ rpc = "count" => rbuf.left = ratiometricSwitching
       \/ /\ ratiometricSwitching = 0 /\ rpc = "show"
          /\ ratiometricEcho \in {o, Unknown}
       \/ ratiometricSwitching = 0 /\ rpc = "store" /\ ratiometricEcho = n

Switches(o, n) ==
    \/ Steady(o, n)
    \/ /\ Turned(o, n)
       /\ \/ AboutToReport(o, n) \/ HasReported(o, n) \/ Skips(o, n)
          \/ HasSkipped(o, n)

RatioInv ==
    /\ ~kind.ratio => rpc \notin {"count", "show"} /\ ratiometricEcho = Unknown
    /\ kind.ratio /\ ~overlapped /\ life # "off" =>
           \E o, n \in BOOLEAN : o # n /\ Switches(o, n)

LEMMA ReadSwitches ==
  ASSUME Base, Parses, kind.ratio, NEW o \in BOOLEAN, NEW n \in BOOLEAN, o # n,
         Switches(o, n), ReaderReads
  PROVE  Switches(o, n)'
<1>1. /\ rpc = "idle" /\ rpc' = "ratio" /\ report # Unknown /\ report' = Unknown
      /\ rbuf'.new.mode = report.mode /\ rbuf'.new.measured = report.measured
      /\ UNCHANGED <<plugged, dev, ratio, sensorValue, wpc, packet, OutputLockFree>>
  BY ReportIsRead DEF ReaderReads, MayRead, OutputLockFree
<1>2. Unknown \notin {o, n} /\ \A v \in BOOLEAN : v = o \/ v = n
  BY ThreadsAssumption
<1>3. CASE Steady(o, n)
  BY <1>1, <1>2, <1>3
     DEF Switches, Steady, Turned, AboutToReport, HasReported, Skips, HasSkipped,
         Even, ReportEven, ReadEven
<1>4. CASE Turned(o, n) /\ AboutToReport(o, n)
  BY <1>1, <1>2, <1>4
     DEF Switches, Steady, Turned, AboutToReport, HasReported, Skips, HasSkipped,
         Even, ReportEven, ReadEven
<1>5. CASE Turned(o, n) /\ HasReported(o, n)
  BY <1>1, <1>2, <1>5
     DEF Switches, Steady, Turned, AboutToReport, HasReported, Skips, HasSkipped,
         Even, ReportEven, ReadEven
<1>6. CASE Turned(o, n) /\ Skips(o, n)
  BY <1>1, <1>2, <1>6
     DEF Switches, Steady, Turned, AboutToReport, HasReported, Skips, HasSkipped,
         Even, ReportEven, ReadEven
<1>7. CASE Turned(o, n) /\ HasSkipped(o, n)
  BY <1>1, <1>2, <1>7
     DEF Switches, Steady, Turned, AboutToReport, HasReported, Skips, HasSkipped,
         Even, ReportEven, ReadEven
<1>8. QED
  BY <1>3, <1>4, <1>5, <1>6, <1>7 DEF Switches

LEMMA TestSwitches ==
  ASSUME Base, Parses, kind.ratio, NEW o \in BOOLEAN, NEW n \in BOOLEAN, o # n,
         Switches(o, n), RatioTests
  PROVE  Switches(o, n)'
<1>1. /\ rpc = "ratio"
      /\ rbuf.new.mode \in BOOLEAN /\ rbuf'.new = rbuf.new
      /\ ratiometric' = IF ratiometric = Unknown THEN rbuf.new.mode ELSE ratiometric
      /\ ratiometricSwitching \in 0..2
      /\ wpc = "send" => packet.ratio \in BOOLEAN
      /\ rpc' \in {"count", "show"}
      /\ rpc' = "count" => /\ ratiometricSwitching > 0 /\ rbuf.new.mode = ratiometric'
                           /\ rbuf'.left = ratiometricSwitching
      /\ rpc' = "show" => ratiometricSwitching = 0 \/ rbuf.new.mode # ratiometric'
      /\ UNCHANGED <<plugged, report, dev, ratiometricEcho, ratiometricSwitching,
                     sensorValue, wpc, packet, OutputLockFree>>
  <2>1. rpc = "ratio" /\ rbuf \in Reading /\ ratiometricSwitching \in 0..2
    BY TypeParts DEF RatioTests, ReaderAt, Base, ReaderTypes, ValueTypes
  <2>2. rbuf.new.mode \in BOOLEAN
    BY <2>1 DEF Parses
  <2>3. /\ ratiometric' = IF ratiometric = Unknown THEN rbuf.new.mode ELSE ratiometric
    BY DEF RatioTests
  <2>a. /\ rpc' \in {"count", "show"}
        /\ rpc' = "count" =>
               /\ ratiometricSwitching > 0 /\ rbuf.new.mode = ratiometric'
               /\ rbuf' = [rbuf EXCEPT !.left = ratiometricSwitching]
        /\ rpc' = "show" =>
               (ratiometricSwitching = 0 \/ rbuf.new.mode # ratiometric') /\ rbuf' = rbuf
    BY <2>1 DEF RatioTests, ReaderAt
  <2>4. /\ rbuf'.new = rbuf.new
        /\ rpc' = "count" => rbuf'.left = ratiometricSwitching
    BY <2>1, <2>a DEF Reading
  <2>5. UNCHANGED <<plugged, report, dev, ratiometricEcho, ratiometricSwitching,
                    sensorValue, wpc, packet, OutputLockFree>>
    BY DEF RatioTests, OutputLockFree
  <2>6. wpc = "send" => packet.ratio \in BOOLEAN
    BY TypeParts DEF Base, WriterTypes, Packet
  <2>7. QED
    BY <2>1, <2>2, <2>3, <2>a, <2>4, <2>5, <2>6
<1>2. Unknown \notin {o, n} /\ \A v \in BOOLEAN : v = o \/ v = n
  BY ThreadsAssumption
<1>3. CASE Steady(o, n)
  <2>1. /\ rbuf.new.mode = o
        /\ ratiometric' = n => ratiometric = n
        /\ ratiometric' = o \/ ratiometric' = ratiometric
    BY <1>1, <1>2, <1>3 DEF Steady, ReadEven, Even
  <2>2. CASE rpc' = "count"
    <3>1. ratiometricSwitching > 0 /\ ratiometric' = o /\ rbuf'.left = ratiometricSwitching
      BY <1>1, <2>1, <2>2
    <3>2. ratiometricSwitching # 0 /\ OutputLockFree
      BY <3>1, <1>1, <1>3 DEF Steady
    <3>3. wpc = "send" => packet.ratio = o
      BY <1>1, <1>2, <1>3, <2>1, <3>1, <3>2 DEF Steady
    <3>4. QED
      BY <1>1, <1>3, <2>1, <2>2, <3>1, <3>2, <3>3
         DEF Switches, Steady, Even, ReportEven, ReadEven
  <2>3. CASE rpc' = "show"
    BY <1>1, <1>2, <1>3, <2>1, <2>3 DEF Switches, Steady, Even, ReportEven, ReadEven
  <2>4. QED
    BY <1>1, <2>2, <2>3
<1>4. CASE Turned(o, n) /\ AboutToReport(o, n)
  BY <1>1, <1>2, <1>4
     DEF Switches, Steady, Turned, AboutToReport, HasReported, Skips, HasSkipped,
         Even, ReportEven, ReadEven
<1>5. CASE Turned(o, n) /\ HasReported(o, n)
  BY <1>1, <1>2, <1>5
     DEF Switches, Steady, Turned, AboutToReport, HasReported, Skips, HasSkipped,
         Even, ReportEven, ReadEven
<1>6. CASE Turned(o, n) /\ Skips(o, n)
  BY <1>1, <1>2, <1>6
     DEF Switches, Steady, Turned, AboutToReport, HasReported, Skips, HasSkipped,
         Even, ReportEven, ReadEven
<1>7. CASE Turned(o, n) /\ HasSkipped(o, n)
  BY <1>1, <1>2, <1>7
     DEF Switches, Steady, Turned, AboutToReport, HasReported, Skips, HasSkipped,
         Even, ReportEven, ReadEven
<1>8. QED
  BY <1>3, <1>4, <1>5, <1>6, <1>7 DEF Switches

LEMMA CountSwitches ==
  ASSUME Base, Parses, kind.ratio, NEW o \in BOOLEAN, NEW n \in BOOLEAN, o # n,
         Switches(o, n), RatioCounts
  PROVE  Switches(o, n)'
<1>1. /\ rpc = "count" /\ rpc' = "show" /\ rbuf'.new = rbuf.new
      /\ ratiometricSwitching' = rbuf.left - 1
      /\ rbuf.left \in 1..2 /\ ratiometricSwitching \in 0..2
      /\ UNCHANGED <<plugged, report, dev, ratiometric, ratiometricEcho,
                     sensorValue, wpc, packet, OutputLockFree>>
  BY TypeParts DEF RatioCounts, ReaderAt, OutputLockFree, Base, ReaderTypes, Reading,
         ValueTypes
<1>2. Unknown \notin {o, n} /\ \A v \in BOOLEAN : v = o \/ v = n
  BY ThreadsAssumption
<1>3. CASE Steady(o, n)
  BY <1>1, <1>2, <1>3
     DEF Switches, Steady, Turned, AboutToReport, HasReported, Skips, HasSkipped,
         Even, ReportEven, ReadEven
<1>4. CASE Turned(o, n) /\ AboutToReport(o, n)
  BY <1>1, <1>2, <1>4
     DEF Switches, Steady, Turned, AboutToReport, HasReported, Skips, HasSkipped,
         Even, ReportEven, ReadEven
<1>5. CASE Turned(o, n) /\ HasReported(o, n)
  BY <1>1, <1>2, <1>5
     DEF Switches, Steady, Turned, AboutToReport, HasReported, Skips, HasSkipped,
         Even, ReportEven, ReadEven
<1>6. CASE Turned(o, n) /\ Skips(o, n)
  BY <1>1, <1>2, <1>6
     DEF Switches, Steady, Turned, AboutToReport, HasReported, Skips, HasSkipped,
         Even, ReportEven, ReadEven
<1>7. CASE Turned(o, n) /\ HasSkipped(o, n)
  BY <1>1, <1>2, <1>7
     DEF Switches, Steady, Turned, AboutToReport, HasReported, Skips, HasSkipped,
         Even, ReportEven, ReadEven
<1>8. QED
  BY <1>3, <1>4, <1>5, <1>6, <1>7 DEF Switches

LEMMA ShowSwitches ==
  ASSUME Base, Parses, kind.ratio, NEW o \in BOOLEAN, NEW n \in BOOLEAN, o # n,
         Switches(o, n), RatioShows
  PROVE  Switches(o, n)'
<1>1. /\ rpc = "show" /\ rpc' = "store" /\ ratiometricSwitching \in 0..2
      /\ ratiometricEcho' = IF ratiometricSwitching = 0 THEN rbuf.new.mode
                            ELSE ratiometricEcho
      /\ UNCHANGED <<plugged, report, dev, rbuf, ratiometric, ratiometricSwitching,
                     sensorValue, wpc, packet, OutputLockFree>>
  BY TypeParts DEF RatioShows, ReaderAt, OutputLockFree, Base, ValueTypes
<1>2. Unknown \notin {o, n} /\ \A v \in BOOLEAN : v = o \/ v = n
  BY ThreadsAssumption
<1>3. CASE Steady(o, n)
  BY <1>1, <1>2, <1>3
     DEF Switches, Steady, Turned, AboutToReport, HasReported, Skips, HasSkipped,
         Even, ReportEven, ReadEven
<1>4. CASE Turned(o, n) /\ AboutToReport(o, n)
  BY <1>1, <1>2, <1>4
     DEF Switches, Steady, Turned, AboutToReport, HasReported, Skips, HasSkipped,
         Even, ReportEven, ReadEven
<1>5. CASE Turned(o, n) /\ HasReported(o, n)
  BY <1>1, <1>2, <1>5
     DEF Switches, Steady, Turned, AboutToReport, HasReported, Skips, HasSkipped,
         Even, ReportEven, ReadEven
<1>6. CASE Turned(o, n) /\ Skips(o, n)
  BY <1>1, <1>2, <1>6
     DEF Switches, Steady, Turned, AboutToReport, HasReported, Skips, HasSkipped,
         Even, ReportEven, ReadEven
<1>7. CASE Turned(o, n) /\ HasSkipped(o, n)
  BY <1>1, <1>2, <1>7
     DEF Switches, Steady, Turned, AboutToReport, HasReported, Skips, HasSkipped,
         Even, ReportEven, ReadEven
<1>8. QED
  BY <1>3, <1>4, <1>5, <1>6, <1>7 DEF Switches

LEMMA StoreSwitches ==
  ASSUME Base, Parses, kind.ratio, NEW o \in BOOLEAN, NEW n \in BOOLEAN, o # n,
         Switches(o, n), ReaderStores
  PROVE  Switches(o, n)' \/ Switches(n, o)'
<1>1. /\ rpc = "store" /\ rpc' = "fire" /\ ratiometricSwitching \in 0..2
      /\ sensorValue' = IF ratiometricSwitching = 0 THEN rbuf.new.measured ELSE sensorValue
      /\ UNCHANGED <<plugged, report, dev, rbuf, ratio, wpc, packet, OutputLockFree>>
  BY TypeParts DEF ReaderStores, ReaderAt, OutputLockFree, Base, ValueTypes
<1>2. Unknown \notin {o, n} /\ \A v \in BOOLEAN : v = o \/ v = n
  BY ThreadsAssumption
<1>3. CASE Steady(o, n)
  BY <1>1, <1>2, <1>3
     DEF Switches, Steady, Turned, AboutToReport, HasReported, Skips, HasSkipped,
         Even, ReportEven, ReadEven
<1>4. CASE Turned(o, n) /\ AboutToReport(o, n)
  BY <1>1, <1>2, <1>4
     DEF Switches, Steady, Turned, AboutToReport, HasReported, Skips, HasSkipped,
         Even, ReportEven, ReadEven
<1>5. CASE Turned(o, n) /\ HasReported(o, n)
  BY <1>1, <1>2, <1>5
     DEF Switches, Steady, Turned, AboutToReport, HasReported, Skips, HasSkipped,
         Even, ReportEven, ReadEven
<1>6. CASE Turned(o, n) /\ Skips(o, n)
  BY <1>1, <1>2, <1>6
     DEF Switches, Steady, Turned, AboutToReport, HasReported, Skips, HasSkipped,
         Even, ReportEven, ReadEven
<1>7. CASE Turned(o, n) /\ HasSkipped(o, n)
  BY <1>1, <1>2, <1>7
     DEF Switches, Steady, Turned, AboutToReport, HasReported, Skips, HasSkipped,
         Even, ReportEven, ReadEven
<1>8. QED
  BY <1>3, <1>4, <1>5, <1>6, <1>7 DEF Switches

LEMMA FireSwitches ==
  ASSUME Base, Parses, kind.ratio, NEW o \in BOOLEAN, NEW n \in BOOLEAN, o # n,
         Switches(o, n), ReaderFires
  PROVE  Switches(o, n)'
<1>1. /\ rpc = "fire" /\ rpc' = "idle" /\ ratiometricSwitching \in 0..2
      /\ UNCHANGED <<plugged, report, dev, ratio, sensorValue, wpc, packet, OutputLockFree>>
  BY TypeParts DEF ReaderFires, ReaderAt, OutputLockFree, Base, ValueTypes
<1>2. Unknown \notin {o, n} /\ \A v \in BOOLEAN : v = o \/ v = n
  BY ThreadsAssumption
<1>3. CASE Steady(o, n)
  BY <1>1, <1>2, <1>3
     DEF Switches, Steady, Turned, AboutToReport, HasReported, Skips, HasSkipped,
         Even, ReportEven, ReadEven
<1>4. CASE Turned(o, n) /\ AboutToReport(o, n)
  BY <1>1, <1>2, <1>4
     DEF Switches, Steady, Turned, AboutToReport, HasReported, Skips, HasSkipped,
         Even, ReportEven, ReadEven
<1>5. CASE Turned(o, n) /\ HasReported(o, n)
  BY <1>1, <1>2, <1>5
     DEF Switches, Steady, Turned, AboutToReport, HasReported, Skips, HasSkipped,
         Even, ReportEven, ReadEven
<1>6. CASE Turned(o, n) /\ Skips(o, n)
  BY <1>1, <1>2, <1>6
     DEF Switches, Steady, Turned, AboutToReport, HasReported, Skips, HasSkipped,
         Even, ReportEven, ReadEven
<1>7. CASE Turned(o, n) /\ HasSkipped(o, n)
  BY <1>1, <1>2, <1>7
     DEF Switches, Steady, Turned, AboutToReport, HasReported, Skips, HasSkipped,
         Even, ReportEven, ReadEven
<1>8. QED
  BY <1>3, <1>4, <1>5, <1>6, <1>7 DEF Switches

LEMMA SetSwitches ==
  ASSUME Base, Parses, kind.ratio, NEW o \in BOOLEAN, NEW n \in BOOLEAN, o # n,
         Switches(o, n), NEW s \in Setters, RatioSets(s), ~overlapped'
  PROVE  Switches(o, n)'
<1>1. /\ ratiometric' \in BOOLEAN /\ ~OutputLockFree'
      /\ ratiometricSwitching = 0 /\ ratiometricEcho = ratiometric /\ rpc # "store"
      /\ rpc = "count" => rbuf.left > 0
      /\ wpc = "send" => packet.ratio \in BOOLEAN
      /\ UNCHANGED <<plugged, report, dev, rpc, rbuf, ratiometricEcho,
                     ratiometricSwitching, sensorValue, wpc, packet>>
  <2>1. ratiometric' = req[s].v /\ req[s].v \in BOOLEAN
    BY DEF RatioSets, Base, TypeOK, SetterAt, Requests, Idle
  <2>2. spc'[s] = "switching"
    BY DEF RatioSets, SetterAt, Base, TypeOK
  <2>3. wpc = "send" => packet.ratio \in BOOLEAN
    BY TypeParts DEF Base, WriterTypes, Packet
  <2>4. rpc = "count" => rbuf.left > 0
    BY TypeParts DEF Base, ReaderTypes
  <2>5. QED
    BY <2>1, <2>2, <2>3, <2>4 DEF RatioSets, RatioSettled, OutputLockFree
<1>2. Unknown \notin {o, n} /\ \A v \in BOOLEAN : v = o \/ v = n
  BY ThreadsAssumption
<1>3. CASE Steady(o, n)
  BY <1>1, <1>2, <1>3
     DEF Switches, Steady, Turned, AboutToReport, HasReported, Skips, HasSkipped,
         Even, ReportEven, ReadEven
<1>4. CASE Turned(o, n) /\ AboutToReport(o, n)
  BY <1>1, <1>2, <1>4
     DEF Switches, Steady, Turned, AboutToReport, HasReported, Skips, HasSkipped,
         Even, ReportEven, ReadEven
<1>5. CASE Turned(o, n) /\ HasReported(o, n)
  BY <1>1, <1>2, <1>5
     DEF Switches, Steady, Turned, AboutToReport, HasReported, Skips, HasSkipped,
         Even, ReportEven, ReadEven
<1>6. CASE Turned(o, n) /\ Skips(o, n)
  BY <1>1, <1>2, <1>6
     DEF Switches, Steady, Turned, AboutToReport, HasReported, Skips, HasSkipped,
         Even, ReportEven, ReadEven
<1>7. CASE Turned(o, n) /\ HasSkipped(o, n)
  BY <1>1, <1>2, <1>7
     DEF Switches, Steady, Turned, AboutToReport, HasReported, Skips, HasSkipped,
         Even, ReportEven, ReadEven
<1>8. QED
  BY <1>3, <1>4, <1>5, <1>6, <1>7 DEF Switches

LEMMA SwitchSwitches ==
  ASSUME Base, Parses, kind.ratio, NEW o \in BOOLEAN, NEW n \in BOOLEAN, o # n,
         Switches(o, n), NEW s \in Setters, RatioSwitches(s)
  PROVE  Switches(o, n)'
<1>1. /\ ~OutputLockFree /\ OutputLockFree' /\ ratiometricSwitching' = 2
      /\ UNCHANGED <<plugged, report, dev, rpc, rbuf, ratiometric, ratiometricEcho,
                     sensorValue, wpc, packet>>
  <2>1. /\ spc[s] = "switching" /\ spc' = [spc EXCEPT ![s] = "ratioSignal"]
        /\ spc = [x \in Setters |-> spc[x]]
    BY TypeParts DEF RatioSwitches, SetterAt, Base, SetterTypes
  <2>2. \A x \in Setters : spc[x] = "switching" => x = s
    BY <2>1, TypeParts DEF Base, SetterTypes
  <2>3. QED
    BY <2>1, <2>2 DEF RatioSwitches, OutputLockFree
<1>2. Unknown \notin {o, n} /\ \A v \in BOOLEAN : v = o \/ v = n
  BY ThreadsAssumption
<1>3. CASE Steady(o, n)
  BY <1>1, <1>2, <1>3
     DEF Switches, Steady, Turned, AboutToReport, HasReported, Skips, HasSkipped,
         Even, ReportEven, ReadEven
<1>4. CASE Turned(o, n) /\ AboutToReport(o, n)
  BY <1>1, <1>2, <1>4
     DEF Switches, Steady, Turned, AboutToReport, HasReported, Skips, HasSkipped,
         Even, ReportEven, ReadEven
<1>5. CASE Turned(o, n) /\ HasReported(o, n)
  BY <1>1, <1>2, <1>5
     DEF Switches, Steady, Turned, AboutToReport, HasReported, Skips, HasSkipped,
         Even, ReportEven, ReadEven
<1>6. CASE Turned(o, n) /\ Skips(o, n)
  BY <1>1, <1>2, <1>6
     DEF Switches, Steady, Turned, AboutToReport, HasReported, Skips, HasSkipped,
         Even, ReportEven, ReadEven
<1>7. CASE Turned(o, n) /\ HasSkipped(o, n)
  BY <1>1, <1>2, <1>7
     DEF Switches, Steady, Turned, AboutToReport, HasReported, Skips, HasSkipped,
         Even, ReportEven, ReadEven
<1>8. QED
  BY <1>3, <1>4, <1>5, <1>6, <1>7 DEF Switches

LEMMA GetSwitches ==
  ASSUME Base, Parses, kind.ratio, NEW o \in BOOLEAN, NEW n \in BOOLEAN, o # n,
         Switches(o, n), WriterGets, ~overlapped'
  PROVE  Switches(o, n)'
<1>1. /\ wpc' = "send" /\ packet'.ratio = ratiometric' /\ OutputLockFree
      /\ ratiometric' = IF ratiometric = Unknown THEN dev.mode ELSE ratiometric
      /\ ratiometric \in BOOLEAN \cup {Unknown}
      /\ UNCHANGED <<plugged, report, dev, rpc, rbuf, ratiometricEcho,
                     ratiometricSwitching, sensorValue, OutputLockFree>>
  <2>1. ratiometric = Unknown => dev.mode = TRUE
    BY TypeParts DEF WriterGets, Presumes, Base, DeviceTypes, State
  <2>2. ratiometric \in BOOLEAN \cup {Unknown}
    BY TypeParts DEF Base, ValueTypes, Tri
  <2>3. QED
    BY <2>1, <2>2 DEF WriterGets, WriterAt, OutputLockFree
<1>2. Unknown \notin {o, n} /\ \A v \in BOOLEAN : v = o \/ v = n
  BY ThreadsAssumption
<1>3. CASE Steady(o, n)
  BY <1>1, <1>2, <1>3
     DEF Switches, Steady, Turned, AboutToReport, HasReported, Skips, HasSkipped,
         Even, ReportEven, ReadEven
<1>4. CASE Turned(o, n) /\ AboutToReport(o, n)
  BY <1>1, <1>2, <1>4
     DEF Switches, Steady, Turned, AboutToReport, HasReported, Skips, HasSkipped,
         Even, ReportEven, ReadEven
<1>5. CASE Turned(o, n) /\ HasReported(o, n)
  BY <1>1, <1>2, <1>5
     DEF Switches, Steady, Turned, AboutToReport, HasReported, Skips, HasSkipped,
         Even, ReportEven, ReadEven
<1>6. CASE Turned(o, n) /\ Skips(o, n)
  BY <1>1, <1>2, <1>6
     DEF Switches, Steady, Turned, AboutToReport, HasReported, Skips, HasSkipped,
         Even, ReportEven, ReadEven
<1>7. CASE Turned(o, n) /\ HasSkipped(o, n)
  BY <1>1, <1>2, <1>7
     DEF Switches, Steady, Turned, AboutToReport, HasReported, Skips, HasSkipped,
         Even, ReportEven, ReadEven
<1>8. QED
  BY <1>3, <1>4, <1>5, <1>6, <1>7 DEF Switches

LEMMA SendSwitches ==
  ASSUME Base, Parses, kind.ratio, NEW o \in BOOLEAN, NEW n \in BOOLEAN, o # n,
         Switches(o, n), WriterSends
  PROVE  Switches(o, n)'
<1>1. /\ wpc = "send" /\ wpc' = "signal" /\ packet.ratio \in BOOLEAN
      /\ dev'.mode = packet.ratio /\ dev'.measured = dev.measured
      /\ UNCHANGED <<plugged, report, rpc, rbuf, ratio, sensorValue, OutputLockFree>>
  <2>1. wpc = "send" /\ packet \in Packet /\ dev \in State
    BY TypeParts DEF WriterSends, WriterAt, Base, WriterTypes, DeviceTypes
  <2>2. /\ Executed(packet).mode = packet.ratio
        /\ Executed(packet).measured = dev.measured
    BY <2>1 DEF Executed, State
  <2>3. QED
    BY <2>1, <2>2 DEF WriterSends, WriterAt, OutputLockFree, Packet
<1>2. Unknown \notin {o, n} /\ \A v \in BOOLEAN : v = o \/ v = n
  BY ThreadsAssumption
<1>3. CASE Steady(o, n)
  BY <1>1, <1>2, <1>3
     DEF Switches, Steady, Turned, AboutToReport, HasReported, Skips, HasSkipped,
         Even, ReportEven, ReadEven
<1>4. CASE Turned(o, n) /\ AboutToReport(o, n)
  BY <1>1, <1>2, <1>4
     DEF Switches, Steady, Turned, AboutToReport, HasReported, Skips, HasSkipped,
         Even, ReportEven, ReadEven
<1>5. CASE Turned(o, n) /\ HasReported(o, n)
  BY <1>1, <1>2, <1>5
     DEF Switches, Steady, Turned, AboutToReport, HasReported, Skips, HasSkipped,
         Even, ReportEven, ReadEven
<1>6. CASE Turned(o, n) /\ Skips(o, n)
  BY <1>1, <1>2, <1>6
     DEF Switches, Steady, Turned, AboutToReport, HasReported, Skips, HasSkipped,
         Even, ReportEven, ReadEven
<1>7. CASE Turned(o, n) /\ HasSkipped(o, n)
  BY <1>1, <1>2, <1>7
     DEF Switches, Steady, Turned, AboutToReport, HasReported, Skips, HasSkipped,
         Even, ReportEven, ReadEven
<1>8. QED
  BY <1>3, <1>4, <1>5, <1>6, <1>7 DEF Switches

LEMMA ReportSwitches ==
  ASSUME Base, Parses, kind.ratio, NEW o \in BOOLEAN, NEW n \in BOOLEAN, o # n,
         Switches(o, n), DeviceReports
  PROVE  Switches(o, n)'
<1>1. /\ report = Unknown /\ report' = dev /\ dev'.mode = dev.mode
      /\ dev'.measured = dev.mode /\ dev # Unknown /\ plugged
      /\ UNCHANGED <<plugged, rpc, rbuf, ratio, sensorValue, wpc, packet, OutputLockFree>>
  <2>1. dev \in State /\ dev # Unknown
    BY TypeParts, ThreadsAssumption DEF Base, DeviceTypes
  <2>2. QED
    BY <2>1 DEF DeviceReports, OutputLockFree, State
<1>2. Unknown \notin {o, n} /\ \A v \in BOOLEAN : v = o \/ v = n
  BY ThreadsAssumption
<1>3. CASE Steady(o, n)
  BY <1>1, <1>2, <1>3
     DEF Switches, Steady, Turned, AboutToReport, HasReported, Skips, HasSkipped,
         Even, ReportEven, ReadEven
<1>4. CASE Turned(o, n) /\ AboutToReport(o, n)
  BY <1>1, <1>2, <1>4
     DEF Switches, Steady, Turned, AboutToReport, HasReported, Skips, HasSkipped,
         Even, ReportEven, ReadEven
<1>5. CASE Turned(o, n) /\ HasReported(o, n)
  BY <1>1, <1>2, <1>5
     DEF Switches, Steady, Turned, AboutToReport, HasReported, Skips, HasSkipped,
         Even, ReportEven, ReadEven
<1>6. CASE Turned(o, n) /\ Skips(o, n)
  BY <1>1, <1>2, <1>6
     DEF Switches, Steady, Turned, AboutToReport, HasReported, Skips, HasSkipped,
         Even, ReportEven, ReadEven
<1>7. CASE Turned(o, n) /\ HasSkipped(o, n)
  BY <1>1, <1>2, <1>7
     DEF Switches, Steady, Turned, AboutToReport, HasReported, Skips, HasSkipped,
         Even, ReportEven, ReadEven
<1>8. QED
  BY <1>3, <1>4, <1>5, <1>6, <1>7 DEF Switches

LEMMA UnplugSwitches ==
  ASSUME Base, Parses, kind.ratio, NEW o \in BOOLEAN, NEW n \in BOOLEAN, o # n,
         Switches(o, n), Unplug
  PROVE  Switches(o, n)'
<1>1. /\ report' = Unknown /\ ~plugged'
      /\ UNCHANGED <<dev, rpc, rbuf, ratio, sensorValue, wpc, packet, OutputLockFree>>
  BY DEF Unplug, OutputLockFree
<1>2. Unknown \notin {o, n} /\ \A v \in BOOLEAN : v = o \/ v = n
  BY ThreadsAssumption
<1>3. CASE Steady(o, n)
  BY <1>1, <1>2, <1>3
     DEF Switches, Steady, Turned, AboutToReport, HasReported, Skips, HasSkipped,
         Even, ReportEven, ReadEven
<1>4. CASE Turned(o, n) /\ AboutToReport(o, n)
  BY <1>1, <1>2, <1>4
     DEF Switches, Steady, Turned, AboutToReport, HasReported, Skips, HasSkipped,
         Even, ReportEven, ReadEven
<1>5. CASE Turned(o, n) /\ HasReported(o, n)
  BY <1>1, <1>2, <1>5
     DEF Switches, Steady, Turned, AboutToReport, HasReported, Skips, HasSkipped,
         Even, ReportEven, ReadEven
<1>6. CASE Turned(o, n) /\ Skips(o, n)
  BY <1>1, <1>2, <1>6
     DEF Switches, Steady, Turned, AboutToReport, HasReported, Skips, HasSkipped,
         Even, ReportEven, ReadEven
<1>7. CASE Turned(o, n) /\ HasSkipped(o, n)
  BY <1>1, <1>2, <1>7
     DEF Switches, Steady, Turned, AboutToReport, HasReported, Skips, HasSkipped,
         Even, ReportEven, ReadEven
<1>8. QED
  BY <1>3, <1>4, <1>5, <1>6, <1>7 DEF Switches

\* What matters to a switch stays as it is.
LEMMA FrameSwitches ==
  ASSUME NEW o, NEW n, Switches(o, n), dev'.mode = dev.mode, dev'.measured = dev.measured,
         UNCHANGED <<plugged, report, rpc, rbuf, ratio, sensorValue, OutputLockFree>>,
         wpc' = "send" => wpc = "send" /\ packet' = packet
  PROVE  Switches(o, n)'
BY DEF Switches, Steady, Turned, AboutToReport, HasReported, Skips, HasSkipped,
       Even, ReportEven, ReadEven

LEMMA SwitchesStep ==
  ASSUME Base, Parses, kind.ratio, NEW o \in BOOLEAN, NEW n \in BOOLEAN, o # n,
         Switches(o, n), life # "off", [Next]_vars, ~overlapped'
  PROVE  Switches(o, n)' \/ Switches(n, o)'
<1>1. spc = [s \in Setters |-> spc[s]] /\ dev \in State
  BY TypeParts DEF Base, SetterTypes, DeviceTypes
<1>2. ASSUME UNCHANGED <<dev, plugged, report, rpc, rbuf, ratio, sensorValue, spc>>,
             wpc' = "send" => wpc = "send" /\ packet' = packet
      PROVE  Switches(o, n)'
  BY <1>2, FrameSwitches DEF OutputLockFree
<1>3. ASSUME UNCHANGED <<dev, plugged, report, rpc, rbuf, ratio, sensorValue, wpc, packet>>,
             NEW s \in Setters, spc[s] # "switching", NEW to, to # "switching",
             spc' = [spc EXCEPT ![s] = to]
      PROVE  Switches(o, n)'
  <2>1. UNCHANGED OutputLockFree
    BY <1>1, <1>3 DEF OutputLockFree
  <2>2. QED
    BY <1>3, <2>1, FrameSwitches
<1>4. ASSUME NEW s \in Setters, RatioSets(s)
      PROVE  Switches(o, n)' \/ Switches(n, o)'
  BY <1>4, SetSwitches
<1>5. ASSUME NEW s \in Setters, RatioSwitches(s)
      PROVE  Switches(o, n)' \/ Switches(n, o)'
  BY <1>5, SwitchSwitches
<1>6. ASSUME NEW s \in Setters,
             \/ SetterCalls(s) \/ OutputLocks(s) \/ OutputFindsAttached(s)
      PROVE  Switches(o, n)' \/ Switches(n, o)'
  BY <1>6, <1>3
     DEF SetterCalls, SetterAt, OutputLocks, OutputFindsAttached
<1>7. ASSUME NEW s \in Setters,
             \/ OutputMustWait(s) \/ OutputDeposits(s)
      PROVE  Switches(o, n)' \/ Switches(n, o)'
  BY <1>7, <1>3
     DEF OutputMustWait, SetterAt, OutputDeposits
<1>8. ASSUME NEW s \in Setters,
             \/ OutputWaits(s) \/ OutputSignals(s)
      PROVE  Switches(o, n)' \/ Switches(n, o)'
  BY <1>8, <1>3
     DEF OutputWaits, SetterAt, OutputSignals
<1>9. ASSUME NEW s \in Setters,
             \/ OutputNotAttached(s) \/ OutputIsSet(s)
      PROVE  Switches(o, n)' \/ Switches(n, o)'
  BY <1>9, <1>3
     DEF OutputNotAttached, Returns, OutputIsSet
<1>10. ASSUME NEW s \in Setters,
              \/ OutputTimesOut(s) \/ OutputFires(s)
       PROVE  Switches(o, n)' \/ Switches(n, o)'
  BY <1>10, <1>3
     DEF OutputTimesOut, Returns, OutputFires
<1>11. ASSUME NEW s \in Setters, RatioSignals(s)
       PROVE  Switches(o, n)' \/ Switches(n, o)'
  BY <1>11, <1>3
     DEF RatioSignals, Returns
<1>12. CASE WriterGets
  BY <1>12, GetSwitches
<1>13. CASE WriterSends
  BY <1>13, SendSwitches
<1>14. CASE ReaderReads
  BY <1>14, ReadSwitches
<1>15. CASE RatioTests
  BY <1>15, TestSwitches
<1>16. CASE RatioCounts
  BY <1>16, CountSwitches
<1>17. CASE RatioShows
  BY <1>17, ShowSwitches
<1>18. CASE ReaderStores
  BY <1>18, StoreSwitches
<1>19. CASE ReaderFires
  BY <1>19, FireSwitches
<1>20. CASE AttachClears
  BY <1>20
     DEF AttachClears, LifeAt
<1>21. CASE DeviceReports
  BY <1>21, ReportSwitches
<1>22. CASE InputChanges

  <2>1. /\ UNCHANGED <<plugged, report, rpc, rbuf, ratio, sensorValue, OutputLockFree>>
        /\ wpc' = wpc /\ packet' = packet
        /\ dev'.mode = dev.mode /\ dev'.measured = dev.measured
    BY <1>22, <1>1 DEF InputChanges, OutputLockFree, State
  <2>2. QED
    BY <2>1, FrameSwitches
<1>23. CASE Unplug
  BY <1>23, UnplugSwitches
<1>24. CASE Plug
  BY <1>24
     DEF Plug
<1>25. CASE \/ WriterLoops \/ WriterWakes \/ WriterTimesOut \/ WriterResets
            \/ WriterNotAttached \/ WriterFails \/ WriterSignals
            \/ ReaderStops \/ FirstReadFails \/ ReaderFails \/ AttachSetsFlag
            \/ AttachTells \/ DetachStops \/ DetachClearsFlag \/ DetachEnds
  BY <1>25, <1>2
     DEF WriterLoops, WriterAt, WriterWakes, WriterTimesOut, WriterResets,
         WriterNotAttached, WriterFails, WriterSignals, ReaderStops,
         FirstReadFails, ReaderFails, AttachSetsFlag, LifeAt, AttachTells,
         DetachStops, DetachClearsFlag, DetachEnds
<1>26. CASE UNCHANGED vars
  BY <1>26, <1>2
     DEF vars
<1>27. QED
  BY Zenon, <1>4, <1>5, <1>6, <1>7, <1>8, <1>9, <1>10, <1>11, <1>12, <1>13,
     <1>14, <1>15, <1>16, <1>17, <1>18, <1>19, <1>20, <1>21, <1>22, <1>23,
     <1>24, <1>25, <1>26
     DEF Next, SetterContinues, Writer, Reader, Life, Environment

LEMMA OverlapStays ==
  ASSUME [Next]_vars, ~overlapped', ~AttachClears, overlapped \in BOOLEAN
  PROVE  ~overlapped
<1>1. ASSUME UNCHANGED overlapped PROVE ~overlapped
  BY <1>1
<1>2. ASSUME NEW s \in Setters, RatioSets(s)
      PROVE  ~overlapped
  BY <1>2
     DEF RatioSets, SetterAt
<1>3. CASE WriterGets
  BY <1>3
     DEF WriterGets, WriterAt
<1>4. CASE AttachClears
  BY <1>4
<1>5. ASSUME NEW s \in Setters,
             \/ SetterCalls(s) \/ OutputLocks(s) \/ OutputFindsAttached(s)
             \/ OutputMustWait(s) \/ OutputDeposits(s) \/ OutputWaits(s)
             \/ OutputSignals(s) \/ RatioSwitches(s) \/ OutputNotAttached(s)
             \/ OutputIsSet(s) \/ OutputTimesOut(s) \/ OutputFires(s)
             \/ RatioSignals(s)
      PROVE  ~overlapped
  BY <1>5, <1>1
     DEF SetterCalls, SetterAt, OutputLocks, OutputFindsAttached,
         OutputMustWait, OutputDeposits, OutputWaits, OutputSignals,
         RatioSwitches, OutputNotAttached, Returns, OutputIsSet,
         OutputTimesOut, OutputFires, RatioSignals
<1>6. CASE \/ WriterLoops \/ WriterWakes \/ WriterTimesOut \/ WriterResets
           \/ WriterSends \/ WriterNotAttached \/ WriterFails \/ WriterSignals
           \/ ReaderReads \/ ReaderStops \/ FirstReadFails \/ ReaderFails
           \/ RatioTests \/ RatioCounts \/ RatioShows \/ ReaderStores
           \/ ReaderFires \/ AttachSetsFlag \/ AttachTells \/ DetachStops
           \/ DetachClearsFlag \/ DetachEnds \/ DeviceReports \/ InputChanges
           \/ Unplug \/ Plug
  BY <1>6, <1>1
     DEF WriterLoops, WriterAt, WriterWakes, WriterTimesOut, WriterResets,
         WriterSends, WriterNotAttached, WriterFails, WriterSignals,
         ReaderReads, ReaderStops, FirstReadFails, ReaderFails, RatioTests,
         ReaderAt, RatioCounts, RatioShows, ReaderStores, ReaderFires,
         AttachSetsFlag, LifeAt, AttachTells, DetachStops, DetachClearsFlag,
         DetachEnds, DeviceReports, InputChanges, Unplug, Plug
<1>7. CASE UNCHANGED vars
  BY <1>7, <1>1
     DEF vars
<1>8. QED
  BY Zenon, <1>2, <1>3, <1>4, <1>5, <1>6, <1>7
     DEF Next, SetterContinues, Writer, Reader, Life, Environment

LEMMA RatioInvStep ==
  ASSUME Base, Parses, RatioInv, [Next]_vars
  PROVE  RatioInv'
<1>1. RatioInv /\ kind' = kind /\ kind.ratio \in BOOLEAN /\ overlapped \in BOOLEAN
  BY KindStays, KindIsKind, TypeParts DEF Base, Kind, HistoryTypes
<1>2. CASE ~kind.ratio
  <2>1. ASSUME UNCHANGED <<rpc, ratiometricEcho>> PROVE RatioInv'
    BY <1>1, <1>2, <2>1 DEF RatioInv
  <2>2. CASE ReaderReads
    BY <2>2, <1>1, <1>2
       DEF ReaderReads, RatioInv
  <2>3. CASE RatioTests
    BY <2>3, <1>1, <1>2
       DEF RatioTests, ReaderAt, RatioInv
  <2>4. CASE RatioCounts
    BY <2>4, <1>1, <1>2
       DEF RatioCounts, ReaderAt, RatioInv
  <2>5. CASE \/ RatioShows \/ ReaderStores \/ ReaderFires
    BY <2>5, <1>1, <1>2
       DEF RatioShows, ReaderAt, ReaderStores, ReaderFires, RatioInv
  <2>6. CASE AttachClears
    BY <2>6, <1>1, <1>2
       DEF AttachClears, LifeAt, RatioInv
  <2>7. ASSUME NEW s \in Setters,
               \/ SetterCalls(s) \/ OutputLocks(s) \/ OutputFindsAttached(s)
               \/ OutputMustWait(s) \/ OutputDeposits(s) \/ OutputWaits(s)
               \/ OutputSignals(s) \/ RatioSets(s) \/ RatioSwitches(s)
               \/ OutputNotAttached(s) \/ OutputIsSet(s) \/ OutputTimesOut(s)
               \/ OutputFires(s) \/ RatioSignals(s)
        PROVE  RatioInv'
    BY <2>7, <2>1
       DEF SetterCalls, SetterAt, OutputLocks, OutputFindsAttached,
           OutputMustWait, OutputDeposits, OutputWaits, OutputSignals,
           RatioSets, RatioSwitches, OutputNotAttached, Returns, OutputIsSet,
           OutputTimesOut, OutputFires, RatioSignals
  <2>8. CASE \/ WriterLoops \/ WriterWakes \/ WriterTimesOut \/ WriterResets
             \/ WriterGets \/ WriterSends \/ WriterNotAttached \/ WriterFails
             \/ WriterSignals \/ ReaderStops \/ FirstReadFails \/ ReaderFails
             \/ AttachSetsFlag \/ AttachTells \/ DetachStops
             \/ DetachClearsFlag \/ DetachEnds \/ DeviceReports
             \/ InputChanges \/ Unplug \/ Plug
    BY <2>8, <2>1
       DEF WriterLoops, WriterAt, WriterWakes, WriterTimesOut, WriterResets,
           WriterGets, WriterSends, WriterNotAttached, WriterFails,
           WriterSignals, ReaderStops, FirstReadFails, ReaderFails,
           AttachSetsFlag, LifeAt, AttachTells, DetachStops, DetachClearsFlag,
           DetachEnds, DeviceReports, InputChanges, Unplug, Plug
  <2>9. CASE UNCHANGED vars
    BY <2>9, <2>1
       DEF vars
  <2>10. QED
    BY Zenon, <2>2, <2>3, <2>4, <2>5, <2>6, <2>7, <2>8, <2>9
       DEF Next, SetterContinues, Writer, Reader, Life, Environment
<1>3. CASE kind.ratio
  <2>1. SUFFICES ASSUME ~overlapped', life' # "off"
                 PROVE  \E o, n \in BOOLEAN : o # n /\ Switches(o, n)'
    BY <1>1, <1>3 DEF RatioInv
  <2>2. CASE AttachClears
    <3>1. /\ rpc' = "idle" /\ wpc' = "off" /\ report' = Unknown
          /\ ratiometric' = Unknown /\ ratiometricEcho' = Unknown
          /\ ratiometricSwitching' = 0 /\ sensorValue' = Unknown
          /\ dev.mode \in BOOLEAN /\ dev'.mode = dev.mode /\ dev'.measured = dev.mode
          /\ Unknown \notin BOOLEAN
      BY <2>2, TypeParts, ThreadsAssumption
         DEF AttachClears, LifeAt, Base, LifeFlags, DeviceTypes, State
    <3>2. PICK n \in BOOLEAN : n # dev.mode
      BY <3>1
    <3>3. Steady(dev.mode, n)'
      BY <3>1, <3>2 DEF Steady, Even, ReportEven, ReadEven
    <3>4. QED
      BY <3>1, <3>2, <3>3 DEF Switches
  <2>3. CASE ~AttachClears
    <3>1. ~overlapped /\ life # "off"
      BY <1>1, <2>1, <2>3, OverlapStays, LifeStep DEF LifeMoves, AttachSetsFlag, LifeAt
    <3>2. PICK o \in BOOLEAN, n \in BOOLEAN : o # n /\ Switches(o, n)
      BY <1>1, <1>3, <3>1 DEF RatioInv
    <3>3. Switches(o, n)' \/ Switches(n, o)'
      BY <1>3, <2>1, <3>1, <3>2, SwitchesStep
    <3>4. QED
      BY <3>2, <3>3
  <2>4. QED
    BY <2>2, <2>3
<1>4. QED
  BY <1>1, <1>2, <1>3

\* A sensor value is of the ratiometric state that is shown with it, for every
\* set of outputs and setters, any number of calls, attaches, unplugs and failed
\* transfers: unless ratiometric was set again before an earlier set had settled
\* or a packet presumed it.
THEOREM ValueIsOfRatio == Spec => []RatioIsOfValue
<1>1. Init => Parses /\ RatioInv
  BY DEF Init, Parses, RatioInv
<1>2. Base /\ Parses /\ RatioInv /\ [Next]_vars => Base' /\ Parses' /\ RatioInv'
  BY BaseStep, ParsesStep, RatioInvStep
<1>3. ASSUME Base, RatioInv PROVE RatioIsOfValue
  <2>1. SUFFICES ASSUME attached, rpc = "idle", ~overlapped,
                        Unknown \notin {ratiometricEcho, sensorValue}
                 PROVE  sensorValue = ratiometricEcho
    BY DEF RatioIsOfValue
  <2>2. kind.ratio /\ life # "off"
    BY <1>3, <2>1, KindIsKind, TypeParts DEF RatioInv, Base, LifeFlags, Kind
  <2>3. PICK o \in BOOLEAN, n \in BOOLEAN : Switches(o, n)
    BY <1>3, <2>1, <2>2 DEF RatioInv
  <2>4. ratiometricEcho \in {o, Unknown} /\ sensorValue \in {o, Unknown}
    BY <2>1, <2>3 DEF Switches, Steady, Turned, AboutToReport, HasReported, Skips, HasSkipped
  <2>5. QED
    BY <2>1, <2>4
<1>4. QED
  BY BaseInit, <1>1, <1>2, <1>3, PTL DEF Spec
=============================================================================
