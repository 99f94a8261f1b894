------------------------- MODULE RemotePhidget_proofs -------------------------
(***************************************************************************)
(* Theorems about RemotePhidget.                                           *)
(***************************************************************************)
EXTENDS RemotePhidget, Pdict_proofs

-----------------------------------------------------------------------------
(* The keys of the classes.                                                  *)

\* A key is counted each time it comes, or once for each of its variables, of
\* which there are two at most.
Countable(key) ==
  \/ key.vars = {EachTime}
  \/ EachTime \notin key.vars /\ IsFiniteSet(key.vars) /\ Cardinality(key.vars) <= 2

AllCountable(keys) ==
  /\ keys \in Seq({keys[i] : i \in DOMAIN keys})
  /\ \A i \in DOMAIN keys : Countable(keys[i])

LEMMA KindsAreCountable ==
  /\ \A n : Countable(Each(n)) /\ Countable(Never(n))
  /\ \A n, v : v /= EachTime => Countable(Once(n, v))
  /\ \A n, v, w : v /= EachTime /\ w /= EachTime =>
        Countable([name |-> n, vars |-> {v, w}])
<1>1. \A v : IsFiniteSet({v}) /\ Cardinality({v}) = 1
  BY FS_Singleton
<1>2. \A v, w : IsFiniteSet({v, w}) /\ Cardinality({v, w}) <= 2
  <2>1. ASSUME NEW v, NEW w
        PROVE  /\ IsFiniteSet({v} \cup {w}) /\ {v} \cup {w} = {v, w}
               /\ Cardinality({v} \cup {w}) <= 2
    <3>1. IsFiniteSet({v}) /\ Cardinality({v}) = 1
      BY <1>1
    <3>2. /\ IsFiniteSet({v} \cup {w})
          /\ Cardinality({v} \cup {w}) = IF w \in {v} THEN Cardinality({v})
                                         ELSE Cardinality({v}) + 1
      BY <3>1, FS_AddElement
    <3>3. Cardinality({v} \cup {w}) <= 2
      BY <3>1, <3>2
    <3> QED
      BY <3>2, <3>3
  <2> QED
    BY <2>1
<1>3. \A n : Countable(Each(n))
  BY DEF Countable, Each
<1>4. \A n : Countable(Never(n))
  <2>1. IsFiniteSet({}) /\ Cardinality({}) = 0
    BY FS_EmptySet
  <2> QED
    BY <2>1 DEF Countable, Never
<1>5. \A n, v : v /= EachTime => Countable(Once(n, v))
  <2>1. ASSUME NEW n, NEW v, v /= EachTime
        PROVE  Countable([name |-> n, vars |-> {v}])
    <3> DEFINE S == {v}
    <3>1. IsFiniteSet(S) /\ Cardinality(S) = 1
      BY <1>1
    <3>2. EachTime \notin S
      BY <2>1
    <3> HIDE DEF S
    <3> QED
      BY <3>1, <3>2 DEF Countable, S
  <2> QED
    BY <2>1 DEF Once
<1>6. \A n, v, w : v /= EachTime /\ w /= EachTime =>
         Countable([name |-> n, vars |-> {v, w}])
  BY <1>2 DEF Countable
<1> QED
  BY <1>3, <1>4, <1>5, <1>6

LEMMA CommonKeysAreCountable ==
  /\ CommonKeys \in Seq({CommonKeys[i] : i \in 1..6}) /\ Len(CommonKeys) = 6
  /\ \A i \in 1..6 : CommonKeys[i].vars = {EachTime}
  /\ CommonKeys[6].name = "Status"
BY DEF CommonKeys, Each

LEMMA ClassKeysAreCountable ==
  \A c \in Classes : AllCountable(ClassKeys[c])
<1>1. AllCountable(ClassKeys["Accelerometer"])
  BY KindsAreCountable DEF AllCountable, ClassKeys, AccelerometerKeys, EachTime
<1>2. AllCountable(ClassKeys["AdvancedServo"])
  BY KindsAreCountable DEF AllCountable, ClassKeys, AdvancedServoKeys, EachTime
<1>3. AllCountable(ClassKeys["Analog"])
  BY KindsAreCountable DEF AllCountable, ClassKeys, AnalogKeys, EachTime
<1>4. AllCountable(ClassKeys["Bridge"])
  BY KindsAreCountable DEF AllCountable, ClassKeys, BridgeKeys, EachTime
<1>5. AllCountable(ClassKeys["Encoder"])
  BY KindsAreCountable DEF AllCountable, ClassKeys, EncoderKeys, EachTime
<1>6. AllCountable(ClassKeys["FrequencyCounter"])
  BY KindsAreCountable DEF AllCountable, ClassKeys, FrequencyCounterKeys, EachTime
<1>7. AllCountable(ClassKeys["Generic"])
  BY KindsAreCountable DEF AllCountable, ClassKeys, GenericKeys, EachTime
<1>8. AllCountable(ClassKeys["GPS"])
  BY KindsAreCountable DEF AllCountable, ClassKeys, GPSKeys, EachTime
<1>9. AllCountable(ClassKeys["InterfaceKit"])
  BY KindsAreCountable DEF AllCountable, ClassKeys, InterfaceKitKeys, EachTime
<1>10. AllCountable(ClassKeys["IR"])
  BY KindsAreCountable DEF AllCountable, ClassKeys, IRKeys, EachTime
<1>11. AllCountable(ClassKeys["LED"])
  BY KindsAreCountable DEF AllCountable, ClassKeys, LEDKeys, EachTime
<1>12. AllCountable(ClassKeys["MotorControl"])
  BY KindsAreCountable DEF AllCountable, ClassKeys, MotorControlKeys, EachTime
<1>13. AllCountable(ClassKeys["PHSensor"])
  BY KindsAreCountable DEF AllCountable, ClassKeys, PHSensorKeys, EachTime
<1>14. AllCountable(ClassKeys["RFID"])
  BY KindsAreCountable DEF AllCountable, ClassKeys, RFIDKeys, EachTime
<1>15. AllCountable(ClassKeys["Servo"])
  BY KindsAreCountable DEF AllCountable, ClassKeys, ServoKeys, EachTime
<1>16. AllCountable(ClassKeys["Spatial"])
  BY KindsAreCountable DEF AllCountable, ClassKeys, SpatialKeys, EachTime
<1>17. AllCountable(ClassKeys["Stepper"])
  BY KindsAreCountable DEF AllCountable, ClassKeys, StepperKeys, EachTime
<1>18. AllCountable(ClassKeys["TemperatureSensor"])
  BY KindsAreCountable DEF AllCountable, ClassKeys, TemperatureSensorKeys, EachTime
<1>19. AllCountable(ClassKeys["TextLCD"])
  BY KindsAreCountable DEF AllCountable, ClassKeys, TextLCDKeys, EachTime
<1>20. AllCountable(ClassKeys["TextLED"])
  BY KindsAreCountable DEF AllCountable, ClassKeys, TextLEDKeys, EachTime
<1>21. AllCountable(ClassKeys["WeightSensor"])
  BY KindsAreCountable DEF AllCountable, ClassKeys, WeightSensorKeys, EachTime
<1>22. Classes = {"Accelerometer", "AdvancedServo", "Analog", "Bridge", "Encoder",
                "FrequencyCounter", "Generic", "GPS", "InterfaceKit", "IR",
                "LED", "MotorControl", "PHSensor", "RFID", "Servo",
                "Spatial", "Stepper", "TemperatureSensor", "TextLCD", "TextLED",
                "WeightSensor"}
  BY DEF Classes, ClassKeys
<1> QED
  BY <1>1, <1>2, <1>3, <1>4, <1>5, <1>6, <1>7, <1>8, <1>9, <1>10, <1>11, <1>12, <1>13, <1>14, <1>15, <1>16, <1>17, <1>18, <1>19, <1>20, <1>21, <1>22

LEMMA KeysAreCountable ==
  ASSUME NEW c \in Classes
  PROVE  LET keys == KeysOf(c)
             n == Len(keys)
         IN /\ n \in Nat /\ n >= 6 /\ DOMAIN keys = 1..n
            /\ keys[6].name = "Status"
            /\ \A i \in 1..n : Countable(keys[i])
            /\ CountedVars(c) = (UNION {keys[i].vars : i \in 1..n}) \ {EachTime}
            /\ IsFiniteSet(CountedVars(c))
<1> DEFINE own == ClassKeys[c]
           keys == KeysOf(c)
<1>1. own \in Seq({own[i] : i \in DOMAIN own}) /\ \A i \in DOMAIN own : Countable(own[i])
  BY ClassKeysAreCountable DEF AllCountable
<1>2. /\ CommonKeys \in Seq({CommonKeys[i] : i \in 1..6}) /\ Len(CommonKeys) = 6
      /\ \A i \in 1..6 : CommonKeys[i].vars = {EachTime}
      /\ CommonKeys[6].name = "Status"
  BY CommonKeysAreCountable
<1>3. Len(own) \in Nat /\ DOMAIN own = 1..Len(own)
  BY <1>1
<1>4. /\ Len(keys) = 6 + Len(own) /\ DOMAIN keys = 1..(6 + Len(own))
      /\ \A i \in 1..(6 + Len(own)) :
            keys[i] = IF i <= 6 THEN CommonKeys[i] ELSE own[i - 6]
  <2>1. keys = CommonKeys \o own
    BY DEF KeysOf
  <2> HIDE DEF own, keys
  <2>2. /\ Len(keys) = 6 + Len(own) /\ DOMAIN keys = 1..(6 + Len(own))
        /\ \A i \in 1..6 : keys[i] = CommonKeys[i]
        /\ \A i \in 1..(6 + Len(own)) : i > 6 => keys[i] = own[i - 6]
    <3>1. /\ Len(CommonKeys \o own) = Len(CommonKeys) + Len(own)
          /\ DOMAIN (CommonKeys \o own) = 1..(Len(CommonKeys) + Len(own))
          /\ \A i \in 1..Len(CommonKeys) : (CommonKeys \o own)[i] = CommonKeys[i]
          /\ \A i \in 1..(Len(CommonKeys) + Len(own)) :
                i > Len(CommonKeys) => (CommonKeys \o own)[i] = own[i - Len(CommonKeys)]
      <4> DEFINE A == {CommonKeys[i] : i \in 1..6}
                 B == {own[i] : i \in DOMAIN own}
      <4>1. CommonKeys \in Seq(A) /\ own \in Seq(B)
        BY <1>1, <1>2
      <4> HIDE DEF A, B
      <4> QED
        BY <4>1, Joined
    <3> QED
      BY <1>2, <2>1, <3>1
  <2> QED
    BY <1>3, <2>2
<1> HIDE DEF own, keys
<1>5. ASSUME NEW i \in DOMAIN keys
      PROVE  Countable(keys[i])
  <2>1. CASE i <= 6
    <3>1. keys[i].vars = {EachTime}
      BY <1>2, <1>3, <1>4, <2>1
    <3> QED
      BY <3>1 DEF Countable
  <2>2. CASE i > 6
    <3>1. keys[i] = own[i - 6] /\ i - 6 \in DOMAIN own
      BY <1>3, <1>4, <2>2
    <3> QED
      BY <1>1, <3>1
  <2> QED
    BY <1>3, <1>4, <2>1, <2>2
<1>6. CountedVars(c) = (UNION {keys[i].vars : i \in DOMAIN keys}) \ {EachTime}
  <2>1. CountedVars(c) = (UNION {own[i].vars : i \in DOMAIN own}) \ {EachTime}
    BY DEF CountedVars, own
  <2>2. ASSUME NEW v, NEW i \in DOMAIN own, v \in own[i].vars
        PROVE  \E j \in DOMAIN keys : v \in keys[j].vars
    <3>1. i + 6 \in DOMAIN keys /\ keys[i + 6] = own[i]
      BY <1>3, <1>4
    <3> QED
      BY <2>2, <3>1
  <2>3. ASSUME NEW v, NEW j \in DOMAIN keys, v \in keys[j].vars, v /= EachTime
        PROVE  \E i \in DOMAIN own : v \in own[i].vars
    <3>1. j > 6
      BY <1>2, <1>4, <2>3
    <3>2. j - 6 \in DOMAIN own /\ keys[j] = own[j - 6]
      BY <1>3, <1>4, <3>1
    <3> QED
      BY <2>3, <3>2
  <2> QED
    BY <2>1, <2>2, <2>3
<1>7. IsFiniteSet(CountedVars(c))
  <2> DEFINE varsTo(k) == UNION {keys[i].vars \ {EachTime} : i \in 1..k}
             reached == {k \in Nat : k > Len(keys) \/ IsFiniteSet(varsTo(k))}
  <2>1. 0 \in reached
    BY FS_EmptySet
  <2>2. ASSUME NEW k \in reached
        PROVE  k + 1 \in reached
    <3>1. CASE k + 1 > Len(keys)
      BY <3>1
    <3>2. CASE k + 1 <= Len(keys)
      <4>1. IsFiniteSet(varsTo(k))
        BY <1>3, <1>4, <3>2
      <4>2. IsFiniteSet(keys[k + 1].vars \ {EachTime})
        <5>1. Countable(keys[k + 1])
          BY <1>3, <1>4, <1>5, <3>2
        <5> QED
          <6>1. CASE keys[k + 1].vars = {EachTime}
            BY <6>1, FS_EmptySet, {EachTime} \ {EachTime} = {}
          <6>2. CASE IsFiniteSet(keys[k + 1].vars)
            BY <6>2, FS_RemoveElement
          <6> QED
            BY <5>1, <6>1, <6>2 DEF Countable
      <4>3. varsTo(k + 1) = varsTo(k) \cup (keys[k + 1].vars \ {EachTime})
        OBVIOUS
      <4> HIDE DEF varsTo
      <4>4. IsFiniteSet(varsTo(k + 1))
        BY <4>1, <4>2, <4>3, FS_Union
      <4> QED
        BY <4>4
    <3>3. k + 1 > Len(keys) \/ k + 1 <= Len(keys)
      <4>1. k \in Nat /\ Len(keys) \in Nat
        BY <1>3, <1>4
      <4> QED
        BY <4>1
    <3> HIDE DEF reached, varsTo
    <3> QED
      BY <3>1, <3>2, <3>3, Zenon
  <2>3. reached = Nat
    BY <2>1, <2>2, NatIsGenerated
  <2>4. CountedVars(c) = varsTo(Len(keys))
    BY <1>3, <1>4, <1>6
  <2>5. Len(keys) \in reached
    <3>1. Len(keys) \in Nat
      BY <1>3, <1>4
    <3> HIDE DEF reached
    <3> QED
      BY <2>3, <3>1
  <2> HIDE DEF varsTo
  <2> QED
    BY <1>3, <1>4, <2>4, <2>5
<1> QED
  BY <1>2, <1>3, <1>4, <1>5, <1>6, <1>7 DEF keys

LEMMA SettersDoNotCount ==
  \A c : EachTime \notin ClassSets(c)
BY DEF ClassSets, EachTime

-----------------------------------------------------------------------------
(* Reports on their way.                                                     *)

\* The device is gone; a key comes first; it comes again.
Ends(r) == r.val = "Detached"
IsFirst(r) == r.reason \in {"added", "current"} /\ ~Ends(r)
IsChange(r) == r.reason = "changed" /\ ~Ends(r)

\* No report between two places ends what was counted before.
NoEnd(l, i, j) == \A h \in DOMAIN l : i < h /\ h < j => ~Ends(l[h])

\* Key k comes before place h, and counts there; or it is the first time that
\* it comes, of what is counted so far.
Comes(l, k, h) == \E j \in DOMAIN l : j < h /\ IsFirst(l[j]) /\ l[j].key = k /\ NoEnd(l, j, h)
Ahead(l, k) == \E j \in DOMAIN l : IsFirst(l[j]) /\ l[j].key = k /\ NoEnd(l, 0, j)

\* No key comes first twice.
ComesOnce(l) == \A h \in DOMAIN l : IsFirst(l[h]) => ~Comes(l, l[h].key, h)

After(l) == Len(l) + 1

LEMMA AppendedReport ==
  ASSUME NEW S, NEW l \in Seq(S), NEW x \in S
  PROVE  LET m == Append(l, x)
         IN /\ \A i, j \in Nat : j <= After(l) => (NoEnd(m, i, j) <=> NoEnd(l, i, j))
            /\ \A k : \A h \in Nat : h <= After(l) => (Comes(m, k, h) <=> Comes(l, k, h))
            /\ \A i \in Nat : i < After(l) =>
                  (NoEnd(m, i, After(m)) <=> NoEnd(l, i, After(l)) /\ ~Ends(x))
            /\ \A k : Comes(m, k, After(m)) <=>
                  /\ ~Ends(x)
                  /\ Comes(l, k, After(l)) \/ (IsFirst(x) /\ x.key = k)
            /\ \A k : Ahead(m, k) <=>
                  Ahead(l, k) \/ (IsFirst(x) /\ x.key = k /\ NoEnd(l, 0, After(l)))
<1> DEFINE m == Append(l, x)
<1>1. /\ Len(l) \in Nat /\ DOMAIN l = 1..Len(l) /\ DOMAIN m = 1..(Len(l) + 1)
      /\ After(l) = Len(l) + 1 /\ After(m) = Len(l) + 2
      /\ \A i \in DOMAIN l : m[i] = l[i]
      /\ m[Len(l) + 1] = x
  BY DEF After
<1> HIDE DEF m
<1>2. \A i, j \in Nat : j <= After(l) => (NoEnd(m, i, j) <=> NoEnd(l, i, j))
  BY <1>1 DEF NoEnd
<1>3. ASSUME NEW k, NEW h \in Nat, h <= After(l)
      PROVE  Comes(m, k, h) <=> Comes(l, k, h)
  BY <1>1, <1>2, <1>3 DEF Comes
<1>4. ASSUME NEW i \in Nat, i < After(l)
      PROVE  NoEnd(m, i, After(m)) <=> NoEnd(l, i, After(l)) /\ ~Ends(x)
  BY <1>1, <1>4 DEF NoEnd
<1>5. ASSUME NEW k
      PROVE  Comes(m, k, After(m)) <=>
                /\ ~Ends(x)
                /\ Comes(l, k, After(l)) \/ (IsFirst(x) /\ x.key = k)
  <2>1. ASSUME Comes(m, k, After(m))
        PROVE  ~Ends(x) /\ (Comes(l, k, After(l)) \/ (IsFirst(x) /\ x.key = k))
    <3>1. PICK j \in DOMAIN m : /\ j < After(m) /\ IsFirst(m[j]) /\ m[j].key = k
                                /\ NoEnd(m, j, After(m))
      BY <2>1 DEF Comes
    <3>2. CASE j = Len(l) + 1
      BY <1>1, <3>1, <3>2 DEF IsFirst
    <3>3. CASE j \in DOMAIN l
      BY <1>1, <1>4, <3>1, <3>3 DEF Comes
    <3> QED
      BY <1>1, <3>2, <3>3
  <2>2. ASSUME ~Ends(x), Comes(l, k, After(l))
        PROVE  Comes(m, k, After(m))
    <3>1. PICK j \in DOMAIN l : /\ j < After(l) /\ IsFirst(l[j]) /\ l[j].key = k
                                /\ NoEnd(l, j, After(l))
      BY <2>2 DEF Comes
    <3>2. j \in DOMAIN m /\ j < After(m) /\ m[j] = l[j] /\ NoEnd(m, j, After(m))
      BY <1>1, <1>4, <2>2, <3>1
    <3> QED
      BY <3>1, <3>2 DEF Comes
  <2>3. ASSUME IsFirst(x), x.key = k
        PROVE  Comes(m, k, After(m))
    <3>1. NoEnd(m, Len(l) + 1, After(m))
      BY <1>1 DEF NoEnd
    <3>2. Len(l) + 1 \in DOMAIN m /\ Len(l) + 1 < After(m)
      BY <1>1
    <3> QED
      BY <1>1, <2>3, <3>1, <3>2 DEF Comes
  <2> QED
    BY <2>1, <2>2, <2>3
<1>6. ASSUME NEW k
      PROVE  Ahead(m, k) <=>
                Ahead(l, k) \/ (IsFirst(x) /\ x.key = k /\ NoEnd(l, 0, After(l)))
  <2>1. \A j \in DOMAIN l : NoEnd(m, 0, j) <=> NoEnd(l, 0, j)
    BY <1>1, <1>2
  <2>2. NoEnd(m, 0, Len(l) + 1) <=> NoEnd(l, 0, After(l))
    BY <1>1, <1>2
  <2> QED
    BY <1>1, <2>1, <2>2 DEF Ahead
<1> QED
  BY <1>2, <1>3, <1>4, <1>5, <1>6 DEF m

LEMMA TakenReport ==
  ASSUME NEW S, NEW l \in Seq(S), l /= <<>>
  PROVE  LET t == Tail(l)
             x == Head(l)
         IN /\ After(l) = After(t) + 1
            /\ \A i, j \in Nat : NoEnd(t, i, j) <=> NoEnd(l, i + 1, j + 1)
            /\ \A j \in Nat : j > 0 => (NoEnd(l, 0, j + 1) <=> ~Ends(x) /\ NoEnd(t, 0, j))
            /\ \A k : \A h \in Nat : Comes(t, k, h) => Comes(l, k, h + 1)
            /\ \A k : \A h \in Nat : Comes(l, k, h + 1) =>
                  Comes(t, k, h) \/ (IsFirst(x) /\ x.key = k /\ NoEnd(t, 0, h))
            /\ \A k : \A h \in Nat :
                  h > 0 /\ IsFirst(x) /\ x.key = k /\ NoEnd(t, 0, h) => Comes(l, k, h + 1)
            /\ \A k : Ahead(l, k) <=> (IsFirst(x) /\ x.key = k) \/ (~Ends(x) /\ Ahead(t, k))
<1> DEFINE t == Tail(l)
           x == Head(l)
<1>1. /\ Len(l) \in Nat /\ DOMAIN l = 1..Len(l) /\ Len(l) > 0
      /\ DOMAIN t = 1..(Len(l) - 1) /\ Len(t) = Len(l) - 1
      /\ \A i \in DOMAIN t : t[i] = l[i + 1]
      /\ l[1] = x
      /\ After(l) = After(t) + 1
  BY DEF After
<1> HIDE DEF t, x
<1>2. \A i, j \in Nat : NoEnd(t, i, j) <=> NoEnd(l, i + 1, j + 1)
  <2>1. ASSUME NEW i \in Nat, NEW j \in Nat, NoEnd(l, i + 1, j + 1)
        PROVE  NoEnd(t, i, j)
    BY <1>1, <2>1 DEF NoEnd
  <2>2. ASSUME NEW i \in Nat, NEW j \in Nat, NoEnd(t, i, j),
               NEW h \in DOMAIN l, i + 1 < h, h < j + 1
        PROVE  ~Ends(l[h])
    <3>1. h - 1 \in DOMAIN t /\ l[h] = t[h - 1] /\ i < h - 1 /\ h - 1 < j
      BY <1>1, <2>2
    <3> QED
      BY <2>2, <3>1 DEF NoEnd
  <2> QED
    BY <2>1, <2>2 DEF NoEnd
<1>3. \A j \in Nat : j > 0 => (NoEnd(l, 0, j + 1) <=> ~Ends(x) /\ NoEnd(l, 1, j + 1))
  BY <1>1 DEF NoEnd
<1>4. ASSUME NEW j \in Nat, j > 0
      PROVE  NoEnd(l, 0, j + 1) <=> ~Ends(x) /\ NoEnd(t, 0, j)
  <2>1. NoEnd(t, 0, j) <=> NoEnd(l, 0 + 1, j + 1)
    BY <1>2
  <2>2. 0 + 1 = 1
    OBVIOUS
  <2>3. NoEnd(l, 0, j + 1) <=> ~Ends(x) /\ NoEnd(l, 1, j + 1)
    BY <1>3, <1>4
  <2> QED
    BY <2>1, <2>2, <2>3
<1>5. ASSUME NEW k, NEW h \in Nat, Comes(t, k, h)
      PROVE  Comes(l, k, h + 1)
  <2>1. PICK j \in DOMAIN t : j < h /\ IsFirst(t[j]) /\ t[j].key = k /\ NoEnd(t, j, h)
    BY <1>5 DEF Comes
  <2>2. j \in Nat /\ j + 1 \in DOMAIN l /\ j + 1 < h + 1 /\ l[j + 1] = t[j]
    BY <1>1, <2>1
  <2>3. NoEnd(l, j + 1, h + 1)
    BY <1>2, <2>1, <2>2
  <2> QED
    BY <2>1, <2>2, <2>3 DEF Comes
<1>6. ASSUME NEW k, NEW h \in Nat, Comes(l, k, h + 1)
      PROVE  Comes(t, k, h) \/ (IsFirst(x) /\ x.key = k /\ NoEnd(t, 0, h))
  <2>1. PICK j \in DOMAIN l : j < h + 1 /\ IsFirst(l[j]) /\ l[j].key = k /\ NoEnd(l, j, h + 1)
    BY <1>6 DEF Comes
  <2>2. CASE j = 1
    BY <1>1, <1>2, <2>1, <2>2
  <2>3. CASE j /= 1
    <3>1. /\ j - 1 \in DOMAIN t /\ j - 1 < h /\ t[j - 1] = l[j] /\ j - 1 \in Nat
          /\ (j - 1) + 1 = j
      BY <1>1, <2>1, <2>3
    <3>2. NoEnd(t, j - 1, h)
      BY <1>2, <2>1, <3>1
    <3> QED
      BY <2>1, <3>1, <3>2 DEF Comes
  <2> QED
    BY <2>2, <2>3
<1>7. ASSUME NEW k, NEW h \in Nat, h > 0, IsFirst(x), x.key = k, NoEnd(t, 0, h)
      PROVE  Comes(l, k, h + 1)
  <2>1. NoEnd(l, 1, h + 1) /\ 1 \in DOMAIN l /\ 1 < h + 1
    BY <1>1, <1>2, <1>7
  <2> QED
    BY <1>1, <1>7, <2>1 DEF Comes
<1>8. ASSUME NEW k
      PROVE  Ahead(l, k) <=> (IsFirst(x) /\ x.key = k) \/ (~Ends(x) /\ Ahead(t, k))
  <2>1. NoEnd(l, 0, 1)
    BY <1>1 DEF NoEnd
  <2>2. \A j \in DOMAIN t : NoEnd(l, 0, j + 1) <=> ~Ends(x) /\ NoEnd(t, 0, j)
    <3>1. \A j \in DOMAIN t : j \in Nat /\ j > 0
      BY <1>1
    <3> QED
      BY <1>4, <3>1
  <2>3. ASSUME Ahead(l, k)
        PROVE  (IsFirst(x) /\ x.key = k) \/ (~Ends(x) /\ Ahead(t, k))
    <3>1. PICK j \in DOMAIN l : IsFirst(l[j]) /\ l[j].key = k /\ NoEnd(l, 0, j)
      BY <2>3 DEF Ahead
    <3>2. CASE j = 1
      BY <1>1, <3>1, <3>2
    <3>3. CASE j /= 1
      <4>1. j - 1 \in DOMAIN t /\ t[j - 1] = l[j] /\ (j - 1) + 1 = j
        BY <1>1, <3>3
      <4>2. ~Ends(x) /\ NoEnd(t, 0, j - 1)
        BY <2>2, <3>1, <4>1
      <4> QED
        BY <3>1, <4>1, <4>2 DEF Ahead
    <3> QED
      BY <3>2, <3>3
  <2>4. ASSUME IsFirst(x), x.key = k
        PROVE  Ahead(l, k)
    BY <1>1, <2>1, <2>4 DEF Ahead
  <2>5. ASSUME ~Ends(x), Ahead(t, k)
        PROVE  Ahead(l, k)
    <3>1. PICK j \in DOMAIN t : IsFirst(t[j]) /\ t[j].key = k /\ NoEnd(t, 0, j)
      BY <2>5 DEF Ahead
    <3>2. j + 1 \in DOMAIN l /\ l[j + 1] = t[j] /\ NoEnd(l, 0, j + 1)
      BY <1>1, <2>2, <2>5, <3>1
    <3> QED
      BY <3>1, <3>2 DEF Ahead
  <2> QED
    BY <2>3, <2>4, <2>5
<1> QED
  BY <1>1, <1>2, <1>4, <1>5, <1>6, <1>7, <1>8 DEF t, x

-----------------------------------------------------------------------------
(* What the handle is told of a key.                                         *)

Report(k, v, why) == [to |-> Handle, key |-> k, val |-> v, reason |-> why]

\* The listeners of a dictionary, for a device whose Status is key st of n:
\* the other listener alone, and the handle with it.
Alone(st) == <<[who |-> Observer, pattern |-> {st}]>>
Both(st, n) == <<[who |-> Observer, pattern |-> {st}], [who |-> Handle, pattern |-> 1..n]>>

\* Of each key the handle is told once, if it listens.
LEMMA NotesForHandle ==
  ASSUME NEW d, NEW st, NEW n, NEW k, NEW v, NEW why, k \in 1..n,
         d.hears[k] = Matching(d, k)
  PROVE  /\ d.listeners = Both(st, n) =>
               ForHandle(Notes(d, k, v, why)) = <<Report(k, v, why)>>
         /\ d.listeners = Alone(st) => ForHandle(Notes(d, k, v, why)) = <<>>
<1> DEFINE ls == d.listeners
           places == {i \in DOMAIN ls : k \in ls[i].pattern}
           notes == Notes(d, k, v, why)
           mine == {i \in DOMAIN notes : notes[i].to = Handle}
<1>1. Matching(d, k) = [i \in DOMAIN Chosen(ls, places) |-> Chosen(ls, places)[i].who]
  BY DEF Matching
<1>2. notes = [i \in DOMAIN Matching(d, k) |-> [to |-> Matching(d, k)[i], key |-> k,
                                                val |-> v, reason |-> why]]
  BY DEF Notes
<1>3. ForHandle(notes) = Chosen(notes, mine)
  BY DEF ForHandle
<1>5. Observer /= Handle
  BY DEF Observer, Handle
<1> HIDE DEF ls, notes
<1>6. ASSUME ls = Both(st, n), k = st
      PROVE  ForHandle(notes) = <<Report(k, v, why)>>
  <2>1. DOMAIN ls = {1, 2} /\ ls[1].who = Observer /\ ls[2].who = Handle /\ places = {1, 2}
    <3>1. ls = <<[who |-> Observer, pattern |-> {st}], [who |-> Handle, pattern |-> 1..n]>>
      BY <1>6 DEF Both
    <3>2. DOMAIN ls = 1..2
      BY <3>1
    <3>4. ls[1] = [who |-> Observer, pattern |-> {st}]
      BY <3>1
    <3>5. ls[2] = [who |-> Handle, pattern |-> 1..n]
      BY <3>1
    <3>3. 1..2 = {1, 2}
      OBVIOUS
    <3>6. k \in ls[1].pattern
      BY <1>6, <3>4
    <3>7. k \in ls[2].pattern
      BY <3>5
    <3>8. DOMAIN ls = {1, 2}
      BY <3>2, <3>3
    <3>9. ls[1].who = Observer /\ ls[2].who = Handle
      BY <3>4, <3>5
    <3> QED
      BY <3>6, <3>7, <3>8, <3>9
  <2>2. Chosen(ls, places) = <<ls[1], ls[2]>>
    BY <2>1, ChosenBoth
  <2>3. Matching(d, k) = <<Observer, Handle>>
    BY <1>1, <2>1, <2>2
  <2>4. DOMAIN notes = {1, 2} /\ notes[1].to = Observer /\ notes[2] = Report(k, v, why)
    BY <1>2, <2>3 DEF Report
  <2>5. mine = {2}
    BY <1>5, <2>4 DEF Report
  <2>6. Chosen(notes, {2}) = <<notes[2]>>
    BY ChosenOne
  <2> QED
    BY <1>3, <2>4, <2>5, <2>6
<1>7. ASSUME ls = Both(st, n), k /= st
      PROVE  ForHandle(notes) = <<Report(k, v, why)>>
  <2>1. DOMAIN ls = {1, 2} /\ ls[2].who = Handle /\ places = {2}
    <3>1. ls = <<[who |-> Observer, pattern |-> {st}], [who |-> Handle, pattern |-> 1..n]>>
      BY <1>7 DEF Both
    <3>2. DOMAIN ls = 1..2
      BY <3>1
    <3>4. ls[1] = [who |-> Observer, pattern |-> {st}]
      BY <3>1
    <3>5. ls[2] = [who |-> Handle, pattern |-> 1..n]
      BY <3>1
    <3>3. 1..2 = {1, 2}
      OBVIOUS
    <3>6. k \notin ls[1].pattern
      BY <1>7, <3>4
    <3>7. k \in ls[2].pattern
      BY <3>5
    <3>8. DOMAIN ls = {1, 2}
      BY <3>2, <3>3
    <3>9. ls[1].who = Observer /\ ls[2].who = Handle
      BY <3>4, <3>5
    <3> QED
      BY <3>6, <3>7, <3>8, <3>9
  <2>2. Chosen(ls, places) = <<ls[2]>>
    BY <2>1, ChosenOne
  <2>3. Matching(d, k) = <<Handle>>
    BY <1>1, <2>1, <2>2
  <2>4. DOMAIN notes = {1} /\ notes[1] = Report(k, v, why)
    BY <1>2, <2>3 DEF Report
  <2>5. mine = {1}
    BY <2>4 DEF Report
  <2>6. Chosen(notes, {1}) = <<notes[1]>>
    BY ChosenOne
  <2> QED
    BY <1>3, <2>4, <2>5, <2>6
<1>8. ASSUME ls = Alone(st), k = st
      PROVE  ForHandle(notes) = <<>>
  <2>1. DOMAIN ls = {1} /\ ls[1].who = Observer /\ places = {1}
    BY <1>8 DEF Alone
  <2>2. Chosen(ls, places) = <<ls[1]>>
    BY <2>1, ChosenOne
  <2>3. Matching(d, k) = <<Observer>>
    BY <1>1, <2>1, <2>2
  <2>4. DOMAIN notes = {1} /\ notes[1].to = Observer
    BY <1>2, <2>3
  <2>5. mine = {}
    BY <1>5, <2>4
  <2> QED
    BY <1>3, <2>5, ChosenNone
<1>9. ASSUME ls = Alone(st), k /= st
      PROVE  ForHandle(notes) = <<>>
  <2>1. DOMAIN ls = {1} /\ places = {}
    BY <1>9 DEF Alone
  <2>2. Chosen(ls, places) = <<>>
    BY <2>1, ChosenNone
  <2>3. DOMAIN Matching(d, k) = {}
    BY <1>1, <2>2
  <2>4. mine = {}
    BY <1>2, <2>3
  <2> QED
    BY <1>3, <2>4, ChosenNone
<1> QED
  BY <1>6, <1>7, <1>8, <1>9 DEF ls, notes

\* A sequence that grows at each step has no element twice.
LEMMA GrowsThroughout ==
  ASSUME NEW s \in Seq(Nat), \A i \in 1..Len(s) - 1 : s[i] < s[i + 1],
         NEW i \in 1..Len(s), NEW j \in 1..Len(s), i < j
  PROVE  s[i] < s[j]
<1> DEFINE bigger == {m \in Nat : i + 1 + m <= Len(s) => s[i] < s[i + 1 + m]}
<1>1. Len(s) \in Nat /\ \A h \in 1..Len(s) : s[h] \in Nat
  OBVIOUS
<1>2. 0 \in bigger
  BY <1>1
<1>3. ASSUME NEW m \in bigger
      PROVE  m + 1 \in bigger
  <2>1. CASE i + 1 + m + 1 > Len(s)
    BY <2>1
  <2>2. CASE i + 1 + m + 1 <= Len(s)
    <3>1. m \in Nat /\ i + 1 + m <= Len(s) /\ i + 1 + m \in 1..Len(s) - 1
      BY <1>1, <2>2
    <3>2. s[i] < s[i + 1 + m] /\ s[i + 1 + m] < s[i + 1 + m + 1]
      BY <3>1
    <3>3. i + 1 + (m + 1) = i + 1 + m + 1 /\ i + 1 + m + 1 \in 1..Len(s)
      BY <2>2, <3>1
    <3>4. s[i] < s[i + 1 + m + 1]
      BY <1>1, <3>1, <3>2, <3>3
    <3> QED
      BY <3>1, <3>3, <3>4
  <2> QED
    BY <1>1, <2>1, <2>2
<1>4. bigger = Nat
  BY <1>2, <1>3, NatIsGenerated
<1>5. j - i - 1 \in Nat /\ i + 1 + (j - i - 1) = j
  BY <1>1
<1>6. j - i - 1 \in bigger
  BY <1>4, <1>5
<1> QED
  BY <1>1, <1>5, <1>6

\* A listener that comes is told of every key that is there, once.
LEMMA CurrentReports ==
  ASSUME NEW d, Sound(d), NEW n \in Nat, 1..n \subseteq Values
  PROVE  LET c == Current(d, Handle, 1..n)
             held == {k \in 1..n : d.vals[k] /= NoValue}
         IN /\ c \in Seq({Report(k, d.vals[k], "current") : k \in held})
            /\ \A k \in held : \E j \in DOMAIN c : c[j].key = k
            /\ \A i, j \in DOMAIN c : c[i].key = c[j].key => i = j
            /\ \A i, j \in DOMAIN c : i < j => c[i].key < c[j].key
<1> DEFINE c == Current(d, Handle, 1..n)
           here == {k \in 1..n : d.vals[k] /= NoValue}
           held == {k \in Values : d.vals[k] /= NoValue}
           all == InOrder(d.ents)
           I == {i \in DOMAIN all : all[i] \in 1..n}
           ks == Chosen(all, I)
<1>1. /\ all \in Seq(held) /\ held \subseteq {all[i] : i \in DOMAIN all}
      /\ \A i \in 1..Len(all) - 1 : all[i] < all[i + 1]
  BY DEF Sound, Verified
<1>2. c = [i \in DOMAIN ks |-> [to |-> Handle, key |-> ks[i], val |-> d.vals[ks[i]],
                                reason |-> "current"]]
  BY DEF Current
<1>3. held \subseteq Nat
  BY ValuesAssumption
<1> HIDE DEF c, all
<1>4. /\ Len(all) \in Nat /\ DOMAIN all = 1..Len(all) /\ all \in Seq(Nat)
      /\ \A i \in DOMAIN all : all[i] \in held
  <2> HIDE DEF held
  <2>1. Len(all) \in Nat /\ DOMAIN all = 1..Len(all) /\ \A i \in 1..Len(all) : all[i] \in held
    BY <1>1
  <2>2. \A i \in 1..Len(all) : all[i] \in Nat
    BY <1>3, <2>1
  <2>3. all \in Seq(Nat)
    BY <1>1, <2>1, <2>2
  <2> QED
    BY <2>1, <2>3
<1>5. ASSUME NEW i \in DOMAIN all, NEW j \in DOMAIN all, all[i] = all[j]
      PROVE  i = j
  <2>1. i \in 1..Len(all) /\ j \in 1..Len(all) /\ all[i] \in Nat
    BY <1>4
  <2>2. \A h \in 1..Len(all) - 1 : all[h] < all[h + 1]
    BY <1>1
  <2>3. i < j => all[i] < all[j]
    BY <1>4, <2>1, <2>2, GrowsThroughout
  <2>4. j < i => all[j] < all[i]
    BY <1>4, <2>1, <2>2, GrowsThroughout
  <2> QED
    BY <1>5, <2>1, <2>3, <2>4
<1>6. /\ ks \in [1..Cardinality(I) -> {all[i] : i \in I}]
      /\ Cardinality(I) \in Nat
      /\ \E place \in Bijection(1..Cardinality(I), I) : Takes(place, all, I)
  <2>1. I \in SUBSET (1..Len(all)) /\ Len(all) \in Nat
    BY <1>4
  <2> HIDE DEF I
  <2> QED
    BY <2>1, ChosenPlaces, Zenon
<1>7. PICK place \in Bijection(1..Cardinality(I), I) :
            /\ \A j \in 1..Cardinality(I) : ks[j] = all[place[j]]
            /\ \A j, k \in 1..Cardinality(I) : j < k => place[j] < place[k]
  BY <1>6 DEF Takes
<1> HIDE DEF ks
<1>8. /\ \A j \in 1..Cardinality(I) : place[j] \in I
      /\ \A i, j \in 1..Cardinality(I) : place[i] = place[j] => i = j
      /\ \A i \in I : \E j \in 1..Cardinality(I) : place[j] = i
  BY DEF Bijection, Injection, Surjection, IsInjective
<1>9. DOMAIN c = 1..Cardinality(I) /\ DOMAIN ks = 1..Cardinality(I)
  BY <1>2, <1>6
<1>10. ASSUME NEW j \in DOMAIN c
       PROVE  ks[j] \in here /\ c[j] = Report(ks[j], d.vals[ks[j]], "current")
  <2>1. place[j] \in I /\ ks[j] = all[place[j]]
    BY <1>7, <1>8, <1>9
  <2>2. ks[j] \in here
    BY <1>4, <2>1
  <2> QED
    BY <1>2, <1>9, <2>2 DEF Report
<1>11. c \in Seq({Report(k, d.vals[k], "current") : k \in here})
  <2> DEFINE R == {Report(k, d.vals[k], "current") : k \in here}
  <2>1. \A j \in DOMAIN c : c[j] \in R
    BY <1>10
  <2>2. c = [j \in 1..Cardinality(I) |-> c[j]]
    BY <1>2, <1>9
  <2>3. Cardinality(I) \in Nat
    BY <1>6
  <2> HIDE DEF R, I
  <2>4. c \in [1..Cardinality(I) -> R]
    BY <1>9, <2>1, <2>2
  <2> QED
    <3>1. c \in Seq(R)
      BY <2>3, <2>4, IsSequence
    <3> QED
      BY <3>1 DEF R
<1>12. ASSUME NEW k \in here
       PROVE  \E j \in DOMAIN c : c[j].key = k
  <2>1. k \in held
    OBVIOUS
  <2>2. PICK i \in DOMAIN all : all[i] = k
    BY <1>1, <2>1
  <2>3. PICK j \in 1..Cardinality(I) : place[j] = i
    BY <1>8, <2>2
  <2>4. j \in DOMAIN c /\ ks[j] = k
    BY <1>7, <1>9, <2>2, <2>3
  <2> QED
    BY <1>10, <2>4 DEF Report
<1>13. ASSUME NEW i \in DOMAIN c, NEW j \in DOMAIN c, c[i].key = c[j].key
       PROVE  i = j
  <2>1. ks[i] = ks[j]
    BY <1>10, <1>13 DEF Report
  <2>2. place[i] \in I /\ place[j] \in I /\ all[place[i]] = all[place[j]]
    BY <1>7, <1>8, <1>9, <2>1
  <2>3. place[i] = place[j]
    BY <1>5, <2>2
  <2> QED
    BY <1>8, <1>9, <2>3
<1>14. ASSUME NEW i \in DOMAIN c, NEW j \in DOMAIN c, i < j
       PROVE  c[i].key < c[j].key
  <2>1. /\ place[i] \in 1..Len(all) /\ place[j] \in 1..Len(all)
        /\ ks[i] = all[place[i]] /\ ks[j] = all[place[j]] /\ place[i] < place[j]
    BY <1>4, <1>7, <1>8, <1>9, <1>14
  <2>2. \A h \in 1..Len(all) - 1 : all[h] < all[h + 1]
    BY <1>1
  <2>3. all[place[i]] < all[place[j]]
    BY <1>4, <2>1, <2>2, GrowsThroughout
  <2> QED
    BY <1>10, <2>1, <2>3 DEF Report
<1> QED
  BY <1>11, <1>12, <1>13, <1>14 DEF c

LEMMA IgnoredListener ==
  ASSUME NEW d, NEW st, NEW n, d.listeners = Both(st, n),
         d = [ents |-> d.ents, vals |-> d.vals, hears |-> d.hears,
              listeners |-> d.listeners]
  PROVE  /\ PdictIgnore(d, Handle).listeners = Alone(st)
         /\ PdictIgnore(d, Handle).vals = d.vals
<1> DEFINE ls == d.listeners
<1>1. /\ ls = <<[who |-> Observer, pattern |-> {st}], [who |-> Handle, pattern |-> 1..n]>>
  BY DEF Both
<1> HIDE DEF ls
<1>2. Len(ls) = 2 /\ ls[1].who = Observer /\ ls[2].who = Handle
  <2>1. Len(ls) = 2
    BY <1>1
  <2>2. ls[1] = [who |-> Observer, pattern |-> {st}]
    BY <1>1
  <2>3. ls[2] = [who |-> Handle, pattern |-> 1..n]
    BY <1>1
  <2> QED
    BY <2>1, <2>2, <2>3
<1>3. {i \in 1..Len(ls) : ls[i].who = Handle} = {2}
  BY <1>2 DEF Observer, Handle
<1>4. Min({2}) = 2
  BY DEF Min
<1>5. SelectInSeq(ls, LAMBDA l : l.who = Handle) = 2
  BY <1>3, <1>4 DEF SelectInSeq
<1>6. RemoveFirstMatch(ls, LAMBDA l : l.who = Handle) = RemoveAt(ls, 2)
  BY <1>2, <1>5 DEF RemoveFirstMatch
<1>7. RemoveAt(ls, 2) = <<ls[1]>>
  <2> DEFINE T == {ls[1], ls[2]}
             m == RemoveAt(ls, 2)
  <2>1. ls \in Seq(T)
    BY <1>1
  <2> HIDE DEF T
  <2>2. m \in Seq(T) /\ Len(m) = 1 /\ m[1] = ls[1]
    <3>1. 2 \in 1..Len(ls)
      BY <1>2
    <3>2. /\ m \in Seq(T) /\ Len(m) = Len(ls) - 1
          /\ \A j \in 1..(Len(ls) - 1) : m[j] = IF j < 2 THEN ls[j] ELSE ls[j + 1]
      BY <2>1, <3>1, RemovedAt
    <3> QED
      BY <1>2, <3>2
  <2> HIDE DEF m
  <2>3. m = <<m[1]>>
    BY <2>2
  <2> QED
    BY <2>2, <2>3 DEF m
<1>8. RemoveFirstMatch(ls, LAMBDA l : l.who = Handle) = Alone(st)
  <2>1. ls[1] = [who |-> Observer, pattern |-> {st}]
    BY <1>1
  <2> QED
    BY <1>6, <1>7, <2>1 DEF Alone
<1> QED
  BY <1>8 DEF PdictIgnore, ls

-----------------------------------------------------------------------------
(* One device for the handle.                                                *)

\* Where a handle counts variables there is one device for it.
OneDevice == \A c \in Instances : CountedVars(c) /= {} => DevicesOf[c] = {1}

StatusKey == Named("Status")
EachKeys == {i \in DOMAIN Keys : Keys[i].vars = {EachTime}}

\* Every key once.
IsOrder(s) ==
  /\ s \in Seq(DOMAIN Keys) /\ Len(s) = Len(Keys)
  /\ \A i, j \in DOMAIN Keys : s[i] = s[j] => i = j
  /\ \A k \in DOMAIN Keys : \E i \in DOMAIN Keys : s[i] = k

LEMMA KeysOfTheDevice ==
  ASSUME class \in Instances
  PROVE  /\ Len(Keys) \in Nat /\ Len(Keys) >= 6 /\ DOMAIN Keys = 1..Len(Keys)
         /\ \A i \in DOMAIN Keys : Countable(Keys[i])
         /\ CountedVars(class) = (UNION {Keys[i].vars : i \in DOMAIN Keys}) \ {EachTime}
         /\ IsFiniteSet(CountedVars(class)) /\ Cardinality(CountedVars(class)) \in Nat
         /\ IsFiniteSet(EachKeys) /\ Cardinality(EachKeys) \in Nat
         /\ InitKeysOf(class) = Cardinality(EachKeys) + Cardinality(CountedVars(class))
         /\ StatusKey \in DOMAIN Keys
         /\ IsOrder(Published)
<1>1. class \in Classes
  BY InstancesAssumption
<1>2. /\ Len(Keys) \in Nat /\ Len(Keys) >= 6 /\ DOMAIN Keys = 1..Len(Keys)
      /\ Keys[6].name = "Status"
      /\ \A i \in DOMAIN Keys : Countable(Keys[i])
      /\ CountedVars(class) = (UNION {Keys[i].vars : i \in DOMAIN Keys}) \ {EachTime}
      /\ IsFiniteSet(CountedVars(class))
  BY <1>1, KeysAreCountable DEF Keys
<1>3. Cardinality(CountedVars(class)) \in Nat
  BY <1>2, FS_CardinalityType
<1>4. IsFiniteSet(EachKeys) /\ Cardinality(EachKeys) \in Nat
  <2>1. IsFiniteSet(1..Len(Keys)) /\ EachKeys \in SUBSET (1..Len(Keys))
    BY <1>2, FS_Interval DEF EachKeys
  <2> QED
    BY <2>1, FS_Subset, FS_CardinalityType
<1>5. InitKeysOf(class) = Cardinality(EachKeys) + Cardinality(CountedVars(class))
  BY DEF InitKeysOf, EachKeys, Keys
<1>6. StatusKey \in DOMAIN Keys
  <2>1. 6 \in DOMAIN Keys
    BY <1>2
  <2> QED
    BY <1>2, <2>1 DEF StatusKey, Named
<1>7. IsOrder(Published)
  <2> DEFINE n == Len(Keys)
  <2>1. /\ Published \in Seq(1..n) /\ Len(Published) = n
        /\ \A i, j \in 1..n : Published[i] = Published[j] => i = j
    BY PublishAssumption DEF Published, Keys
  <2>2. n \in Nat /\ DOMAIN Keys = 1..n
    BY <1>2
  <2> HIDE DEF n
  <2>3. Published \in [1..n -> 1..n]
    BY <2>1, <2>2
  <2>4. Published \in Injection(1..n, 1..n)
    BY <2>1, <2>3 DEF Injection, IsInjective
  <2>5. Published \in Surjection(1..n, 1..n)
    BY <2>2, <2>4, FS_Injection, FS_Interval
  <2>6. \A k \in 1..n : \E i \in 1..n : Published[i] = k
    BY <2>5 DEF Surjection
  <2> QED
    BY <2>1, <2>2, <2>6 DEF IsOrder, n
<1> QED
  BY <1>2, <1>3, <1>4, <1>5, <1>6, <1>7

LEMMA TheDevice ==
  ASSUME class \in Instances, Devices = {1}
  PROVE  /\ Devices = {1}
         /\ DOMAIN Keys \subseteq Values
         /\ \A i \in DOMAIN Keys : KeyOf(1, i) = i /\ NumberOf(i) = i /\ DeviceOf(i) = 1
         /\ StatusKeys = {StatusKey}
         /\ specific /= "serial" \/ serial = 1 => Pattern = DOMAIN Keys
<1>1. Devices = {1}
  OBVIOUS
<1>2. Len(Keys) \in Nat /\ Len(Keys) >= 6 /\ DOMAIN Keys = 1..Len(Keys) /\ StatusKey \in DOMAIN Keys
  BY KeysOfTheDevice
<1>3. DOMAIN Keys \subseteq Values
  <2>1. 1..Len(Keys) * Cardinality(Devices) \subseteq Values
    BY InstancesAssumption DEF Devices, Keys
  <2>2. Cardinality(Devices) = 1
    BY <1>1, FS_Singleton
  <2> QED
    BY <1>2, <2>1, <2>2
<1>4. ASSUME NEW i \in DOMAIN Keys
      PROVE  KeyOf(1, i) = i /\ NumberOf(i) = i /\ DeviceOf(i) = 1
  <2> DEFINE n == Len(Keys)
  <2>1. n \in Nat /\ n > 0 /\ i - 1 \in 0..n - 1
    BY <1>2
  <2> HIDE DEF n
  <2>2. (i - 1) \div n = 0
    BY <2>1, SMTT(30)
  <2>3. (i - 1) % n = i - 1
    BY <2>1, SMTT(30)
  <2>4. (1 - 1) * n = 0
    BY <2>1, SMTT(30)
  <2>5. /\ KeyOf(1, i) = (1 - 1) * n + i /\ NumberOf(i) = ((i - 1) % n) + 1
        /\ DeviceOf(i) = ((i - 1) \div n) + 1
    BY DEF KeyOf, NumberOf, DeviceOf, n
  <2>6. i \in Nat
    BY <1>2
  <2>7. KeyOf(1, i) = i
    BY <2>4, <2>5, <2>6
  <2>8. NumberOf(i) = i
    BY <2>3, <2>5, <2>6
  <2>9. DeviceOf(i) = 1
    BY <2>2, <2>5
  <2> QED
    BY <2>7, <2>8, <2>9
<1>5. StatusKeys = {StatusKey}
  BY <1>1, <1>2, <1>4 DEF StatusKeys, StatusKey
<1>6. ASSUME specific /= "serial" \/ serial = 1
      PROVE  Pattern = DOMAIN Keys
  <2>1. {KeyOf(1, i) : i \in DOMAIN Keys} = DOMAIN Keys
    BY <1>4
  <2>2. {KeyOf(d, i) : d \in Devices, i \in DOMAIN Keys} = DOMAIN Keys
    BY <1>1, <1>4
  <2>3. CASE specific = "serial"
    BY <1>6, <2>1, <2>3 DEF Pattern
  <2>4. CASE specific /= "serial"
    BY <2>2, <2>4 DEF Pattern
  <2> QED
    BY <2>3, <2>4
<1> QED
  BY <1>1, <1>3, <1>4, <1>5, <1>6

\* Status is withdrawn last.
LEMMA WithdrawnInOrder ==
  ASSUME class \in Instances
  PROVE  IsOrder(Withdrawn) /\ Withdrawn[Len(Keys)] = StatusKey
<1> DEFINE n == Len(Keys)
           st == StatusKey
           all == Published
           rest == RemoveFirst(all, st)
<1>1. n \in Nat /\ n >= 6 /\ DOMAIN Keys = 1..n /\ st \in 1..n /\ IsOrder(all)
  BY KeysOfTheDevice
<1>2. PICK p \in 1..n : all[p] = st
  BY <1>1 DEF IsOrder
<1>3. \A i \in 1..n : all[i] = st <=> i = p
  BY <1>1, <1>2 DEF IsOrder
<1>4. all \in Seq(1..n) /\ Len(all) = n
  BY <1>1 DEF IsOrder
<1>5. /\ \A i, j \in 1..n : all[i] = all[j] => i = j
      /\ \A k \in 1..n : \E i \in 1..n : all[i] = k
  BY <1>1 DEF IsOrder
<1> HIDE DEF n, st, all
<1>6. /\ rest \in Seq(1..n) /\ Len(rest) = n - 1
      /\ \A j \in 1..(n - 1) : rest[j] = IF j < p THEN all[j] ELSE all[j + 1]
  <2>1. p \in 1..Len(all) /\ \A i \in 1..Len(all) : all[i] = st <=> i = p
    BY <1>3, <1>4
  <2>2. /\ rest \in Seq(1..n) /\ Len(rest) = Len(all) - 1
        /\ \A j \in 1..(Len(all) - 1) : rest[j] = IF j < p THEN all[j] ELSE all[j + 1]
    <3> DEFINE S == 1..n
    <3>1. all \in Seq(S)
      BY <1>4
    <3> HIDE DEF S
    <3>2. /\ rest \in Seq(S) /\ Len(rest) = Len(all) - 1
          /\ \A j \in 1..(Len(all) - 1) : rest[j] = IF j < p THEN all[j] ELSE all[j + 1]
      BY <2>1, <3>1, RemovedOnce
    <3> QED
      BY <3>2 DEF S
  <2> QED
    BY <1>4, <2>2
<1> HIDE DEF rest
<1>7. Withdrawn = Append(rest, st)
  BY DEF Withdrawn, rest, st, all, StatusKey
<1>8. /\ Withdrawn \in Seq(1..n) /\ Len(Withdrawn) = n
      /\ \A j \in 1..(n - 1) : Withdrawn[j] = rest[j]
      /\ Withdrawn[n] = st
  BY <1>1, <1>6, <1>7
<1>9. ASSUME NEW i \in 1..n, NEW j \in 1..n, Withdrawn[i] = Withdrawn[j]
      PROVE  i = j
  <2>1. ASSUME NEW h \in 1..(n - 1)
        PROVE  rest[h] /= st
    <3>1. CASE h < p
      BY <1>1, <1>3, <1>6, <3>1
    <3>2. CASE ~(h < p)
      <4>1. h + 1 \in 1..n /\ h + 1 /= p /\ rest[h] = all[h + 1]
        BY <1>1, <1>6, <3>2
      <4> QED
        BY <1>3, <4>1
    <3> QED
      BY <3>1, <3>2
  <2>2. ASSUME i \in 1..(n - 1), j \in 1..(n - 1)
        PROVE  i = j
    <3>1. rest[i] = rest[j]
      BY <1>8, <1>9, <2>2
    <3>2. i \in 1..n /\ j \in 1..n /\ i + 1 \in 1..n /\ j + 1 \in 1..n
      BY <1>1, <2>2
    <3>3. /\ rest[i] = IF i < p THEN all[i] ELSE all[i + 1]
          /\ rest[j] = IF j < p THEN all[j] ELSE all[j + 1]
      BY <1>6, <2>2
    <3>4. CASE i < p /\ j < p
      BY <1>5, <3>1, <3>2, <3>3, <3>4
    <3>5. CASE i < p /\ ~(j < p)
      <4>1. i = j + 1
        BY <1>5, <3>1, <3>2, <3>3, <3>5
      <4> QED
        BY <1>1, <3>5, <4>1
    <3>6. CASE ~(i < p) /\ j < p
      <4>1. i + 1 = j
        BY <1>5, <3>1, <3>2, <3>3, <3>6
      <4> QED
        BY <1>1, <3>6, <4>1
    <3>7. CASE ~(i < p) /\ ~(j < p)
      <4>1. i + 1 = j + 1
        BY <1>5, <3>1, <3>2, <3>3, <3>7
      <4> QED
        BY <1>1, <4>1
    <3> QED
      BY <3>4, <3>5, <3>6, <3>7
  <2> QED
    BY <1>1, <1>8, <1>9, <2>1, <2>2
<1>10. ASSUME NEW k \in 1..n
       PROVE  \E i \in 1..n : Withdrawn[i] = k
  <2>1. PICK i \in 1..n : all[i] = k
    BY <1>5
  <2>2. CASE i = p
    BY <1>1, <1>2, <1>8, <2>1, <2>2
  <2>3. CASE i < p
    <3>1. i \in 1..(n - 1)
      BY <1>1, <1>2, <2>3
    <3>2. rest[i] = k
      BY <1>6, <2>1, <2>3, <3>1
    <3> QED
      BY <1>8, <3>1, <3>2
  <2>4. CASE i > p
    <3>1. i - 1 \in 1..(n - 1) /\ ~(i - 1 < p) /\ (i - 1) + 1 = i
      BY <1>1, <1>2, <2>4
    <3>2. rest[i - 1] = k
      BY <1>6, <2>1, <3>1
    <3> QED
      BY <1>8, <3>1, <3>2
  <2> QED
    BY <1>2, <2>2, <2>3, <2>4
<1> QED
  BY <1>1, <1>8, <1>9, <1>10 DEF IsOrder, n, st

-----------------------------------------------------------------------------
(* The inductive invariant.                                                  *)

Told == {"Attached", "value", "Detached"}
Reports == [to : {Handle}, key : DOMAIN Keys, val : Told,
            reason : {"added", "changed", "removing", "current"}]

Held(k) == dict.vals[k] /= NoValue

Types ==
  /\ class \in Instances
  /\ phase \in [Devices -> {"absent", "adding", "present", "removing"}]
  /\ done \in [Devices -> Nat]
  /\ line \in Seq(Reports)
  /\ keyCount \in Nat /\ initKeys \in {InitKeysOf(class), Unknown}
  /\ EachTime \notin known
  /\ specific \in {"serial", "any", "anyAttached"}
  /\ listening \in BOOLEAN
  /\ reader \in {"idle", "test", "set", "clear"}
  /\ user \in {"closed", "open", "unregister", "ignore", "reset"}
  /\ dict = [ents |-> dict.ents, vals |-> dict.vals, hears |-> dict.hears,
             listeners |-> dict.listeners]
  /\ dict.vals \in [Values -> Told \cup {NoValue}]

\* What the service keeps of the device, and who listens.
ServiceInv ==
  /\ \A k \in DOMAIN Keys :
        Held(k) => (dict.vals[k] = "Detached" <=> k = StatusKey /\ phase[1] = "removing")
  /\ phase[1] = "absent" => \A k \in DOMAIN Keys : ~Held(k)
  /\ phase[1] = "present" => \A k \in DOMAIN Keys : Held(k)
  /\ phase[1] = "adding" =>
        done[1] < Len(Keys) /\ \A j \in DOMAIN Keys : Held(Published[j]) <=> j <= done[1]
  /\ phase[1] = "removing" =>
        done[1] < Len(Keys) /\ \A j \in DOMAIN Keys : Held(Withdrawn[j]) <=> j > done[1]
  /\ listening => dict.listeners = Both(StatusKey, Len(Keys))
  /\ ~listening => dict.listeners = Alone(StatusKey)

\* While the user has the handle open and it is connected, it listens.
HandleInv ==
  /\ "connected" \in status => user = "open" /\ listening
  /\ user = "open" /\ listening => "connected" \in status
  /\ user \in {"reset", "closed"} => ~listening
  /\ ~listening => line = <<>> /\ reader = "idle"
  /\ user = "open" /\ specific /= "any" => serial = 1

\* Nothing is counted of a handle that starts afresh.
ZeroInv ==
  /\ user = "closed" \/ reader = "clear" \/ specific = "any" => keyCount = 0
  /\ user = "open" /\ "connected" \notin status /\ ~lost => keyCount = 0

\* Variable v has its value when the report at place h is handled.
Had(v, h) ==
  \/ v \in known /\ reader /= "clear" /\ NoEnd(line, 0, h)
  \/ \E k \in DOMAIN Keys : v \in Keys[k].vars /\ Comes(line, k, h)

\* A key comes first once, and is held then until the device goes; it changes
\* when all variables have a value; a key that is held is known or on its way.
LineInv ==
  "connected" \in status =>
     /\ ComesOnce(line)
     /\ \A k \in DOMAIN Keys : Comes(line, k, After(line)) => Held(k) \/ phase[1] = "removing"
     /\ \A h \in DOMAIN line :
           IsChange(line[h]) => \A v \in CountedVars(class) : Had(v, h)
     /\ phase[1] \in {"adding", "present"} =>
           \A k \in DOMAIN Keys : Held(k) =>
              \A v \in Keys[k].vars \ {EachTime} : Had(v, After(line))

\* The keys that are counted each time and may have been counted.
Spent ==
  {i \in EachKeys :
     /\ ~Ahead(line, i)
     /\ ~NoEnd(line, 0, After(line)) \/ phase[1] = "removing" \/ Held(i)}

\* No more is counted than came, until everything that counts is known.
CountInv ==
  "connected" \in status /\ ~lost =>
     \/ CountedVars(class) \subseteq known /\ reader /= "clear"
     \/ keyCount <= Cardinality(known \cap CountedVars(class)) + Cardinality(Spent)

\* A handle that attaches knows what it counted.
AttachInv ==
  /\ reader = "set" /\ ~lost => CountedVars(class) \subseteq known
  /\ "attached" \in status /\ ~caught /\ ~lost => CountedVars(class) \subseteq known
  /\ "attached" \in status /\ user \in {"ignore", "reset", "closed"} => caught
  /\ reader = "clear" => "attached" \notin status

AttachedInv == ServiceInv /\ HandleInv /\ ZeroInv /\ LineInv /\ CountInv /\ AttachInv

\* Inductive, as the dictionary is sound.
Inv == Devices = {1} => Types /\ AttachedInv

-----------------------------------------------------------------------------
(* What a step of the service does to the dictionary and the line.           *)

LEMMA KeyIsSet ==
  ASSUME Types, ServiceInv, Devices = {1},
         DictionaryIsSound, DictionaryIsSound',
         NEW k \in DOMAIN Keys, NEW v \in Told, Sets(k, v)
  PROVE  /\ dict' = [ents |-> dict'.ents, vals |-> dict'.vals, hears |-> dict'.hears,
                     listeners |-> dict'.listeners]
         /\ dict'.vals = [dict.vals EXCEPT ![k] = v]
         /\ dict'.listeners = dict.listeners
         /\ line' = IF listening
                    THEN Append(line, Report(k, v, IF Held(k) THEN "changed" ELSE "added"))
                    ELSE line
<1> DEFINE why == IF Held(k) THEN "changed" ELSE "added"
<1>1. /\ Len(Keys) \in Nat /\ DOMAIN Keys = 1..Len(Keys) /\ k \in Values
  BY KeysOfTheDevice, TheDevice DEF Types
<1>2. Has(dict, k) <=> Held(k)
  BY <1>1 DEF DictionaryIsSound, Sound, Held
<1>3. /\ dict' = PdictAdd(dict, k, v)
      /\ line' = line \o ForHandle(Notes(dict', k, v, why))
  BY <1>2 DEF Sets, AddNotes
<1>4. /\ dict = [ents |-> dict.ents, vals |-> dict.vals, hears |-> dict.hears,
                 listeners |-> dict.listeners]
      /\ dict.vals \in [Values -> Told \cup {NoValue}]
  BY DEF Types
<1>5. /\ dict' = [ents |-> dict'.ents, vals |-> dict'.vals, hears |-> dict'.hears,
                  listeners |-> dict'.listeners]
      /\ dict'.vals = [dict.vals EXCEPT ![k] = v]
      /\ dict'.listeners = dict.listeners
  <2>1. CASE Has(dict, k)
    <3>1. dict' = [ents |-> dict.ents, vals |-> [dict.vals EXCEPT ![k] = v],
                   hears |-> dict.hears, listeners |-> dict.listeners]
      BY <1>3, <1>4, <2>1 DEF PdictAdd
    <3> QED
      BY <3>1
  <2>2. CASE ~Has(dict, k)
    <3>1. dict' = [ents |-> With(dict.ents, k), vals |-> [dict.vals EXCEPT ![k] = v],
                   hears |-> [dict.hears EXCEPT ![k] = Matching(dict, k)],
                   listeners |-> dict.listeners]
      BY <1>3, <1>4, <2>2 DEF PdictAdd
    <3> QED
      BY <3>1
  <2> QED
    BY <2>1, <2>2
<1>6. dict'.vals[k] = v /\ v /= NoValue
  BY <1>1, <1>4, <1>5 DEF Told, NoValue
<1>7. dict'.hears[k] = Matching(dict', k)
  BY <1>1, <1>6 DEF DictionaryIsSound, Sound
<1>8. /\ listening => dict'.listeners = Both(StatusKey, Len(Keys))
      /\ ~listening => dict'.listeners = Alone(StatusKey)
  BY <1>5 DEF ServiceInv, Types
<1>9. ForHandle(Notes(dict', k, v, why)) =
        IF listening THEN <<Report(k, v, why)>> ELSE <<>>
  <2>1. k \in 1..Len(Keys)
    BY <1>1
  <2> HIDE DEF why
  <2> QED
    BY <1>7, <1>8, <2>1, NotesForHandle
<1>10. line \in Seq(Reports)
  BY DEF Types
<1>11. line' = IF listening THEN Append(line, Report(k, v, why)) ELSE line
  <2> DEFINE r == Report(k, v, why)
  <2> HIDE DEF r
  <2>1. CASE listening
    BY <1>3, <1>9, <1>10, <2>1 DEF r
  <2>2. CASE ~listening
    BY <1>3, <1>9, <1>10, <2>2
  <2> QED
    BY <2>1, <2>2 DEF r
<1> QED
  BY <1>5, <1>11

LEMMA KeyIsRemoved ==
  ASSUME Types, ServiceInv, Devices = {1},
         DictionaryIsSound, NEW k \in DOMAIN Keys, Held(k),
         dict' = PdictRemove(dict, k), line' = line \o ForHandle(RemoveNotes(dict, k))
  PROVE  /\ dict' = [ents |-> dict'.ents, vals |-> dict'.vals, hears |-> dict'.hears,
                     listeners |-> dict'.listeners]
         /\ dict'.vals = [dict.vals EXCEPT ![k] = NoValue]
         /\ dict'.listeners = dict.listeners
         /\ line' = IF listening THEN Append(line, Report(k, dict.vals[k], "removing"))
                    ELSE line
<1> DEFINE v == dict.vals[k]
<1>1. /\ Len(Keys) \in Nat /\ DOMAIN Keys = 1..Len(Keys) /\ k \in Values
  BY KeysOfTheDevice, TheDevice DEF Types
<1>2. /\ dict = [ents |-> dict.ents, vals |-> dict.vals, hears |-> dict.hears,
                 listeners |-> dict.listeners]
      /\ dict.vals \in [Values -> Told \cup {NoValue}]
  BY DEF Types
<1>3. /\ dict' = [ents |-> dict'.ents, vals |-> dict'.vals, hears |-> dict'.hears,
                  listeners |-> dict'.listeners]
      /\ dict'.vals = [dict.vals EXCEPT ![k] = NoValue]
      /\ dict'.listeners = dict.listeners
  <2>1. dict' = [ents |-> Without(dict.ents, k), vals |-> [dict.vals EXCEPT ![k] = NoValue],
                 hears |-> [dict.hears EXCEPT ![k] = <<>>], listeners |-> dict.listeners]
    BY <1>2 DEF PdictRemove
  <2> QED
    BY <2>1
<1>4. dict.hears[k] = Matching(dict, k)
  BY <1>1 DEF DictionaryIsSound, Sound, Held
<1>5. /\ listening => dict.listeners = Both(StatusKey, Len(Keys))
      /\ ~listening => dict.listeners = Alone(StatusKey)
  BY DEF ServiceInv, Types
<1>6. ForHandle(Notes(dict, k, v, "removing")) =
        IF listening THEN <<Report(k, v, "removing")>> ELSE <<>>
  <2>1. k \in 1..Len(Keys)
    BY <1>1
  <2> HIDE DEF v
  <2> QED
    BY <1>4, <1>5, <2>1, NotesForHandle
<1>7. line' = line \o ForHandle(Notes(dict, k, v, "removing")) /\ line \in Seq(Reports)
  BY DEF Types, RemoveNotes
<1>8. line' = IF listening THEN Append(line, Report(k, v, "removing")) ELSE line
  <2> DEFINE r == Report(k, v, "removing")
  <2> HIDE DEF r
  <2>1. CASE listening
    BY <1>6, <1>7, <2>1 DEF r
  <2>2. CASE ~listening
    BY <1>6, <1>7, <2>2
  <2> QED
    BY <2>1, <2>2 DEF r
<1> QED
  BY <1>3, <1>8

LEMMA PublishEffect ==
  ASSUME Types, ServiceInv, Devices = {1},
         DictionaryIsSound, DictionaryIsSound', NEW d \in Devices, Publish(d)
  PROVE  \E k \in DOMAIN Keys, v \in {"Attached", "value"} :
            /\ d = 1 /\ phase[1] = "adding" /\ ~Held(k) /\ k = Published[done[1] + 1]
            /\ dict' = [ents |-> dict'.ents, vals |-> dict'.vals, hears |-> dict'.hears,
                        listeners |-> dict'.listeners]
            /\ dict'.vals = [dict.vals EXCEPT ![k] = v]
            /\ dict'.listeners = dict.listeners
            /\ line' = IF listening THEN Append(line, Report(k, v, "added")) ELSE line
<1>1. d = 1
  BY TheDevice DEF Types
<1>2. Len(Keys) \in Nat /\ DOMAIN Keys = 1..Len(Keys) /\ IsOrder(Published)
  BY KeysOfTheDevice DEF Types
<1>3. phase[1] = "adding" /\ done[1] \in Nat
  BY <1>1 DEF Publish, Types
<1>4. done[1] + 1 \in DOMAIN Keys
  BY <1>2, <1>3 DEF ServiceInv
<1> DEFINE k == Published[done[1] + 1]
<1>5. k \in DOMAIN Keys
  <2> DEFINE S == DOMAIN Keys
  <2>1. Published \in Seq(S) /\ done[1] + 1 \in 1..Len(Published)
    BY <1>2, <1>4 DEF IsOrder
  <2> HIDE DEF S
  <2>2. k \in S
    BY <2>1
  <2> QED
    BY <2>2 DEF S
<1>6. ~Held(k)
  BY <1>2, <1>3, <1>4 DEF ServiceInv
<1>7. KeyOf(1, k) = k
  BY <1>5, TheDevice DEF Types
<1> DEFINE v == IF k = StatusKey THEN "Attached" ELSE "value"
<1>8. Sets(k, v)
  BY <1>1, <1>7 DEF Publish, StatusKey
<1>9. v \in {"Attached", "value"} /\ v \in Told
  BY DEF Told
<1> HIDE DEF k, v
<1>10. /\ dict' = [ents |-> dict'.ents, vals |-> dict'.vals, hears |-> dict'.hears,
                   listeners |-> dict'.listeners]
       /\ dict'.vals = [dict.vals EXCEPT ![k] = v]
       /\ dict'.listeners = dict.listeners
       /\ line' = IF listening THEN Append(line, Report(k, v, "added")) ELSE line
  BY <1>5, <1>6, <1>8, <1>9, KeyIsSet
<1> QED
  BY <1>1, <1>3, <1>5, <1>6, <1>9, <1>10 DEF k

LEMMA ChangeEffect ==
  ASSUME Types, ServiceInv, Devices = {1},
         DictionaryIsSound, DictionaryIsSound', NEW d \in Devices, Change(d)
  PROVE  \E k \in DOMAIN Keys :
            /\ d = 1 /\ phase[1] = "present" /\ Held(k)
            /\ dict' = [ents |-> dict'.ents, vals |-> dict'.vals, hears |-> dict'.hears,
                        listeners |-> dict'.listeners]
            /\ dict'.vals = [dict.vals EXCEPT ![k] = "value"]
            /\ dict'.listeners = dict.listeners
            /\ line' = IF listening THEN Append(line, Report(k, "value", "changed")) ELSE line
<1>1. d = 1
  BY TheDevice DEF Types
<1>2. phase[1] = "present"
  BY <1>1 DEF Change
<1>3. PICK k \in DOMAIN Keys : Sets(KeyOf(1, k), "value")
  BY <1>1 DEF Change
<1>4. KeyOf(1, k) = k
  BY TheDevice DEF Types
<1>5. Sets(k, "value") /\ "value" \in Told
  BY <1>3, <1>4 DEF Told
<1>6. Held(k)
  BY <1>2 DEF ServiceInv
<1>7. /\ dict' = [ents |-> dict'.ents, vals |-> dict'.vals, hears |-> dict'.hears,
                  listeners |-> dict'.listeners]
      /\ dict'.vals = [dict.vals EXCEPT ![k] = "value"]
      /\ dict'.listeners = dict.listeners
      /\ line' = IF listening THEN Append(line, Report(k, "value", "changed")) ELSE line
  BY <1>5, <1>6, KeyIsSet
<1> QED
  BY <1>1, <1>2, <1>6, <1>7

LEMMA UnplugEffect ==
  ASSUME Types, ServiceInv, Devices = {1},
         DictionaryIsSound, DictionaryIsSound', NEW d \in Devices, Unplug(d)
  PROVE  /\ d = 1 /\ phase[1] = "present" /\ Held(StatusKey) /\ StatusKey \in DOMAIN Keys
         /\ dict' = [ents |-> dict'.ents, vals |-> dict'.vals, hears |-> dict'.hears,
                     listeners |-> dict'.listeners]
         /\ dict'.vals = [dict.vals EXCEPT ![StatusKey] = "Detached"]
         /\ dict'.listeners = dict.listeners
         /\ line' = IF listening THEN Append(line, Report(StatusKey, "Detached", "changed"))
                    ELSE line
<1>1. d = 1
  BY TheDevice DEF Types
<1>2. phase[1] = "present"
  BY <1>1 DEF Unplug
<1>3. StatusKey \in DOMAIN Keys
  BY KeysOfTheDevice DEF Types
<1>4. KeyOf(1, StatusKey) = StatusKey
  BY <1>3, TheDevice DEF Types
<1>5. Sets(StatusKey, "Detached") /\ "Detached" \in Told
  BY <1>1, <1>4 DEF Unplug, StatusKey, Told
<1>6. Held(StatusKey)
  BY <1>2, <1>3 DEF ServiceInv
<1>7. /\ dict' = [ents |-> dict'.ents, vals |-> dict'.vals, hears |-> dict'.hears,
                  listeners |-> dict'.listeners]
      /\ dict'.vals = [dict.vals EXCEPT ![StatusKey] = "Detached"]
      /\ dict'.listeners = dict.listeners
      /\ line' = IF listening THEN Append(line, Report(StatusKey, "Detached", "changed"))
                 ELSE line
  BY <1>3, <1>5, <1>6, KeyIsSet
<1> QED
  BY <1>1, <1>2, <1>3, <1>6, <1>7

LEMMA WithdrawEffect ==
  ASSUME Types, ServiceInv, Devices = {1},
         DictionaryIsSound, NEW d \in Devices, Withdraw(d)
  PROVE  \E k \in DOMAIN Keys :
            /\ d = 1 /\ phase[1] = "removing" /\ Held(k) /\ k = Withdrawn[done[1] + 1]
            /\ done[1] + 1 = Len(Keys) => dict.vals[k] = "Detached"
            /\ dict' = [ents |-> dict'.ents, vals |-> dict'.vals, hears |-> dict'.hears,
                        listeners |-> dict'.listeners]
            /\ dict'.vals = [dict.vals EXCEPT ![k] = NoValue]
            /\ dict'.listeners = dict.listeners
            /\ line' = IF listening
                       THEN Append(line, Report(k, dict.vals[k], "removing")) ELSE line
<1>1. d = 1
  BY TheDevice DEF Types
<1>2. /\ Len(Keys) \in Nat /\ DOMAIN Keys = 1..Len(Keys) /\ IsOrder(Withdrawn)
      /\ Withdrawn[Len(Keys)] = StatusKey
  BY KeysOfTheDevice, WithdrawnInOrder DEF Types
<1>3. phase[1] = "removing" /\ done[1] \in Nat
  BY <1>1 DEF Withdraw, Types
<1>4. done[1] + 1 \in DOMAIN Keys
  BY <1>2, <1>3 DEF ServiceInv
<1> DEFINE k == Withdrawn[done[1] + 1]
<1>5. k \in DOMAIN Keys
  <2> DEFINE S == DOMAIN Keys
  <2>1. Withdrawn \in Seq(S) /\ done[1] + 1 \in 1..Len(Withdrawn)
    BY <1>2, <1>4 DEF IsOrder
  <2> HIDE DEF S
  <2>2. k \in S
    BY <2>1
  <2> QED
    BY <2>2 DEF S
<1>6. Held(k)
  BY <1>2, <1>3, <1>4 DEF ServiceInv
<1>7. KeyOf(1, k) = k
  BY <1>5, TheDevice DEF Types
<1>8. dict' = PdictRemove(dict, k) /\ line' = line \o ForHandle(RemoveNotes(dict, k))
  BY <1>1, <1>7 DEF Withdraw
<1>9. done[1] + 1 = Len(Keys) => dict.vals[k] = "Detached"
  BY <1>2, <1>3, <1>5, <1>6 DEF ServiceInv
<1> HIDE DEF k
<1>10. /\ dict' = [ents |-> dict'.ents, vals |-> dict'.vals, hears |-> dict'.hears,
                   listeners |-> dict'.listeners]
       /\ dict'.vals = [dict.vals EXCEPT ![k] = NoValue]
       /\ dict'.listeners = dict.listeners
       /\ line' = IF listening THEN Append(line, Report(k, dict.vals[k], "removing")) ELSE line
  BY <1>5, <1>6, <1>8, KeyIsRemoved
<1> QED
  BY <1>1, <1>3, <1>5, <1>6, <1>9, <1>10 DEF k

LEMMA ConnectEffect ==
  ASSUME Types, ServiceInv, HandleInv, Devices = {1},
         DictionaryIsSound, Connect
  PROVE  /\ ~listening /\ line = <<>> /\ reader = "idle"
         /\ dict' = [ents |-> dict'.ents, vals |-> dict'.vals, hears |-> dict'.hears,
                     listeners |-> dict'.listeners]
         /\ dict'.vals = dict.vals
         /\ dict'.listeners = Both(StatusKey, Len(Keys))
         /\ line' \in Seq(Reports)
         /\ \A j \in DOMAIN line' :
               /\ line'[j].key \in DOMAIN Keys /\ Held(line'[j].key)
               /\ line'[j].val = dict.vals[line'[j].key] /\ line'[j].reason = "current"
         /\ \A k \in DOMAIN Keys : Held(k) => \E j \in DOMAIN line' : line'[j].key = k
         /\ \A i, j \in DOMAIN line' : line'[i].key = line'[j].key => i = j
         /\ \A i, j \in DOMAIN line' : i < j => line'[i].key < line'[j].key
<1>1. user = "open" /\ "connected" \notin status
  BY DEF Connect
<1>2. ~listening /\ line = <<>> /\ reader = "idle" /\ (specific /= "any" => serial = 1)
  BY <1>1 DEF HandleInv
<1>3. /\ Len(Keys) \in Nat /\ DOMAIN Keys = 1..Len(Keys) /\ DOMAIN Keys \subseteq Values
      /\ Pattern = 1..Len(Keys)
  BY <1>2, KeysOfTheDevice, TheDevice DEF Types
<1>4. /\ dict = [ents |-> dict.ents, vals |-> dict.vals, hears |-> dict.hears,
                 listeners |-> dict.listeners]
      /\ dict.vals \in [Values -> Told \cup {NoValue}]
  BY DEF Types
<1>5. dict' = [ents |-> dict.ents, vals |-> dict.vals,
               hears |-> [k \in Values |-> IF Has(dict, k) /\ k \in Pattern
                                           THEN Append(dict.hears[k], Handle)
                                           ELSE dict.hears[k]],
               listeners |-> Append(dict.listeners, [who |-> Handle, pattern |-> Pattern])]
  BY <1>4 DEF Connect, PdictListen
<1>6. /\ dict' = [ents |-> dict'.ents, vals |-> dict'.vals, hears |-> dict'.hears,
                  listeners |-> dict'.listeners]
      /\ dict'.vals = dict.vals
      /\ dict'.listeners = Append(dict.listeners, [who |-> Handle, pattern |-> Pattern])
  BY <1>5
<1>7. dict'.listeners = Both(StatusKey, Len(Keys))
  <2>1. dict.listeners = Alone(StatusKey)
    BY <1>2 DEF ServiceInv
  <2> DEFINE n == Len(Keys)
             st == StatusKey
  <2> HIDE DEF n, st
  <2>2. Append(Alone(st), [who |-> Handle, pattern |-> 1..n]) = Both(st, n)
    <3>1. ASSUME NEW a, NEW b
          PROVE  Append(<<a>>, b) = <<a, b>>
      <4> DEFINE S == {a, b}
                 p == Append(<<a>>, b)
                 q == <<a, b>>
      <4>1. <<a>> \in Seq(S) /\ b \in S /\ Len(<<a>>) = 1 /\ <<a>>[1] = a
        OBVIOUS
      <4> HIDE DEF S
      <4>2. p \in Seq(S) /\ Len(p) = 2 /\ p[1] = a /\ p[2] = b
        BY <4>1
      <4>3. q = [i \in 1..2 |-> IF i = 1 THEN a ELSE b]
        OBVIOUS
      <4> HIDE DEF p, q
      <4>4. p = [i \in 1..2 |-> p[i]]
        BY <4>2
      <4>5. \A i \in 1..2 : p[i] = IF i = 1 THEN a ELSE b
        BY <4>2
      <4>6. p = q
        BY <4>3, <4>4, <4>5
      <4> QED
        BY <4>6, Zenon DEF p, q
    <3> QED
      BY <3>1 DEF Alone, Both
  <2> QED
    BY <1>3, <1>6, <2>1, <2>2 DEF n, st
<1> DEFINE c == Current(dict, Handle, 1..Len(Keys))
           held == {k \in 1..Len(Keys) : dict.vals[k] /= NoValue}
           told == {Report(k, dict.vals[k], "current") : k \in held}
<1>8. line' = line \o c
  BY <1>3 DEF Connect
<1>9. /\ c \in Seq(told)
      /\ \A k \in held : \E j \in DOMAIN c : c[j].key = k
      /\ \A i, j \in DOMAIN c : c[i].key = c[j].key => i = j
      /\ \A i, j \in DOMAIN c : i < j => c[i].key < c[j].key
  <2>1. Sound(dict)
    BY DEF DictionaryIsSound
  <2> HIDE DEF c
  <2> QED
    <3> DEFINE n == Len(Keys)
    <3>1. n \in Nat /\ 1..n \subseteq Values
      BY <1>3
    <3> HIDE DEF n
    <3>2. LET e == Current(dict, Handle, 1..n)
              here == {k \in 1..n : dict.vals[k] /= NoValue}
          IN /\ e \in Seq({Report(k, dict.vals[k], "current") : k \in here})
             /\ \A k \in here : \E j \in DOMAIN e : e[j].key = k
             /\ \A i, j \in DOMAIN e : e[i].key = e[j].key => i = j
             /\ \A i, j \in DOMAIN e : i < j => e[i].key < e[j].key
      BY <2>1, <3>1, CurrentReports
    <3> QED
      BY <3>2, Zenon DEF c, n
<1>10. told \subseteq Reports
  <2>1. ASSUME NEW k \in held
        PROVE  Report(k, dict.vals[k], "current") \in Reports
    <3>1. dict.vals[k] \in Told
      BY <1>3, <1>4
    <3> QED
      BY <3>1 DEF Report, Reports
  <2> QED
    BY <2>1
<1> HIDE DEF c
<1>11. line' = c
  <2>1. \A s \in Seq(told) : <<>> \o s = s
    OBVIOUS
  <2> QED
    BY <1>2, <1>8, <1>9, <2>1
<1>12. \A j \in DOMAIN c : c[j] \in told
  <2> HIDE DEF told
  <2> QED
    BY <1>9
<1>13. \A j \in DOMAIN c :
          /\ c[j].key \in DOMAIN Keys /\ Held(c[j].key)
          /\ c[j].val = dict.vals[c[j].key] /\ c[j].reason = "current"
  BY <1>3, <1>12 DEF Report, Held
<1>14. c \in Seq(Reports)
  <2> HIDE DEF told
  <2> QED
    BY <1>9, <1>10
<1>15. \A k \in DOMAIN Keys : Held(k) => \E j \in DOMAIN c : c[j].key = k
  BY <1>3, <1>9 DEF Held
<1> QED
  BY <1>2, <1>6, <1>7, <1>9, <1>11, <1>13, <1>14, <1>15

LEMMA IgnoreEffect ==
  ASSUME Types, ServiceInv, listening, dict' = PdictIgnore(dict, Handle)
  PROVE  /\ dict' = [ents |-> dict'.ents, vals |-> dict'.vals, hears |-> dict'.hears,
                     listeners |-> dict'.listeners]
         /\ dict'.vals = dict.vals
         /\ dict'.listeners = Alone(StatusKey)
<1>1. dict = [ents |-> dict.ents, vals |-> dict.vals, hears |-> dict.hears,
              listeners |-> dict.listeners]
  BY DEF Types
<1>2. dict' = [ents |-> dict'.ents, vals |-> dict'.vals, hears |-> dict'.hears,
              listeners |-> dict'.listeners]
  BY <1>1 DEF PdictIgnore
<1>3. dict.listeners = Both(StatusKey, Len(Keys))
  BY DEF ServiceInv
<1> QED
  BY <1>1, <1>2, <1>3, IgnoredListener

-----------------------------------------------------------------------------
(* Every step.                                                               *)

LEMMA ClassStays ==
  ASSUME [Next]_vars
  PROVE  class' = class
<1>1. ASSUME NEW d \in Devices,
             \/ Plug(d) \/ Publish(d) \/ Change(d) \/ Unplug(d) \/ Withdraw(d)
      PROVE  class' = class
  BY <1>1
     DEF Plug, Publish, Change, Unplug, Withdraw
<1>2. CASE \/ ReaderSkips \/ ReaderCounts \/ ReaderDetaches \/ ReaderClears
           \/ ReaderTests \/ ReaderAttaches \/ Lose \/ Open \/ Connect
           \/ CloseStarts \/ CloseClears \/ CloseIgnores \/ CloseResets
           \/ SetterTests \/ SetterWrites
  BY <1>2
     DEF ReaderSkips, ReaderCounts, ReaderDetaches, ReaderClears, ReaderTests,
         ReaderAttaches, Lose, Open, Connect, CloseStarts, CloseClears,
         CloseIgnores, CloseResets, SetterTests, SetterWrites
<1>3. CASE UNCHANGED vars
  BY <1>3
     DEF vars
<1>4. QED
  BY Zenon, <1>1, <1>2, <1>3
     DEF Next, Service, Reader, User, Setter

LEMMA KeysStay ==
  ASSUME class' = class
  PROVE  /\ Keys' = Keys /\ Devices' = Devices /\ Published' = Published
         /\ StatusKey' = StatusKey /\ EachKeys' = EachKeys /\ Reports' = Reports
         /\ Withdrawn' = Withdrawn
<1>1. Keys' = Keys /\ Devices' = Devices
  BY DEF Keys, Devices
<1>2. Published' = Published /\ EachKeys' = EachKeys /\ Reports' = Reports
  BY <1>1 DEF Published, EachKeys, Reports
<1>3. StatusKey' = StatusKey /\ Named("Status")' = Named("Status")
  BY <1>1 DEF StatusKey, Named
<1>4. Withdrawn' = Withdrawn
  BY <1>2, <1>3 DEF Withdrawn
<1> QED
  BY <1>1, <1>2, <1>3, <1>4

\* The first report on its way.
LEMMA HeadReport ==
  ASSUME Types, Devices = {1}, line /= <<>>
  PROVE  LET r == Head(line)
         IN /\ Tail(line) \in Seq(Reports)
            /\ r.key \in DOMAIN Keys /\ r.val \in Told
            /\ r.reason \in {"added", "changed", "removing", "current"}
            /\ NumberOf(r.key) = r.key /\ DeviceOf(r.key) = 1
<1>1. line \in Seq(Reports)
  BY DEF Types
<1>2. Head(line) \in Reports /\ Tail(line) \in Seq(Reports)
  BY <1>1
<1>3. /\ Head(line).key \in DOMAIN Keys /\ Head(line).val \in Told
      /\ Head(line).reason \in {"added", "changed", "removing", "current"}
  BY <1>2 DEF Reports
<1>4. NumberOf(Head(line).key) = Head(line).key /\ DeviceOf(Head(line).key) = 1
  BY <1>3, TheDevice DEF Types
<1> QED
  BY <1>2, <1>3, <1>4

\* What a key adds to keyCount: 1 for a key that is counted each time, the
\* variables that become known for another.
LEMMA CountOf ==
  ASSUME class \in Instances, EachTime \notin known, NEW i \in DOMAIN Keys
  PROVE  LET vs == Keys[i].vars
             cv == CountedVars(class)
         IN /\ Counts(i) \in Nat
            /\ vs \ {EachTime} \subseteq cv
            /\ vs = {EachTime} => Counts(i) = 1
            /\ vs /= {EachTime} =>
                  Cardinality((known \cup (vs \ {EachTime})) \cap cv)
                     = Cardinality(known \cap cv) + Counts(i)
            /\ IsFiniteSet(known \cap cv) /\ Cardinality(known \cap cv) \in Nat
<1> DEFINE vs == Keys[i].vars
           cv == CountedVars(class)
<1>1. /\ vs = {EachTime} \/ (EachTime \notin vs /\ IsFiniteSet(vs))
      /\ vs \ {EachTime} \subseteq cv
      /\ IsFiniteSet(cv)
  BY KeysOfTheDevice DEF Countable
<1>2. Counts(i) = Cardinality(vs \ known)
  BY DEF Counts
<1> HIDE DEF vs, cv
<1>3. IsFiniteSet(known \cap cv) /\ Cardinality(known \cap cv) \in Nat
  BY <1>1, FS_Subset, FS_CardinalityType
<1>4. CASE vs = {EachTime}
  <2>1. vs \ known = {EachTime}
    BY <1>4
  <2>2. Counts(i) = 1
    BY <1>2, <2>1, FS_Singleton
  <2> QED
    BY <1>1, <1>3, <1>4, <2>2 DEF vs, cv
<1>5. CASE vs /= {EachTime}
  <2> DEFINE A == known \cap cv
             B == vs \ known
  <2>1. EachTime \notin vs /\ IsFiniteSet(vs) /\ vs \subseteq cv
    BY <1>1, <1>5
  <2>2. (known \cup (vs \ {EachTime})) \cap cv = A \cup B /\ A \cap B = {}
    BY <2>1
  <2>3. IsFiniteSet(B) /\ Cardinality(B) \in Nat
    <3>1. B \subseteq vs
      OBVIOUS
    <3> HIDE DEF B
    <3> QED
      BY <2>1, <3>1, FS_Subset, FS_CardinalityType
  <2>4. Cardinality(A \cup B) = Cardinality(A) + Cardinality(B)
    <3> HIDE DEF A, B
    <3>1. IsFiniteSet(A)
      BY <1>3 DEF A
    <3>2. Cardinality(A \cup B) = Cardinality(A) + Cardinality(B) - Cardinality(A \cap B)
      BY <2>3, <3>1, FS_Union
    <3>3. Cardinality(A) \in Nat /\ Cardinality({}) = 0 /\ A \cap B = {}
      BY <2>2, <3>1, FS_EmptySet, FS_CardinalityType
    <3>4. Cardinality(A \cap B) = 0
      BY <3>3, Zenon
    <3> QED
      BY <2>3, <3>2, <3>3, <3>4
  <2>5. Counts(i) \in Nat
    BY <1>2, <2>3
  <2>6. Cardinality((known \cup (vs \ {EachTime})) \cap cv)
          = Cardinality(known \cap cv) + Counts(i)
    BY <1>2, <2>2, <2>4
  <2> QED
    BY <1>1, <1>3, <1>5, <2>5, <2>6, Zenon DEF vs, cv
<1> QED
  BY <1>4, <1>5

LEMMA TypesStep ==
  ASSUME Devices = {1}, Types, ServiceInv, HandleInv,
         DictionaryIsSound, DictionaryIsSound', [Next]_vars
  PROVE  Types'
<1>1. class' = class
  BY ClassStays
<1>2. Devices' = Devices /\ Reports' = Reports /\ Devices = {1}
  BY <1>1, KeysStay, TheDevice DEF Types
<1>3. \A k \in DOMAIN Keys : \A v \in Told :
         \A why \in {"added", "changed", "removing", "current"} : Report(k, v, why) \in Reports
  BY DEF Report, Reports
<1>4. ASSUME NEW k \in DOMAIN Keys, NEW v \in Told,
             NEW why \in {"added", "changed", "removing", "current"},
             line' = IF listening THEN Append(line, Report(k, v, why)) ELSE line
      PROVE  line' \in Seq(Reports)
  <2> DEFINE r == Report(k, v, why)
             S == Reports
  <2>1. r \in S /\ line \in Seq(S)
    BY <1>3 DEF Types
  <2> HIDE DEF r, S
  <2>2. Append(line, r) \in Seq(S)
    BY <2>1
  <2> QED
    BY <1>4, <2>1, <2>2 DEF r, S
<1>5. ASSUME NEW k \in DOMAIN Keys, NEW v \in Told \cup {NoValue},
             dict'.vals = [dict.vals EXCEPT ![k] = v]
      PROVE  dict'.vals \in [Values -> Told \cup {NoValue}]
  BY <1>5, TheDevice DEF Types
<1>6. DOMAIN Keys \subseteq Values
  BY TheDevice DEF Types
<1>7. ASSUME UNCHANGED <<class, phase, done, dict>>, line' \in Seq(Reports),
             keyCount' \in Nat, initKeys' \in {InitKeysOf(class), Unknown},
             EachTime \notin known', specific' \in {"serial", "any", "anyAttached"},
             listening' \in BOOLEAN, reader' \in {"idle", "test", "set", "clear"},
             user' \in {"closed", "open", "unregister", "ignore", "reset"}
      PROVE  Types'
  BY <1>2, <1>7, Zenon DEF Types
<1>8. ASSUME UNCHANGED <<class, handleVars, threadVars>>,
             phase' \in [Devices -> {"absent", "adding", "present", "removing"}],
             done' \in [Devices -> Nat], line' \in Seq(Reports),
             dict' = [ents |-> dict'.ents, vals |-> dict'.vals, hears |-> dict'.hears,
                      listeners |-> dict'.listeners],
             dict'.vals \in [Values -> Told \cup {NoValue}]
      PROVE  Types'
  BY <1>2, <1>8, Zenon DEF Types, handleVars, threadVars
<1>9. /\ line \in Seq(Reports) /\ keyCount \in Nat
      /\ initKeys \in {InitKeysOf(class), Unknown}
      /\ EachTime \notin known /\ specific \in {"serial", "any", "anyAttached"}
      /\ listening \in BOOLEAN /\ reader \in {"idle", "test", "set", "clear"}
      /\ user \in {"closed", "open", "unregister", "ignore", "reset"}
      /\ dict.vals \in [Values -> Told \cup {NoValue}]
      /\ phase \in [Devices -> {"absent", "adding", "present", "removing"}]
      /\ done \in [Devices -> Nat]
      /\ (line /= <<>> => Tail(line) \in Seq(Reports))
  BY HeadReport DEF Types
<1>10. ASSUME NEW d \in Devices, Plug(d)
       PROVE  Types'
  <2>1. /\ phase' \in [Devices -> {"absent", "adding", "present", "removing"}]
        /\ done' \in [Devices -> Nat]
        /\ UNCHANGED <<class, dict, line, handleVars, threadVars>>
    BY <1>10, <1>9 DEF Plug
  <2>2. /\ dict' = [ents |-> dict'.ents, vals |-> dict'.vals, hears |-> dict'.hears,
                    listeners |-> dict'.listeners]
        /\ dict'.vals \in [Values -> Told \cup {NoValue}] /\ line' \in Seq(Reports)
    BY <1>9, <2>1, Zenon DEF Types
  <2> QED
    BY <1>8, <2>1, <2>2
<1>11. ASSUME NEW d \in Devices, Publish(d)
       PROVE  Types'
  <2>1. /\ phase' \in [Devices -> {"absent", "adding", "present", "removing"}]
        /\ done' \in [Devices -> Nat]
        /\ UNCHANGED <<class, handleVars, threadVars>>
    BY <1>11, <1>9 DEF Publish
  <2>2. PICK k \in DOMAIN Keys, v \in Told :
           /\ dict' = [ents |-> dict'.ents, vals |-> dict'.vals, hears |-> dict'.hears,
                       listeners |-> dict'.listeners]
           /\ dict'.vals = [dict.vals EXCEPT ![k] = v]
           /\ line' = IF listening THEN Append(line, Report(k, v, "added")) ELSE line
    BY <1>11, PublishEffect DEF Told
  <2> QED
    BY <1>4, <1>5, <1>8, <2>1, <2>2
<1>12. ASSUME NEW d \in Devices, Change(d)
       PROVE  Types'
  <2>1. UNCHANGED <<class, phase, done, handleVars, threadVars>>
    BY <1>12 DEF Change
  <2>2. PICK k \in DOMAIN Keys :
           /\ dict' = [ents |-> dict'.ents, vals |-> dict'.vals, hears |-> dict'.hears,
                       listeners |-> dict'.listeners]
           /\ dict'.vals = [dict.vals EXCEPT ![k] = "value"]
           /\ line' = IF listening THEN Append(line, Report(k, "value", "changed")) ELSE line
    BY <1>12, ChangeEffect
  <2>3. "value" \in Told
    BY DEF Told
  <2> QED
    BY <1>4, <1>5, <1>8, <1>9, <2>1, <2>2, <2>3
<1>13. ASSUME NEW d \in Devices, Unplug(d)
       PROVE  Types'
  <2>1. /\ phase' \in [Devices -> {"absent", "adding", "present", "removing"}]
        /\ done' \in [Devices -> Nat]
        /\ UNCHANGED <<class, handleVars, threadVars>>
    BY <1>13, <1>9 DEF Unplug
  <2>2. /\ StatusKey \in DOMAIN Keys
        /\ dict' = [ents |-> dict'.ents, vals |-> dict'.vals, hears |-> dict'.hears,
                    listeners |-> dict'.listeners]
        /\ dict'.vals = [dict.vals EXCEPT ![StatusKey] = "Detached"]
        /\ line' = IF listening THEN Append(line, Report(StatusKey, "Detached", "changed"))
                   ELSE line
    BY <1>13, UnplugEffect
  <2>3. "Detached" \in Told
    BY DEF Told
  <2> QED
    BY <1>4, <1>5, <1>8, <2>1, <2>2, <2>3
<1>14. ASSUME NEW d \in Devices, Withdraw(d)
       PROVE  Types'
  <2>1. /\ phase' \in [Devices -> {"absent", "adding", "present", "removing"}]
        /\ done' \in [Devices -> Nat]
        /\ UNCHANGED <<class, handleVars, threadVars>>
    BY <1>14, <1>9 DEF Withdraw
  <2>2. PICK k \in DOMAIN Keys :
           /\ Held(k)
           /\ dict' = [ents |-> dict'.ents, vals |-> dict'.vals, hears |-> dict'.hears,
                       listeners |-> dict'.listeners]
           /\ dict'.vals = [dict.vals EXCEPT ![k] = NoValue]
           /\ line' = IF listening
                      THEN Append(line, Report(k, dict.vals[k], "removing")) ELSE line
    BY <1>14, WithdrawEffect
  <2>3. dict.vals[k] \in Told
    BY <1>6, <1>9, <2>2 DEF Held
  <2> QED
    BY <1>4, <1>5, <1>8, <2>1, <2>2, <2>3
<1>15. CASE Connect
  <2>1. /\ dict' = [ents |-> dict'.ents, vals |-> dict'.vals, hears |-> dict'.hears,
                    listeners |-> dict'.listeners]
        /\ dict'.vals = dict.vals /\ line' \in Seq(Reports)
    BY <1>15, ConnectEffect
  <2>2. /\ UNCHANGED <<class, phase, done, specific, keyCount, initKeys, known, threadVars>>
        /\ listening' = TRUE
    BY <1>15 DEF Connect
  <2> QED
    BY <1>2, <1>9, <2>1, <2>2 DEF Types, threadVars
<1>16. CASE Lose
  <2>1. /\ dict' = [ents |-> dict'.ents, vals |-> dict'.vals, hears |-> dict'.hears,
                    listeners |-> dict'.listeners]
        /\ dict'.vals = dict.vals
    BY <1>16, IgnoreEffect DEF Lose
  <2>2. /\ UNCHANGED <<class, phase, done, specific, keyCount, initKeys, known, threadVars>>
        /\ listening' = FALSE /\ line' = <<>>
    BY <1>16 DEF Lose
  <2>3. line' \in Seq(Reports)
    BY <2>2
  <2> QED
    BY <1>2, <1>9, <2>1, <2>2, <2>3 DEF Types, threadVars
<1>17. CASE CloseIgnores
  <2>1. /\ dict' = [ents |-> dict'.ents, vals |-> dict'.vals, hears |-> dict'.hears,
                    listeners |-> dict'.listeners]
        /\ dict'.vals = dict.vals
    <3>1. CASE listening
      BY <1>17, <3>1, IgnoreEffect DEF CloseIgnores
    <3>2. CASE ~listening
      BY <1>17, <3>2 DEF CloseIgnores, Types
    <3> QED
      BY <3>1, <3>2
  <2>2. /\ UNCHANGED <<class, phase, done, line, specific, keyCount, initKeys, known, reader>>
        /\ listening' = FALSE /\ user' = "reset"
    BY <1>17 DEF CloseIgnores
  <2> QED
    BY <1>2, <1>9, <2>1, <2>2 DEF Types
<1>18. CASE ReaderCounts
  <2> DEFINE i == Head(line).key
  <2>1. /\ i \in DOMAIN Keys /\ NumberOf(i) = i /\ line /= <<>>
    BY <1>18, HeadReport DEF ReaderCounts
  <2>2. Counts(i) \in Nat
    BY <1>9, <2>1, CountOf DEF Types
  <2>3. /\ keyCount' = keyCount + Counts(i) /\ known' = known \cup (Keys[i].vars \ {EachTime})
        /\ initKeys' \in {InitKeysOf(class), initKeys}
        /\ specific' \in {"anyAttached", specific}
        /\ line' = Tail(line) /\ reader' = "test"
        /\ UNCHANGED <<class, dict, phase, done, listening, user>>
    BY <1>18, <2>1 DEF ReaderCounts, Binds
  <2>4. keyCount' \in Nat
    BY <1>9, <2>2, <2>3
  <2> QED
    BY <1>7, <1>9, <2>1, <2>3, <2>4
<1>19. CASE SetterWrites
  <2>1. EachTime \notin known'
    BY <1>19, <1>9, SettersDoNotCount DEF SetterWrites
  <2>2. UNCHANGED <<class, phase, done, dict, line, keyCount, initKeys, specific, listening,
                    reader, user>>
    BY <1>19 DEF SetterWrites, serviceVars
  <2> QED
    BY <1>7, <1>9, <2>1, <2>2
<1>20. CASE ReaderSkips
  BY <1>20, <1>7, <1>9
     DEF ReaderSkips, serviceVars, handleVars, threadVars
<1>21. CASE ReaderDetaches
  BY <1>21, <1>7, <1>9
     DEF ReaderDetaches, serviceVars, handleVars, threadVars
<1>22. CASE ReaderClears
  BY <1>22, <1>7, <1>9
     DEF ReaderClears, serviceVars, handleVars, threadVars
<1>23. CASE ReaderTests
  BY <1>23, <1>7, <1>9
     DEF ReaderTests, serviceVars, handleVars, threadVars
<1>24. CASE ReaderAttaches
  BY <1>24, <1>7, <1>9
     DEF ReaderAttaches, serviceVars, handleVars, threadVars
<1>25. CASE Open
  BY <1>25, <1>7, <1>9
     DEF Open, serviceVars, handleVars, threadVars
<1>26. CASE CloseStarts
  BY <1>26, <1>7, <1>9
     DEF CloseStarts, serviceVars, handleVars, threadVars
<1>27. CASE CloseClears
  BY <1>27, <1>7, <1>9
     DEF CloseClears, serviceVars, handleVars, threadVars
<1>28. CASE CloseResets
  BY <1>28, <1>7, <1>9
     DEF CloseResets, serviceVars, handleVars, threadVars
<1>29. CASE SetterTests
  BY <1>29, <1>7, <1>9
     DEF SetterTests, serviceVars, handleVars, threadVars
<1>30. CASE UNCHANGED vars
  BY <1>30, <1>7, <1>9
     DEF vars, serviceVars, handleVars, threadVars
<1>31. QED
  BY Zenon, <1>10, <1>11, <1>12, <1>13, <1>14, <1>15, <1>16, <1>17, <1>18,
     <1>19, <1>20, <1>21, <1>22, <1>23, <1>24, <1>25, <1>26, <1>27, <1>28,
     <1>29, <1>30
     DEF Next, Service, Reader, User, Setter

LEMMA ServiceStep ==
  ASSUME Devices = {1}, Types, ServiceInv, HandleInv,
         DictionaryIsSound, DictionaryIsSound', [Next]_vars
  PROVE  ServiceInv'
<1>1. class' = class
  BY ClassStays
<1>2. Keys' = Keys /\ Published' = Published /\ Withdrawn' = Withdrawn /\ StatusKey' = StatusKey
  BY <1>1, KeysStay
<1>3. /\ Len(Keys) \in Nat /\ Len(Keys) > 0 /\ DOMAIN Keys = 1..Len(Keys)
      /\ DOMAIN Keys \subseteq Values /\ Devices = {1} /\ StatusKey \in DOMAIN Keys
      /\ IsOrder(Published) /\ IsOrder(Withdrawn) /\ Withdrawn[Len(Keys)] = StatusKey
  BY KeysOfTheDevice, TheDevice, WithdrawnInOrder DEF Types
<1>4. ASSUME NEW s, IsOrder(s)
      PROVE  /\ \A j \in DOMAIN Keys : s[j] \in DOMAIN Keys
             /\ \A i, j \in DOMAIN Keys : s[i] = s[j] => i = j
             /\ \A k \in DOMAIN Keys : \E j \in DOMAIN Keys : s[j] = k
  <2> DEFINE S == DOMAIN Keys
  <2>1. s \in Seq(S) /\ Len(s) = Len(Keys)
    BY <1>4 DEF IsOrder
  <2>2. \A j \in 1..Len(s) : s[j] \in S
    <3> HIDE DEF S
    <3> QED
      BY <2>1
  <2> QED
    BY <1>3, <1>4, <2>1, <2>2 DEF IsOrder
<1>5. /\ phase \in [Devices -> {"absent", "adding", "present", "removing"}]
      /\ done[1] \in Nat /\ done \in [Devices -> Nat]
      /\ dict.vals \in [Values -> Told \cup {NoValue}]
      /\ "Attached" /= NoValue /\ "value" /= NoValue /\ "Detached" /= NoValue
  BY <1>3 DEF Types, NoValue
<1>6. ASSUME UNCHANGED <<class, phase, done, dict, listening>>
      PROVE  ServiceInv'
  BY <1>2, <1>6 DEF ServiceInv, Held
<1>7. ASSUME dict'.listeners = dict.listeners, listening' = listening
      PROVE  /\ listening' => dict'.listeners = Both(StatusKey, Len(Keys))
             /\ ~listening' => dict'.listeners = Alone(StatusKey)
  BY <1>7 DEF ServiceInv
<1>8. ASSUME \A k \in DOMAIN Keys :
                Held(k)' => (dict'.vals[k] = "Detached" <=> k = StatusKey /\ phase'[1] = "removing"),
             phase'[1] = "absent" => \A k \in DOMAIN Keys : ~Held(k)',
             phase'[1] = "present" => \A k \in DOMAIN Keys : Held(k)',
             phase'[1] = "adding" => /\ done'[1] < Len(Keys)
                                     /\ \A j \in DOMAIN Keys : dict'.vals[Published[j]] /= NoValue <=> j <= done'[1],
             phase'[1] = "removing" => /\ done'[1] < Len(Keys)
                                       /\ \A j \in DOMAIN Keys : dict'.vals[Withdrawn[j]] /= NoValue <=> j > done'[1],
             listening' => dict'.listeners = Both(StatusKey, Len(Keys)),
             ~listening' => dict'.listeners = Alone(StatusKey)
      PROVE  ServiceInv'
  BY <1>2, <1>8 DEF ServiceInv, Held
<1>9. ASSUME UNCHANGED <<class, phase, done>>, dict'.vals = dict.vals,
             listening' => dict'.listeners = Both(StatusKey, Len(Keys)),
             ~listening' => dict'.listeners = Alone(StatusKey)
      PROVE  ServiceInv'
  BY <1>2, <1>9 DEF ServiceInv, Held
<1>10. /\ \A j \in DOMAIN Keys : Published[j] \in DOMAIN Keys
       /\ \A i, j \in DOMAIN Keys : Published[i] = Published[j] => i = j
       /\ \A k \in DOMAIN Keys : \E j \in DOMAIN Keys : Published[j] = k
  BY <1>3, <1>4
<1>11. /\ \A j \in DOMAIN Keys : Withdrawn[j] \in DOMAIN Keys
       /\ \A i, j \in DOMAIN Keys : Withdrawn[i] = Withdrawn[j] => i = j
       /\ \A k \in DOMAIN Keys : \E j \in DOMAIN Keys : Withdrawn[j] = k
  BY <1>3, <1>4
<1>12. ASSUME NEW d \in Devices, Plug(d)
       PROVE  ServiceInv'
  <2>1. /\ d = 1 /\ phase[1] = "absent"
        /\ phase'[1] = "adding" /\ done'[1] = 0
        /\ UNCHANGED <<dict, listening>>
    BY <1>12, <1>3, <1>5 DEF Plug, handleVars
  <2>2. \A k \in DOMAIN Keys : ~Held(k)
    BY <2>1 DEF ServiceInv
  <2>3. \A j \in DOMAIN Keys : dict'.vals[Published[j]] = NoValue
    BY <1>3, <1>10, <2>1, <2>2 DEF Held
  <2> QED
    BY <1>3, <1>7, <1>8, <2>1, <2>2, <2>3 DEF Held
<1>13. ASSUME NEW d \in Devices, Publish(d)
       PROVE  ServiceInv'
  <2>1. PICK k \in DOMAIN Keys, v \in {"Attached", "value"} :
           /\ d = 1 /\ phase[1] = "adding" /\ ~Held(k) /\ k = Published[done[1] + 1]
           /\ dict'.vals = [dict.vals EXCEPT ![k] = v]
           /\ dict'.listeners = dict.listeners
    BY <1>13, PublishEffect
  <2>2. /\ done'[1] = done[1] + 1
        /\ phase'[1] = IF done[1] + 1 = Len(Keys) THEN "present" ELSE "adding"
        /\ listening' = listening
    BY <1>13, <1>3, <1>5, <2>1 DEF Publish, handleVars
  <2>3. done[1] + 1 \in DOMAIN Keys
    BY <1>3, <1>5, <2>1 DEF ServiceInv
  <2>4. \A j \in DOMAIN Keys : Held(Published[j]) <=> j <= done[1]
    BY <2>1 DEF ServiceInv
  <2>5. /\ \A j \in DOMAIN Keys : dict'.vals[j] = IF j = k THEN v ELSE dict.vals[j]
        /\ v /= NoValue /\ v /= "Detached"
    BY <1>3, <1>5, <2>1
  <2>6. \A j \in DOMAIN Keys : dict'.vals[Published[j]] /= NoValue <=> j <= done[1] + 1
    <3>1. ASSUME NEW j \in DOMAIN Keys
          PROVE  dict'.vals[Published[j]] /= NoValue <=> j = done[1] + 1 \/ Held(Published[j])
      BY <1>3, <1>10, <2>1, <2>3, <2>5 DEF Held
    <3>2. \A j \in DOMAIN Keys : j = done[1] + 1 \/ j <= done[1] <=> j <= done[1] + 1
      BY <1>3, <1>5
    <3> QED
      BY <2>4, <3>1, <3>2, Zenon
  <2>7. \A j \in DOMAIN Keys : Held(j)' => dict'.vals[j] /= "Detached"
    BY <2>1, <2>5 DEF Held, ServiceInv
  <2>8. phase'[1] = "present" => \A j \in DOMAIN Keys : Held(j)'
    <3>1. ASSUME done[1] + 1 = Len(Keys), NEW i \in DOMAIN Keys
          PROVE  dict'.vals[i] /= NoValue
      <4>1. PICK j \in DOMAIN Keys : Published[j] = i
        BY <1>10
      <4>2. j <= done[1] + 1
        BY <1>3, <3>1
      <4> QED
        BY <2>6, <4>1, <4>2
    <3> QED
      BY <2>2, <3>1 DEF Held
  <2>9. phase'[1] = "adding" => done'[1] < Len(Keys)
    BY <1>3, <2>2, <2>3
  <2> QED
    BY <1>7, <1>8, <2>1, <2>2, <2>6, <2>7, <2>8, <2>9
<1>14. ASSUME NEW d \in Devices, Change(d)
       PROVE  ServiceInv'
  <2>1. PICK k \in DOMAIN Keys :
           /\ d = 1 /\ phase[1] = "present" /\ Held(k)
           /\ dict'.vals = [dict.vals EXCEPT ![k] = "value"]
           /\ dict'.listeners = dict.listeners
    BY <1>14, ChangeEffect
  <2>2. UNCHANGED <<phase, done, listening>>
    BY <1>14 DEF Change, handleVars
  <2>3. \A j \in DOMAIN Keys : dict'.vals[j] = IF j = k THEN "value" ELSE dict.vals[j]
    BY <1>3, <1>5, <2>1
  <2>4. \A j \in DOMAIN Keys : Held(j)' /\ dict'.vals[j] /= "Detached"
    BY <1>5, <2>1, <2>3 DEF Held, ServiceInv
  <2> QED
    BY <1>7, <1>8, <2>1, <2>2, <2>4
<1>15. ASSUME NEW d \in Devices, Unplug(d)
       PROVE  ServiceInv'
  <2>1. /\ d = 1 /\ phase[1] = "present"
        /\ dict'.vals = [dict.vals EXCEPT ![StatusKey] = "Detached"]
        /\ dict'.listeners = dict.listeners
    BY <1>15, UnplugEffect
  <2>2. phase'[1] = "removing" /\ done'[1] = 0 /\ listening' = listening
    BY <1>15, <1>3, <1>5, <2>1 DEF Unplug, handleVars
  <2>3. \A j \in DOMAIN Keys :
           dict'.vals[j] = IF j = StatusKey THEN "Detached" ELSE dict.vals[j]
    BY <1>3, <1>5, <2>1
  <2>4. \A j \in DOMAIN Keys : Held(j)' /\ (dict'.vals[j] = "Detached" <=> j = StatusKey)
    BY <1>5, <2>1, <2>3 DEF Held, ServiceInv
  <2>5. \A j \in DOMAIN Keys : dict'.vals[Withdrawn[j]] /= NoValue /\ j > 0
    <3>1. \A j \in DOMAIN Keys : j > 0
      BY <1>3
    <3> QED
      BY <1>11, <2>4, <3>1 DEF Held
  <2> QED
    BY <1>3, <1>7, <1>8, <2>1, <2>2, <2>4, <2>5
<1>16. ASSUME NEW d \in Devices, Withdraw(d)
       PROVE  ServiceInv'
  <2>1. PICK k \in DOMAIN Keys :
           /\ d = 1 /\ phase[1] = "removing" /\ Held(k) /\ k = Withdrawn[done[1] + 1]
           /\ dict'.vals = [dict.vals EXCEPT ![k] = NoValue]
           /\ dict'.listeners = dict.listeners
    BY <1>16, WithdrawEffect
  <2>2. /\ done'[1] = done[1] + 1
        /\ phase'[1] = IF done[1] + 1 = Len(Keys) THEN "absent" ELSE "removing"
        /\ listening' = listening
    BY <1>16, <1>3, <1>5, <2>1 DEF Withdraw, handleVars
  <2>3. done[1] + 1 \in DOMAIN Keys
    BY <1>3, <1>5, <2>1 DEF ServiceInv
  <2>4. \A j \in DOMAIN Keys : Held(Withdrawn[j]) <=> j > done[1]
    BY <2>1 DEF ServiceInv
  <2>5. \A j \in DOMAIN Keys : dict'.vals[j] = IF j = k THEN NoValue ELSE dict.vals[j]
    BY <1>3, <1>5, <2>1
  <2>6. \A j \in DOMAIN Keys : dict'.vals[Withdrawn[j]] /= NoValue <=> j > done[1] + 1
    <3>1. ASSUME NEW j \in DOMAIN Keys
          PROVE  dict'.vals[Withdrawn[j]] /= NoValue <=> j /= done[1] + 1 /\ Held(Withdrawn[j])
      BY <1>3, <1>11, <2>1, <2>3, <2>5 DEF Held
    <3>2. \A j \in DOMAIN Keys : j /= done[1] + 1 /\ j > done[1] <=> j > done[1] + 1
      BY <1>3, <1>5
    <3> QED
      BY <2>4, <3>1, <3>2, Zenon
  <2>7. phase'[1] = "removing" =>
          \A j \in DOMAIN Keys : Held(j)' => (dict'.vals[j] = "Detached" <=> j = StatusKey)
    BY <2>1, <2>5 DEF Held, ServiceInv
  <2>8. phase'[1] = "absent" => \A j \in DOMAIN Keys : ~Held(j)'
    <3>1. ASSUME done[1] + 1 = Len(Keys), NEW i \in DOMAIN Keys
          PROVE  dict'.vals[i] = NoValue
      <4>1. PICK j \in DOMAIN Keys : Withdrawn[j] = i
        BY <1>11
      <4>2. ~(j > done[1] + 1)
        BY <1>3, <3>1
      <4> QED
        BY <2>6, <4>1, <4>2
    <3> QED
      BY <2>2, <3>1 DEF Held
  <2>9. phase'[1] = "removing" => done'[1] < Len(Keys)
    BY <1>3, <2>2, <2>3
  <2> QED
    BY <1>7, <1>8, <2>1, <2>2, <2>6, <2>7, <2>8, <2>9
<1>17. CASE Connect
  <2>1. dict'.vals = dict.vals /\ dict'.listeners = Both(StatusKey, Len(Keys))
    BY <1>17, ConnectEffect
  <2>2. UNCHANGED <<class, phase, done>> /\ listening' = TRUE
    BY <1>17 DEF Connect
  <2> QED
    BY <1>9, <2>1, <2>2
<1>18. CASE Lose
  <2>1. dict'.vals = dict.vals /\ dict'.listeners = Alone(StatusKey)
    BY <1>18, IgnoreEffect DEF Lose
  <2>2. UNCHANGED <<class, phase, done>> /\ listening' = FALSE
    BY <1>18 DEF Lose
  <2> QED
    BY <1>9, <2>1, <2>2
<1>19. CASE CloseIgnores
  <2>1. UNCHANGED <<class, phase, done>> /\ listening' = FALSE
    BY <1>19 DEF CloseIgnores
  <2>2. CASE listening
    <3>1. dict'.vals = dict.vals /\ dict'.listeners = Alone(StatusKey)
      BY <1>19, <2>2, IgnoreEffect DEF CloseIgnores
    <3> QED
      BY <1>9, <2>1, <3>1
  <2>3. CASE ~listening
    BY <1>19, <1>6, <2>1, <2>3 DEF CloseIgnores, Types
  <2> QED
    BY <2>2, <2>3
<1>20. CASE \/ ReaderSkips \/ ReaderCounts \/ ReaderDetaches \/ ReaderClears
            \/ ReaderTests \/ ReaderAttaches \/ Open \/ CloseStarts
            \/ CloseClears \/ CloseResets \/ SetterTests \/ SetterWrites
  BY <1>20, <1>6
     DEF ReaderSkips, ReaderCounts, ReaderDetaches, ReaderClears, ReaderTests,
         ReaderAttaches, Open, CloseStarts, CloseClears, CloseResets,
         SetterTests, SetterWrites, serviceVars, handleVars
<1>21. CASE UNCHANGED vars
  BY <1>21, <1>6
     DEF vars, serviceVars, handleVars
<1>22. QED
  BY Zenon, <1>12, <1>13, <1>14, <1>15, <1>16, <1>17, <1>18, <1>19, <1>20,
     <1>21
     DEF Next, Service, Reader, User, Setter

LEMMA HandleStep ==
  ASSUME Devices = {1}, Types, ServiceInv, HandleInv,
         DictionaryIsSound, DictionaryIsSound', [Next]_vars
  PROVE  HandleInv'
<1>1. line /= <<>> => DeviceOf(Head(line).key) = 1
  BY HeadReport
<1>2. ASSUME UNCHANGED <<handleVars, threadVars>>, ~listening => line' = line
      PROVE  HandleInv'
  BY <1>2 DEF HandleInv, handleVars, threadVars
<1>3. line /= <<>> => listening
  BY DEF HandleInv
<1>4. \A d \in Devices :
         Publish(d) \/ Change(d) \/ Unplug(d) \/ Withdraw(d) => (~listening => line' = line)
  BY PublishEffect, ChangeEffect, UnplugEffect, WithdrawEffect
<1>5. specific \in {"serial", "any", "anyAttached"}
      /\ user \in {"closed", "open", "unregister", "ignore", "reset"}
  BY DEF Types
<1>6. CASE ReaderCounts
  BY <1>6, <1>1, <1>3, <1>4, <1>5
     DEF ReaderCounts, Skips, Binds, HandleInv, handleVars, serviceVars,
         threadVars
<1>7. CASE ReaderSkips
  BY <1>7, <1>1, <1>3, <1>4, <1>5
     DEF ReaderSkips, HandleInv, handleVars, serviceVars, threadVars
<1>8. CASE ReaderDetaches
  BY <1>8, <1>1, <1>3, <1>4, <1>5
     DEF ReaderDetaches, HandleInv, serviceVars, handleVars, threadVars
<1>9. CASE ReaderClears
  BY <1>9, <1>1, <1>3, <1>4, <1>5
     DEF ReaderClears, HandleInv, serviceVars, handleVars, threadVars
<1>10. CASE ReaderTests
  BY <1>10, <1>1, <1>3, <1>4, <1>5
     DEF ReaderTests, HandleInv, serviceVars, handleVars, threadVars
<1>11. CASE ReaderAttaches
  BY <1>11, <1>1, <1>3, <1>4, <1>5
     DEF ReaderAttaches, HandleInv, serviceVars, handleVars, threadVars
<1>12. CASE Lose
  BY <1>12, <1>1, <1>3, <1>4, <1>5
     DEF Lose, HandleInv, serviceVars, handleVars, threadVars
<1>13. CASE Open
  BY <1>13, <1>1, <1>3, <1>4, <1>5
     DEF Open, HandleInv, serviceVars, handleVars, threadVars
<1>14. CASE Connect
  BY <1>14, <1>1, <1>3, <1>4, <1>5
     DEF Connect, HandleInv, serviceVars, handleVars, threadVars
<1>15. CASE CloseStarts
  BY <1>15, <1>1, <1>3, <1>4, <1>5
     DEF CloseStarts, HandleInv, serviceVars, handleVars, threadVars
<1>16. CASE CloseClears
  BY <1>16, <1>1, <1>3, <1>4, <1>5
     DEF CloseClears, HandleInv, serviceVars, handleVars, threadVars
<1>17. CASE CloseIgnores
  BY <1>17, <1>1, <1>3, <1>4, <1>5
     DEF CloseIgnores, HandleInv, serviceVars, handleVars, threadVars
<1>18. CASE CloseResets
  BY <1>18, <1>1, <1>3, <1>4, <1>5
     DEF CloseResets, HandleInv, serviceVars, handleVars, threadVars
<1>19. ASSUME NEW d \in Devices, Plug(d)
       PROVE  HandleInv'
  BY <1>19, <1>2, <1>1, <1>3, <1>4, <1>5
     DEF Plug, HandleInv, serviceVars, handleVars, threadVars
<1>20. ASSUME NEW d \in Devices,
              \/ Publish(d) \/ Change(d) \/ Unplug(d) \/ Withdraw(d)
       PROVE  HandleInv'
  BY <1>20, <1>2, <1>1, <1>3, <1>4, <1>5
     DEF Publish, Change, Unplug, Withdraw, HandleInv, serviceVars,
         handleVars, threadVars
<1>21. CASE \/ SetterTests \/ SetterWrites
  BY <1>21, <1>1, <1>3, <1>4, <1>5
     DEF SetterTests, SetterWrites, HandleInv, serviceVars, handleVars,
         threadVars
<1>22. CASE UNCHANGED vars
  BY <1>22, <1>1, <1>3, <1>4, <1>5
     DEF vars, HandleInv, serviceVars, handleVars, threadVars
<1>23. QED
  BY Zenon, <1>6, <1>7, <1>8, <1>9, <1>10, <1>11, <1>12, <1>13, <1>14, <1>15,
     <1>16, <1>17, <1>18, <1>19, <1>20, <1>21, <1>22
     DEF Next, Service, Reader, User, Setter

LEMMA ZeroStep ==
  ASSUME Types, HandleInv, ZeroInv, [Next]_vars
  PROVE  ZeroInv'
<1>1. line /= <<>> => listening
  BY DEF HandleInv
<1>2. ASSUME UNCHANGED <<handleVars, threadVars, historyVars>>
      PROVE  ZeroInv'
  BY <1>2 DEF ZeroInv, handleVars, threadVars, historyVars
<1>3. CASE ReaderCounts
  BY <1>3, <1>1
     DEF ReaderCounts, Skips, Binds, HandleInv, ZeroInv, serviceVars,
         handleVars, threadVars, historyVars
<1>4. CASE ReaderSkips
  BY <1>4, <1>1
     DEF ReaderSkips, HandleInv, ZeroInv, serviceVars, handleVars, threadVars,
         historyVars
<1>5. CASE ReaderDetaches
  BY <1>5, <1>1
     DEF ReaderDetaches, HandleInv, ZeroInv, serviceVars, handleVars,
         threadVars, historyVars
<1>6. CASE ReaderClears
  BY <1>6, <1>1
     DEF ReaderClears, HandleInv, ZeroInv, serviceVars, handleVars,
         threadVars, historyVars
<1>7. CASE ReaderTests
  BY <1>7, <1>1
     DEF ReaderTests, HandleInv, ZeroInv, serviceVars, handleVars, threadVars,
         historyVars
<1>8. CASE ReaderAttaches
  BY <1>8, <1>1
     DEF ReaderAttaches, HandleInv, ZeroInv, serviceVars, handleVars,
         threadVars, historyVars
<1>9. CASE Lose
  BY <1>9, <1>1
     DEF Lose, HandleInv, ZeroInv, serviceVars, handleVars, threadVars,
         historyVars
<1>10. CASE Open
  BY <1>10, <1>1
     DEF Open, HandleInv, ZeroInv, serviceVars, handleVars, threadVars,
         historyVars
<1>11. CASE Connect
  BY <1>11, <1>1
     DEF Connect, HandleInv, ZeroInv, serviceVars, handleVars, threadVars,
         historyVars
<1>12. CASE CloseStarts
  BY <1>12, <1>1
     DEF CloseStarts, HandleInv, ZeroInv, serviceVars, handleVars, threadVars,
         historyVars
<1>13. CASE CloseClears
  BY <1>13, <1>1
     DEF CloseClears, HandleInv, ZeroInv, serviceVars, handleVars, threadVars,
         historyVars
<1>14. CASE CloseIgnores
  BY <1>14, <1>1
     DEF CloseIgnores, HandleInv, ZeroInv, serviceVars, handleVars,
         threadVars, historyVars
<1>15. CASE CloseResets
  BY <1>15, <1>1
     DEF CloseResets, HandleInv, ZeroInv, serviceVars, handleVars, threadVars,
         historyVars
<1>16. ASSUME NEW d \in Devices,
              \/ Plug(d) \/ Publish(d) \/ Change(d) \/ Unplug(d)
              \/ Withdraw(d)
       PROVE  ZeroInv'
  BY <1>16, <1>2, <1>1
     DEF Plug, Publish, Change, Unplug, Withdraw
<1>17. CASE \/ SetterTests \/ SetterWrites
  BY <1>17, <1>1
     DEF SetterTests, SetterWrites, HandleInv, ZeroInv, serviceVars,
         handleVars, threadVars, historyVars
<1>18. CASE UNCHANGED vars
  BY <1>18, <1>1
     DEF vars, HandleInv, ZeroInv, serviceVars, handleVars, threadVars,
         historyVars
<1>19. QED
  BY Zenon, <1>3, <1>4, <1>5, <1>6, <1>7, <1>8, <1>9, <1>10, <1>11, <1>12,
     <1>13, <1>14, <1>15, <1>16, <1>17, <1>18
     DEF Next, Service, Reader, User, Setter

\* Steps that leave the line alone.
LEMMA LineKept ==
  ASSUME class' = class, line' = line, dict'.vals = dict.vals,
         phase[1] = "removing" => phase'[1] = "removing",
         phase'[1] \in {"adding", "present"} =>
            phase[1] \in {"adding", "present"} \/ \A k \in DOMAIN Keys : ~Held(k),
         \A v \in known : reader /= "clear" => v \in known' /\ reader' /= "clear",
         "connected" \in status' => "connected" \in status,
         LineInv
  PROVE  LineInv'
<1>1. Keys' = Keys
  BY KeysStay
<1>2. ASSUME NEW v, NEW h, Had(v, h)
      PROVE  Had(v, h)'
  BY <1>1, <1>2 DEF Had
<1>3. SUFFICES ASSUME "connected" \in status'
               PROVE  /\ ComesOnce(line)
                      /\ \A k \in DOMAIN Keys :
                            Comes(line, k, After(line)) => Held(k)' \/ phase'[1] = "removing"
                      /\ \A h \in DOMAIN line :
                            IsChange(line[h]) => \A v \in CountedVars(class) : Had(v, h)'
                      /\ phase'[1] \in {"adding", "present"} =>
                            \A k \in DOMAIN Keys : Held(k)' =>
                               \A v \in Keys[k].vars \ {EachTime} : Had(v, After(line))'
  BY <1>1 DEF LineInv
<1>4. /\ ComesOnce(line)
      /\ \A k \in DOMAIN Keys : Comes(line, k, After(line)) => Held(k) \/ phase[1] = "removing"
      /\ \A h \in DOMAIN line : IsChange(line[h]) => \A v \in CountedVars(class) : Had(v, h)
      /\ phase[1] \in {"adding", "present"} =>
            \A k \in DOMAIN Keys : Held(k) =>
               \A v \in Keys[k].vars \ {EachTime} : Had(v, After(line))
  BY <1>3 DEF LineInv
<1>5. \A k : Held(k)' <=> Held(k)
  BY DEF Held
<1>6. \A v : Had(v, After(line)) => Had(v, After(line))'
  BY <1>1 DEF Had
<1> QED
  BY <1>2, <1>4, <1>5, <1>6

\* The handler takes the first report.
LEMMA LineTaken ==
  ASSUME Types, Devices = {1},
         class' = class, line /= <<>>, line' = Tail(line), dict'.vals = dict.vals,
         phase' = phase, known \subseteq known',
         ~Ends(Head(line)) => reader' /= "clear",
         IsFirst(Head(line)) => Keys[Head(line).key].vars \ {EachTime} \subseteq known',
         "connected" \in status' => "connected" \in status,
         LineInv
  PROVE  LineInv'
<1> DEFINE x == Head(line)
           t == Tail(line)
<1>1. Keys' = Keys
  BY KeysStay
<1>2. /\ After(line) = After(t) + 1 /\ After(t) \in Nat /\ After(t) > 0
      /\ \A h \in DOMAIN t : h \in Nat /\ h > 0 /\ h + 1 \in DOMAIN line /\ t[h] = line[h + 1]
  BY DEF After, Types
<1>3. line \in Seq(Reports)
  BY DEF Types
<1>4. /\ \A j \in Nat : j > 0 => (NoEnd(line, 0, j + 1) <=> ~Ends(x) /\ NoEnd(t, 0, j))
      /\ \A k : \A h \in Nat : Comes(t, k, h) => Comes(line, k, h + 1)
      /\ \A k : \A h \in Nat : Comes(line, k, h + 1) =>
            Comes(t, k, h) \/ (IsFirst(x) /\ x.key = k /\ NoEnd(t, 0, h))
  <2> DEFINE S == Reports
  <2>1. line \in Seq(S)
    BY <1>3
  <2> HIDE DEF S
  <2> QED
    BY <2>1, TakenReport
<1> HIDE DEF x, t
<1>5. ASSUME NEW v, v /= EachTime, NEW h \in Nat, h > 0, Had(v, h + 1)
      PROVE  /\ v \in known' /\ reader' /= "clear" /\ NoEnd(t, 0, h)
             \/ \E k \in DOMAIN Keys : v \in Keys[k].vars /\ Comes(t, k, h)
  <2>1. CASE v \in known /\ NoEnd(line, 0, h + 1)
    BY <1>4, <1>5, <2>1 DEF x
  <2>2. CASE \E k \in DOMAIN Keys : v \in Keys[k].vars /\ Comes(line, k, h + 1)
    <3>1. PICK k \in DOMAIN Keys : v \in Keys[k].vars /\ Comes(line, k, h + 1)
      BY <2>2
    <3>2. CASE Comes(t, k, h)
      BY <3>1, <3>2
    <3>3. CASE IsFirst(x) /\ x.key = k /\ NoEnd(t, 0, h)
      BY <1>5, <3>1, <3>3 DEF x, IsFirst
    <3> QED
      BY <1>4, <1>5, <3>1, <3>2, <3>3
  <2> QED
    BY <1>5, <2>1, <2>2 DEF Had
<1>6. ASSUME NEW v, v /= EachTime, NEW h \in Nat, h > 0, Had(v, h + 1)
      PROVE  Had(v, h)'
  BY <1>1, <1>5, <1>6 DEF Had, t
<1>7. SUFFICES ASSUME "connected" \in status'
               PROVE  /\ ComesOnce(t)
                      /\ \A k \in DOMAIN Keys :
                            Comes(t, k, After(t)) => Held(k)' \/ phase'[1] = "removing"
                      /\ \A h \in DOMAIN t :
                            IsChange(t[h]) => \A v \in CountedVars(class) : Had(v, h)'
                      /\ phase'[1] \in {"adding", "present"} =>
                            \A k \in DOMAIN Keys : Held(k)' =>
                               \A v \in Keys[k].vars \ {EachTime} : Had(v, After(line))'
  BY <1>1 DEF LineInv, t
<1>8. /\ ComesOnce(line)
      /\ \A k \in DOMAIN Keys : Comes(line, k, After(line)) => Held(k) \/ phase[1] = "removing"
      /\ \A h \in DOMAIN line : IsChange(line[h]) => \A v \in CountedVars(class) : Had(v, h)
      /\ phase[1] \in {"adding", "present"} =>
            \A k \in DOMAIN Keys : Held(k) =>
               \A v \in Keys[k].vars \ {EachTime} : Had(v, After(line))
  BY <1>7 DEF LineInv
<1>9. \A k : Held(k)' <=> Held(k)
  BY DEF Held
<1>10. ComesOnce(t)
  BY <1>2, <1>4, <1>8 DEF ComesOnce
<1>11. \A k \in DOMAIN Keys :
          Comes(t, k, After(t)) => Held(k)' \/ phase'[1] = "removing"
  BY <1>2, <1>4, <1>8, <1>9
<1>12. EachTime \notin CountedVars(class)
  BY KeysOfTheDevice DEF Types
<1>13. \A h \in DOMAIN t : IsChange(t[h]) => \A v \in CountedVars(class) : Had(v, h)'
  BY <1>2, <1>6, <1>8, <1>12
<1>14. ASSUME phase'[1] \in {"adding", "present"}, NEW k \in DOMAIN Keys, Held(k)',
              NEW v \in Keys[k].vars \ {EachTime}
       PROVE  Had(v, After(line))'
  <2>1. Had(v, After(t) + 1)
    BY <1>2, <1>8, <1>9, <1>14
  <2>2. \/ v \in known' /\ reader' /= "clear" /\ NoEnd(t, 0, After(t))
        \/ \E j \in DOMAIN Keys : v \in Keys[j].vars /\ Comes(t, j, After(t))
    BY <1>2, <1>5, <1>14, <2>1
  <2> QED
    BY <1>1, <2>2 DEF Had, t
<1> QED
  BY <1>10, <1>11, <1>13, <1>14

\* The service sends a report.
LEMMA LineAppended ==
  ASSUME Types, ServiceInv, LineInv, "connected" \in status, class' = class,
         UNCHANGED <<known, reader>>, NEW r \in Reports, line' = Append(line, r),
         phase[1] = "removing" => phase'[1] = "removing" \/ Ends(r),
         ~Ends(r) => \A k \in DOMAIN Keys : Held(k) => Held(k)' \/ phase'[1] = "removing",
         IsFirst(r) => ~Held(r.key) /\ phase[1] /= "removing" /\ Held(r.key)',
         IsChange(r) => phase[1] = "present",
         phase'[1] \in {"adding", "present"} =>
            /\ phase[1] \in {"adding", "present"} /\ ~Ends(r)
            /\ \A k \in DOMAIN Keys : Held(k)' => Held(k) \/ (IsFirst(r) /\ k = r.key)
  PROVE  LineInv'
<1> DEFINE m == Append(line, r)
<1>1. Keys' = Keys
  BY KeysStay
<1>2. /\ \A i, j \in Nat : j <= After(line) => (NoEnd(m, i, j) <=> NoEnd(line, i, j))
      /\ \A k : \A h \in Nat : h <= After(line) => (Comes(m, k, h) <=> Comes(line, k, h))
      /\ \A i \in Nat : i < After(line) =>
            (NoEnd(m, i, After(m)) <=> NoEnd(line, i, After(line)) /\ ~Ends(r))
      /\ \A k : Comes(m, k, After(m)) <=>
            /\ ~Ends(r)
            /\ Comes(line, k, After(line)) \/ (IsFirst(r) /\ r.key = k)
  <2> DEFINE S == Reports
  <2>1. line \in Seq(S) /\ r \in S
    BY DEF Types
  <2> HIDE DEF S
  <2> QED
    BY <2>1, AppendedReport
<1>3. /\ After(line) \in Nat /\ After(line) > 0
      /\ \A h \in DOMAIN line : h \in Nat /\ h < After(line) /\ m[h] = line[h]
      /\ \A h \in DOMAIN m : h \in DOMAIN line \/ h = After(line)
      /\ m[After(line)] = r /\ After(line) \in DOMAIN m
  <2> DEFINE S == Reports
  <2>1. line \in Seq(S) /\ r \in S
    BY DEF Types
  <2> HIDE DEF S
  <2> QED
    BY <2>1 DEF After
<1> HIDE DEF m
<1>4. line' = m
  BY DEF m
<1>5. /\ ComesOnce(line)
      /\ \A k \in DOMAIN Keys : Comes(line, k, After(line)) => Held(k) \/ phase[1] = "removing"
      /\ \A h \in DOMAIN line : IsChange(line[h]) => \A v \in CountedVars(class) : Had(v, h)
      /\ phase[1] \in {"adding", "present"} =>
            \A k \in DOMAIN Keys : Held(k) =>
               \A v \in Keys[k].vars \ {EachTime} : Had(v, After(line))
  BY DEF LineInv
<1>6. ASSUME NEW v, NEW h \in Nat, h <= After(line), Had(v, h)
      PROVE  Had(v, h)'
  <2>1. /\ NoEnd(m, 0, h) <=> NoEnd(line, 0, h)
        /\ \A k : Comes(m, k, h) <=> Comes(line, k, h)
    BY <1>2, <1>6
  <2> QED
    BY <1>1, <1>4, <1>6, <2>1 DEF Had
<1>7. r.key \in DOMAIN Keys
  BY DEF Reports
<1>8. ComesOnce(m)
  <2>1. ASSUME NEW h \in DOMAIN m, IsFirst(m[h])
        PROVE  ~Comes(m, m[h].key, h)
    <3>1. CASE h \in DOMAIN line
      BY <1>2, <1>3, <1>5, <2>1, <3>1 DEF ComesOnce
    <3>2. CASE h = After(line)
      <4>1. ~Comes(line, r.key, After(line))
        BY <1>3, <1>5, <1>7, <2>1, <3>2
      <4> QED
        BY <1>2, <1>3, <3>2, <4>1
    <3> QED
      BY <1>3, <3>1, <3>2
  <2> QED
    BY <2>1 DEF ComesOnce
<1>9. ASSUME NEW k \in DOMAIN Keys, Comes(m, k, After(m))
      PROVE  Held(k)' \/ phase'[1] = "removing"
  <2>1. ~Ends(r) /\ (Comes(line, k, After(line)) \/ (IsFirst(r) /\ r.key = k))
    BY <1>2, <1>9
  <2> QED
    BY <1>5, <2>1
<1>10. ASSUME NEW h \in DOMAIN m, IsChange(m[h]), NEW v \in CountedVars(class)
       PROVE  Had(v, h)'
  <2>1. CASE h \in DOMAIN line
    BY <1>3, <1>5, <1>6, <1>10, <2>1
  <2>2. CASE h = After(line)
    <3>1. phase[1] = "present"
      BY <1>3, <1>10, <2>2
    <3>2. PICK k \in DOMAIN Keys : v \in Keys[k].vars \ {EachTime}
      BY KeysOfTheDevice DEF Types
    <3>3. Held(k)
      BY <3>1 DEF ServiceInv
    <3>4. Had(v, After(line))
      BY <1>5, <3>1, <3>2, <3>3
    <3>5. After(line) <= After(line)
      BY <1>3
    <3> QED
      BY <1>3, <1>6, <2>2, <3>4, <3>5
  <2> QED
    BY <1>3, <2>1, <2>2
<1>11. ASSUME phase'[1] \in {"adding", "present"}, NEW k \in DOMAIN Keys, Held(k)',
              NEW v \in Keys[k].vars \ {EachTime}
       PROVE  \/ v \in known /\ reader /= "clear" /\ NoEnd(m, 0, After(m))
              \/ \E j \in DOMAIN Keys : v \in Keys[j].vars /\ Comes(m, j, After(m))
  <2>1. ~Ends(r) /\ (Held(k) \/ (IsFirst(r) /\ k = r.key))
    BY <1>11
  <2>2. CASE Held(k)
    <3>1. Had(v, After(line))
      BY <1>5, <1>11, <2>2
    <3>2. \/ v \in known /\ reader /= "clear" /\ NoEnd(line, 0, After(line))
          \/ \E j \in DOMAIN Keys : v \in Keys[j].vars /\ Comes(line, j, After(line))
      BY <3>1 DEF Had
    <3>3. NoEnd(line, 0, After(line)) => NoEnd(m, 0, After(m))
      BY <1>2, <1>3, <2>1
    <3> QED
      BY <1>2, <2>1, <3>2, <3>3
  <2>3. CASE IsFirst(r) /\ k = r.key
    BY <1>2, <1>11, <2>1, <2>3
  <2> QED
    BY <2>1, <2>2, <2>3
<1>12. phase'[1] \in {"adding", "present"} =>
          \A k \in DOMAIN Keys : Held(k)' =>
             \A v \in Keys[k].vars \ {EachTime} : Had(v, After(line))'
  BY <1>1, <1>4, <1>11 DEF Had
<1> QED
  BY <1>1, <1>4, <1>8, <1>9, <1>10, <1>12 DEF LineInv

\* A handle that connects is told of every key that is there.
LEMMA LineStarts ==
  ASSUME Types, ServiceInv, HandleInv, Devices = {1},
         DictionaryIsSound, Connect
  PROVE  LineInv'
<1> DEFINE m == line'
<1>1. Keys' = Keys /\ class' = class /\ phase' = phase
  BY KeysStay DEF Connect
<1>2. /\ dict'.vals = dict.vals /\ m \in Seq(Reports)
      /\ \A j \in DOMAIN m :
            /\ m[j].key \in DOMAIN Keys /\ Held(m[j].key)
            /\ m[j].val = dict.vals[m[j].key] /\ m[j].reason = "current"
      /\ \A k \in DOMAIN Keys : Held(k) => \E j \in DOMAIN m : m[j].key = k
      /\ \A i, j \in DOMAIN m : m[i].key = m[j].key => i = j
  BY ConnectEffect
<1> HIDE DEF m
<1>3. After(m) \in Nat /\ \A h \in DOMAIN m : h \in Nat /\ h < After(m)
  <2> DEFINE S == Reports
  <2>1. m \in Seq(S)
    BY <1>2
  <2> HIDE DEF S
  <2> QED
    BY <2>1 DEF After
<1>4. \A k : Held(k)' <=> Held(k)
  BY <1>2 DEF Held
<1>5. ComesOnce(m)
  <2>1. ASSUME NEW h \in DOMAIN m, Comes(m, m[h].key, h)
        PROVE  FALSE
    <3>1. PICK j \in DOMAIN m : j < h /\ m[j].key = m[h].key
      BY <2>1 DEF Comes
    <3> QED
      BY <1>2, <1>3, <3>1
  <2> QED
    BY <2>1 DEF ComesOnce
<1>6. \A k \in DOMAIN Keys : Comes(m, k, After(m)) => Held(k)'
  BY <1>2, <1>4 DEF Comes
<1>7. \A h \in DOMAIN m : ~IsChange(m[h])
  BY <1>2 DEF IsChange
<1>8. ASSUME phase[1] \in {"adding", "present"}, NEW k \in DOMAIN Keys, Held(k)
      PROVE  Comes(m, k, After(m))
  <2>1. PICK j \in DOMAIN m : m[j].key = k
    BY <1>2, <1>8
  <2>2. \A h \in DOMAIN m : ~Ends(m[h])
    <3>1. \A i \in DOMAIN Keys : Held(i) => dict.vals[i] /= "Detached"
      BY <1>8 DEF ServiceInv
    <3> QED
      BY <1>2, <3>1 DEF Ends
  <2>3. IsFirst(m[j])
    BY <1>2, <2>2 DEF IsFirst
  <2>4. NoEnd(m, j, After(m))
    BY <2>2 DEF NoEnd
  <2> QED
    BY <1>3, <2>1, <2>3, <2>4 DEF Comes
<1>9. phase'[1] \in {"adding", "present"} =>
         \A k \in DOMAIN Keys : Held(k)' =>
            \A v \in Keys[k].vars \ {EachTime} : Had(v, After(line))'
  BY <1>1, <1>4, <1>8 DEF Had, m
<1> QED
  BY <1>1, <1>5, <1>6, <1>7, <1>9 DEF LineInv, m

LEMMA LineStep ==
  ASSUME Devices = {1}, Types, ServiceInv, HandleInv, LineInv,
         DictionaryIsSound, DictionaryIsSound', [Next]_vars
  PROVE  LineInv'
<1>1. class' = class
  BY ClassStays
<1>2. ASSUME "connected" \notin status'
      PROVE  LineInv'
  BY <1>2 DEF LineInv
<1>3. /\ phase \in [Devices -> {"absent", "adding", "present", "removing"}]
      /\ dict.vals \in [Values -> Told \cup {NoValue}]
      /\ done[1] \in Nat /\ done \in [Devices -> Nat]
      /\ Devices = {1} /\ DOMAIN Keys \subseteq Values
      /\ "Attached" /= NoValue /\ "value" /= NoValue /\ "Detached" /= NoValue
  BY TheDevice DEF Types, NoValue
<1>4. \A k \in DOMAIN Keys : \A v \in Told :
         \A why \in {"added", "changed", "removing", "current"} :
            LET r == Report(k, v, why)
            IN /\ r \in Reports /\ r.key = k
               /\ Ends(r) <=> v = "Detached"
               /\ IsFirst(r) <=> why \in {"added", "current"} /\ v /= "Detached"
               /\ IsChange(r) <=> why = "changed" /\ v /= "Detached"
  BY DEF Report, Reports, Ends, IsFirst, IsChange
<1>5. "connected" \in status => user = "open" /\ listening
  BY DEF HandleInv
<1>6. ASSUME class' = class, line' = line, dict' = dict, phase' = phase,
             \A v \in known : reader /= "clear" => v \in known' /\ reader' /= "clear",
             "connected" \in status' => "connected" \in status
      PROVE  LineInv'
  BY <1>6, LineKept, Zenon
<1>7. ASSUME NEW d \in Devices, Plug(d)
      PROVE  LineInv'
  <2>1. /\ phase[1] = "absent" /\ phase'[1] = "adding"
        /\ UNCHANGED <<class, dict, line, known, status, reader>>
    BY <1>7, <1>3 DEF Plug, handleVars, threadVars
  <2>2. \A k \in DOMAIN Keys : ~Held(k)
    BY <2>1 DEF ServiceInv
  <2> QED
    BY <2>1, <2>2, LineKept
<1>8. ASSUME NEW d \in Devices, Publish(d)
      PROVE  LineInv'
  <2>1. PICK k \in DOMAIN Keys, v \in {"Attached", "value"} :
           /\ d = 1 /\ phase[1] = "adding" /\ ~Held(k)
           /\ dict'.vals = [dict.vals EXCEPT ![k] = v]
           /\ line' = IF listening THEN Append(line, Report(k, v, "added")) ELSE line
    BY <1>8, PublishEffect
  <2>2. /\ phase'[1] \in {"adding", "present"} /\ UNCHANGED <<class, known, status, reader>>
    BY <1>8, <1>3, <2>1 DEF Publish, handleVars, threadVars
  <2> DEFINE r == Report(k, v, "added")
  <2>3. /\ r \in Reports /\ r.key = k /\ ~Ends(r) /\ IsFirst(r) /\ ~IsChange(r)
    BY <1>4, <2>1 DEF Told
  <2>4. \A j \in DOMAIN Keys : Held(j)' <=> Held(j) \/ j = k
    BY <1>3, <2>1 DEF Held
  <2>5. SUFFICES ASSUME "connected" \in status
                 PROVE  LineInv'
    BY <1>2, <2>2
  <2>6. line' = Append(line, r)
    BY <1>5, <2>1, <2>5
  <2> HIDE DEF r
  <2> QED
    BY <2>1, <2>2, <2>3, <2>4, <2>5, <2>6, LineAppended
<1>9. ASSUME NEW d \in Devices, Change(d)
      PROVE  LineInv'
  <2>1. PICK k \in DOMAIN Keys :
           /\ d = 1 /\ phase[1] = "present" /\ Held(k)
           /\ dict'.vals = [dict.vals EXCEPT ![k] = "value"]
           /\ line' = IF listening THEN Append(line, Report(k, "value", "changed")) ELSE line
    BY <1>9, ChangeEffect
  <2>2. UNCHANGED <<class, phase, known, status, reader>>
    BY <1>9 DEF Change, handleVars, threadVars
  <2> DEFINE r == Report(k, "value", "changed")
  <2>3. /\ r \in Reports /\ r.key = k /\ ~Ends(r) /\ ~IsFirst(r)
    BY <1>4, <2>1 DEF Told
  <2>4. \A j \in DOMAIN Keys : Held(j)' <=> Held(j)
    BY <1>3, <2>1 DEF Held
  <2>5. SUFFICES ASSUME "connected" \in status
                 PROVE  LineInv'
    BY <1>2, <2>2
  <2>6. line' = Append(line, r)
    BY <1>5, <2>1, <2>5
  <2> HIDE DEF r
  <2> QED
    BY <2>1, <2>2, <2>3, <2>4, <2>5, <2>6, LineAppended
<1>10. ASSUME NEW d \in Devices, Unplug(d)
       PROVE  LineInv'
  <2>1. /\ d = 1 /\ phase[1] = "present" /\ StatusKey \in DOMAIN Keys
        /\ line' = IF listening THEN Append(line, Report(StatusKey, "Detached", "changed"))
                   ELSE line
    BY <1>10, UnplugEffect
  <2>2. phase'[1] = "removing" /\ UNCHANGED <<class, known, status, reader>>
    BY <1>10, <1>3, <2>1 DEF Unplug, handleVars, threadVars
  <2> DEFINE r == Report(StatusKey, "Detached", "changed")
  <2>3. r \in Reports /\ Ends(r) /\ ~IsFirst(r) /\ ~IsChange(r)
    BY <1>4, <2>1 DEF Told
  <2>4. SUFFICES ASSUME "connected" \in status
                 PROVE  LineInv'
    BY <1>2, <2>2
  <2>5. line' = Append(line, r)
    BY <1>5, <2>1, <2>4
  <2> HIDE DEF r
  <2> QED
    BY <2>1, <2>2, <2>3, <2>4, <2>5, LineAppended
<1>11. ASSUME NEW d \in Devices, Withdraw(d)
       PROVE  LineInv'
  <2>1. PICK k \in DOMAIN Keys :
           /\ d = 1 /\ phase[1] = "removing" /\ Held(k)
           /\ done[1] + 1 = Len(Keys) => dict.vals[k] = "Detached"
           /\ line' = IF listening
                      THEN Append(line, Report(k, dict.vals[k], "removing")) ELSE line
    BY <1>11, WithdrawEffect
  <2>2. /\ phase'[1] = IF done[1] + 1 = Len(Keys) THEN "absent" ELSE "removing"
        /\ UNCHANGED <<class, known, status, reader>>
    BY <1>11, <1>3, <2>1 DEF Withdraw, handleVars, threadVars
  <2> DEFINE r == Report(k, dict.vals[k], "removing")
  <2>3. dict.vals[k] \in Told
    BY <1>3, <2>1 DEF Held
  <2>4. /\ r \in Reports /\ ~IsFirst(r) /\ ~IsChange(r)
        /\ phase'[1] = "removing" \/ Ends(r)
    BY <1>4, <2>1, <2>2, <2>3
  <2>5. SUFFICES ASSUME "connected" \in status
                 PROVE  LineInv'
    BY <1>2, <2>2
  <2>6. line' = Append(line, r)
    BY <1>5, <2>1, <2>5
  <2>7. phase'[1] \notin {"adding", "present"}
    BY <2>2
  <2> HIDE DEF r
  <2> QED
    BY <2>2, <2>4, <2>5, <2>6, <2>7, LineAppended
<1>12. CASE Connect
  <2> QED
    BY <1>12, LineStarts
<1>13. CASE ReaderSkips
  <2>1. /\ line /= <<>> /\ line' = Tail(line) /\ reader = "idle"
        /\ UNCHANGED <<class, dict, phase, known, status, reader>>
        /\ Skips(Head(line), DeviceOf(Head(line).key))
    BY <1>13 DEF ReaderSkips, handleVars, threadVars
  <2>2. SUFFICES ASSUME "connected" \in status
                 PROVE  LineInv'
    BY <1>2, <2>1
  <2>3. ~IsFirst(Head(line))
    <3>1. DeviceOf(Head(line).key) = 1
      BY <2>1, HeadReport
    <3> QED
      BY <1>5, <2>1, <2>2, <3>1 DEF Skips, HandleInv, IsFirst, Ends
  <2> QED
    BY <2>1, <2>3, LineTaken
<1>14. CASE ReaderCounts
  <2>1. /\ line /= <<>> /\ line' = Tail(line) /\ reader' = "test"
        /\ UNCHANGED <<class, dict, phase, status>>
        /\ known' = known \cup (Keys[NumberOf(Head(line).key)].vars \ {EachTime})
    BY <1>14 DEF ReaderCounts
  <2>2. NumberOf(Head(line).key) = Head(line).key
    BY <2>1, HeadReport
  <2> QED
    BY <2>1, <2>2, LineTaken
<1>15. CASE ReaderDetaches
  <2>1. /\ line /= <<>> /\ line' = Tail(line) /\ Head(line).val = "Detached"
        /\ UNCHANGED <<class, dict, phase, known>> /\ status' = status \ {"attached"}
    BY <1>15 DEF ReaderDetaches
  <2>2. Ends(Head(line)) /\ ~IsFirst(Head(line))
    BY <2>1 DEF Ends, IsFirst
  <2> QED
    BY <2>1, <2>2, LineTaken
<1>16. CASE Lose
  BY <1>16, <1>2, <1>6
     DEF Lose, serviceVars, handleVars, threadVars
<1>17. CASE Open
  BY <1>17, <1>2, <1>5, <1>6
     DEF Open, serviceVars, handleVars, threadVars
<1>18. CASE CloseIgnores
  <2>1. "connected" \notin status'
    BY <1>18, <1>5 DEF CloseIgnores
  <2> QED
    BY <1>2, <2>1
<1>19. CASE ReaderClears
  BY <1>19, <1>6
     DEF ReaderClears, serviceVars, handleVars, threadVars
<1>20. CASE ReaderTests
  BY <1>20, <1>6
     DEF ReaderTests, serviceVars, handleVars, threadVars
<1>21. CASE ReaderAttaches
  BY <1>21, <1>6
     DEF ReaderAttaches, serviceVars, handleVars, threadVars
<1>22. CASE CloseStarts
  BY <1>22, <1>6
     DEF CloseStarts, serviceVars, handleVars, threadVars
<1>23. CASE CloseClears
  BY <1>23, <1>6
     DEF CloseClears, serviceVars, handleVars, threadVars
<1>24. CASE CloseResets
  BY <1>24, <1>6
     DEF CloseResets, serviceVars, handleVars, threadVars
<1>25. CASE SetterTests
  BY <1>25, <1>6
     DEF SetterTests, serviceVars, handleVars, threadVars
<1>26. CASE SetterWrites
  BY <1>26, <1>6
     DEF SetterWrites, serviceVars, handleVars, threadVars
<1>27. CASE UNCHANGED vars
  BY <1>27, <1>6
     DEF vars, serviceVars, handleVars, threadVars
<1>28. QED
  BY Zenon, <1>7, <1>8, <1>9, <1>10, <1>11, <1>12, <1>13, <1>14, <1>15, <1>16,
     <1>17, <1>18, <1>19, <1>20, <1>21, <1>22, <1>23, <1>24, <1>25, <1>26,
     <1>27
     DEF Next, Service, Reader, User, Setter

\* The keys of Spent.
LEMMA SpentKeys ==
  ASSUME class \in Instances, class' = class
  PROVE  /\ IsFiniteSet(Spent) /\ Cardinality(Spent) \in Nat
         /\ Cardinality(Spent) <= Cardinality(EachKeys)
         /\ IsFiniteSet(Spent') /\ Cardinality(Spent') \in Nat
         /\ Spent \subseteq Spent' => Cardinality(Spent) <= Cardinality(Spent')
         /\ \A i \in Spent' : Spent \subseteq Spent' /\ i \notin Spent =>
               Cardinality(Spent) + 1 <= Cardinality(Spent')
<1> DEFINE S == Spent
           T == Spent'
           E == EachKeys
<1>1. IsFiniteSet(E)
  BY KeysOfTheDevice
<1>2. EachKeys' = EachKeys
  BY KeysStay
<1>3. S \subseteq E /\ T \subseteq E
  BY <1>2 DEF Spent
<1> HIDE DEF S, T, E
<1>4. /\ IsFiniteSet(S) /\ Cardinality(S) \in Nat /\ Cardinality(S) <= Cardinality(E)
      /\ IsFiniteSet(T) /\ Cardinality(T) \in Nat
  BY <1>1, <1>3, FS_Subset, FS_CardinalityType
<1>5. S \subseteq T => Cardinality(S) <= Cardinality(T)
  BY <1>4, FS_Subset
<1>6. ASSUME NEW i \in T, S \subseteq T, i \notin S
      PROVE  Cardinality(S) + 1 <= Cardinality(T)
  <2> DEFINE R == S \cup {i}
  <2>1. IsFiniteSet(R) /\ Cardinality(R) = Cardinality(S) + 1
    BY <1>4, <1>6, FS_AddElement
  <2>2. R \subseteq T
    BY <1>6
  <2> HIDE DEF R
  <2>3. Cardinality(R) <= Cardinality(T)
    BY <1>4, <2>2, FS_Subset
  <2> QED
    BY <2>1, <2>3
<1> QED
  BY <1>4, <1>5, <1>6 DEF S, T, E

\* The variables that are known.
LEMMA KnownVars ==
  ASSUME class \in Instances
  PROVE  LET cv == CountedVars(class)
         IN /\ IsFiniteSet(known \cap cv) /\ Cardinality(known \cap cv) \in Nat
            /\ Cardinality(known' \cap cv) \in Nat
            /\ known \subseteq known' => Cardinality(known \cap cv) <= Cardinality(known' \cap cv)
            /\ Cardinality(known \cap cv) >= Cardinality(cv) => cv \subseteq known
<1> DEFINE cv == CountedVars(class)
           A == known \cap cv
           B == known' \cap cv
<1>1. IsFiniteSet(cv) /\ Cardinality(cv) \in Nat
  BY KeysOfTheDevice
<1>2. A \subseteq cv /\ B \subseteq cv /\ (known \subseteq known' => A \subseteq B)
      /\ (A = cv => cv \subseteq known)
  OBVIOUS
<1> HIDE DEF cv, A, B
<1>3. /\ IsFiniteSet(A) /\ Cardinality(A) \in Nat /\ IsFiniteSet(B) /\ Cardinality(B) \in Nat
      /\ Cardinality(A) <= Cardinality(cv)
      /\ Cardinality(A) = Cardinality(cv) => A = cv
  BY <1>1, <1>2, FS_Subset, FS_CardinalityType
<1>4. A \subseteq B => Cardinality(A) <= Cardinality(B)
  BY <1>3, FS_Subset
<1>5. Cardinality(A) >= Cardinality(cv) => A = cv
  BY <1>1, <1>3
<1> QED
  BY <1>2, <1>3, <1>4, <1>5 DEF A, B, cv

\* What a step counts is covered by what becomes known and what came.
LEMMA CountKept ==
  ASSUME class \in Instances, class' = class, keyCount \in Nat, keyCount' = keyCount,
         known \subseteq known', Spent \subseteq Spent',
         reader' = "clear" => reader = "clear",
         "connected" \in status' => "connected" \in status, ~lost' => ~lost, CountInv
  PROVE  CountInv'
<1> DEFINE cv == CountedVars(class)
<1>1. /\ Cardinality(Spent) \in Nat /\ Cardinality(Spent') \in Nat
      /\ Cardinality(Spent) <= Cardinality(Spent')
  BY SpentKeys
<1>2. /\ Cardinality(known \cap cv) \in Nat /\ Cardinality(known' \cap cv) \in Nat
      /\ Cardinality(known \cap cv) <= Cardinality(known' \cap cv)
  BY KnownVars
<1>3. SUFFICES ASSUME "connected" \in status', ~lost'
               PROVE  \/ cv \subseteq known' /\ reader' /= "clear"
                      \/ keyCount' <= Cardinality(known' \cap cv) + Cardinality(Spent')
  BY DEF CountInv
<1>4. \/ cv \subseteq known /\ reader /= "clear"
      \/ keyCount <= Cardinality(known \cap cv) + Cardinality(Spent)
  BY <1>3 DEF CountInv
<1> HIDE DEF cv
<1>5. CASE cv \subseteq known /\ reader /= "clear"
  BY <1>5
<1>6. CASE keyCount <= Cardinality(known \cap cv) + Cardinality(Spent)
  BY <1>1, <1>2, <1>6
<1> QED
  BY <1>4, <1>5, <1>6

LEMMA CountZero ==
  ASSUME class \in Instances, class' = class, keyCount' = 0
  PROVE  CountInv'
<1>1. Cardinality(Spent') \in Nat
  BY SpentKeys
<1>2. Cardinality(known' \cap CountedVars(class)) \in Nat
  BY KnownVars
<1>3. keyCount' <= Cardinality(known' \cap CountedVars(class)) + Cardinality(Spent')
  BY <1>1, <1>2
<1> QED
  BY <1>3, Zenon DEF CountInv

\* What may have been counted may have been still.
LEMMA SpentSent ==
  ASSUME Types, class' = class, NEW r \in Reports,
         line' = Append(line, r) \/ line' = line,
         IsFirst(r) => ~Held(r.key) /\ phase[1] /= "removing",
         \/ phase'[1] = "removing"
         \/ line' = Append(line, r) /\ Ends(r)
         \/ phase[1] /= "removing" /\ \A k \in DOMAIN Keys : Held(k) => Held(k)'
  PROVE  Spent \subseteq Spent'
<1> DEFINE m == Append(line, r)
<1>1. EachKeys' = EachKeys /\ EachKeys \subseteq DOMAIN Keys
  BY KeysStay DEF EachKeys
<1>2. /\ NoEnd(m, 0, After(m)) <=> NoEnd(line, 0, After(line)) /\ ~Ends(r)
      /\ \A k : Ahead(m, k) <=>
            Ahead(line, k) \/ (IsFirst(r) /\ r.key = k /\ NoEnd(line, 0, After(line)))
  <2> DEFINE S == Reports
  <2>1. line \in Seq(S) /\ r \in S
    BY DEF Types
  <2> HIDE DEF S
  <2>2. After(line) > 0 /\ 0 \in Nat
    BY <2>1 DEF After
  <2>3. /\ \A i \in Nat : i < After(line) =>
              (NoEnd(m, i, After(m)) <=> NoEnd(line, i, After(line)) /\ ~Ends(r))
        /\ \A k : Ahead(m, k) <=>
              Ahead(line, k) \/ (IsFirst(r) /\ r.key = k /\ NoEnd(line, 0, After(line)))
    BY <2>1, AppendedReport
  <2> QED
    BY <2>2, <2>3
<1> HIDE DEF m
<1>3. line' = m \/ line' = line
  BY DEF m
<1>4. ASSUME NEW i \in Spent
      PROVE  /\ i \in EachKeys /\ ~Ahead(line', i)
             /\ ~NoEnd(line', 0, After(line')) \/ phase'[1] = "removing" \/ Held(i)'
  <2>1. /\ i \in EachKeys /\ ~Ahead(line, i)
        /\ ~NoEnd(line, 0, After(line)) \/ phase[1] = "removing" \/ Held(i)
    BY DEF Spent
  <2>2. ~Ahead(line', i)
    BY <1>2, <1>3, <2>1
  <2>3. ~NoEnd(line, 0, After(line)) => ~NoEnd(line', 0, After(line'))
    BY <1>2, <1>3
  <2>4. line' = Append(line, r) /\ Ends(r) => ~NoEnd(line', 0, After(line'))
    BY <1>2 DEF m
  <2> QED
    BY <1>1, <2>1, <2>2, <2>3, <2>4
<1> QED
  BY <1>1, <1>4, Zenon DEF Spent

LEMMA SpentTaken ==
  ASSUME Types, class' = class, phase' = phase, dict'.vals = dict.vals,
         line /= <<>>, line' = Tail(line), ~Ends(Head(line))
  PROVE  Spent \subseteq Spent'
<1> DEFINE x == Head(line)
           t == Tail(line)
<1>1. EachKeys' = EachKeys /\ \A k : Held(k)' <=> Held(k)
  BY KeysStay DEF Held
<1>2. /\ NoEnd(line, 0, After(line)) <=> ~Ends(x) /\ NoEnd(t, 0, After(t))
      /\ \A k : Ahead(line, k) <=> (IsFirst(x) /\ x.key = k) \/ (~Ends(x) /\ Ahead(t, k))
  <2> DEFINE S == Reports
  <2>1. line \in Seq(S)
    BY DEF Types
  <2> HIDE DEF S
  <2>2. /\ After(line) = After(t) + 1
        /\ \A j \in Nat : j > 0 => (NoEnd(line, 0, j + 1) <=> ~Ends(x) /\ NoEnd(t, 0, j))
        /\ \A k : Ahead(line, k) <=> (IsFirst(x) /\ x.key = k) \/ (~Ends(x) /\ Ahead(t, k))
    BY <2>1, TakenReport
  <2>3. After(t) \in Nat /\ After(t) > 0
    BY <2>1 DEF After
  <2> QED
    BY <2>2, <2>3
<1>3. line' = t /\ ~Ends(x)
  OBVIOUS
<1> HIDE DEF x, t
<1>4. ASSUME NEW i \in Spent
      PROVE  /\ i \in EachKeys /\ ~Ahead(t, i)
             /\ ~NoEnd(t, 0, After(t)) \/ phase'[1] = "removing" \/ Held(i)'
  <2>1. /\ i \in EachKeys /\ ~Ahead(line, i)
        /\ ~NoEnd(line, 0, After(line)) \/ phase[1] = "removing" \/ Held(i)
    BY DEF Spent
  <2> QED
    BY <1>1, <1>2, <1>3, <2>1
<1> QED
  BY <1>1, <1>3, <1>4 DEF Spent

\* A key that is counted each time was not counted when it comes first.
LEMMA SpentOnce ==
  ASSUME Types, class' = class, phase' = phase, dict'.vals = dict.vals,
         LineInv, "connected" \in status, line /= <<>>, line' = Tail(line),
         IsFirst(Head(line)), Head(line).key \in EachKeys
  PROVE  Head(line).key \in Spent' /\ Head(line).key \notin Spent
<1> DEFINE x == Head(line)
           t == Tail(line)
<1>0. PICK i : i = Head(line).key
  OBVIOUS
<1>1. EachKeys' = EachKeys /\ \A k : Held(k)' <=> Held(k)
  BY KeysStay DEF Held
<1>2. /\ After(line) = After(t) + 1
      /\ \A k : \A h \in Nat :
            h > 0 /\ IsFirst(x) /\ x.key = k /\ NoEnd(t, 0, h) => Comes(line, k, h + 1)
      /\ \A k : Ahead(line, k) <=> (IsFirst(x) /\ x.key = k) \/ (~Ends(x) /\ Ahead(t, k))
      /\ After(t) \in Nat /\ After(t) > 0
      /\ \A h \in DOMAIN t : h \in Nat /\ h > 0 /\ h + 1 \in DOMAIN line /\ t[h] = line[h + 1]
  <2> DEFINE S == Reports
  <2>1. line \in Seq(S)
    BY DEF Types
  <2> HIDE DEF S
  <2>2. /\ After(line) = After(t) + 1
        /\ \A k : \A h \in Nat :
              h > 0 /\ IsFirst(x) /\ x.key = k /\ NoEnd(t, 0, h) => Comes(line, k, h + 1)
        /\ \A k : Ahead(line, k) <=> (IsFirst(x) /\ x.key = k) \/ (~Ends(x) /\ Ahead(t, k))
    BY <2>1, TakenReport
  <2>3. /\ After(t) \in Nat /\ After(t) > 0
        /\ \A h \in DOMAIN t : h \in Nat /\ h > 0 /\ h + 1 \in DOMAIN line /\ t[h] = line[h + 1]
    BY <2>1 DEF After
  <2> QED
    BY <2>2, <2>3
<1>3. line' = t /\ IsFirst(x) /\ x.key = i /\ i \in EachKeys /\ i \in DOMAIN Keys
  BY <1>0 DEF EachKeys
<1>4. /\ ComesOnce(line)
      /\ \A k \in DOMAIN Keys : Comes(line, k, After(line)) => Held(k) \/ phase[1] = "removing"
  BY DEF LineInv
<1> HIDE DEF x, t
<1>5. i \notin Spent
  BY <1>2, <1>3 DEF Spent
<1>6. ~Ahead(t, i)
  <2>1. ASSUME NEW j \in DOMAIN t, IsFirst(t[j]), t[j].key = i, NoEnd(t, 0, j)
        PROVE  FALSE
    <3>1. Comes(line, i, j + 1)
      BY <1>2, <1>3, <2>1
    <3>2. j + 1 \in DOMAIN line /\ IsFirst(line[j + 1]) /\ line[j + 1].key = i
      BY <1>2, <2>1
    <3> QED
      BY <1>4, <3>1, <3>2 DEF ComesOnce
  <2> QED
    BY <2>1 DEF Ahead
<1>7. NoEnd(t, 0, After(t)) => Held(i) \/ phase[1] = "removing"
  BY <1>2, <1>3, <1>4
<1>8. i \in Spent'
  <2>1. /\ i \in EachKeys /\ ~Ahead(t, i)
        /\ ~NoEnd(t, 0, After(t)) \/ phase'[1] = "removing" \/ Held(i)'
    BY <1>1, <1>3, <1>6, <1>7
  <2> QED
    BY <1>1, <1>3, <2>1 DEF Spent
<1> QED
  BY <1>0, <1>5, <1>8

LEMMA CountsStep ==
  ASSUME Devices = {1}, Types, HandleInv, LineInv, CountInv,
         class' = class, ReaderCounts
  PROVE  CountInv'
<1> DEFINE cv == CountedVars(class)
<1>0. PICK i : i = Head(line).key
  OBVIOUS
<1>1. /\ i \in DOMAIN Keys /\ NumberOf(i) = i /\ DeviceOf(i) = 1 /\ line /= <<>>
      /\ Head(line).reason \in {"added", "changed", "removing", "current"}
  BY <1>0, HeadReport DEF ReaderCounts
<1>2. /\ "connected" \in status /\ ~Ends(Head(line)) /\ Head(line).reason /= "removing"
      /\ keyCount' = keyCount + Counts(i)
      /\ known' = known \cup (Keys[i].vars \ {EachTime})
      /\ line' = Tail(line) /\ reader = "idle" /\ reader' = "test"
      /\ UNCHANGED <<dict, phase, lost>>
  BY <1>0, <1>1 DEF ReaderCounts, Skips, Ends, historyVars
<1>3. /\ class \in Instances /\ EachTime \notin known /\ keyCount \in Nat
  BY DEF Types
<1>4. SUFFICES ASSUME ~lost
               PROVE  \/ cv \subseteq known'
                      \/ keyCount' <= Cardinality(known' \cap cv) + Cardinality(Spent')
  BY <1>2 DEF CountInv
<1>5. \/ cv \subseteq known
      \/ keyCount <= Cardinality(known \cap cv) + Cardinality(Spent)
  BY <1>2, <1>4 DEF CountInv
<1>6. Spent \subseteq Spent'
  BY <1>1, <1>2, SpentTaken
<1>7. /\ Cardinality(Spent) \in Nat /\ Cardinality(Spent') \in Nat
      /\ Cardinality(Spent) <= Cardinality(Spent')
      /\ \A k \in Spent' : k \notin Spent => Cardinality(Spent) + 1 <= Cardinality(Spent')
  BY <1>3, <1>6, SpentKeys
<1>8. /\ Counts(i) \in Nat
      /\ Keys[i].vars = {EachTime} => Counts(i) = 1
      /\ Keys[i].vars /= {EachTime} =>
            Cardinality(known' \cap cv) = Cardinality(known \cap cv) + Counts(i)
      /\ Cardinality(known \cap cv) \in Nat
  BY <1>1, <1>2, <1>3, CountOf
<1>9. known \subseteq known' /\ Cardinality(known' \cap cv) \in Nat
      /\ Cardinality(known \cap cv) <= Cardinality(known' \cap cv)
  BY <1>2, <1>3, KnownVars
<1>10. CASE cv \subseteq known
  BY <1>9, <1>10
<1>11. CASE IsChange(Head(line))
  <2>1. /\ 1 \in DOMAIN line /\ line[1] = Head(line) /\ \A j \in DOMAIN line : ~(j < 1)
    <3> DEFINE S == Reports
    <3>1. line \in Seq(S) /\ line /= <<>>
      BY <1>1 DEF Types
    <3> HIDE DEF S
    <3> QED
      BY <3>1
  <2>2. \A v \in cv : Had(v, 1)
    BY <1>2, <1>11, <2>1 DEF LineInv
  <2>3. \A v \in cv : v \in known
    BY <2>1, <2>2 DEF Had, Comes
  <2> QED
    BY <1>10, <2>3
<1>12. CASE IsFirst(Head(line)) /\ ~(cv \subseteq known)
  <2> HIDE DEF cv
  <2>1. keyCount <= Cardinality(known \cap cv) + Cardinality(Spent)
    BY <1>5, <1>12
  <2>2. CASE Keys[i].vars = {EachTime}
    <3>1. i \in EachKeys
      BY <1>1, <2>2 DEF EachKeys
    <3>2. Head(line).key \in Spent' /\ Head(line).key \notin Spent
      BY <1>0, <1>1, <1>2, <1>12, <3>1, SpentOnce
    <3>3. i \in Spent' /\ i \notin Spent
      BY <1>0, <3>2
    <3>4. Cardinality(Spent) + 1 <= Cardinality(Spent')
      BY <1>7, <3>3
    <3> QED
      BY <1>2, <1>3, <1>7, <1>8, <1>9, <2>1, <2>2, <3>4
  <2>3. CASE Keys[i].vars /= {EachTime}
    BY <1>2, <1>3, <1>7, <1>8, <1>9, <2>1, <2>3
  <2> QED
    BY <2>2, <2>3
<1>13. IsFirst(Head(line)) \/ IsChange(Head(line))
  BY <1>1, <1>2 DEF IsFirst, IsChange
<1> QED
  BY <1>10, <1>11, <1>12, <1>13

LEMMA CountStep ==
  ASSUME Devices = {1}, Types, AttachedInv,
         DictionaryIsSound, DictionaryIsSound', [Next]_vars
  PROVE  CountInv'
<1>1. class' = class /\ class \in Instances
  BY ClassStays DEF Types
<1>2. ASSUME "connected" \notin status'
      PROVE  CountInv'
  BY <1>2 DEF CountInv
<1>3. /\ phase \in [Devices -> {"absent", "adding", "present", "removing"}]
      /\ dict.vals \in [Values -> Told \cup {NoValue}] /\ keyCount \in Nat
      /\ done[1] \in Nat /\ done \in [Devices -> Nat]
      /\ Devices = {1} /\ DOMAIN Keys \subseteq Values
      /\ "Attached" /= NoValue /\ "value" /= NoValue /\ "Detached" /= NoValue
  BY TheDevice DEF Types, NoValue
<1>4. \A k \in DOMAIN Keys : \A v \in Told :
         \A why \in {"added", "changed", "removing", "current"} :
            LET r == Report(k, v, why)
            IN /\ r \in Reports /\ r.key = k
               /\ Ends(r) <=> v = "Detached"
               /\ IsFirst(r) <=> why \in {"added", "current"} /\ v /= "Detached"
  BY DEF Report, Reports, Ends, IsFirst
<1>5. "connected" \in status => user = "open" /\ listening
  BY DEF AttachedInv, HandleInv
<1>6. ServiceInv /\ HandleInv /\ ZeroInv /\ LineInv /\ CountInv
  BY DEF AttachedInv
<1>7. ASSUME Spent \subseteq Spent', keyCount' = keyCount, known \subseteq known',
             reader' = "clear" => reader = "clear",
             "connected" \in status' => "connected" \in status, ~lost' => ~lost
      PROVE  CountInv'
  BY <1>1, <1>3, <1>6, <1>7, CountKept
<1>8. ASSUME line' = line, dict' = dict, phase' = phase
      PROVE  Spent \subseteq Spent'
  <2>1. EachKeys' = EachKeys
    BY <1>1, KeysStay
  <2> QED
    BY <1>8, <2>1 DEF Spent, Held
<1>9. keyCount' = 0 => CountInv'
  BY <1>1, CountZero
<1>10. ASSUME line' = line, dict' = dict, phase' = phase, keyCount' = keyCount,
              known \subseteq known', reader' = "clear" => reader = "clear",
              "connected" \in status' => "connected" \in status, ~lost' => ~lost
       PROVE  CountInv'
  BY <1>7, <1>8, <1>10
<1>11. ASSUME NEW d \in Devices, Plug(d)
       PROVE  CountInv'
  <2>1. /\ phase[1] = "absent" /\ phase'[1] = "adding"
        /\ UNCHANGED <<dict, line, known, keyCount, status, reader, lost>>
    BY <1>11, <1>3 DEF Plug, handleVars, threadVars, historyVars
  <2>2. EachKeys' = EachKeys
    BY <1>1, KeysStay
  <2>3. Spent \subseteq Spent'
    BY <2>1, <2>2 DEF Spent, Held
  <2> QED
    BY <1>7, <2>1, <2>3
<1>12. ASSUME NEW d \in Devices, Publish(d)
       PROVE  CountInv'
  <2>1. PICK k \in DOMAIN Keys, v \in {"Attached", "value"} :
           /\ d = 1 /\ phase[1] = "adding" /\ ~Held(k)
           /\ dict'.vals = [dict.vals EXCEPT ![k] = v]
           /\ line' = IF listening THEN Append(line, Report(k, v, "added")) ELSE line
    BY <1>12, <1>6, PublishEffect
  <2>2. UNCHANGED <<known, keyCount, status, reader, lost>>
    BY <1>12 DEF Publish, handleVars, threadVars, historyVars
  <2> DEFINE r == Report(k, v, "added")
  <2>3. r \in Reports /\ r.key = k
    BY <1>4, <2>1 DEF Told
  <2>4. \A j \in DOMAIN Keys : Held(j) => Held(j)'
    BY <1>3, <2>1 DEF Held
  <2>5. line' = Append(line, r) \/ line' = line
    BY <2>1
  <2> HIDE DEF r
  <2>6. Spent \subseteq Spent'
    BY <1>1, <2>1, <2>3, <2>4, <2>5, SpentSent
  <2> QED
    BY <1>7, <2>2, <2>6
<1>13. ASSUME NEW d \in Devices, Change(d)
       PROVE  CountInv'
  <2>1. PICK k \in DOMAIN Keys :
           /\ d = 1 /\ phase[1] = "present" /\ Held(k)
           /\ dict'.vals = [dict.vals EXCEPT ![k] = "value"]
           /\ line' = IF listening THEN Append(line, Report(k, "value", "changed")) ELSE line
    BY <1>13, <1>6, ChangeEffect
  <2>2. UNCHANGED <<known, keyCount, status, reader, lost>>
    BY <1>13 DEF Change, handleVars, threadVars, historyVars
  <2> DEFINE r == Report(k, "value", "changed")
  <2>3. r \in Reports /\ ~IsFirst(r)
    BY <1>4, <2>1 DEF Told
  <2>4. \A j \in DOMAIN Keys : Held(j) => Held(j)'
    BY <1>3, <2>1 DEF Held
  <2>5. line' = Append(line, r) \/ line' = line
    BY <2>1
  <2> HIDE DEF r
  <2>6. Spent \subseteq Spent'
    BY <1>1, <2>1, <2>3, <2>4, <2>5, SpentSent
  <2> QED
    BY <1>7, <2>2, <2>6
<1>14. ASSUME NEW d \in Devices, Unplug(d)
       PROVE  CountInv'
  <2>1. /\ d = 1 /\ phase[1] = "present" /\ StatusKey \in DOMAIN Keys
        /\ line' = IF listening THEN Append(line, Report(StatusKey, "Detached", "changed"))
                   ELSE line
    BY <1>14, <1>6, UnplugEffect
  <2>2. phase'[1] = "removing" /\ UNCHANGED <<known, keyCount, status, reader, lost>>
    BY <1>14, <1>3, <2>1 DEF Unplug, handleVars, threadVars, historyVars
  <2> DEFINE r == Report(StatusKey, "Detached", "changed")
  <2>3. r \in Reports /\ ~IsFirst(r)
    BY <1>4, <2>1 DEF Told
  <2>4. line' = Append(line, r) \/ line' = line
    BY <2>1
  <2> HIDE DEF r
  <2>5. Spent \subseteq Spent'
    BY <1>1, <2>2, <2>3, <2>4, SpentSent
  <2> QED
    BY <1>7, <2>2, <2>5
<1>15. ASSUME NEW d \in Devices, Withdraw(d)
       PROVE  CountInv'
  <2>1. PICK k \in DOMAIN Keys :
           /\ d = 1 /\ phase[1] = "removing" /\ Held(k)
           /\ done[1] + 1 = Len(Keys) => dict.vals[k] = "Detached"
           /\ line' = IF listening
                      THEN Append(line, Report(k, dict.vals[k], "removing")) ELSE line
    BY <1>15, <1>6, WithdrawEffect
  <2>2. /\ phase'[1] = IF done[1] + 1 = Len(Keys) THEN "absent" ELSE "removing"
        /\ UNCHANGED <<known, keyCount, status, reader, lost>>
    BY <1>15, <1>3, <2>1 DEF Withdraw, handleVars, threadVars, historyVars
  <2>3. SUFFICES ASSUME "connected" \in status
                 PROVE  CountInv'
    BY <1>2, <2>2
  <2> DEFINE r == Report(k, dict.vals[k], "removing")
  <2>4. dict.vals[k] \in Told
    BY <1>3, <2>1 DEF Held
  <2>5. /\ r \in Reports /\ ~IsFirst(r)
        /\ phase'[1] = "removing" \/ Ends(r)
    BY <1>4, <2>1, <2>2, <2>4
  <2>6. line' = Append(line, r)
    BY <1>5, <2>1, <2>3
  <2> HIDE DEF r
  <2>7. Spent \subseteq Spent'
    BY <1>1, <2>5, <2>6, SpentSent
  <2> QED
    BY <1>7, <2>2, <2>7
<1>16. CASE Connect
  <2>1. ~lost' => keyCount' = 0
    BY <1>16, <1>6 DEF Connect, ZeroInv, historyVars
  <2> QED
    BY <1>9, <2>1 DEF CountInv
<1>17. CASE ReaderSkips
  <2>1. /\ line /= <<>> /\ line' = Tail(line) /\ reader = "idle"
        /\ UNCHANGED <<dict, phase, known, keyCount, status, reader, lost>>
        /\ Skips(Head(line), DeviceOf(Head(line).key))
    BY <1>17 DEF ReaderSkips, handleVars, threadVars, historyVars
  <2>2. SUFFICES ASSUME "connected" \in status
                 PROVE  CountInv'
    BY <1>2, <2>1
  <2>3. CASE Ends(Head(line))
    <3>1. DeviceOf(Head(line).key) = 1
      BY <2>1, HeadReport
    <3>2. specific = "any"
      BY <1>5, <1>6, <2>1, <2>2, <2>3, <3>1 DEF Skips, HandleInv, Ends
    <3> QED
      BY <1>6, <1>9, <2>1, <3>2 DEF ZeroInv
  <2>4. CASE ~Ends(Head(line))
    <3>1. Spent \subseteq Spent'
      BY <1>1, <2>1, <2>4, SpentTaken
    <3> QED
      BY <1>7, <2>1, <3>1
  <2> QED
    BY <2>3, <2>4
<1>18. CASE ReaderCounts
  <2> QED
    BY <1>18, <1>1, <1>6, CountsStep
<1>19. CASE ReaderDetaches
  BY <1>19, <1>9, <1>10
     DEF ReaderDetaches, serviceVars, handleVars, threadVars, historyVars
<1>20. CASE ReaderClears
  <2>1. keyCount' = 0
    BY <1>20, <1>6 DEF ReaderClears, ZeroInv
  <2> QED
    BY <1>9, <2>1
<1>21. CASE Lose
  BY <1>21, <1>2, <1>10
     DEF Lose, serviceVars, handleVars, threadVars, historyVars
<1>22. CASE Open
  BY <1>22, <1>2, <1>5, <1>10
     DEF Open, serviceVars, handleVars, threadVars, historyVars
<1>23. CASE CloseIgnores
  <2>1. "connected" \notin status'
    BY <1>23, <1>5 DEF CloseIgnores
  <2> QED
    BY <1>2, <2>1
<1>24. CASE CloseResets
  BY <1>24, <1>9, <1>10
     DEF CloseResets, serviceVars, handleVars, threadVars, historyVars
<1>25. CASE ReaderTests
  BY <1>25, <1>10
     DEF ReaderTests, serviceVars, handleVars, threadVars, historyVars
<1>26. CASE ReaderAttaches
  BY <1>26, <1>10
     DEF ReaderAttaches, serviceVars, handleVars, threadVars, historyVars
<1>27. CASE CloseStarts
  BY <1>27, <1>10
     DEF CloseStarts, serviceVars, handleVars, threadVars, historyVars
<1>28. CASE CloseClears
  BY <1>28, <1>10
     DEF CloseClears, serviceVars, handleVars, threadVars, historyVars
<1>29. CASE SetterTests
  BY <1>29, <1>10
     DEF SetterTests, serviceVars, handleVars, threadVars, historyVars
<1>30. CASE SetterWrites
  BY <1>30, <1>10
     DEF SetterWrites, serviceVars, handleVars, threadVars, historyVars
<1>31. CASE UNCHANGED vars
  BY <1>31, <1>10
     DEF vars, serviceVars, handleVars, threadVars, historyVars
<1>32. QED
  BY Zenon, <1>11, <1>12, <1>13, <1>14, <1>15, <1>16, <1>17, <1>18, <1>19,
     <1>20, <1>21, <1>22, <1>23, <1>24, <1>25, <1>26, <1>27, <1>28, <1>29,
     <1>30, <1>31
     DEF Next, Service, Reader, User, Setter

LEMMA AttachStep ==
  ASSUME Types, HandleInv, CountInv, AttachInv, [Next]_vars
  PROVE  AttachInv'
<1>1. class' = class /\ class \in Instances
  BY ClassStays DEF Types
<1> DEFINE cv == CountedVars(class)
<1>2. ASSUME UNCHANGED <<handleVars, threadVars, historyVars>>
      PROVE  AttachInv'
  BY <1>1, <1>2 DEF AttachInv, handleVars, threadVars, historyVars
<1>3. CountedVars(class') = cv
  BY <1>1
<1>4. /\ reader = "set" /\ ~lost => cv \subseteq known
      /\ "attached" \in status /\ ~caught /\ ~lost => cv \subseteq known
      /\ "attached" \in status /\ user \in {"ignore", "reset", "closed"} => caught
      /\ reader = "clear" => "attached" \notin status
  BY DEF AttachInv
<1>5. ASSUME reader' = "set" /\ ~lost' => cv \subseteq known',
             "attached" \in status' /\ ~caught' /\ ~lost' => cv \subseteq known',
             "attached" \in status' /\ user' \in {"ignore", "reset", "closed"} => caught',
             reader' = "clear" => "attached" \notin status'
      PROVE  AttachInv'
  BY <1>3, <1>5, Zenon DEF AttachInv
<1>6. /\ user \in {"reset", "closed"} => ~listening
      /\ ~listening => line = <<>> /\ reader = "idle"
  BY DEF HandleInv
<1> HIDE DEF cv
<1>7. ASSUME NEW d \in Devices,
             \/ Plug(d) \/ Publish(d) \/ Change(d) \/ Unplug(d) \/ Withdraw(d)
      PROVE  AttachInv'
  BY <1>7, <1>2, <1>4, <1>5, <1>6
     DEF Plug, Publish, Change, Unplug, Withdraw
<1>8. CASE ReaderTests
  <2>1. /\ UNCHANGED <<status, known, user, historyVars>> /\ reader = "test"
        /\ reader' \in {"set", "idle"}
        /\ reader' = "set" => HasAllKeys /\ "connected" \in status
    BY <1>8 DEF ReaderTests, handleVars
  <2>2. ASSUME reader' = "set", ~lost
        PROVE  cv \subseteq known
    <3>1. /\ Cardinality(cv) \in Nat /\ Cardinality(EachKeys) \in Nat
          /\ InitKeysOf(class) = Cardinality(EachKeys) + Cardinality(cv)
      BY <1>1, KeysOfTheDevice DEF cv
    <3>2. keyCount \in Nat /\ keyCount >= InitKeysOf(class)
      BY <2>1, <2>2 DEF HasAllKeys, Types
    <3>3. \/ cv \subseteq known
          \/ keyCount <= Cardinality(known \cap cv) + Cardinality(Spent)
      BY <2>1, <2>2 DEF CountInv, cv
    <3>4. Cardinality(Spent) \in Nat /\ Cardinality(Spent) <= Cardinality(EachKeys)
      BY <1>1, SpentKeys
    <3>5. /\ Cardinality(known \cap cv) \in Nat
          /\ Cardinality(known \cap cv) >= Cardinality(cv) => cv \subseteq known
      BY <1>1, KnownVars DEF cv
    <3> QED
      BY <3>1, <3>2, <3>3, <3>4, <3>5
  <2> QED
    BY <1>4, <1>5, <2>1, <2>2, Zenon DEF historyVars
<1>9. CASE ReaderSkips
  BY <1>9, <1>4, <1>5, <1>6
     DEF ReaderSkips, serviceVars, handleVars, threadVars, historyVars
<1>10. CASE ReaderCounts
  BY <1>10, <1>4, <1>5, <1>6
     DEF ReaderCounts, serviceVars, handleVars, threadVars, historyVars
<1>11. CASE ReaderDetaches
  BY <1>11, <1>4, <1>5, <1>6
     DEF ReaderDetaches, serviceVars, handleVars, threadVars, historyVars
<1>12. CASE ReaderClears
  BY <1>12, <1>4, <1>5, <1>6
     DEF ReaderClears, serviceVars, handleVars, threadVars, historyVars
<1>13. CASE ReaderAttaches
  BY <1>13, <1>4, <1>5, <1>6
     DEF ReaderAttaches, serviceVars, handleVars, threadVars, historyVars
<1>14. CASE Lose
  BY <1>14, <1>4, <1>5, <1>6
     DEF Lose, serviceVars, handleVars, threadVars, historyVars
<1>15. CASE Open
  BY <1>15, <1>4, <1>5, <1>6
     DEF Open, serviceVars, handleVars, threadVars, historyVars
<1>16. CASE Connect
  BY <1>16, <1>4, <1>5, <1>6
     DEF Connect, serviceVars, handleVars, threadVars, historyVars
<1>17. CASE CloseStarts
  BY <1>17, <1>4, <1>5, <1>6
     DEF CloseStarts, serviceVars, handleVars, threadVars, historyVars
<1>18. CASE CloseClears
  BY <1>18, <1>4, <1>5, <1>6
     DEF CloseClears, serviceVars, handleVars, threadVars, historyVars
<1>19. CASE CloseIgnores
  BY <1>19, <1>4, <1>5, <1>6
     DEF CloseIgnores, serviceVars, handleVars, threadVars, historyVars
<1>20. CASE CloseResets
  BY <1>20, <1>4, <1>5, <1>6
     DEF CloseResets, serviceVars, handleVars, threadVars, historyVars
<1>21. CASE SetterTests
  BY <1>21, <1>4, <1>5, <1>6
     DEF SetterTests, serviceVars, handleVars, threadVars, historyVars
<1>22. CASE SetterWrites
  BY <1>22, <1>4, <1>5, <1>6
     DEF SetterWrites, serviceVars, handleVars, threadVars, historyVars
<1>23. CASE UNCHANGED vars
  BY <1>23, <1>4, <1>5, <1>6
     DEF vars, serviceVars, handleVars, threadVars, historyVars
<1>24. QED
  BY Zenon, <1>7, <1>8, <1>9, <1>10, <1>11, <1>12, <1>13, <1>14, <1>15, <1>16,
     <1>17, <1>18, <1>19, <1>20, <1>21, <1>22, <1>23
     DEF Next, Service, Reader, User, Setter

-----------------------------------------------------------------------------
(* The theorem.                                                              *)

LEMMA InvHoldsFirst ==
  ASSUME Init
  PROVE  Inv
<1> SUFFICES ASSUME Devices = {1}
             PROVE  Types /\ AttachedInv
  BY DEF Inv
<1>1. /\ class \in Instances /\ phase = [d \in Devices |-> "absent"]
      /\ done = [d \in Devices |-> 0] /\ line = <<>> /\ status = {} /\ specific = "serial"
      /\ keyCount = 0 /\ initKeys = Unknown /\ known = {} /\ listening = FALSE
      /\ reader = "idle" /\ user = "closed"
      /\ dict = PdictListen(EmptyPdict, Observer, StatusKeys)
  BY DEF Init
<1>2. /\ Devices = {1} /\ DOMAIN Keys \subseteq Values /\ StatusKeys = {StatusKey}
  BY <1>1, TheDevice
<1>3. /\ dict = [ents |-> dict.ents, vals |-> dict.vals, hears |-> dict.hears,
                 listeners |-> dict.listeners]
      /\ dict.vals = [k \in Values |-> NoValue]
      /\ dict.listeners = Append(<<>>, [who |-> Observer, pattern |-> StatusKeys])
  BY <1>1 DEF PdictListen, EmptyPdict
<1>4. dict.listeners = Alone(StatusKey)
  <2> DEFINE st == StatusKey
  <2> HIDE DEF st
  <2>1. \A a : Append(<<>>, a) = <<a>>
    OBVIOUS
  <2>2. dict.listeners = <<[who |-> Observer, pattern |-> {st}]>>
    BY <1>2, <1>3, <2>1 DEF st
  <2> QED
    BY <2>2 DEF Alone, st
<1>5. Types
  <2>1. line \in Seq(Reports)
    BY <1>1
  <2> QED
    BY <1>1, <1>3, <2>1 DEF Types
<1>6. ServiceInv
  <2>1. phase[1] = "absent" /\ \A k \in DOMAIN Keys : ~Held(k)
    BY <1>1, <1>2, <1>3 DEF Held
  <2> QED
    BY <1>1, <1>4, <2>1 DEF ServiceInv
<1> QED
  BY <1>1, <1>5, <1>6
     DEF AttachedInv, HandleInv, ZeroInv, LineInv, CountInv, AttachInv

LEMMA InvStep ==
  ASSUME Inv, DictionaryIsSound, DictionaryIsSound', [Next]_vars
  PROVE  Inv'
<1>1. Devices' = Devices
  BY ClassStays, KeysStay
<1>2. SUFFICES ASSUME Devices = {1}
               PROVE  Types' /\ AttachedInv'
  BY <1>1 DEF Inv
<1>3. Types /\ AttachedInv
  BY <1>2 DEF Inv
<1>4. ServiceInv /\ HandleInv /\ ZeroInv /\ LineInv /\ CountInv /\ AttachInv
  BY <1>3 DEF AttachedInv
<1>5. Types'
  BY <1>2, <1>3, <1>4, TypesStep
<1>6. ServiceInv' /\ HandleInv'
  BY <1>2, <1>3, <1>4, ServiceStep, HandleStep
<1>7. ZeroInv' /\ LineInv'
  BY <1>2, <1>3, <1>4, ZeroStep, LineStep
<1>8. CountInv' /\ AttachInv'
  BY <1>2, <1>3, <1>4, CountStep, AttachStep
<1> QED
  BY <1>5, <1>6, <1>7, <1>8 DEF AttachedInv

-----------------------------------------------------------------------------
(* Names and number of the keys, and what a class clears.                    *)

\* A key of a class is neither of the two common keys that say how many keys
\* there are and whether the device is there; what it is kept in is cleared.
IsOwn(key, cleared) ==
  key.name \notin {"InitKeys", "Status"} /\ key.vars \subseteq cleared \cup {EachTime}

AreOwn(keys, cleared) == Len(keys) <= 30 /\ \A i \in DOMAIN keys : IsOwn(keys[i], cleared)

LEMMA ClassKeysAreOwn ==
  \A c \in Classes : AreOwn(ClassKeys[c], ClassClears[c])
<1>1. AreOwn(AccelerometerKeys, AccelerometerClears)
  BY DEF AreOwn, IsOwn, AccelerometerKeys, AccelerometerClears, Each, Once, Never
<1>2. AreOwn(AdvancedServoKeys, AdvancedServoClears)
  BY DEF AreOwn, IsOwn, AdvancedServoKeys, AdvancedServoClears, Each, Once, Never
<1>3. AreOwn(AnalogKeys, AnalogClears)
  BY DEF AreOwn, IsOwn, AnalogKeys, AnalogClears, Each, Once, Never
<1>4. AreOwn(BridgeKeys, BridgeClears)
  BY DEF AreOwn, IsOwn, BridgeKeys, BridgeClears, Each, Once, Never
<1>5. AreOwn(EncoderKeys, EncoderClears)
  BY DEF AreOwn, IsOwn, EncoderKeys, EncoderClears, Each, Once, Never
<1>6. AreOwn(FrequencyCounterKeys, FrequencyCounterClears)
  BY DEF AreOwn, IsOwn, FrequencyCounterKeys, FrequencyCounterClears, Each, Once, Never
<1>7. AreOwn(GenericKeys, GenericClears)
  BY DEF AreOwn, IsOwn, GenericKeys, GenericClears, Each, Once, Never
<1>8. AreOwn(GPSKeys, GPSClears)
  BY DEF AreOwn, IsOwn, GPSKeys, GPSClears, Each, Once, Never
<1>9. AreOwn(InterfaceKitKeys, InterfaceKitClears)
  BY DEF AreOwn, IsOwn, InterfaceKitKeys, InterfaceKitClears, Each, Once, Never
<1>10. AreOwn(IRKeys, IRClears)
  BY DEF AreOwn, IsOwn, IRKeys, IRClears, Each, Once, Never
<1>11. AreOwn(LEDKeys, LEDClears)
  BY DEF AreOwn, IsOwn, LEDKeys, LEDClears, Each, Once, Never
<1>12. AreOwn(MotorControlKeys, MotorControlClears)
  BY DEF AreOwn, IsOwn, MotorControlKeys, MotorControlClears, Each, Once, Never
<1>13. AreOwn(PHSensorKeys, PHSensorClears)
  BY DEF AreOwn, IsOwn, PHSensorKeys, PHSensorClears, Each, Once, Never
<1>14. AreOwn(RFIDKeys, RFIDClears)
  BY DEF AreOwn, IsOwn, RFIDKeys, RFIDClears, Each, Once, Never
<1>15. AreOwn(ServoKeys, ServoClears)
  BY DEF AreOwn, IsOwn, ServoKeys, ServoClears, Each, Once, Never
<1>16. AreOwn(SpatialKeys, SpatialClears)
  BY DEF AreOwn, IsOwn, SpatialKeys, SpatialClears, Each, Once, Never
<1>17. AreOwn(StepperKeys, StepperClears)
  BY DEF AreOwn, IsOwn, StepperKeys, StepperClears, Each, Once, Never
<1>18. AreOwn(TemperatureSensorKeys, TemperatureSensorClears)
  BY DEF AreOwn, IsOwn, TemperatureSensorKeys, TemperatureSensorClears, Each, Once, Never
<1>19. AreOwn(TextLCDKeys, TextLCDClears)
  BY DEF AreOwn, IsOwn, TextLCDKeys, TextLCDClears, Each, Once, Never
<1>20. AreOwn(TextLEDKeys, TextLEDClears)
  BY DEF AreOwn, IsOwn, TextLEDKeys, TextLEDClears, Each, Once, Never
<1>21. AreOwn(WeightSensorKeys, WeightSensorClears)
  BY DEF AreOwn, IsOwn, WeightSensorKeys, WeightSensorClears, Each, Once, Never
<1>22. ASSUME NEW c \in Classes
       PROVE  AreOwn(ClassKeys[c], ClassClears[c])
  <2>1. CASE c = "Accelerometer"
    BY <1>1, <2>1 DEF ClassKeys, ClassClears
  <2>2. CASE c = "AdvancedServo"
    BY <1>2, <2>2 DEF ClassKeys, ClassClears
  <2>3. CASE c = "Analog"
    BY <1>3, <2>3 DEF ClassKeys, ClassClears
  <2>4. CASE c = "Bridge"
    BY <1>4, <2>4 DEF ClassKeys, ClassClears
  <2>5. CASE c = "Encoder"
    BY <1>5, <2>5 DEF ClassKeys, ClassClears
  <2>6. CASE c = "FrequencyCounter"
    BY <1>6, <2>6 DEF ClassKeys, ClassClears
  <2>7. CASE c = "Generic"
    BY <1>7, <2>7 DEF ClassKeys, ClassClears
  <2>8. CASE c = "GPS"
    BY <1>8, <2>8 DEF ClassKeys, ClassClears
  <2>9. CASE c = "InterfaceKit"
    BY <1>9, <2>9 DEF ClassKeys, ClassClears
  <2>10. CASE c = "IR"
    BY <1>10, <2>10 DEF ClassKeys, ClassClears
  <2>11. CASE c = "LED"
    BY <1>11, <2>11 DEF ClassKeys, ClassClears
  <2>12. CASE c = "MotorControl"
    BY <1>12, <2>12 DEF ClassKeys, ClassClears
  <2>13. CASE c = "PHSensor"
    BY <1>13, <2>13 DEF ClassKeys, ClassClears
  <2>14. CASE c = "RFID"
    BY <1>14, <2>14 DEF ClassKeys, ClassClears
  <2>15. CASE c = "Servo"
    BY <1>15, <2>15 DEF ClassKeys, ClassClears
  <2>16. CASE c = "Spatial"
    BY <1>16, <2>16 DEF ClassKeys, ClassClears
  <2>17. CASE c = "Stepper"
    BY <1>17, <2>17 DEF ClassKeys, ClassClears
  <2>18. CASE c = "TemperatureSensor"
    BY <1>18, <2>18 DEF ClassKeys, ClassClears
  <2>19. CASE c = "TextLCD"
    BY <1>19, <2>19 DEF ClassKeys, ClassClears
  <2>20. CASE c = "TextLED"
    BY <1>20, <2>20 DEF ClassKeys, ClassClears
  <2>21. CASE c = "WeightSensor"
    BY <1>21, <2>21 DEF ClassKeys, ClassClears
  <2> QED
    BY <2>1, <2>2, <2>3, <2>4, <2>5, <2>6, <2>7, <2>8, <2>9, <2>10, <2>11,
       <2>12, <2>13, <2>14, <2>15, <2>16, <2>17, <2>18, <2>19, <2>20, <2>21 DEF Classes, ClassKeys
<1> QED
  BY <1>22

LEMMA CountedAreCleared ==
  ASSUME class \in Instances
  PROVE  CountedVars(class) \subseteq ClassClears[class]
<1>1. class \in Classes
  BY InstancesAssumption
<1>2. \A i \in DOMAIN ClassKeys[class] :
         ClassKeys[class][i].vars \subseteq ClassClears[class] \cup {EachTime}
  BY <1>1, ClassKeysAreOwn DEF AreOwn, IsOwn
<1> QED
  BY <1>2 DEF CountedVars

InitKey == 2

LEMMA KeysHaveNames ==
  ASSUME class \in Instances
  PROVE  /\ Len(Keys) <= 36
         /\ \A i \in DOMAIN Keys : /\ Keys[i].name = "InitKeys" <=> i = InitKey
                                   /\ Keys[i].name = "Status" <=> i = StatusKey
         /\ StatusKey = 6 /\ InitKey \in DOMAIN Keys /\ InitKey \in EachKeys
<1> DEFINE own == ClassKeys[class]
           keys == Keys
<1>1. class \in Classes
  BY InstancesAssumption
<1>2. own \in Seq({own[i] : i \in DOMAIN own})
  BY <1>1, ClassKeysAreCountable DEF AllCountable
<1>3. Len(own) <= 30 /\ \A i \in DOMAIN own : own[i].name \notin {"InitKeys", "Status"}
  BY <1>1, ClassKeysAreOwn DEF AreOwn, IsOwn
<1>4. /\ CommonKeys \in Seq({CommonKeys[i] : i \in 1..6}) /\ Len(CommonKeys) = 6
      /\ \A i \in 1..6 : /\ CommonKeys[i].name = "InitKeys" <=> i = 2
                         /\ CommonKeys[i].name = "Status" <=> i = 6
      /\ CommonKeys[2].vars = {EachTime}
  BY DEF CommonKeys, Each
<1>5. Len(own) \in Nat /\ DOMAIN own = 1..Len(own)
  BY <1>2
<1>6. /\ Len(keys) = 6 + Len(own) /\ DOMAIN keys = 1..(6 + Len(own))
      /\ \A i \in 1..6 : keys[i] = CommonKeys[i]
      /\ \A i \in 1..(6 + Len(own)) : i > 6 => keys[i] = own[i - 6]
  <2> DEFINE A == {CommonKeys[i] : i \in 1..6}
             B == {own[i] : i \in DOMAIN own}
  <2>1. CommonKeys \in Seq(A) /\ own \in Seq(B)
    BY <1>2, <1>4
  <2>2. keys = CommonKeys \o own
    BY DEF Keys, KeysOf
  <2> HIDE DEF A, B, own, keys
  <2>3. /\ Len(CommonKeys \o own) = Len(CommonKeys) + Len(own)
        /\ DOMAIN (CommonKeys \o own) = 1..(Len(CommonKeys) + Len(own))
        /\ \A i \in 1..Len(CommonKeys) : (CommonKeys \o own)[i] = CommonKeys[i]
        /\ \A i \in 1..(Len(CommonKeys) + Len(own)) :
              i > Len(CommonKeys) => (CommonKeys \o own)[i] = own[i - Len(CommonKeys)]
    BY <2>1, Joined
  <2> QED
    BY <1>4, <2>2, <2>3
<1> HIDE DEF own, keys
<1>7. ASSUME NEW i \in DOMAIN keys
      PROVE  /\ keys[i].name = "InitKeys" <=> i = 2
             /\ keys[i].name = "Status" <=> i = 6
  <2>1. CASE i <= 6
    <3>1. i \in 1..6
      BY <1>5, <1>6, <2>1
    <3> QED
      BY <1>4, <1>6, <3>1
  <2>2. CASE i > 6
    <3>1. keys[i] = own[i - 6] /\ i - 6 \in DOMAIN own
      BY <1>5, <1>6, <2>2
    <3> QED
      BY <1>3, <2>2, <3>1
  <2> QED
    BY <1>5, <1>6, <2>1, <2>2
<1>8. 6 \in DOMAIN keys /\ 2 \in DOMAIN keys /\ Len(keys) <= 36
  BY <1>3, <1>5, <1>6
<1>9. StatusKey = 6
  BY <1>7, <1>8 DEF StatusKey, Named, keys
<1>10. keys[2].vars = {EachTime}
  BY <1>4, <1>6
<1> QED
  BY <1>7, <1>8, <1>9, <1>10 DEF keys, InitKey, EachKeys

\* The number of keys is not the one that stands for not knowing it.
LEMMA InitKeysIsKnown ==
  ASSUME class \in Instances
  PROVE  InitKeysOf(class) \in Nat /\ InitKeysOf(class) /= Unknown
<1> DEFINE own == ClassKeys[class]
           varsTo(k) == UNION {own[i].vars : i \in 1..k}
           reached == {k \in Nat : k > Len(own)
                          \/ (IsFiniteSet(varsTo(k)) /\ Cardinality(varsTo(k)) <= 2 * k)}
<1>1. /\ Len(Keys) \in Nat /\ DOMAIN Keys = 1..Len(Keys)
      /\ Cardinality(EachKeys) \in Nat /\ Cardinality(CountedVars(class)) \in Nat
      /\ InitKeysOf(class) = Cardinality(EachKeys) + Cardinality(CountedVars(class))
  BY KeysOfTheDevice
<1>2. class \in Classes
  BY InstancesAssumption
<1>3. own \in Seq({own[i] : i \in DOMAIN own}) /\ \A i \in DOMAIN own : Countable(own[i])
  BY <1>2, ClassKeysAreCountable DEF AllCountable
<1>4. Len(own) <= 30
  BY <1>2, ClassKeysAreOwn DEF AreOwn
<1> HIDE DEF own
<1>5. Len(own) \in Nat /\ DOMAIN own = 1..Len(own)
  BY <1>3
<1>6. ASSUME NEW i \in DOMAIN own
      PROVE  IsFiniteSet(own[i].vars) /\ Cardinality(own[i].vars) \in 0..2
  <2>1. IsFiniteSet({EachTime}) /\ Cardinality({EachTime}) = 1
    BY FS_Singleton
  <2>2. IsFiniteSet(own[i].vars) /\ Cardinality(own[i].vars) <= 2
    <3>1. Countable(own[i])
      BY <1>3
    <3>2. CASE own[i].vars = {EachTime}
      BY <2>1, <3>2
    <3> QED
      BY <3>1, <3>2 DEF Countable
  <2>3. Cardinality(own[i].vars) \in Nat
    BY <2>2, FS_CardinalityType
  <2> QED
    BY <2>2, <2>3
<1>7. 0 \in reached
  <2>1. varsTo(0) = {}
    OBVIOUS
  <2> HIDE DEF varsTo
  <2> QED
    BY <2>1, FS_EmptySet
<1>8. ASSUME NEW k \in reached
      PROVE  k + 1 \in reached
  <2>1. CASE k + 1 > Len(own)
    BY <1>5, <2>1
  <2>2. CASE k + 1 <= Len(own)
    <3>1. IsFiniteSet(varsTo(k)) /\ Cardinality(varsTo(k)) <= 2 * k
      <4> HIDE DEF varsTo
      <4>1. k \in Nat /\ ~(k > Len(own))
        BY <1>5, <2>2
      <4> QED
        BY <4>1
    <3>2. IsFiniteSet(own[k + 1].vars) /\ Cardinality(own[k + 1].vars) \in 0..2
      BY <1>5, <1>6, <2>2
    <3>3. varsTo(k + 1) = varsTo(k) \cup own[k + 1].vars
      OBVIOUS
    <3> DEFINE A == varsTo(k)
               B == own[k + 1].vars
               C == varsTo(k + 1)
    <3>4. IsFiniteSet(C) /\ Cardinality(C) <= 2 * (k + 1)
      <4>1. /\ C = A \cup B /\ IsFiniteSet(A) /\ Cardinality(A) <= 2 * k
            /\ IsFiniteSet(B) /\ Cardinality(B) \in 0..2 /\ k \in Nat
        BY <3>1, <3>2, <3>3
      <4> HIDE DEF A, B, C, reached
      <4>2. /\ IsFiniteSet(A \cup B)
            /\ Cardinality(A \cup B) = Cardinality(A) + Cardinality(B) - Cardinality(A \cap B)
        BY <4>1, FS_Union
      <4>3. Cardinality(A) \in Nat /\ Cardinality(A \cap B) \in Nat
        BY <4>1, FS_Intersection, FS_CardinalityType
      <4> QED
        BY <4>1, <4>2, <4>3
    <3> HIDE DEF varsTo
    <3> QED
      BY <3>4
  <2>3. k \in Nat
    OBVIOUS
  <2> HIDE DEF reached
  <2> QED
    BY <1>5, <2>1, <2>2, <2>3
<1>9. reached = Nat
  <2> HIDE DEF varsTo
  <2>1. reached \in SUBSET Nat
    OBVIOUS
  <2> HIDE DEF reached
  <2> QED
    BY <1>7, <1>8, <2>1, NatIsGenerated
<1>10. IsFiniteSet(varsTo(Len(own))) /\ Cardinality(varsTo(Len(own))) <= 60
  <2> HIDE DEF varsTo
  <2>1. Len(own) \in reached
    <3> HIDE DEF reached
    <3> QED
      BY <1>5, <1>9
  <2>2. IsFiniteSet(varsTo(Len(own))) /\ Cardinality(varsTo(Len(own))) <= 2 * Len(own)
    BY <1>5, <2>1
  <2>3. Cardinality(varsTo(Len(own))) \in Nat
    BY <2>2, FS_CardinalityType
  <2> QED
    BY <1>5, <1>4, <2>2, <2>3
<1>11. CountedVars(class) \subseteq varsTo(Len(own))
  BY <1>5 DEF CountedVars, own
<1>12. Cardinality(CountedVars(class)) <= 60
  <2> HIDE DEF varsTo
  <2>1. Cardinality(varsTo(Len(own))) \in Nat
    BY <1>10, FS_CardinalityType
  <2>2. Cardinality(CountedVars(class)) <= Cardinality(varsTo(Len(own)))
    BY <1>10, <1>11, FS_Subset
  <2> QED
    BY <1>1, <1>10, <2>1, <2>2
<1>13. Cardinality(EachKeys) <= 36
  <2>1. IsFiniteSet(1..Len(Keys)) /\ Cardinality(1..Len(Keys)) = Len(Keys)
    <3> DEFINE n == Len(Keys)
    <3>1. n \in Nat /\ IF 1 > n THEN n = 0 ELSE n - 1 + 1 = n
      BY <1>1
    <3> HIDE DEF n
    <3>2. IsFiniteSet(1..n) /\ Cardinality(1..n) = n
      BY <3>1, FS_Interval
    <3> QED
      BY <3>2 DEF n
  <2>2. EachKeys \subseteq 1..Len(Keys)
    BY <1>1 DEF EachKeys
  <2>3. Cardinality(EachKeys) <= Len(Keys)
    BY <2>1, <2>2, FS_Subset
  <2> QED
    BY <1>1, <2>3, KeysHaveNames
<1> QED
  BY <1>1, <1>12, <1>13 DEF Unknown

-----------------------------------------------------------------------------
(* What is left of the property that handle and device agree.               *)

\* No report on its way ends what is held now.
Lasts == NoEnd(line, 0, After(line))

\* A report that sets initKeys; no end of a device comes after it.
Tells(r) == r.reason /= "removing" /\ ~Ends(r) /\ Keys[r.key].name = "InitKeys"
NoneTells == \A h \in DOMAIN line : Tells(line[h]) => ~NoEnd(line, h, After(line))

There == phase[1] \in {"adding", "present"}

\* The keys counted each time that have come since the device did.
Come == {i \in EachKeys : Held(i) /\ ~Ahead(line, i)}

\* A handle that is not bound has not heard of a device since it was opened; one
\* that is not connected is not attached.
OpenInv ==
  user = "open" =>
     /\ "opened" \in status
     /\ serial /= 1 =>
           initKeys = Unknown /\ reader /= "set" /\ ("attached" \in status => caught)
     /\ "connected" \notin status /\ "attached" \in status => caught

\* What is held of a device that came again comes after the end of the last.
FreshInv ==
  "connected" \in status /\ There /\ (reader = "clear" \/ ~Lasts)
  => \A k \in DOMAIN Keys : Held(k) => Comes(line, k, After(line))

\* No less is counted than came.
LowInv ==
  user = "open" /\ reader /= "clear" /\ ~overwritten =>
     /\ Cardinality(known \cap CountedVars(class)) <= keyCount
     /\ "connected" \in status /\ There /\ Lasts =>
           /\ Cardinality(known \cap CountedVars(class)) + Cardinality(Come) <= keyCount
           /\ InitKey \in Come => initKeys /= Unknown

\* When the end of a device is handled, nothing says how many keys there are.
GoneInv ==
  "connected" \in status /\ ~There =>
     /\ NoneTells
     /\ Lasts =>
           /\ reader /= "set" /\ ("attached" \in status => caught)
           /\ \/ initKeys = Unknown \/ reader = "clear"
              \/ phase[1] = "absent" /\ line = <<>> /\ reader = "idle"

\* After the last report that counts the handle is attached.
LastInv ==
  /\ user = "open" /\ "connected" \in status /\ phase[1] = "present"
  /\ reader = "idle" /\ ~overwritten
  /\ \A h \in DOMAIN line : ~IsFirst(line[h]) /\ ~Ends(line[h])
  => "attached" \in status

SettledInv == OpenInv /\ FreshInv /\ LowInv /\ GoneInv /\ LastInv

\* What comes and is not ended by the rest of the line is ahead.
LEMMA ComesAhead ==
  ASSUME NEW S, NEW l \in Seq(S), NEW k, Comes(l, k, After(l))
  PROVE  /\ NoEnd(l, 0, After(l)) => Ahead(l, k)
         /\ \E h \in DOMAIN l : IsFirst(l[h])
<1>1. PICK j \in DOMAIN l : j < After(l) /\ IsFirst(l[j]) /\ l[j].key = k
  BY DEF Comes
<1>2. \A h \in DOMAIN l : h \in Nat /\ h < After(l)
  BY DEF After
<1>3. NoEnd(l, 0, After(l)) => NoEnd(l, 0, j)
  BY <1>2 DEF NoEnd
<1> QED
  BY <1>1, <1>3 DEF Ahead

\* The line when its first report is taken, and when one is sent.
LEMMA LineShorter ==
  ASSUME Types, line /= <<>>, line' = Tail(line)
  PROVE  LET x == Head(line)
         IN /\ Lasts <=> ~Ends(x) /\ Lasts'
            /\ \A k : Comes(line, k, After(line)) =>
                  Comes(line', k, After(line')) \/ (IsFirst(x) /\ x.key = k /\ Lasts')
            /\ \A k : Ahead(line, k) <=> (IsFirst(x) /\ x.key = k) \/ (~Ends(x) /\ Ahead(line', k))
            /\ \A h \in DOMAIN line' :
                  /\ h + 1 \in DOMAIN line /\ line'[h] = line[h + 1]
                  /\ NoEnd(line', h, After(line')) <=> NoEnd(line, h + 1, After(line))
            /\ 1 \in DOMAIN line /\ line[1] = x
            /\ \A h \in DOMAIN line : h = 1 \/ \E g \in DOMAIN line' : line[h] = line'[g]
            /\ NoEnd(line, 1, After(line)) <=> Lasts'
<1> DEFINE x == Head(line)
           t == Tail(line)
           S == Reports
<1>1. line \in Seq(S)
  BY DEF Types
<1> HIDE DEF S
<1>2. /\ After(line) = After(t) + 1 /\ After(t) \in Nat /\ After(t) > 0
      /\ \A h \in DOMAIN t : h \in Nat /\ h + 1 \in DOMAIN line /\ t[h] = line[h + 1]
      /\ 1 \in DOMAIN line /\ line[1] = x
      /\ \A h \in DOMAIN line : h = 1 \/ (h - 1 \in DOMAIN t /\ line[h] = t[h - 1])
  BY <1>1 DEF After
<1>3. /\ \A i, j \in Nat : NoEnd(t, i, j) <=> NoEnd(line, i + 1, j + 1)
      /\ \A j \in Nat : j > 0 => (NoEnd(line, 0, j + 1) <=> ~Ends(x) /\ NoEnd(t, 0, j))
      /\ \A k : \A h \in Nat : Comes(line, k, h + 1) =>
            Comes(t, k, h) \/ (IsFirst(x) /\ x.key = k /\ NoEnd(t, 0, h))
      /\ \A k : Ahead(line, k) <=> (IsFirst(x) /\ x.key = k) \/ (~Ends(x) /\ Ahead(t, k))
  BY <1>1, TakenReport
<1> HIDE DEF x, t
<1>4. NoEnd(t, 0, After(t)) <=> NoEnd(line, 0 + 1, After(line))
  BY <1>2, <1>3
<1>5. 0 + 1 = 1
  OBVIOUS
<1>6. line' = t
  BY DEF t
<1>7. /\ Lasts <=> ~Ends(x) /\ NoEnd(t, 0, After(t))
      /\ \A k : Comes(line, k, After(line)) =>
            Comes(t, k, After(t)) \/ (IsFirst(x) /\ x.key = k /\ NoEnd(t, 0, After(t)))
      /\ \A h \in DOMAIN t : NoEnd(t, h, After(t)) <=> NoEnd(line, h + 1, After(line))
      /\ \A h \in DOMAIN line : h = 1 \/ \E g \in DOMAIN t : line[h] = t[g]
      /\ NoEnd(line, 1, After(line)) <=> NoEnd(t, 0, After(t))
  BY <1>2, <1>3, <1>4, <1>5 DEF Lasts
<1>8. Lasts' <=> NoEnd(t, 0, After(t))
  BY <1>6 DEF Lasts
<1> QED
  BY <1>2, <1>3, <1>6, <1>7, <1>8 DEF x

LEMMA LineLonger ==
  ASSUME Types, NEW r \in Reports, line' = Append(line, r)
  PROVE  /\ Lasts' <=> Lasts /\ ~Ends(r)
         /\ \A k : Comes(line', k, After(line')) <=>
               ~Ends(r) /\ (Comes(line, k, After(line)) \/ (IsFirst(r) /\ r.key = k))
         /\ \A k : Ahead(line', k) <=> Ahead(line, k) \/ (IsFirst(r) /\ r.key = k /\ Lasts)
         /\ \A h \in DOMAIN line :
               /\ h \in DOMAIN line' /\ line'[h] = line[h]
               /\ NoEnd(line', h, After(line')) <=> NoEnd(line, h, After(line)) /\ ~Ends(r)
         /\ After(line) \in DOMAIN line' /\ line'[After(line)] = r
         /\ \A h \in DOMAIN line' : h \in DOMAIN line \/ h = After(line)
<1> DEFINE m == Append(line, r)
           S == Reports
<1>1. line \in Seq(S) /\ r \in S
  BY DEF Types
<1> HIDE DEF S
<1>2. /\ After(line) \in Nat /\ 0 < After(line)
      /\ \A h \in DOMAIN line : h \in Nat /\ h < After(line) /\ h \in DOMAIN m /\ m[h] = line[h]
      /\ After(line) \in DOMAIN m /\ m[After(line)] = r
      /\ \A h \in DOMAIN m : h \in DOMAIN line \/ h = After(line)
  BY <1>1 DEF After
<1>3. /\ \A i \in Nat : i < After(line) =>
            (NoEnd(m, i, After(m)) <=> NoEnd(line, i, After(line)) /\ ~Ends(r))
      /\ \A k : Comes(m, k, After(m)) <=>
            ~Ends(r) /\ (Comes(line, k, After(line)) \/ (IsFirst(r) /\ r.key = k))
      /\ \A k : Ahead(m, k) <=>
            Ahead(line, k) \/ (IsFirst(r) /\ r.key = k /\ NoEnd(line, 0, After(line)))
  BY <1>1, AppendedReport
<1> HIDE DEF m
<1>4. line' = m
  BY DEF m
<1>5. NoEnd(m, 0, After(m)) <=> Lasts /\ ~Ends(r)
  BY <1>2, <1>3 DEF Lasts
<1>6. Lasts' <=> NoEnd(m, 0, After(m))
  BY <1>4 DEF Lasts
<1> QED
  BY <1>2, <1>3, <1>4, <1>5, <1>6 DEF Lasts

\* A report of the service, as the handle takes it.
LEMMA SentReport ==
  ASSUME Types, Devices = {1}, NEW k \in DOMAIN Keys, NEW v \in Told,
         NEW why \in {"added", "changed", "removing", "current"}
  PROVE  LET r == Report(k, v, why)
         IN /\ r \in Reports /\ r.key = k
            /\ Ends(r) <=> v = "Detached"
            /\ IsFirst(r) <=> why \in {"added", "current"} /\ v /= "Detached"
            /\ Tells(r) => why /= "removing" /\ v /= "Detached"
BY DEF Report, Reports, Ends, IsFirst, Tells

\* What the steps of the service say to a handle that is connected.
LEMMA PublishSays ==
  ASSUME Types, ServiceInv, HandleInv, Devices = {1}, "connected" \in status,
         DictionaryIsSound, DictionaryIsSound', NEW d \in Devices, Publish(d)
  PROVE  \E k \in DOMAIN Keys :
            /\ phase[1] = "adding" /\ phase'[1] \in {"adding", "present"}
            /\ \A j \in DOMAIN Keys : Held(j)' <=> Held(j) \/ j = k
            /\ Lasts' <=> Lasts
            /\ \A j : Comes(line', j, After(line')) <=> Comes(line, j, After(line)) \/ j = k
            /\ \A j : Ahead(line', j) <=> Ahead(line, j) \/ (j = k /\ Lasts)
            /\ \E h \in DOMAIN line' : IsFirst(line'[h])
<1>1. PICK k \in DOMAIN Keys, v \in {"Attached", "value"} :
           /\ d = 1 /\ phase[1] = "adding" /\ ~Held(k)
           /\ dict'.vals = [dict.vals EXCEPT ![k] = v]
           /\ line' = IF listening THEN Append(line, Report(k, v, "added")) ELSE line
  BY PublishEffect
<1> DEFINE r == Report(k, v, "added")
<1>2. /\ r \in Reports /\ r.key = k /\ ~Ends(r) /\ IsFirst(r)
  BY <1>1, SentReport DEF Told
<1>3. line' = Append(line, r)
  BY <1>1 DEF HandleInv
<1>4. phase'[1] \in {"adding", "present"}
  BY <1>1 DEF Publish, Types
<1>5. \A j \in DOMAIN Keys : Held(j)' <=> Held(j) \/ j = k
  <2>1. /\ dict.vals \in [Values -> Told \cup {NoValue}] /\ DOMAIN Keys \subseteq Values
        /\ v /= NoValue
    BY TheDevice DEF Types, NoValue
  <2> QED
    BY <1>1, <2>1 DEF Held
<1> HIDE DEF r
<1>6. /\ Lasts' <=> Lasts /\ ~Ends(r)
      /\ \A j : Comes(line', j, After(line')) <=>
            ~Ends(r) /\ (Comes(line, j, After(line)) \/ (IsFirst(r) /\ r.key = j))
      /\ \A j : Ahead(line', j) <=> Ahead(line, j) \/ (IsFirst(r) /\ r.key = j /\ Lasts)
      /\ After(line) \in DOMAIN line' /\ line'[After(line)] = r
  BY <1>2, <1>3, LineLonger
<1> QED
  BY <1>1, <1>2, <1>4, <1>5, <1>6

LEMMA ChangeSays ==
  ASSUME Types, ServiceInv, HandleInv, Devices = {1}, "connected" \in status,
         DictionaryIsSound, DictionaryIsSound', NEW d \in Devices, Change(d)
  PROVE  /\ phase[1] = "present" /\ phase' = phase
         /\ \A j \in DOMAIN Keys : Held(j)' <=> Held(j)
         /\ Lasts' <=> Lasts
         /\ \A j : Comes(line', j, After(line')) <=> Comes(line, j, After(line))
         /\ \A j : Ahead(line', j) <=> Ahead(line, j)
         /\ \A h \in DOMAIN line : h \in DOMAIN line' /\ line'[h] = line[h]
<1>1. PICK k \in DOMAIN Keys :
           /\ d = 1 /\ phase[1] = "present" /\ Held(k)
           /\ dict'.vals = [dict.vals EXCEPT ![k] = "value"]
           /\ line' = IF listening THEN Append(line, Report(k, "value", "changed")) ELSE line
  BY ChangeEffect
<1> DEFINE r == Report(k, "value", "changed")
<1>2. r \in Reports /\ ~Ends(r) /\ ~IsFirst(r)
  BY <1>1, SentReport DEF Told
<1>3. line' = Append(line, r)
  BY <1>1 DEF HandleInv
<1>4. phase' = phase
  BY DEF Change
<1>5. \A j \in DOMAIN Keys : Held(j)' <=> Held(j)
  <2>1. /\ dict.vals \in [Values -> Told \cup {NoValue}] /\ DOMAIN Keys \subseteq Values
        /\ "value" /= NoValue
    BY TheDevice DEF Types, NoValue
  <2> QED
    BY <1>1, <2>1 DEF Held
<1> HIDE DEF r
<1> QED
  BY <1>1, <1>2, <1>3, <1>4, <1>5, LineLonger

LEMMA UnplugSays ==
  ASSUME Types, ServiceInv, HandleInv, Devices = {1}, "connected" \in status,
         DictionaryIsSound, DictionaryIsSound', NEW d \in Devices, Unplug(d)
  PROVE  phase'[1] = "removing" /\ ~Lasts' /\ NoneTells'
<1>1. /\ d = 1 /\ phase[1] = "present" /\ StatusKey \in DOMAIN Keys
      /\ line' = IF listening THEN Append(line, Report(StatusKey, "Detached", "changed"))
                 ELSE line
  BY UnplugEffect
<1> DEFINE r == Report(StatusKey, "Detached", "changed")
<1>2. r \in Reports /\ Ends(r) /\ ~Tells(r)
  BY <1>1, SentReport DEF Told
<1>3. line' = Append(line, r)
  BY <1>1 DEF HandleInv
<1>4. phase'[1] = "removing" /\ class' = class
  BY <1>1 DEF Unplug, Types
<1> HIDE DEF r
<1>5. Keys' = Keys
  BY <1>4, KeysStay
<1>6. /\ Lasts' <=> Lasts /\ ~Ends(r)
      /\ \A h \in DOMAIN line : ~NoEnd(line', h, After(line'))
      /\ line'[After(line)] = r
      /\ \A h \in DOMAIN line' : h \in DOMAIN line \/ h = After(line)
  BY <1>2, <1>3, LineLonger
<1>7. NoneTells'
  BY <1>2, <1>5, <1>6 DEF NoneTells, Tells
<1> QED
  BY <1>2, <1>4, <1>6, <1>7

LEMMA WithdrawSays ==
  ASSUME Types, ServiceInv, HandleInv, Devices = {1}, "connected" \in status,
         DictionaryIsSound, NEW d \in Devices, Withdraw(d)
  PROVE  /\ phase[1] = "removing" /\ phase'[1] \in {"removing", "absent"}
         /\ Lasts' => Lasts
         /\ NoneTells => NoneTells'
<1>1. PICK k \in DOMAIN Keys :
           /\ d = 1 /\ phase[1] = "removing" /\ Held(k)
           /\ line' = IF listening
                      THEN Append(line, Report(k, dict.vals[k], "removing")) ELSE line
  BY WithdrawEffect
<1> DEFINE r == Report(k, dict.vals[k], "removing")
<1>2. dict.vals[k] \in Told
  <2>1. dict.vals \in [Values -> Told \cup {NoValue}] /\ DOMAIN Keys \subseteq Values
    BY TheDevice DEF Types
  <2> QED
    BY <1>1, <2>1 DEF Held
<1>3. r \in Reports /\ ~Tells(r)
  BY <1>2, SentReport
<1>4. line' = Append(line, r)
  BY <1>1 DEF HandleInv
<1>5. phase'[1] \in {"removing", "absent"} /\ class' = class
  BY <1>1 DEF Withdraw, Types
<1> HIDE DEF r
<1>6. Keys' = Keys
  BY <1>5, KeysStay
<1>7. /\ Lasts' <=> Lasts /\ ~Ends(r)
      /\ \A h \in DOMAIN line :
            /\ line'[h] = line[h]
            /\ NoEnd(line', h, After(line')) <=> NoEnd(line, h, After(line)) /\ ~Ends(r)
      /\ line'[After(line)] = r
      /\ \A h \in DOMAIN line' : h \in DOMAIN line \/ h = After(line)
  BY <1>3, <1>4, LineLonger
<1>8. NoneTells => NoneTells'
  BY <1>3, <1>6, <1>7 DEF NoneTells, Tells
<1> QED
  BY <1>1, <1>5, <1>7, <1>8

\* A report that a connected handle passes over.
LEMMA SkipSays ==
  ASSUME Types, HandleInv, Devices = {1}, "connected" \in status, ReaderSkips
  PROVE  /\ reader = "idle" /\ line /= <<>> /\ line' = Tail(line)
         /\ ~IsFirst(Head(line))
         /\ Ends(Head(line)) => specific = "any" /\ serial /= 1
<1>1. /\ reader = "idle" /\ line /= <<>> /\ line' = Tail(line)
      /\ Skips(Head(line), DeviceOf(Head(line).key))
  BY DEF ReaderSkips
<1>2. DeviceOf(Head(line).key) = 1
  BY <1>1, HeadReport
<1>3. specific /= "any" => serial = 1
  BY DEF HandleInv
<1> QED
  BY <1>1, <1>2, <1>3 DEF Skips, IsFirst, Ends

\* What a handle hears that connects.
LEMMA ConnectSays ==
  ASSUME Types, ServiceInv, HandleInv, Devices = {1}, DictionaryIsSound, Connect
  PROVE  /\ reader = "idle" /\ phase' = phase
         /\ \A j \in DOMAIN Keys : Held(j)' <=> Held(j)
         /\ There => /\ Lasts'
                     /\ \A k \in DOMAIN Keys : Held(k) => Ahead(line', k)
         /\ phase[1] = "removing" => ~Lasts' /\ NoneTells'
         /\ phase[1] = "absent" => line' = <<>> /\ NoneTells'
<1> DEFINE m == line'
<1>1. Keys' = Keys /\ phase' = phase
  BY KeysStay DEF Connect
<1>2. /\ reader = "idle" /\ dict'.vals = dict.vals /\ m \in Seq(Reports)
      /\ \A j \in DOMAIN m :
            /\ m[j].key \in DOMAIN Keys /\ Held(m[j].key)
            /\ m[j].val = dict.vals[m[j].key] /\ m[j].reason = "current"
      /\ \A k \in DOMAIN Keys : Held(k) => \E j \in DOMAIN m : m[j].key = k
      /\ \A i, j \in DOMAIN m : i < j => m[i].key < m[j].key
  BY ConnectEffect
<1> HIDE DEF m
<1>3. /\ After(m) \in Nat /\ Len(m) \in Nat /\ DOMAIN m = 1..Len(m)
      /\ \A h \in DOMAIN m : h \in Nat /\ h < After(m)
  <2> DEFINE S == Reports
  <2>1. m \in Seq(S)
    BY <1>2
  <2> HIDE DEF S
  <2> QED
    BY <2>1 DEF After
<1>4. \A j \in DOMAIN Keys : Held(j)' <=> Held(j)
  BY <1>2 DEF Held
<1>5. ASSUME There
      PROVE  Lasts' /\ \A k \in DOMAIN Keys : Held(k) => Ahead(m, k)
  <2>1. \A h \in DOMAIN m : ~Ends(m[h])
    <3>1. \A i \in DOMAIN Keys : Held(i) => dict.vals[i] /= "Detached"
      BY <1>5 DEF ServiceInv, There
    <3> QED
      BY <1>2, <3>1 DEF Ends
  <2>2. \A i, j : NoEnd(m, i, j)
    BY <2>1 DEF NoEnd
  <2>3. \A h \in DOMAIN m : IsFirst(m[h])
    BY <1>2, <2>1 DEF IsFirst
  <2>4. \A k \in DOMAIN Keys : Held(k) => Ahead(m, k)
    BY <1>2, <2>2, <2>3 DEF Ahead
  <2> QED
    BY <2>2, <2>4 DEF Lasts, m
<1>6. ASSUME phase[1] = "removing"
      PROVE  ~Lasts' /\ NoneTells'
  <2>1. StatusKey \in DOMAIN Keys /\ Held(StatusKey)
    <3>1. /\ Len(Keys) \in Nat /\ Len(Keys) >= 6 /\ DOMAIN Keys = 1..Len(Keys)
          /\ StatusKey \in DOMAIN Keys /\ Withdrawn[Len(Keys)] = StatusKey
      BY KeysOfTheDevice, WithdrawnInOrder DEF Types
    <3>2. Len(Keys) \in DOMAIN Keys /\ Len(Keys) > done[1]
      BY <1>6, <3>1 DEF ServiceInv
    <3> QED
      BY <1>6, <3>1, <3>2 DEF ServiceInv
  <2>2. dict.vals[StatusKey] = "Detached"
    BY <1>6, <2>1 DEF ServiceInv
  <2>3. PICK j \in DOMAIN m : m[j].key = StatusKey
    BY <1>2, <2>1
  <2>4. Ends(m[j])
    BY <1>2, <2>2, <2>3 DEF Ends
  <2>5. ~NoEnd(m, 0, After(m))
    BY <1>3, <2>3, <2>4 DEF NoEnd
  <2>6. ASSUME NEW h \in DOMAIN m, Keys[m[h].key].name = "InitKeys"
        PROVE  ~NoEnd(m, h, After(m))
    <3>1. m[h].key = 2 /\ m[j].key = 6
      BY <1>2, <2>3, <2>6, KeysHaveNames DEF Types, InitKey
    <3>2. h < j
      BY <1>2, <1>3, <3>1
    <3> QED
      BY <1>3, <2>3, <2>4, <3>2 DEF NoEnd
  <2>7. NoneTells'
    BY <1>1, <2>6 DEF NoneTells, Tells, m
  <2> QED
    BY <2>5, <2>7 DEF Lasts, m
<1>7. ASSUME phase[1] = "absent"
      PROVE  m = <<>>
  <2>1. \A k \in DOMAIN Keys : ~Held(k)
    BY <1>7 DEF ServiceInv
  <2>2. DOMAIN m = {}
    BY <1>2, <2>1
  <2> DEFINE S == Reports
  <2>3. m \in Seq(S)
    BY <1>2
  <2> HIDE DEF S
  <2> QED
    BY <1>3, <2>2, <2>3
<1>8. m = <<>> => NoneTells'
  BY DEF NoneTells, m
<1> QED
  BY <1>1, <1>2, <1>4, <1>5, <1>6, <1>7, <1>8 DEF m

-----------------------------------------------------------------------------
(* Every step keeps it.                                                      *)

LEMMA OpenStep ==
  ASSUME Devices = {1}, Types, HandleInv, AttachInv, OpenInv, [Next]_vars
  PROVE  OpenInv'
<1>1. /\ user = "open" /\ listening => "connected" \in status
      /\ user = "closed" => ~listening
      /\ ~listening => reader = "idle"
      /\ "attached" \in status /\ user = "closed" => caught
  BY DEF HandleInv, AttachInv
<1>2. ASSUME UNCHANGED <<handleVars, threadVars, historyVars>>
      PROVE  OpenInv'
  BY <1>2 DEF OpenInv, handleVars, threadVars, historyVars
<1>3. ASSUME NEW d \in Devices,
             \/ Plug(d) \/ Publish(d) \/ Change(d) \/ Unplug(d) \/ Withdraw(d)
      PROVE  OpenInv'
  BY <1>3, <1>2, <1>1
     DEF Plug, Publish, Change, Unplug, Withdraw
<1>4. CASE ReaderCounts
  <2>1. serial' = 1 /\ UNCHANGED <<status, user, historyVars>>
    BY <1>4, HeadReport DEF ReaderCounts, Binds
  <2> QED
    BY <2>1 DEF OpenInv, historyVars
<1>5. CASE ReaderSkips
  BY <1>5, <1>1
     DEF ReaderSkips, OpenInv, serviceVars, handleVars, threadVars,
         historyVars
<1>6. CASE ReaderDetaches
  BY <1>6, <1>1
     DEF ReaderDetaches, OpenInv, serviceVars, handleVars, threadVars,
         historyVars
<1>7. CASE ReaderClears
  BY <1>7, <1>1
     DEF ReaderClears, OpenInv, serviceVars, handleVars, threadVars,
         historyVars
<1>8. CASE ReaderTests
  BY <1>8, <1>1
     DEF ReaderTests, HasAllKeys, OpenInv, serviceVars, handleVars,
         threadVars, historyVars
<1>9. CASE ReaderAttaches
  BY <1>9, <1>1
     DEF ReaderAttaches, OpenInv, serviceVars, handleVars, threadVars,
         historyVars
<1>10. CASE Lose
  BY <1>10, <1>1
     DEF Lose, OpenInv, serviceVars, handleVars, threadVars, historyVars
<1>11. CASE Open
  BY <1>11, <1>1
     DEF Open, OpenInv, serviceVars, handleVars, threadVars, historyVars
<1>12. CASE Connect
  BY <1>12, <1>1
     DEF Connect, OpenInv, serviceVars, handleVars, threadVars, historyVars
<1>13. CASE CloseStarts
  BY <1>13, <1>1
     DEF CloseStarts, OpenInv, serviceVars, handleVars, threadVars,
         historyVars
<1>14. CASE CloseClears
  BY <1>14, <1>1
     DEF CloseClears, OpenInv, serviceVars, handleVars, threadVars,
         historyVars
<1>15. CASE CloseIgnores
  BY <1>15, <1>1
     DEF CloseIgnores, OpenInv, serviceVars, handleVars, threadVars,
         historyVars
<1>16. CASE CloseResets
  BY <1>16, <1>1
     DEF CloseResets, OpenInv, serviceVars, handleVars, threadVars,
         historyVars
<1>17. CASE SetterTests
  BY <1>17, <1>1
     DEF SetterTests, OpenInv, serviceVars, handleVars, threadVars,
         historyVars
<1>18. CASE SetterWrites
  BY <1>18, <1>1
     DEF SetterWrites, OpenInv, serviceVars, handleVars, threadVars,
         historyVars
<1>19. CASE UNCHANGED vars
  BY <1>19, <1>1
     DEF vars, OpenInv, serviceVars, handleVars, threadVars, historyVars
<1>20. QED
  BY Zenon, <1>3, <1>4, <1>5, <1>6, <1>7, <1>8, <1>9, <1>10, <1>11, <1>12,
     <1>13, <1>14, <1>15, <1>16, <1>17, <1>18, <1>19
     DEF Next, Service, Reader, User, Setter

LEMMA FreshStep ==
  ASSUME Devices = {1}, Types, ServiceInv, HandleInv, FreshInv,
         DictionaryIsSound, DictionaryIsSound', [Next]_vars
  PROVE  FreshInv'
<1>1. Keys' = Keys
  BY ClassStays, KeysStay
<1>2. ASSUME "connected" \notin status'
      PROVE  FreshInv'
  BY <1>2 DEF FreshInv
<1>3. phase \in [Devices -> {"absent", "adding", "present", "removing"}]
  BY DEF Types
<1>4. "connected" \in status => user = "open" /\ listening
  BY DEF HandleInv
<1>5. ASSUME line' = line, dict' = dict, phase' = phase, reader' = "clear" => reader = "clear",
             "connected" \in status' => "connected" \in status
      PROVE  FreshInv'
  BY <1>1, <1>5 DEF FreshInv, There, Lasts, Held
\* The handler takes a report that is no key's first.
<1>6. ASSUME line /= <<>>, line' = Tail(line), dict' = dict, phase' = phase,
             "connected" \in status' => "connected" \in status,
             Ends(Head(line)) \/ reader' /= "clear",
             IsFirst(Head(line)) => reader' /= "clear"
      PROVE  FreshInv'
  <2>1. /\ Lasts <=> ~Ends(Head(line)) /\ Lasts'
        /\ \A k : Comes(line, k, After(line)) =>
              Comes(line', k, After(line')) \/ (IsFirst(Head(line)) /\ Lasts')
    BY <1>6, LineShorter
  <2>2. SUFFICES ASSUME "connected" \in status', There, reader' = "clear" \/ ~Lasts',
                        NEW k \in DOMAIN Keys, Held(k)
                 PROVE  Comes(line', k, After(line'))
    BY <1>1, <1>6 DEF FreshInv, There, Held
  <2>3. ~Lasts
    BY <1>6, <2>1, <2>2
  <2>4. Comes(line, k, After(line))
    BY <1>6, <2>2, <2>3 DEF FreshInv
  <2> QED
    BY <1>6, <2>1, <2>2, <2>4
<1>7. ASSUME NEW d \in Devices, Plug(d)
      PROVE  FreshInv'
  <2>1. d = 1 /\ phase[1] = "absent" /\ dict' = dict
    BY <1>7 DEF Plug
  <2>2. \A k \in DOMAIN Keys : ~Held(k)
    BY <2>1 DEF ServiceInv
  <2> QED
    BY <1>1, <2>1, <2>2 DEF FreshInv, Held
<1>8. ASSUME NEW d \in Devices, Publish(d)
      PROVE  FreshInv'
  <2>1. UNCHANGED <<status, reader>>
    BY <1>8 DEF Publish, handleVars, threadVars
  <2>2. SUFFICES ASSUME "connected" \in status
                 PROVE  FreshInv'
    BY <1>2, <2>1
  <2>3. PICK k \in DOMAIN Keys :
           /\ phase[1] = "adding"
           /\ \A j \in DOMAIN Keys : Held(j)' <=> Held(j) \/ j = k
           /\ Lasts' <=> Lasts
           /\ \A j : Comes(line', j, After(line')) <=> Comes(line, j, After(line)) \/ j = k
    BY <1>8, <2>2, PublishSays
  <2> QED
    BY <1>1, <2>1, <2>2, <2>3 DEF FreshInv, There
<1>9. ASSUME NEW d \in Devices, Change(d)
      PROVE  FreshInv'
  <2>1. UNCHANGED <<status, reader>>
    BY <1>9 DEF Change, handleVars, threadVars
  <2>2. SUFFICES ASSUME "connected" \in status
                 PROVE  FreshInv'
    BY <1>2, <2>1
  <2>3. /\ phase' = phase
        /\ \A j \in DOMAIN Keys : Held(j)' <=> Held(j)
        /\ Lasts' <=> Lasts
        /\ \A j : Comes(line', j, After(line')) <=> Comes(line, j, After(line))
    BY <1>9, <2>2, ChangeSays
  <2> QED
    BY <1>1, <2>1, <2>2, <2>3 DEF FreshInv, There
<1>10. ASSUME NEW d \in Devices, Unplug(d)
       PROVE  FreshInv'
  <2>1. phase'[1] = "removing"
    BY <1>10, <1>3 DEF Unplug
  <2> QED
    BY <2>1 DEF FreshInv, There
<1>11. ASSUME NEW d \in Devices, Withdraw(d)
       PROVE  FreshInv'
  <2>1. phase'[1] \in {"removing", "absent"}
    BY <1>11, <1>3 DEF Withdraw
  <2> QED
    BY <2>1 DEF FreshInv, There
<1>12. CASE ReaderSkips
  <2>1. UNCHANGED <<dict, phase, status, reader>>
    BY <1>12 DEF ReaderSkips, handleVars, threadVars
  <2>2. SUFFICES ASSUME "connected" \in status
                 PROVE  FreshInv'
    BY <1>2, <2>1
  <2>3. reader = "idle" /\ line /= <<>> /\ line' = Tail(line) /\ ~IsFirst(Head(line))
    BY <1>12, <2>2, SkipSays
  <2> QED
    BY <1>6, <2>1, <2>3
<1>13. CASE ReaderCounts
  <2>1. /\ line /= <<>> /\ line' = Tail(line) /\ reader' = "test"
        /\ UNCHANGED <<dict, phase, status>>
    BY <1>13 DEF ReaderCounts
  <2> QED
    BY <1>6, <2>1
<1>14. CASE ReaderDetaches
  <2>1. /\ line /= <<>> /\ line' = Tail(line) /\ Head(line).val = "Detached"
        /\ UNCHANGED <<dict, phase>> /\ status' = status \ {"attached"}
    BY <1>14 DEF ReaderDetaches
  <2>2. Ends(Head(line)) /\ ~IsFirst(Head(line))
    BY <2>1 DEF Ends, IsFirst
  <2> QED
    BY <1>6, <2>1, <2>2
<1>15. CASE Connect
  <2>1. /\ reader = "idle" /\ phase' = phase /\ (There => Lasts')
    BY <1>15, ConnectSays
  <2>2. reader' = reader
    BY <1>15 DEF Connect, threadVars
  <2> QED
    BY <2>1, <2>2 DEF FreshInv, There
<1>16. CASE Lose
  BY <1>16, <1>2, <1>4, <1>5
     DEF Lose, serviceVars, handleVars, threadVars
<1>17. CASE Open
  BY <1>17, <1>2, <1>4, <1>5
     DEF Open, serviceVars, handleVars, threadVars
<1>18. CASE CloseIgnores
  <2>1. "connected" \notin status'
    BY <1>18, <1>4 DEF CloseIgnores
  <2> QED
    BY <1>2, <2>1
<1>19. CASE ReaderClears
  BY <1>19, <1>5
     DEF ReaderClears, serviceVars, handleVars, threadVars
<1>20. CASE ReaderTests
  BY <1>20, <1>5
     DEF ReaderTests, serviceVars, handleVars, threadVars
<1>21. CASE ReaderAttaches
  BY <1>21, <1>5
     DEF ReaderAttaches, serviceVars, handleVars, threadVars
<1>22. CASE CloseStarts
  BY <1>22, <1>5
     DEF CloseStarts, serviceVars, handleVars, threadVars
<1>23. CASE CloseClears
  BY <1>23, <1>5
     DEF CloseClears, serviceVars, handleVars, threadVars
<1>24. CASE CloseResets
  BY <1>24, <1>5
     DEF CloseResets, serviceVars, handleVars, threadVars
<1>25. CASE SetterTests
  BY <1>25, <1>5
     DEF SetterTests, serviceVars, handleVars, threadVars
<1>26. CASE SetterWrites
  BY <1>26, <1>5
     DEF SetterWrites, serviceVars, handleVars, threadVars
<1>27. CASE UNCHANGED vars
  BY <1>27, <1>5
     DEF vars, serviceVars, handleVars, threadVars
<1>28. QED
  BY Zenon, <1>7, <1>8, <1>9, <1>10, <1>11, <1>12, <1>13, <1>14, <1>15, <1>16,
     <1>17, <1>18, <1>19, <1>20, <1>21, <1>22, <1>23, <1>24, <1>25, <1>26,
     <1>27
     DEF Next, Service, Reader, User, Setter

\* The keys of Come.
LEMMA ComeKeys ==
  ASSUME class \in Instances, class' = class
  PROVE  /\ IsFiniteSet(Come) /\ Cardinality(Come) \in Nat /\ Cardinality(Come') \in Nat
         /\ Come' \subseteq Come => Cardinality(Come') <= Cardinality(Come)
         /\ \A i : Come' \subseteq Come \cup {i} => Cardinality(Come') <= Cardinality(Come) + 1
         /\ Come' = {} => Cardinality(Come') = 0
         /\ Come = EachKeys => Cardinality(Come) = Cardinality(EachKeys)
<1> DEFINE S == Come
           T == Come'
           E == EachKeys
<1>1. IsFiniteSet(E)
  BY KeysOfTheDevice
<1>2. EachKeys' = EachKeys
  BY KeysStay
<1>3. S \subseteq E /\ T \subseteq E
  BY <1>2 DEF Come
<1> HIDE DEF S, T, E
<1>4. /\ IsFiniteSet(S) /\ Cardinality(S) \in Nat /\ IsFiniteSet(T) /\ Cardinality(T) \in Nat
  BY <1>1, <1>3, FS_Subset, FS_CardinalityType
<1>5. T \subseteq S => Cardinality(T) <= Cardinality(S)
  BY <1>4, FS_Subset
<1>6. ASSUME NEW i, T \subseteq S \cup {i}
      PROVE  Cardinality(T) <= Cardinality(S) + 1
  <2> DEFINE R == S \cup {i}
  <2>1. /\ IsFiniteSet(R)
        /\ Cardinality(R) = Cardinality(S) \/ Cardinality(R) = Cardinality(S) + 1
    BY <1>4, FS_AddElement
  <2>2. T \subseteq R
    BY <1>6
  <2> HIDE DEF R
  <2>3. Cardinality(T) <= Cardinality(R)
    BY <2>1, <2>2, FS_Subset
  <2> QED
    BY <1>4, <2>1, <2>3
<1>7. T = {} => Cardinality(T) = 0
  BY FS_EmptySet
<1>8. S = E => Cardinality(S) = Cardinality(E)
  OBVIOUS
<1> QED
  BY <1>4, <1>5, <1>6, <1>7, <1>8 DEF S, T, E

\* Steps that count nothing and after which no more has come.
LEMMA LowKept ==
  ASSUME Types, class' = class, LowInv, keyCount' = keyCount, known' = known,
         user' = "open" => user = "open", reader /= "clear",
         ~overwritten' => ~overwritten, initKeys' = initKeys,
         "connected" \in status' /\ There' /\ Lasts' =>
            \/ Come' = {}
            \/ "connected" \in status /\ There /\ Lasts /\ Come' \subseteq Come
  PROVE  LowInv'
<1> DEFINE n == Cardinality(known \cap CountedVars(class))
<1>1. n \in Nat /\ keyCount \in Nat
  BY KnownVars DEF Types
<1>2. /\ Cardinality(Come) \in Nat /\ Cardinality(Come') \in Nat
      /\ Come' \subseteq Come => Cardinality(Come') <= Cardinality(Come)
      /\ Come' = {} => Cardinality(Come') = 0
  BY ComeKeys DEF Types
<1>3. Cardinality(known' \cap CountedVars(class')) = n
  OBVIOUS
<1>4. SUFFICES ASSUME user = "open", ~overwritten
               PROVE  /\ n <= keyCount
                      /\ "connected" \in status' /\ There' /\ Lasts' =>
                            /\ n + Cardinality(Come') <= keyCount
                            /\ InitKey \in Come' => initKeys /= Unknown
  BY <1>3 DEF LowInv, InitKey
<1>5. /\ n <= keyCount
      /\ "connected" \in status /\ There /\ Lasts =>
            /\ n + Cardinality(Come) <= keyCount
            /\ InitKey \in Come => initKeys /= Unknown
  BY <1>4 DEF LowInv
<1> HIDE DEF n
<1>6. ASSUME Come' = {}
      PROVE  n + Cardinality(Come') <= keyCount /\ InitKey \notin Come'
  BY <1>1, <1>2, <1>5, <1>6
<1>7. ASSUME "connected" \in status /\ There /\ Lasts /\ Come' \subseteq Come
      PROVE  n + Cardinality(Come') <= keyCount /\ (InitKey \in Come' => initKeys /= Unknown)
  BY <1>1, <1>2, <1>5, <1>7
<1> QED
  BY <1>5, <1>6, <1>7

\* Nothing is known when a handle starts afresh.
LEMMA LowStarts ==
  ASSUME class \in Instances, class' = class, known' = known \ ClassClears[class],
         keyCount' \in Nat,
         "connected" \in status' /\ There' /\ Lasts' => Come' = {}
  PROVE  LowInv'
<1>1. known' \cap CountedVars(class') = {}
  BY CountedAreCleared
<1>2. Cardinality(known' \cap CountedVars(class')) = 0
  BY <1>1, FS_EmptySet
<1>3. Come' = {} => Cardinality(Come') = 0 /\ InitKey \notin Come'
  BY ComeKeys
<1> QED
  BY <1>2, <1>3 DEF LowInv, InitKey

\* Nothing has come of a device whose end was just handled.
LEMMA NothingCame ==
  ASSUME class' = class,
         \A k \in DOMAIN Keys : Held(k)' => Ahead(line', k)
  PROVE  Come' = {}
<1>1. EachKeys' = EachKeys /\ EachKeys \subseteq DOMAIN Keys
  BY KeysStay DEF EachKeys
<1> QED
  BY <1>1 DEF Come

\* A report that is counted.
LEMMA LowCounts ==
  ASSUME Devices = {1}, Types, HandleInv, LowInv, class' = class, ReaderCounts
  PROVE  LowInv'
<1> DEFINE cv == CountedVars(class)
<1>0. PICK i : i = Head(line).key
  OBVIOUS
<1>1. /\ i \in DOMAIN Keys /\ NumberOf(i) = i /\ DeviceOf(i) = 1 /\ line /= <<>>
  BY <1>0, HeadReport DEF ReaderCounts
<1>2. /\ "connected" \in status /\ user = "open" /\ ~Ends(Head(line))
      /\ keyCount' = keyCount + Counts(i)
      /\ known' = known \cup (Keys[i].vars \ {EachTime})
      /\ initKeys' = IF Keys[i].name = "InitKeys" THEN InitKeysOf(class) ELSE initKeys
      /\ line' = Tail(line) /\ reader = "idle"
      /\ UNCHANGED <<dict, phase, status, user, overwritten>>
  BY <1>0, <1>1 DEF ReaderCounts, Skips, Ends, historyVars, HandleInv
<1>3. /\ class \in Instances /\ EachTime \notin known /\ keyCount \in Nat
  BY DEF Types
<1>4. /\ Lasts' <=> Lasts
      /\ \A k : Ahead(line, k) <=> (IsFirst(Head(line)) /\ i = k) \/ Ahead(line', k)
  BY <1>0, <1>1, <1>2, LineShorter
<1>5. EachKeys' = EachKeys /\ (\A k : Held(k)' <=> Held(k)) /\ (There' <=> There)
  BY <1>2, KeysStay DEF Held, There
<1>6. /\ Come' \subseteq Come \cup {i}
      /\ i \notin EachKeys => Come' \subseteq Come
  BY <1>4, <1>5 DEF Come
<1>7. /\ Cardinality(Come) \in Nat /\ Cardinality(Come') \in Nat
      /\ Come' \subseteq Come => Cardinality(Come') <= Cardinality(Come)
      /\ Come' \subseteq Come \cup {i} => Cardinality(Come') <= Cardinality(Come) + 1
  BY <1>3, ComeKeys
<1>8. /\ Counts(i) \in Nat
      /\ Keys[i].vars = {EachTime} => Counts(i) = 1 /\ known' = known
      /\ Keys[i].vars /= {EachTime} =>
            Cardinality(known' \cap cv) = Cardinality(known \cap cv) + Counts(i)
      /\ Cardinality(known \cap cv) \in Nat /\ Cardinality(known' \cap cv) \in Nat
  BY <1>1, <1>2, <1>3, CountOf, KnownVars
<1>9. /\ Keys[i].name = "InitKeys" <=> i = InitKey
      /\ InitKeysOf(class) /= Unknown
  BY <1>1, <1>3, KeysHaveNames, InitKeysIsKnown
<1>10. i \in EachKeys <=> Keys[i].vars = {EachTime}
  BY <1>1 DEF EachKeys
<1>11. SUFFICES ASSUME ~overwritten
                PROVE  /\ Cardinality(known' \cap cv) <= keyCount'
                       /\ There /\ Lasts =>
                             /\ Cardinality(known' \cap cv) + Cardinality(Come') <= keyCount'
                             /\ InitKey \in Come' => initKeys' /= Unknown
  BY <1>2, <1>4, <1>5 DEF LowInv, InitKey
<1>12. /\ Cardinality(known \cap cv) <= keyCount
       /\ There /\ Lasts =>
             /\ Cardinality(known \cap cv) + Cardinality(Come) <= keyCount
             /\ InitKey \in Come => initKeys /= Unknown
  BY <1>2, <1>11 DEF LowInv
<1> HIDE DEF cv
<1>13. InitKey \in Come' => i = InitKey \/ InitKey \in Come
  BY <1>6
<1>14. There /\ Lasts => (InitKey \in Come' => initKeys' /= Unknown)
  BY <1>2, <1>9, <1>12, <1>13
<1>15. CASE Keys[i].vars = {EachTime}
  <2>1. Cardinality(known' \cap cv) = Cardinality(known \cap cv) /\ keyCount' = keyCount + 1
    BY <1>2, <1>8, <1>15
  <2>2. Cardinality(Come') <= Cardinality(Come) + 1
    BY <1>6, <1>7
  <2> QED
    BY <1>3, <1>7, <1>8, <1>12, <1>14, <2>1, <2>2
<1>16. CASE Keys[i].vars /= {EachTime}
  BY <1>2, <1>3, <1>6, <1>7, <1>8, <1>10, <1>12, <1>14, <1>16
<1> QED
  BY <1>15, <1>16

LEMMA LowStep ==
  ASSUME Devices = {1}, Types, ServiceInv, HandleInv, ZeroInv, FreshInv, LowInv,
         DictionaryIsSound, DictionaryIsSound', [Next]_vars
  PROVE  LowInv'
<1>1. class' = class /\ class \in Instances /\ keyCount \in Nat
  BY ClassStays DEF Types
<1>2. Keys' = Keys /\ EachKeys' = EachKeys /\ EachKeys \subseteq DOMAIN Keys
  BY <1>1, KeysStay DEF EachKeys
<1>3. phase \in [Devices -> {"absent", "adding", "present", "removing"}]
  BY DEF Types
<1>4. /\ "connected" \in status => user = "open" /\ listening
      /\ user = "open" /\ listening => "connected" \in status
      /\ ~listening => line = <<>> /\ reader = "idle"
      /\ user = "closed" => ~listening
  BY DEF HandleInv
<1>5. ASSUME user' /= "open" \/ reader' = "clear" \/ overwritten'
      PROVE  LowInv'
  BY <1>5 DEF LowInv
<1>6. ASSUME UNCHANGED <<keyCount, known, initKeys, user, overwritten>>,
             reader /= "clear" \/ reader' = "clear",
             "connected" \in status' /\ There' /\ Lasts' =>
                \/ Come' = {}
                \/ "connected" \in status /\ There /\ Lasts /\ Come' \subseteq Come
      PROVE  LowInv'
  BY <1>1, <1>5, <1>6, LowKept
<1>7. ASSUME line' = line, dict' = dict, phase' = phase
      PROVE  (There' <=> There) /\ (Lasts' <=> Lasts) /\ Come' = Come
  BY <1>2, <1>7 DEF There, Lasts, Come, Held
<1>8. ASSUME line' = line, dict' = dict, phase' = phase,
             UNCHANGED <<keyCount, known, initKeys, user, overwritten>>,
             reader /= "clear" \/ reader' = "clear",
             "connected" \in status' => "connected" \in status
      PROVE  LowInv'
  BY <1>6, <1>7, <1>8
<1>9. ASSUME \A k \in DOMAIN Keys : Held(k)' => Ahead(line', k)
      PROVE  Come' = {}
  BY <1>1, <1>9, NothingCame
<1>10. ASSUME NEW d \in Devices, Plug(d)
       PROVE  LowInv'
  <2>1. /\ d = 1 /\ phase[1] = "absent" /\ dict' = dict
        /\ UNCHANGED <<keyCount, known, initKeys, user, reader, overwritten>>
    BY <1>10 DEF Plug, handleVars, threadVars, historyVars
  <2>2. \A k \in DOMAIN Keys : ~Held(k)'
    BY <2>1 DEF ServiceInv, Held
  <2> QED
    BY <1>6, <1>9, <2>1, <2>2
<1>11. ASSUME NEW d \in Devices, Publish(d)
       PROVE  LowInv'
  <2>1. UNCHANGED <<status, keyCount, known, initKeys, user, reader, overwritten>>
    BY <1>11 DEF Publish, handleVars, threadVars, historyVars
  <2>2. CASE "connected" \notin status
    BY <1>6, <2>1, <2>2
  <2>3. CASE "connected" \in status
    <3>1. PICK k \in DOMAIN Keys :
             /\ phase[1] = "adding"
             /\ \A j \in DOMAIN Keys : Held(j)' <=> Held(j) \/ j = k
             /\ Lasts' <=> Lasts
             /\ \A j : Ahead(line', j) <=> Ahead(line, j) \/ (j = k /\ Lasts)
      BY <1>11, <2>3, PublishSays
    <3>2. Lasts' => Come' \subseteq Come
      BY <1>2, <3>1 DEF Come
    <3> QED
      BY <1>6, <2>1, <2>3, <3>1, <3>2 DEF There
  <2> QED
    BY <2>2, <2>3
<1>12. ASSUME NEW d \in Devices, Change(d)
       PROVE  LowInv'
  <2>1. UNCHANGED <<status, keyCount, known, initKeys, user, reader, overwritten>>
    BY <1>12 DEF Change, handleVars, threadVars, historyVars
  <2>2. CASE "connected" \notin status
    BY <1>6, <2>1, <2>2
  <2>3. CASE "connected" \in status
    <3>1. /\ phase[1] = "present" /\ phase' = phase
          /\ \A j \in DOMAIN Keys : Held(j)' <=> Held(j)
          /\ Lasts' <=> Lasts
          /\ \A j : Ahead(line', j) <=> Ahead(line, j)
      BY <1>12, <2>3, ChangeSays
    <3>2. Come' \subseteq Come
      BY <1>2, <3>1 DEF Come
    <3> QED
      BY <1>6, <2>1, <2>3, <3>1, <3>2 DEF There
  <2> QED
    BY <2>2, <2>3
<1>13. ASSUME NEW d \in Devices, Unplug(d)
       PROVE  LowInv'
  <2>1. /\ phase'[1] = "removing"
        /\ UNCHANGED <<keyCount, known, initKeys, user, reader, overwritten>>
    BY <1>13, <1>3 DEF Unplug, handleVars, threadVars, historyVars
  <2> QED
    BY <1>6, <2>1 DEF There
<1>14. ASSUME NEW d \in Devices, Withdraw(d)
       PROVE  LowInv'
  <2>1. /\ phase'[1] \in {"removing", "absent"}
        /\ UNCHANGED <<keyCount, known, initKeys, user, reader, overwritten>>
    BY <1>14, <1>3 DEF Withdraw, handleVars, threadVars, historyVars
  <2> QED
    BY <1>6, <2>1 DEF There
<1>15. CASE ReaderSkips
  <2>1. UNCHANGED <<dict, phase, status, keyCount, known, initKeys, user, reader, overwritten>>
    BY <1>15 DEF ReaderSkips, handleVars, threadVars, historyVars
  <2>2. reader = "idle" /\ line /= <<>> /\ line' = Tail(line)
    BY <1>15 DEF ReaderSkips
  <2>3. CASE "connected" \notin status
    BY <1>6, <2>1, <2>2, <2>3
  <2>4. CASE "connected" \in status
    <3>1. ~IsFirst(Head(line))
      BY <1>15, <2>4, SkipSays
    <3>2. /\ Lasts <=> ~Ends(Head(line)) /\ Lasts'
          /\ \A k : Comes(line, k, After(line)) => Comes(line', k, After(line'))
          /\ \A k : Ahead(line, k) <=> ~Ends(Head(line)) /\ Ahead(line', k)
      BY <2>2, <3>1, LineShorter
    <3>3. (There' <=> There) /\ \A k : Held(k)' <=> Held(k)
      BY <2>1 DEF There, Held
    <3>4. CASE ~Ends(Head(line))
      <4>1. Come' \subseteq Come
        BY <1>2, <3>2, <3>3, <3>4 DEF Come
      <4> QED
        BY <1>6, <2>1, <2>2, <2>4, <3>2, <3>3, <3>4, <4>1
    <3>5. CASE Ends(Head(line))
      <4>1. line' \in Seq(Reports)
        BY <2>2, HeadReport
      <4>2. There /\ Lasts' => \A k \in DOMAIN Keys : Held(k)' => Ahead(line', k)
        BY <1>2, <2>4, <3>2, <3>3, <3>5, <4>1, ComesAhead DEF FreshInv, Lasts
      <4> QED
        BY <1>6, <1>9, <2>1, <2>2, <3>3, <4>2
    <3> QED
      BY <3>4, <3>5
  <2> QED
    BY <2>3, <2>4
<1>16. CASE ReaderCounts
  <2> QED
    BY <1>16, <1>1, LowCounts
<1>17. CASE ReaderDetaches
  BY <1>17, <1>5, <1>8
     DEF ReaderDetaches, serviceVars, handleVars, threadVars, historyVars
<1>18. CASE ReaderClears
  <2>1. /\ UNCHANGED <<line, dict, phase, status, keyCount>> /\ reader = "clear"
        /\ known' = known \ ClassClears[class]
    BY <1>18 DEF ReaderClears, serviceVars
  <2>2. /\ (There' <=> There) /\ (Lasts' <=> Lasts) /\ \A k : Held(k)' <=> Held(k)
    BY <2>1 DEF There, Lasts, Held
  <2>3. "connected" \in status /\ There /\ Lasts =>
           \A k \in DOMAIN Keys : Held(k)' => Ahead(line', k)
    <3>1. line \in Seq(Reports)
      BY DEF Types
    <3> QED
      BY <2>1, <2>2, <3>1, ComesAhead DEF FreshInv, Lasts
  <2> QED
    BY <1>1, <1>9, <2>1, <2>2, <2>3, LowStarts
<1>19. CASE Open
  <2>1. /\ "connected" \notin status' /\ keyCount' = keyCount
        /\ known' = known \ ClassClears[class]
    BY <1>19, <1>4 DEF Open
  <2> QED
    BY <1>1, <2>1, LowStarts
<1>20. CASE Connect
  <2>1. UNCHANGED <<keyCount, known, initKeys, user, reader, overwritten>>
    BY <1>20 DEF Connect, threadVars, historyVars
  <2>2. /\ reader = "idle" /\ phase' = phase
        /\ \A j \in DOMAIN Keys : Held(j)' <=> Held(j)
        /\ There => \A k \in DOMAIN Keys : Held(k) => Ahead(line', k)
    BY <1>20, ConnectSays
  <2>3. There' => Come' = {}
    BY <1>9, <2>2 DEF There
  <2> QED
    BY <1>6, <2>1, <2>2, <2>3
<1>21. CASE Lose
  <2>1. /\ "connected" \notin status' /\ reader = "idle"
        /\ UNCHANGED <<keyCount, known, initKeys, user, reader, overwritten>>
    BY <1>21 DEF Lose, threadVars
  <2> QED
    BY <1>6, <2>1
<1>22. CASE \/ CloseStarts \/ CloseClears \/ CloseIgnores \/ CloseResets
  BY <1>22, <1>5, <1>8
     DEF CloseStarts, CloseClears, CloseIgnores, CloseResets, serviceVars,
         handleVars, threadVars, historyVars
<1>23. CASE SetterWrites
  <2>1. /\ UNCHANGED <<line, dict, phase, status, keyCount, initKeys, user, reader>>
        /\ overwritten \/ known' /= known => overwritten'
        /\ overwritten' \in BOOLEAN /\ (known' = known /\ ~overwritten' => ~overwritten)
    BY <1>23 DEF SetterWrites, serviceVars
  <2> QED
    BY <1>1, <1>5, <1>7, <2>1, LowKept
<1>24. CASE ReaderTests
  BY <1>24, <1>8
     DEF ReaderTests, serviceVars, handleVars, threadVars, historyVars
<1>25. CASE ReaderAttaches
  BY <1>25, <1>8
     DEF ReaderAttaches, serviceVars, handleVars, threadVars, historyVars
<1>26. CASE SetterTests
  BY <1>26, <1>8
     DEF SetterTests, serviceVars, handleVars, threadVars, historyVars
<1>27. CASE UNCHANGED vars
  BY <1>27, <1>8
     DEF vars, serviceVars, handleVars, threadVars, historyVars
<1>28. QED
  BY Zenon, <1>10, <1>11, <1>12, <1>13, <1>14, <1>15, <1>16, <1>17, <1>18,
     <1>19, <1>20, <1>21, <1>22, <1>23, <1>24, <1>25, <1>26, <1>27
     DEF Next, Service, Reader, User, Setter

\* What was said before the end stays before it.
LEMMA NoneTellsStays ==
  ASSUME Types, class' = class, line /= <<>>, line' = Tail(line), NoneTells
  PROVE  NoneTells'
<1>1. Keys' = Keys
  BY KeysStay
<1>2. \A h \in DOMAIN line' :
         /\ h + 1 \in DOMAIN line /\ line'[h] = line[h + 1]
         /\ NoEnd(line', h, After(line')) <=> NoEnd(line, h + 1, After(line))
  BY LineShorter
<1> QED
  BY <1>1, <1>2 DEF NoneTells, Tells

LEMMA GoneStep ==
  ASSUME Devices = {1}, Types, ServiceInv, HandleInv, OpenInv, GoneInv,
         DictionaryIsSound, DictionaryIsSound', [Next]_vars
  PROVE  GoneInv'
<1>1. class' = class /\ class \in Instances /\ Keys' = Keys
  BY ClassStays, KeysStay DEF Types
<1>2. ASSUME "connected" \notin status'
      PROVE  GoneInv'
  BY <1>2 DEF GoneInv
<1>3. phase \in [Devices -> {"absent", "adding", "present", "removing"}]
  BY DEF Types
<1>4. "connected" \in status => user = "open" /\ listening
  BY DEF HandleInv
<1>5. ASSUME line' = line, phase' = phase
      PROVE  (There' <=> There) /\ (Lasts' <=> Lasts) /\ (NoneTells' <=> NoneTells)
  BY <1>1, <1>5 DEF There, Lasts, NoneTells, Tells
<1>6. ASSUME line' = line, phase' = phase,
             "connected" \in status' => "connected" \in status,
             initKeys' = initKeys \/ initKeys' = Unknown,
             reader' = reader \/ (reader' /= "set" /\ initKeys' = Unknown),
             "attached" \in status' => caught' \/ ("attached" \in status /\ ~caught)
      PROVE  GoneInv'
  BY <1>5, <1>6 DEF GoneInv
<1>7. ASSUME NEW d \in Devices, Plug(d)
      PROVE  GoneInv'
  <2>1. phase'[1] = "adding"
    BY <1>7, <1>3 DEF Plug
  <2> QED
    BY <2>1 DEF GoneInv, There
<1>8. ASSUME NEW d \in Devices, Publish(d)
      PROVE  GoneInv'
  <2>1. phase'[1] \in {"adding", "present"}
    BY <1>8, <1>3 DEF Publish
  <2> QED
    BY <2>1 DEF GoneInv, There
<1>9. ASSUME NEW d \in Devices, Change(d)
      PROVE  GoneInv'
  <2>1. phase'[1] = "present"
    BY <1>9 DEF Change
  <2> QED
    BY <2>1 DEF GoneInv, There
<1>10. ASSUME NEW d \in Devices, Unplug(d)
       PROVE  GoneInv'
  <2>1. status' = status
    BY <1>10 DEF Unplug, handleVars
  <2>2. SUFFICES ASSUME "connected" \in status
                 PROVE  GoneInv'
    BY <1>2, <2>1
  <2>3. ~Lasts' /\ NoneTells'
    BY <1>10, <2>2, UnplugSays
  <2> QED
    BY <2>3 DEF GoneInv
<1>11. ASSUME NEW d \in Devices, Withdraw(d)
       PROVE  GoneInv'
  <2>1. UNCHANGED <<status, initKeys, reader, caught>>
    BY <1>11 DEF Withdraw, handleVars, threadVars, historyVars
  <2>2. SUFFICES ASSUME "connected" \in status
                 PROVE  GoneInv'
    BY <1>2, <2>1
  <2>3. phase[1] = "removing" /\ (Lasts' => Lasts) /\ (NoneTells => NoneTells')
    BY <1>11, <2>2, WithdrawSays
  <2>4. ~There
    BY <2>3 DEF There
  <2> QED
    BY <2>1, <2>2, <2>3, <2>4 DEF GoneInv
<1>12. CASE ReaderSkips
  <2>1. UNCHANGED <<class, phase, status, initKeys, reader, caught>>
    BY <1>12 DEF ReaderSkips, handleVars, threadVars, historyVars
  <2>2. SUFFICES ASSUME "connected" \in status, ~There
                 PROVE  GoneInv'
    BY <1>2, <2>1 DEF GoneInv, There
  <2>3. /\ reader = "idle" /\ line /= <<>> /\ line' = Tail(line)
        /\ Ends(Head(line)) => serial /= 1
    BY <1>12, <2>2, SkipSays
  <2>4. NoneTells /\ NoneTells'
    BY <1>1, <2>2, <2>3, NoneTellsStays DEF GoneInv
  <2>5. /\ Lasts <=> ~Ends(Head(line)) /\ Lasts'
        /\ 1 \in DOMAIN line /\ line[1] = Head(line)
    BY <2>3, LineShorter
  <2>6. CASE Ends(Head(line))
    BY <1>4, <2>1, <2>2, <2>3, <2>4, <2>6 DEF GoneInv, OpenInv
  <2>7. CASE ~Ends(Head(line))
    BY <2>1, <2>2, <2>3, <2>4, <2>5, <2>7 DEF GoneInv
  <2> QED
    BY <2>6, <2>7
<1>13. CASE ReaderCounts
  <2>1. /\ line /= <<>> /\ line' = Tail(line) /\ reader' = "test" /\ reader = "idle"
        /\ UNCHANGED <<class, phase, status, caught>>
        /\ initKeys' = IF Keys[NumberOf(Head(line).key)].name = "InitKeys"
                       THEN InitKeysOf(class) ELSE initKeys
        /\ ~Skips(Head(line), DeviceOf(Head(line).key)) /\ Head(line).val /= "Detached"
    BY <1>13 DEF ReaderCounts, historyVars
  <2>2. SUFFICES ASSUME "connected" \in status, ~There
                 PROVE  GoneInv'
    BY <1>2, <2>1 DEF GoneInv, There
  <2>3. NoneTells /\ NoneTells'
    BY <2>1, <2>2, NoneTellsStays DEF GoneInv
  <2>4. /\ Lasts <=> Lasts'
        /\ 1 \in DOMAIN line /\ line[1] = Head(line)
        /\ NoEnd(line, 1, After(line)) <=> Lasts'
    BY <2>1, LineShorter DEF Ends
  <2>5. Head(line).reason /= "removing" /\ NumberOf(Head(line).key) = Head(line).key
    BY <2>1, HeadReport DEF Skips
  <2>6. Lasts' => initKeys' = initKeys
    BY <2>1, <2>3, <2>4, <2>5 DEF NoneTells, Tells, Ends
  <2> QED
    BY <2>1, <2>2, <2>3, <2>4, <2>6 DEF GoneInv
<1>14. CASE ReaderDetaches
  <2>1. /\ line /= <<>> /\ line' = Tail(line) /\ reader' = "clear"
        /\ UNCHANGED <<class, phase>> /\ status' = status \ {"attached"}
    BY <1>14 DEF ReaderDetaches
  <2>2. SUFFICES ASSUME "connected" \in status, ~There
                 PROVE  GoneInv'
    BY <1>2, <2>1 DEF GoneInv, There
  <2>3. NoneTells'
    BY <2>1, <2>2, NoneTellsStays DEF GoneInv
  <2> QED
    BY <2>1, <2>3 DEF GoneInv
<1>15. CASE ReaderTests
  <2>1. /\ UNCHANGED <<line, phase, status, initKeys, caught>> /\ reader = "test"
        /\ reader' \in {"set", "idle"} /\ (reader' = "set" => initKeys /= Unknown)
    BY <1>15 DEF ReaderTests, HasAllKeys, serviceVars, handleVars, historyVars
  <2> QED
    BY <1>5, <2>1 DEF GoneInv
<1>16. CASE ReaderAttaches
  <2>1. /\ UNCHANGED <<line, phase, initKeys>> /\ reader = "set"
        /\ status' = status \cup {"attached"}
    BY <1>16 DEF ReaderAttaches, serviceVars
  <2> QED
    BY <1>5, <2>1 DEF GoneInv
<1>17. CASE Connect
  <2>1. /\ user = "open" /\ "connected" \notin status
        /\ status' = status \cup {"connected"} /\ UNCHANGED <<reader, caught, initKeys>>
    BY <1>17 DEF Connect, threadVars, historyVars
  <2>2. /\ reader = "idle" /\ phase' = phase
        /\ phase[1] = "removing" => ~Lasts' /\ NoneTells'
        /\ phase[1] = "absent" => line' = <<>> /\ NoneTells'
    BY <1>17, ConnectSays
  <2>3. "attached" \in status' => caught'
    BY <2>1 DEF OpenInv
  <2>4. ~There' => phase[1] \in {"removing", "absent"}
    BY <1>3, <2>2 DEF There
  <2> QED
    BY <2>1, <2>2, <2>3, <2>4 DEF GoneInv
<1>18. CASE Lose
  BY <1>18, <1>2, <1>4, <1>6
     DEF Lose, serviceVars, handleVars, threadVars, historyVars
<1>19. CASE Open
  BY <1>19, <1>2, <1>4, <1>6
     DEF Open, serviceVars, handleVars, threadVars, historyVars
<1>20. CASE CloseIgnores
  <2>1. "connected" \notin status'
    BY <1>20, <1>4 DEF CloseIgnores
  <2> QED
    BY <1>2, <2>1
<1>21. CASE ReaderClears
  BY <1>21, <1>6
     DEF ReaderClears, serviceVars, handleVars, threadVars, historyVars
<1>22. CASE CloseStarts
  BY <1>22, <1>6
     DEF CloseStarts, serviceVars, handleVars, threadVars, historyVars
<1>23. CASE CloseClears
  BY <1>23, <1>6
     DEF CloseClears, serviceVars, handleVars, threadVars, historyVars
<1>24. CASE CloseResets
  BY <1>24, <1>6
     DEF CloseResets, serviceVars, handleVars, threadVars, historyVars
<1>25. CASE SetterTests
  BY <1>25, <1>6
     DEF SetterTests, serviceVars, handleVars, threadVars, historyVars
<1>26. CASE SetterWrites
  BY <1>26, <1>6
     DEF SetterWrites, serviceVars, handleVars, threadVars, historyVars
<1>27. CASE UNCHANGED vars
  BY <1>27, <1>6
     DEF vars, serviceVars, handleVars, threadVars, historyVars
<1>28. QED
  BY Zenon, <1>7, <1>8, <1>9, <1>10, <1>11, <1>12, <1>13, <1>14, <1>15, <1>16,
     <1>17, <1>18, <1>19, <1>20, <1>21, <1>22, <1>23, <1>24, <1>25, <1>26,
     <1>27
     DEF Next, Service, Reader, User, Setter

\* All keys of a device that is present were counted when no more are on their
\* way.
LEMMA AllHaveCome ==
  ASSUME Types, ServiceInv, LineInv, LowInv, user = "open", "connected" \in status,
         phase[1] = "present", reader = "test", ~overwritten,
         \A h \in DOMAIN line : ~IsFirst(line[h]) /\ ~Ends(line[h])
  PROVE  HasAllKeys
<1> DEFINE cv == CountedVars(class)
<1>1. /\ class \in Instances /\ keyCount \in Nat /\ initKeys \in {InitKeysOf(class), Unknown}
  BY DEF Types
<1>2. /\ Len(Keys) \in Nat /\ DOMAIN Keys = 1..Len(Keys)
      /\ cv = (UNION {Keys[i].vars : i \in DOMAIN Keys}) \ {EachTime}
      /\ InitKeysOf(class) = Cardinality(EachKeys) + Cardinality(cv)
      /\ EachKeys \subseteq DOMAIN Keys
      /\ Cardinality(EachKeys) \in Nat /\ Cardinality(cv) \in Nat
  BY <1>1, KeysOfTheDevice DEF EachKeys
<1>3. There /\ Lasts /\ \A k \in DOMAIN Keys : Held(k)
  BY DEF There, Lasts, NoEnd, ServiceInv
<1>4. \A k : ~Ahead(line, k) /\ ~Comes(line, k, After(line))
  BY DEF Ahead, Comes
<1>5. Come = EachKeys
  BY <1>2, <1>3, <1>4 DEF Come
<1>6. cv \subseteq known
  <2>1. \A k \in DOMAIN Keys : \A v \in Keys[k].vars \ {EachTime} : v \in known
    BY <1>3, <1>4 DEF LineInv, Had
  <2> QED
    BY <1>2, <2>1
<1>7. InitKey \in EachKeys
  BY <1>1, KeysHaveNames
<1>8. /\ Cardinality(known \cap cv) + Cardinality(Come) <= keyCount
      /\ InitKey \in Come => initKeys /= Unknown
  BY <1>3 DEF LowInv
<1>9. known \cap cv = cv
  BY <1>6
<1>10. Cardinality(cv) + Cardinality(EachKeys) <= keyCount /\ initKeys = InitKeysOf(class)
  BY <1>1, <1>5, <1>7, <1>8, <1>9
<1> HIDE DEF cv
<1>11. keyCount >= initKeys
  BY <1>1, <1>2, <1>10
<1> QED
  BY <1>5, <1>7, <1>8, <1>11 DEF HasAllKeys

LEMMA LastStep ==
  ASSUME Devices = {1}, Types, ServiceInv, HandleInv, LineInv, OpenInv, FreshInv, LowInv,
         LastInv, DictionaryIsSound, DictionaryIsSound', [Next]_vars
  PROVE  LastInv'
<1>1. /\ "connected" \in status => user = "open" /\ listening
      /\ Len(Keys) \in Nat /\ 1 \in DOMAIN Keys
  BY KeysOfTheDevice DEF HandleInv, Types
<1>2. phase \in [Devices -> {"absent", "adding", "present", "removing"}]
  BY DEF Types
<1>3. ASSUME "connected" \notin status' \/ reader' /= "idle" \/ phase'[1] /= "present"
      PROVE  LastInv'
  BY <1>3 DEF LastInv
<1>4. ASSUME line' = line, phase' = phase, reader' = reader, user' = user,
             ~overwritten' => ~overwritten,
             "connected" \in status' => "connected" \in status,
             "attached" \in status => "attached" \in status'
      PROVE  LastInv'
  BY <1>4 DEF LastInv
\* Every key of a device that is present is held.
<1>5. ASSUME phase[1] = "present"
      PROVE  Held(1) /\ There
  BY <1>1, <1>5 DEF ServiceInv, There
<1>6. ASSUME NEW d \in Devices, Plug(d)
      PROVE  LastInv'
  <2>1. phase'[1] = "adding"
    BY <1>6, <1>2 DEF Plug
  <2> QED
    BY <1>3, <2>1
<1>7. ASSUME NEW d \in Devices, Publish(d)
      PROVE  LastInv'
  <2>1. status' = status
    BY <1>7 DEF Publish, handleVars
  <2>2. SUFFICES ASSUME "connected" \in status
                 PROVE  LastInv'
    BY <1>3, <2>1
  <2>3. \E h \in DOMAIN line' : IsFirst(line'[h])
    BY <1>7, <2>2, PublishSays
  <2> QED
    BY <2>3 DEF LastInv
<1>8. ASSUME NEW d \in Devices, Change(d)
      PROVE  LastInv'
  <2>1. UNCHANGED <<status, user, reader, overwritten>>
    BY <1>8 DEF Change, handleVars, threadVars, historyVars
  <2>2. SUFFICES ASSUME "connected" \in status
                 PROVE  LastInv'
    BY <1>3, <2>1
  <2>3. /\ phase[1] = "present"
        /\ \A h \in DOMAIN line : h \in DOMAIN line' /\ line'[h] = line[h]
    BY <1>8, <2>2, ChangeSays
  <2> QED
    BY <2>1, <2>3 DEF LastInv
<1>9. ASSUME NEW d \in Devices, Unplug(d)
      PROVE  LastInv'
  <2>1. phase'[1] = "removing"
    BY <1>9, <1>2 DEF Unplug
  <2> QED
    BY <1>3, <2>1
<1>10. ASSUME NEW d \in Devices, Withdraw(d)
       PROVE  LastInv'
  <2>1. phase'[1] \in {"removing", "absent"}
    BY <1>10, <1>2 DEF Withdraw
  <2> QED
    BY <1>3, <2>1
<1>11. CASE ReaderSkips
  <2>1. UNCHANGED <<phase, status, user, reader, overwritten>>
    BY <1>11 DEF ReaderSkips, handleVars, threadVars, historyVars
  <2>2. SUFFICES ASSUME "connected" \in status, phase[1] = "present"
                 PROVE  LastInv'
    BY <1>3, <2>1
  <2>3. line /= <<>> /\ line' = Tail(line) /\ ~IsFirst(Head(line))
    BY <1>11, <2>2, SkipSays
  <2>4. /\ Lasts <=> ~Ends(Head(line)) /\ Lasts'
        /\ \A k : Comes(line, k, After(line)) => Comes(line', k, After(line'))
        /\ 1 \in DOMAIN line /\ line[1] = Head(line)
        /\ \A h \in DOMAIN line : h = 1 \/ \E g \in DOMAIN line' : line[h] = line'[g]
    BY <2>3, LineShorter
  <2>5. CASE Ends(Head(line))
    <3>1. Comes(line', 1, After(line'))
      BY <1>1, <1>5, <2>2, <2>4, <2>5 DEF FreshInv
    <3>2. line' \in Seq(Reports)
      BY <2>3, HeadReport
    <3>3. \E h \in DOMAIN line' : IsFirst(line'[h])
      BY <3>1, <3>2, ComesAhead
    <3> QED
      BY <3>3 DEF LastInv
  <2>6. CASE ~Ends(Head(line))
    BY <2>1, <2>3, <2>4, <2>6 DEF LastInv
  <2> QED
    BY <2>5, <2>6
<1>12. CASE ReaderClears
  <2>1. /\ UNCHANGED <<line, phase, status>> /\ reader = "clear"
    BY <1>12 DEF ReaderClears, serviceVars
  <2>2. SUFFICES ASSUME "connected" \in status, phase[1] = "present"
                 PROVE  LastInv'
    BY <1>3, <2>1
  <2>3. Comes(line, 1, After(line))
    BY <1>1, <1>5, <2>1, <2>2 DEF FreshInv
  <2>4. line \in Seq(Reports)
    BY DEF Types
  <2>5. \E h \in DOMAIN line : IsFirst(line[h])
    BY <2>3, <2>4, ComesAhead
  <2> QED
    BY <2>1, <2>5 DEF LastInv
<1>13. CASE ReaderTests
  <2>1. /\ UNCHANGED <<line, phase, status, keyCount, initKeys, known, user, overwritten>>
        /\ reader = "test"
        /\ reader' = "idle" => "attached" \in status \/ ~HasAllKeys
                                  \/ ~({"opened", "connected"} \subseteq status)
    BY <1>13 DEF ReaderTests, serviceVars, handleVars, historyVars
  <2>2. SUFFICES ASSUME user = "open", "connected" \in status, phase[1] = "present",
                        ~overwritten,
                        \A h \in DOMAIN line : ~IsFirst(line[h]) /\ ~Ends(line[h])
                 PROVE  HasAllKeys
    BY <2>1 DEF LastInv, OpenInv
  <2>3. HasAllKeys
    BY <2>1, <2>2, AllHaveCome
  <2> QED
    BY <2>3
<1>14. CASE Connect
  <2>1. /\ phase' = phase
        /\ There => \A k \in DOMAIN Keys : Held(k) => Ahead(line', k)
    BY <1>14, ConnectSays
  <2>2. SUFFICES ASSUME phase[1] = "present"
                 PROVE  LastInv'
    BY <1>3, <2>1
  <2>3. Ahead(line', 1)
    BY <1>1, <1>5, <2>1, <2>2
  <2>4. \E h \in DOMAIN line' : IsFirst(line'[h])
    BY <2>3 DEF Ahead
  <2> QED
    BY <2>4 DEF LastInv
<1>15. CASE Lose
  BY <1>15, <1>1, <1>3, <1>4
     DEF Lose, LastInv, serviceVars, handleVars, threadVars, historyVars
<1>16. CASE Open
  BY <1>16, <1>1, <1>3, <1>4
     DEF Open, HandleInv, serviceVars, handleVars, threadVars, LastInv,
         historyVars
<1>17. CASE CloseStarts
  BY <1>17, <1>3, <1>4
     DEF CloseStarts, LastInv, serviceVars, handleVars, threadVars,
         historyVars
<1>18. CASE \/ CloseClears \/ CloseIgnores \/ CloseResets
  <2>1. "connected" \notin status'
    BY <1>18, <1>1 DEF CloseClears, CloseIgnores, CloseResets
  <2> QED
    BY <1>3, <2>1
<1>19. CASE \/ ReaderCounts \/ ReaderDetaches
  BY <1>19, <1>3, <1>4
     DEF ReaderCounts, ReaderDetaches, LastInv, serviceVars, handleVars,
         threadVars, historyVars
<1>20. CASE ReaderAttaches
  BY <1>20, <1>4
     DEF ReaderAttaches, LastInv, serviceVars, handleVars, threadVars,
         historyVars
<1>21. CASE SetterTests
  BY <1>21, <1>4
     DEF SetterTests, LastInv, serviceVars, handleVars, threadVars,
         historyVars
<1>22. CASE SetterWrites
  BY <1>22, <1>4
     DEF SetterWrites, LastInv, serviceVars, handleVars, threadVars,
         historyVars
<1>23. CASE UNCHANGED vars
  BY <1>23, <1>4
     DEF vars, LastInv, serviceVars, handleVars, threadVars, historyVars
<1>24. QED
  BY Zenon, <1>6, <1>7, <1>8, <1>9, <1>10, <1>11, <1>12, <1>13, <1>14, <1>15,
     <1>16, <1>17, <1>18, <1>19, <1>20, <1>21, <1>22, <1>23
     DEF Next, Service, Reader, User, Setter

LEMMA SettledStep ==
  ASSUME Devices = {1}, Types, AttachedInv, SettledInv,
         DictionaryIsSound, DictionaryIsSound', [Next]_vars
  PROVE  SettledInv'
<1>1. /\ ServiceInv /\ HandleInv /\ ZeroInv /\ LineInv /\ AttachInv
      /\ OpenInv /\ FreshInv /\ LowInv /\ GoneInv /\ LastInv
  BY DEF AttachedInv, SettledInv
<1>2. OpenInv' /\ FreshInv'
  BY <1>1, OpenStep, FreshStep
<1>3. LowInv' /\ GoneInv'
  BY <1>1, LowStep, GoneStep
<1>4. LastInv'
  BY <1>1, LastStep
<1> QED
  BY <1>2, <1>3, <1>4 DEF SettledInv

LEMMA SettledHoldsFirst ==
  ASSUME Init
  PROVE  SettledInv
<1>1. status = {} /\ user = "closed"
  BY DEF Init
<1> QED
  BY <1>1 DEF SettledInv, OpenInv, FreshInv, LowInv, GoneInv, LastInv

\* When all reports are handled, nothing else can be.
LEMMA HandledAgrees ==
  ASSUME Devices = {1}, Types, HandleInv, OpenInv, GoneInv, LastInv
  PROVE  SettledAgrees
<1> SUFFICES ASSUME Settled
             PROVE  /\ ~overwritten /\ phase[1] = "present" => "attached" \in status
                    /\ "attached" \in status => phase[serial] \in {"adding", "present"}
  BY DEF SettledAgrees, PresentIsAttached, GoneIsDetached
<1>1. user = "open" /\ "connected" \in status /\ ~caught /\ reader = "idle" /\ line = <<>>
  BY DEF Settled, Undisturbed
<1>2. DOMAIN line = {} /\ Lasts
  BY <1>1 DEF Lasts, NoEnd
<1>3. ~overwritten /\ phase[1] = "present" => "attached" \in status
  BY <1>1, <1>2 DEF LastInv
<1>4. ASSUME "attached" \in status
      PROVE  phase[serial] \in {"adding", "present"}
  <2>1. serial = 1
    BY <1>1, <1>4 DEF OpenInv
  <2>2. There
    BY <1>1, <1>2, <1>4 DEF GoneInv
  <2> QED
    BY <2>1, <2>2 DEF There
<1> QED
  BY <1>3, <1>4

-----------------------------------------------------------------------------
(* Any class, and any number of devices.                                     *)

\* What a setter writes is counted.
LEMMA SettersAreCounted ==
  ASSUME NEW c \in Classes
  PROVE  ClassSets(c) \subseteq CountedVars(c)
<1> DEFINE keys == ClassKeys[c]
<1>1. CASE c = "Accelerometer"
  <2>1. keys = AccelerometerKeys /\ DOMAIN keys = 1..5
    BY <1>1 DEF ClassKeys, AccelerometerKeys
  <2>2. "axisChangeTrigger" \in CountedVars(c)
    <3>1. keys[5].vars = {"axisChangeTrigger"} /\ 5 \in DOMAIN keys
      BY <2>1 DEF AccelerometerKeys, Once
    <3> QED
      BY <3>1 DEF CountedVars, EachTime
  <2> QED
    BY <1>1, <2>2 DEF ClassSets
<1>2. CASE c = "AdvancedServo"
  <2>1. keys = AdvancedServoKeys /\ DOMAIN keys = 1..19
    BY <1>2 DEF ClassKeys, AdvancedServoKeys
  <2>2. "motorPositionMax" \in CountedVars(c)
    <3>1. keys[4].vars = {"motorPositionMax"} /\ 4 \in DOMAIN keys
      BY <2>1 DEF AdvancedServoKeys, Once
    <3> QED
      BY <3>1 DEF CountedVars, EachTime
  <2>3. "motorPositionMin" \in CountedVars(c)
    <3>1. keys[3].vars = {"motorPositionMin"} /\ 3 \in DOMAIN keys
      BY <2>1 DEF AdvancedServoKeys, Once
    <3> QED
      BY <3>1 DEF CountedVars, EachTime
  <2> QED
    BY <1>2, <2>2, <2>3 DEF ClassSets
<1>3. CASE c = "FrequencyCounter"
  <2>1. keys = FrequencyCounterKeys /\ DOMAIN keys = 1..6
    BY <1>3 DEF ClassKeys, FrequencyCounterKeys
  <2>2. "timeout" \in CountedVars(c)
    <3>1. keys[5].vars = {"timeout"} /\ 5 \in DOMAIN keys
      BY <2>1 DEF FrequencyCounterKeys, Once
    <3> QED
      BY <3>1 DEF CountedVars, EachTime
  <2> QED
    BY <1>3, <2>2 DEF ClassSets
<1>4. CASE c = "InterfaceKit"
  <2>1. keys = InterfaceKitKeys /\ DOMAIN keys = 1..13
    BY <1>4 DEF ClassKeys, InterfaceKitKeys
  <2>2. "sensorChangeTrigger" \in CountedVars(c)
    <3>1. keys[8].vars = {"sensorChangeTrigger"} /\ 8 \in DOMAIN keys
      BY <2>1 DEF InterfaceKitKeys, Once
    <3> QED
      BY <3>1 DEF CountedVars, EachTime
  <2>3. "dataRate" \in CountedVars(c)
    <3>1. keys[9].vars = {"dataRate"} /\ 9 \in DOMAIN keys
      BY <2>1 DEF InterfaceKitKeys, Once
    <3> QED
      BY <3>1 DEF CountedVars, EachTime
  <2>4. "ratiometric" \in CountedVars(c)
    <3>1. keys[13].vars = {"ratiometric"} /\ 13 \in DOMAIN keys
      BY <2>1 DEF InterfaceKitKeys, Once
    <3> QED
      BY <3>1 DEF CountedVars, EachTime
  <2> QED
    BY <1>4, <2>2, <2>3, <2>4 DEF ClassSets
<1>5. CASE c = "LED"
  <2>1. keys = LEDKeys /\ DOMAIN keys = 1..5
    BY <1>5 DEF ClassKeys, LEDKeys
  <2>2. "LED_Power" \in CountedVars(c)
    <3>1. keys[2].vars = {"LED_Power"} /\ 2 \in DOMAIN keys
      BY <2>1 DEF LEDKeys, Once
    <3> QED
      BY <3>1 DEF CountedVars, EachTime
  <2>3. "LED_CurrentLimit" \in CountedVars(c)
    <3>1. keys[5].vars = {"LED_CurrentLimit"} /\ 5 \in DOMAIN keys
      BY <2>1 DEF LEDKeys, Once
    <3> QED
      BY <3>1 DEF CountedVars, EachTime
  <2> QED
    BY <1>5, <2>2, <2>3 DEF ClassSets
<1>6. CASE c = "PHSensor"
  <2>1. keys = PHSensorKeys /\ DOMAIN keys = 1..7
    BY <1>6 DEF ClassKeys, PHSensorKeys
  <2>2. "PHChangeTrigger" \in CountedVars(c)
    <3>1. keys[4].vars = {"PHChangeTrigger"} /\ 4 \in DOMAIN keys
      BY <2>1 DEF PHSensorKeys, Once
    <3> QED
      BY <3>1 DEF CountedVars, EachTime
  <2> QED
    BY <1>6, <2>2 DEF ClassSets
<1>7. CASE c = "Spatial"
  <2>1. keys = SpatialKeys /\ DOMAIN keys = 1..14
    BY <1>7 DEF ClassKeys, SpatialKeys
  <2>2. "dataRate" \in CountedVars(c)
    <3>1. keys[4].vars = {"dataRate"} /\ 4 \in DOMAIN keys
      BY <2>1 DEF SpatialKeys, Once
    <3> QED
      BY <3>1 DEF CountedVars, EachTime
  <2> QED
    BY <1>7, <2>2 DEF ClassSets
<1>8. CASE c = "Stepper"
  <2>1. keys = StepperKeys /\ DOMAIN keys = 1..20
    BY <1>8 DEF ClassKeys, StepperKeys
  <2>2. "motorPosition" \in CountedVars(c)
    <3>1. keys[5].vars = {"motorPosition"} /\ 5 \in DOMAIN keys
      BY <2>1 DEF StepperKeys, Once
    <3> QED
      BY <3>1 DEF CountedVars, EachTime
  <2> QED
    BY <1>8, <2>2 DEF ClassSets
<1>9. CASE c = "TemperatureSensor"
  <2>1. keys = TemperatureSensorKeys /\ DOMAIN keys = 1..12
    BY <1>9 DEF ClassKeys, TemperatureSensorKeys
  <2>2. "TempChangeTrigger" \in CountedVars(c)
    <3>1. keys[12].vars = {"TempChangeTrigger"} /\ 12 \in DOMAIN keys
      BY <2>1 DEF TemperatureSensorKeys, Once
    <3> QED
      BY <3>1 DEF CountedVars, EachTime
  <2>3. "ThermocoupleType" \in CountedVars(c)
    <3>1. keys[11].vars = {"ThermocoupleType"} /\ 11 \in DOMAIN keys
      BY <2>1 DEF TemperatureSensorKeys, Once
    <3> QED
      BY <3>1 DEF CountedVars, EachTime
  <2> QED
    BY <1>9, <2>2, <2>3 DEF ClassSets
<1>10. CASE c = "TextLCD"
  <2>1. keys = TextLCDKeys /\ DOMAIN keys = 1..9
    BY <1>10 DEF ClassKeys, TextLCDKeys
  <2>2. "screenSize" \in CountedVars(c)
    <3>1. keys[9].vars = {"screenSize"} /\ 9 \in DOMAIN keys
      BY <2>1 DEF TextLCDKeys, Once
    <3> QED
      BY <3>1 DEF CountedVars, EachTime
  <2> QED
    BY <1>10, <2>2 DEF ClassSets
<1>11. CASE c = "WeightSensor"
  <2>1. keys = WeightSensorKeys /\ DOMAIN keys = 1..2
    BY <1>11 DEF ClassKeys, WeightSensorKeys
  <2>2. "WeightChangeTrigger" \in CountedVars(c)
    <3>1. keys[2].vars = {"WeightChangeTrigger"} /\ 2 \in DOMAIN keys
      BY <2>1 DEF WeightSensorKeys, Once
    <3> QED
      BY <3>1 DEF CountedVars, EachTime
  <2> QED
    BY <1>11, <2>2 DEF ClassSets
<1>12. CASE /\ c /= "Accelerometer"
          /\ c /= "AdvancedServo"
          /\ c /= "FrequencyCounter"
          /\ c /= "InterfaceKit"
          /\ c /= "LED"
          /\ c /= "PHSensor"
          /\ c /= "Spatial"
          /\ c /= "Stepper"
          /\ c /= "TemperatureSensor"
          /\ c /= "TextLCD"
          /\ c /= "WeightSensor"
  BY <1>12 DEF ClassSets
<1> QED
  BY <1>1, <1>2, <1>3, <1>4, <1>5, <1>6, <1>7, <1>8, <1>9, <1>10, <1>11, <1>12

AllKeys == {KeyOf(d, i) : d \in Devices, i \in DOMAIN Keys}

LEMMA KeysOfDevices ==
  ASSUME class \in Instances
  PROVE  /\ Devices \in {{1}, {1, 2}} /\ AllKeys \subseteq Values
         /\ \A d \in Devices : \A i \in DOMAIN Keys :
               DeviceOf(KeyOf(d, i)) = d /\ NumberOf(KeyOf(d, i)) = i
<1> DEFINE n == Len(Keys)
<1>1. n \in Nat /\ n >= 6 /\ DOMAIN Keys = 1..n
  BY KeysOfTheDevice
<1>2. Devices \in {{1}, {1, 2}} /\ 1..(n * Cardinality(Devices)) \subseteq Values
  BY InstancesAssumption DEF Devices, Keys
<1>3. \A d \in Devices : d \in 1..Cardinality(Devices) /\ d \in {1, 2} /\ Cardinality(Devices) \in {1, 2}
  <2>1. Cardinality({1}) = 1
    BY FS_Singleton
  <2>2. Cardinality({1, 2}) = 2
    <3>1. {1} \cup {2} = {1, 2} /\ 2 \notin {1}
      OBVIOUS
    <3>2. IsFiniteSet({1})
      BY FS_Singleton
    <3>3. Cardinality({1} \cup {2}) = 1 + 1
      BY <2>1, <3>1, <3>2, FS_AddElement
    <3> QED
      BY <3>1, <3>3
  <2>3. CASE Devices = {1}
    BY <2>1, <2>3
  <2>4. CASE Devices = {1, 2}
    BY <2>2, <2>4
  <2> QED
    BY <1>2, <2>3, <2>4
<1>4. ASSUME NEW d \in Devices, NEW i \in 1..n
      PROVE  /\ KeyOf(d, i) \in Values /\ DeviceOf(KeyOf(d, i)) = d
             /\ NumberOf(KeyOf(d, i)) = i
  <2> DEFINE k == KeyOf(d, i)
             m == Cardinality(Devices)
  <2>1. k = (d - 1) * n + i /\ DeviceOf(k) = ((k - 1) \div n) + 1 /\ NumberOf(k) = ((k - 1) % n) + 1
    BY DEF KeyOf, DeviceOf, NumberOf
  <2>2. d \in {1, 2} /\ d \in 1..m /\ m \in {1, 2}
    BY <1>3
  <2>3. 1..(n * m) \subseteq Values
    BY <1>2
  <2> HIDE DEF n, k, m
  <2>4. CASE d = 1
    <3>1. k = i
      BY <1>1, <2>1, <2>4
    <3>2. k \in 1..(n * m)
      BY <1>1, <2>2, <3>1
    <3>3. (k - 1) \div n = 0 /\ (k - 1) % n = k - 1
      BY <1>1, <3>1, SMTT(30)
    <3> QED
      BY <1>1, <2>1, <2>3, <2>4, <3>1, <3>2, <3>3 DEF k
  <2>5. CASE d = 2
    <3>1. k = n + i /\ m = 2
      BY <1>1, <2>1, <2>2, <2>5
    <3>2. k \in 1..(n * m)
      BY <1>1, <3>1
    <3>3. (k - 1) \div n = 1 /\ (k - 1) % n = i - 1
      BY <1>1, <3>1, SMTT(30)
    <3> QED
      BY <1>1, <2>1, <2>3, <2>5, <3>1, <3>2, <3>3 DEF k
  <2> QED
    BY <2>2, <2>4, <2>5
<1> QED
  BY <1>1, <1>2, <1>4 DEF AllKeys

\* The handle is told of a key by those of its listeners that are the handle.
LEMMA NotesAreReports ==
  ASSUME NEW d, NEW k, NEW v, NEW why, NEW n \in Nat, DOMAIN d.hears[k] = 1..n
  PROVE  /\ ForHandle(Notes(d, k, v, why)) \in Seq({Report(k, v, why)})
         /\ n = 0 => ForHandle(Notes(d, k, v, why)) = <<>>
<1> DEFINE notes == Notes(d, k, v, why)
           mine == {i \in DOMAIN notes : notes[i].to = Handle}
           m == Cardinality(mine)
           got == ForHandle(notes)
<1>1. notes = [i \in 1..n |-> [to |-> d.hears[k][i], key |-> k, val |-> v, reason |-> why]]
  BY DEF Notes
<1>2. got = Chosen(notes, mine)
  BY DEF ForHandle
<1> HIDE DEF notes
<1>3. mine \in SUBSET (1..n)
  BY <1>1
<1>4. \A i \in mine : notes[i] = Report(k, v, why)
  BY <1>1 DEF Report
<1>5. got \in [1..m -> {notes[i] : i \in mine}] /\ m \in Nat
  <2> HIDE DEF mine
  <2>1. Chosen(notes, mine) \in [1..m -> {notes[i] : i \in mine}] /\ m \in Nat
    BY <1>3, ChosenOnes, Zenon
  <2> QED
    BY <1>2, <2>1
<1>6. got \in [1..m -> {Report(k, v, why)}]
  <2>1. {notes[i] : i \in mine} \subseteq {Report(k, v, why)}
    BY <1>4
  <2> HIDE DEF got, mine, m
  <2> QED
    BY <1>5, <2>1
<1>7. n = 0 => got = <<>>
  <2>1. n = 0 => mine = {}
    BY <1>3
  <2> QED
    BY <1>2, <2>1, ChosenNone
<1> HIDE DEF got, m
<1>8. got \in Seq({Report(k, v, why)})
  BY <1>5, <1>6, IsSequence
<1> QED
  BY <1>7, <1>8 DEF got, notes

\* A listener that comes is told of keys that are there.
LEMMA CurrentAreReports ==
  ASSUME NEW d, Upright(d), NEW P
  PROVE  Current(d, Handle, P) \in Seq({Report(k, d.vals[k], "current") : k \in KeptBy(d)})
<1> DEFINE c == Current(d, Handle, P)
           all == InOrder(d.ents)
           I == {i \in DOMAIN all : all[i] \in P}
           ks == Chosen(all, I)
           m == Cardinality(I)
           R == {Report(k, d.vals[k], "current") : k \in KeptBy(d)}
<1>1. all \in Seq(KeptBy(d))
  BY SearchTreeIsVerified DEF Upright, Verified
<1>2. c = [i \in DOMAIN ks |-> [to |-> Handle, key |-> ks[i], val |-> d.vals[ks[i]],
                                reason |-> "current"]]
  BY DEF Current
<1> HIDE DEF all
<1>3. Len(all) \in Nat /\ DOMAIN all = 1..Len(all) /\ \A i \in DOMAIN all : all[i] \in KeptBy(d)
  BY <1>1
<1>4. I \in SUBSET (1..Len(all)) /\ \A i \in I : all[i] \in KeptBy(d)
  BY <1>3
<1>5. ks \in [1..m -> {all[i] : i \in I}] /\ m \in Nat
  <2> HIDE DEF I
  <2> QED
    BY <1>3, <1>4, ChosenOnes, Zenon
<1>6. DOMAIN ks = 1..m /\ \A j \in 1..m : ks[j] \in KeptBy(d)
  <2> HIDE DEF ks, m, I
  <2> QED
    BY <1>4, <1>5
<1> HIDE DEF ks, m, c
<1>7. \A j \in 1..m : c[j] = Report(ks[j], d.vals[ks[j]], "current")
  BY <1>2, <1>6 DEF Report
<1>8. c \in [1..m -> R]
  <2>1. \A j \in 1..m : c[j] \in R
    BY <1>6, <1>7
  <2>2. c = [j \in 1..m |-> c[j]]
    BY <1>2, <1>6
  <2> HIDE DEF R
  <2> QED
    BY <2>1, <2>2
<1> HIDE DEF R
<1>9. c \in Seq(R)
  BY <1>5, <1>8, IsSequence
<1> QED
  BY <1>9 DEF c, R

AllReports == [to : {Handle}, key : AllKeys, val : Told,
               reason : {"added", "changed", "removing", "current"}]

Phases == {"absent", "adding", "present", "removing"}

\* How far the service is with each of the devices D, of n keys.
InStages(p, q, D, n) ==
  /\ p \in [D -> Phases] /\ q \in [D -> 0..n]
  /\ \A d \in D : p[d] \in {"adding", "removing"} => q[d] < n

\* A dictionary that holds keys of the devices, and who listens to it.
IsKept(d) ==
  Upright(d) /\ d.vals \in [Values -> Told \cup {NoValue}] /\ KeptBy(d) \subseteq AllKeys
IsHeard(d, both) ==
  d.listeners = IF both THEN Pair(Observer, StatusKeys, Handle, d.listeners[2].pattern)
                ELSE Sole(Observer, StatusKeys)

ServiceTyped ==
  /\ class \in Instances /\ left \in [Chances -> Nat]
  /\ InStages(phase, done, Devices, Len(Keys))
  /\ line \in Seq(AllReports)

HandleTyped ==
  /\ status \subseteq {"opened", "connected", "attached"}
  /\ specific \in {"serial", "any", "anyAttached"} /\ serial \in 0..2
  /\ keyCount \in Nat /\ initKeys \in {InitKeysOf(class), Unknown}
  /\ known \subseteq CountedVars(class)
  /\ listening \in BOOLEAN
  /\ reader \in {"idle", "test", "set", "clear"}
  /\ user \in {"closed", "open", "unregister", "ignore", "reset"}
  /\ setter \in BOOLEAN /\ lost \in BOOLEAN /\ overwritten \in BOOLEAN /\ caught \in BOOLEAN

DictInv == IsKept(dict) /\ IsHeard(dict, listening)

\* A handle listens once: it connects when it does not, and a close ends it.
ListensInv ==
  /\ user = "open" /\ listening => "connected" \in status
  /\ user \in {"reset", "closed"} => ~listening

\* Inductive.
GeneralInv == ServiceTyped /\ HandleTyped /\ DictInv /\ ListensInv

LEMMA StageStarts ==
  ASSUME NEW D, NEW n \in Nat, n > 0, NEW p, NEW q, InStages(p, q, D, n), NEW d \in D,
         NEW x \in Phases
  PROVE  InStages([p EXCEPT ![d] = x], [q EXCEPT ![d] = 0], D, n)
BY DEF InStages

LEMMA StageMoves ==
  ASSUME NEW D, NEW n \in Nat, NEW p, NEW q, InStages(p, q, D, n), NEW d \in D, q[d] < n,
         NEW x \in {"present", "absent"}, NEW q1, q1 = [q EXCEPT ![d] = @ + 1],
         NEW p1, p1 = [p EXCEPT ![d] = IF q1[d] = n THEN x ELSE @]
  PROVE  InStages(p1, q1, D, n)
<1>1. p \in [D -> Phases] /\ q \in [D -> 0..n]
  BY DEF InStages
<1>2. q1[d] = q[d] + 1 /\ q1 \in [D -> 0..n] /\ \A e \in D : e /= d => q1[e] = q[e]
  BY <1>1
<1>3. p1[d] = (IF q1[d] = n THEN x ELSE p[d]) /\ \A e \in D : e /= d => p1[e] = p[e]
  BY <1>1
<1>4. p1 \in [D -> Phases]
  BY <1>1 DEF Phases
<1>5. ASSUME NEW e \in D, p1[e] \in {"adding", "removing"}
      PROVE  q1[e] < n
  BY <1>1, <1>2, <1>3, <1>5 DEF InStages
<1> QED
  BY <1>2, <1>4, <1>5 DEF InStages

LEMMA ChanceSpent ==
  ASSUME left \in [Chances -> Nat], NEW c \in Chances, Spend(c)
  PROVE  left' \in [Chances -> Nat]
BY DEF Spend

LEMMA LineGrows ==
  ASSUME NEW S, NEW l \in Seq(S), NEW T \in SUBSET S, NEW x \in Seq(T)
  PROVE  l \o x \in Seq(S)
<1>1. x \in Seq(S)
  <2>1. Len(x) \in Nat /\ x \in [1..Len(x) -> T]
    OBVIOUS
  <2>2. x \in [1..Len(x) -> S]
    BY <2>1
  <2> QED
    BY <2>1, <2>2, IsSequence
<1> QED
  BY <1>1

\* A key that is not kept is heard by nobody.
LEMMA HearersAre ==
  ASSUME NEW d, Upright(d), NEW both \in BOOLEAN, IsHeard(d, both), NEW k \in Values
  PROVE  \E n \in Nat : DOMAIN d.hears[k] = 1..n /\ (k \notin KeptBy(d) => n = 0)
<1>1. d.hears[k] = IF k \in KeptBy(d) THEN Matching(d, k) ELSE <<>>
  BY DEF Upright
<1>2. \A a, b : DOMAIN <<>> = 1..0 /\ DOMAIN <<a>> = 1..1 /\ DOMAIN <<a, b>> = 1..2
  OBVIOUS
<1>3. CASE k \notin KeptBy(d)
  BY <1>1, <1>2, <1>3
<1>4. CASE k \in KeptBy(d) /\ ~both
  <2>1. Matching(d, k) = IF k \in StatusKeys THEN <<Observer>> ELSE <<>>
    BY <1>4, SoleMatches DEF IsHeard
  <2> QED
    BY <1>1, <1>2, <1>4, <2>1
<1>5. CASE k \in KeptBy(d) /\ both
  <2> DEFINE P == StatusKeys
             Q == d.listeners[2].pattern
  <2>1. d.listeners = Pair(Observer, P, Handle, Q)
    BY <1>5 DEF IsHeard
  <2> HIDE DEF P, Q
  <2>2. Matching(d, k) = IF k \in P THEN IF k \in Q THEN <<Observer, Handle>> ELSE <<Observer>>
                         ELSE IF k \in Q THEN <<Handle>> ELSE <<>>
    BY <2>1, PairMatches
  <2> QED
    BY <1>1, <1>2, <1>5, <2>2
<1> QED
  BY <1>3, <1>4, <1>5

LEMMA ReportsOfKey ==
  ASSUME NEW d, Upright(d), NEW both \in BOOLEAN, IsHeard(d, both), NEW k \in AllKeys,
         k \in Values, NEW v, k \in KeptBy(d) => v \in Told,
         NEW why \in {"added", "changed", "removing", "current"}, line \in Seq(AllReports)
  PROVE  line \o ForHandle(Notes(d, k, v, why)) \in Seq(AllReports)
<1> DEFINE x == ForHandle(Notes(d, k, v, why))
           r == Report(k, v, why)
<1>1. PICK n \in Nat : DOMAIN d.hears[k] = 1..n /\ (k \notin KeptBy(d) => n = 0)
  BY HearersAre
<1>2. x \in Seq({r}) /\ (n = 0 => x = <<>>)
  BY <1>1, NotesAreReports
<1>3. CASE k \in KeptBy(d)
  <2>1. r \in AllReports
    BY <1>3 DEF AllReports, Report
  <2> HIDE DEF x, r
  <2>2. {r} \in SUBSET AllReports
    BY <2>1
  <2>3. line \o x \in Seq(AllReports)
    BY <1>2, <2>2, LineGrows
  <2> QED
    BY <2>3 DEF x
<1>4. CASE k \notin KeptBy(d)
  <2>1. x = <<>>
    BY <1>1, <1>2, <1>4
  <2> HIDE DEF x
  <2>2. line \o x = line
    BY <2>1
  <2> QED
    BY <2>2 DEF x
<1> QED
  BY <1>3, <1>4

LEMMA SetsIsKept ==
  ASSUME ServiceTyped, HandleTyped, DictInv, NEW k \in AllKeys, NEW v \in Told, Sets(k, v)
  PROVE  IsKept(dict') /\ dict'.listeners = dict.listeners /\ line' \in Seq(AllReports)
<1> DEFINE why == IF Has(dict, k) THEN "changed" ELSE "added"
           e == PdictAdd(dict, k, v)
<1>1. k \in Values /\ v /= NoValue
  BY KeysOfDevices DEF ServiceTyped, Told, NoValue
<1>2. Upright(dict) /\ dict.vals \in [Values -> Told \cup {NoValue}] /\ KeptBy(dict) \subseteq AllKeys
  BY DEF DictInv, IsKept
<1>3. dict' = e /\ line' = line \o ForHandle(Notes(e, k, v, why))
  BY DEF Sets, AddNotes
<1> HIDE DEF e
<1>4. /\ Upright(e) /\ e.listeners = dict.listeners /\ e.vals = [dict.vals EXCEPT ![k] = v]
      /\ KeptBy(e) = KeptBy(dict) \cup {k}
  BY <1>1, <1>2, AddedIsUpright DEF e
<1>5. e.vals \in [Values -> Told \cup {NoValue}]
  BY <1>1, <1>2, <1>4
<1>6. IsKept(e)
  BY <1>2, <1>4, <1>5 DEF IsKept
<1>7. IsHeard(e, listening) /\ listening \in BOOLEAN
  BY <1>4 DEF DictInv, IsHeard, HandleTyped
<1>8. why \in {"added", "changed", "removing", "current"} /\ line \in Seq(AllReports)
  BY DEF ServiceTyped
<1> HIDE DEF why
<1>9. line \o ForHandle(Notes(e, k, v, why)) \in Seq(AllReports)
  BY <1>1, <1>4, <1>7, <1>8, ReportsOfKey
<1> QED
  BY <1>3, <1>4, <1>6, <1>9

LEMMA RemovedIsKept ==
  ASSUME ServiceTyped, HandleTyped, DictInv, NEW k \in AllKeys,
         dict' = PdictRemove(dict, k), line' = line \o ForHandle(RemoveNotes(dict, k))
  PROVE  IsKept(dict') /\ dict'.listeners = dict.listeners /\ line' \in Seq(AllReports)
<1> DEFINE e == PdictRemove(dict, k)
           v == dict.vals[k]
<1>1. k \in Values
  BY KeysOfDevices DEF ServiceTyped
<1>2. Upright(dict) /\ dict.vals \in [Values -> Told \cup {NoValue}] /\ KeptBy(dict) \subseteq AllKeys
  BY DEF DictInv, IsKept
<1>3. dict' = e /\ line' = line \o ForHandle(Notes(dict, k, v, "removing"))
  BY DEF RemoveNotes
<1> HIDE DEF e
<1>4. /\ Upright(e) /\ e.listeners = dict.listeners
      /\ e.vals = [dict.vals EXCEPT ![k] = NoValue] /\ KeptBy(e) = KeptBy(dict) \ {k}
  BY <1>1, <1>2, RemovedIsUpright DEF e
<1>5. e.vals \in [Values -> Told \cup {NoValue}]
  BY <1>1, <1>2, <1>4
<1>6. IsKept(e)
  BY <1>2, <1>4, <1>5 DEF IsKept
<1>7. IsHeard(dict, listening) /\ listening \in BOOLEAN /\ line \in Seq(AllReports)
  BY DEF DictInv, HandleTyped, ServiceTyped
<1>8. k \in KeptBy(dict) => v \in Told
  BY <1>1, <1>2 DEF KeptBy
<1> HIDE DEF v
<1>9. line \o ForHandle(Notes(dict, k, v, "removing")) \in Seq(AllReports)
  BY <1>1, <1>2, <1>7, <1>8, ReportsOfKey
<1> QED
  BY <1>3, <1>4, <1>6, <1>9

LEMMA ListensIsKept ==
  ASSUME ServiceTyped, HandleTyped, DictInv, ~listening, NEW P,
         dict' = PdictListen(dict, Handle, P), line' = line \o Current(dict, Handle, P)
  PROVE  IsKept(dict') /\ IsHeard(dict', TRUE) /\ line' \in Seq(AllReports)
<1> DEFINE e == PdictListen(dict, Handle, P)
           R == {Report(k, dict.vals[k], "current") : k \in KeptBy(dict)}
           x == Current(dict, Handle, P)
<1>1. Upright(dict) /\ dict.vals \in [Values -> Told \cup {NoValue}] /\ KeptBy(dict) \subseteq AllKeys
  BY DEF DictInv, IsKept
<1>2. dict.listeners = Sole(Observer, StatusKeys)
  BY DEF DictInv, IsHeard
<1>3. Upright(e) /\ e.listeners = Pair(Observer, StatusKeys, Handle, P) /\ e.vals = dict.vals
  BY <1>1, <1>2, ListenedIsUpright
<1>4. dict' = e /\ line' = line \o x /\ line \in Seq(AllReports)
  BY DEF ServiceTyped
<1>5. x \in Seq(R)
  BY <1>1, CurrentAreReports
<1>6. R \subseteq AllReports
  <2>1. ASSUME NEW k \in KeptBy(dict)
        PROVE  Report(k, dict.vals[k], "current") \in AllReports
    <3>1. k \in AllKeys /\ dict.vals[k] \in Told
      BY <1>1 DEF KeptBy
    <3> QED
      BY <3>1 DEF Report, AllReports
  <2> QED
    BY <2>1
<1> HIDE DEF e, R, x
<1>7. line' \in Seq(AllReports)
  BY <1>4, <1>5, <1>6, LineGrows
<1>8. IsKept(e)
  BY <1>1, <1>3 DEF IsKept, KeptBy
<1>9. e.listeners[2].pattern = P
  <2>1. e.listeners = <<[who |-> Observer, pattern |-> StatusKeys], [who |-> Handle, pattern |-> P]>>
    BY <1>3 DEF Pair
  <2>2. e.listeners[2] = [who |-> Handle, pattern |-> P]
    BY <2>1
  <2> QED
    BY <2>2
<1>10. IsHeard(e, TRUE)
  BY <1>3, <1>9 DEF IsHeard
<1> QED
  BY <1>4, <1>7, <1>8, <1>10

LEMMA IgnoredIsKept ==
  ASSUME DictInv, listening, dict' = PdictIgnore(dict, Handle)
  PROVE  IsKept(dict') /\ IsHeard(dict', FALSE)
<1> DEFINE e == PdictIgnore(dict, Handle)
           Q == dict.listeners[2].pattern
<1>1. Upright(dict) /\ dict.vals \in [Values -> Told \cup {NoValue}] /\ KeptBy(dict) \subseteq AllKeys
  BY DEF DictInv, IsKept
<1>2. dict.listeners = Pair(Observer, StatusKeys, Handle, Q)
  BY DEF DictInv, IsHeard
<1>3. Observer /= Handle
  BY DEF Observer, Handle
<1> HIDE DEF Q
<1>4. Upright(e) /\ e.listeners = Sole(Observer, StatusKeys) /\ e.vals = dict.vals
  BY <1>1, <1>2, <1>3, IgnoredIsUpright
<1> HIDE DEF e
<1>5. IsKept(e)
  BY <1>1, <1>4 DEF IsKept, KeptBy
<1> QED
  BY <1>4, <1>5 DEF IsHeard, e

LEMMA SameClass ==
  ASSUME class' = class
  PROVE  /\ AllKeys' = AllKeys /\ AllReports' = AllReports /\ StatusKeys' = StatusKeys
         /\ Len(Keys)' = Len(Keys) /\ Devices' = Devices
         /\ InitKeysOf(class)' = InitKeysOf(class) /\ CountedVars(class)' = CountedVars(class)
<1>1. Keys' = Keys /\ Devices' = Devices
  BY DEF Keys, Devices
<1>2. \A d, i : KeyOf(d, i)' = KeyOf(d, i)
  BY <1>1 DEF KeyOf
<1>3. AllKeys' = AllKeys /\ Named("Status")' = Named("Status")
  BY <1>1, <1>2 DEF AllKeys, Named
<1>4. AllReports' = AllReports
  BY <1>3 DEF AllReports
<1>5. StatusKeys' = StatusKeys
  BY <1>1, <1>2, <1>3 DEF StatusKeys
<1> QED
  BY <1>1, <1>3, <1>4, <1>5

\* The key of a step of the service.
LEMMA KeyOfStep ==
  ASSUME ServiceTyped, NEW d \in Devices
  PROVE  /\ Len(Keys) \in Nat /\ Len(Keys) > 0
         /\ \A i \in DOMAIN Keys : KeyOf(d, i) \in AllKeys
         /\ Named("Status") \in DOMAIN Keys
         /\ phase[d] = "adding" => Published[done[d] + 1] \in DOMAIN Keys
         /\ phase[d] = "removing" => Withdrawn[done[d] + 1] \in DOMAIN Keys
         /\ phase[d] \in {"adding", "removing"} => done[d] < Len(Keys)
<1>1. class \in Instances /\ InStages(phase, done, Devices, Len(Keys))
  BY DEF ServiceTyped
<1>2. /\ Len(Keys) \in Nat /\ Len(Keys) >= 6 /\ DOMAIN Keys = 1..Len(Keys)
      /\ StatusKey \in DOMAIN Keys /\ IsOrder(Published) /\ IsOrder(Withdrawn)
  BY <1>1, KeysOfTheDevice, WithdrawnInOrder
<1>3. /\ done[d] \in 0..Len(Keys)
      /\ phase[d] \in {"adding", "removing"} => done[d] < Len(Keys)
  BY <1>1 DEF InStages
<1>4. ASSUME phase[d] \in {"adding", "removing"}, NEW s, IsOrder(s)
      PROVE  s[done[d] + 1] \in DOMAIN Keys
  <2> DEFINE S == DOMAIN Keys
  <2>3. s \in Seq(S) /\ Len(s) = Len(Keys)
    BY <1>4 DEF IsOrder
  <2>4. done[d] < Len(Keys) /\ done[d] \in 0..Len(Keys)
    BY <1>3, <1>4
  <2> HIDE DEF S
  <2>1. s \in Seq(S) /\ done[d] + 1 \in 1..Len(s)
    BY <1>2, <2>3, <2>4
  <2>2. s[done[d] + 1] \in S
    BY <2>1
  <2> QED
    BY <2>2 DEF S
<1> QED
  BY <1>2, <1>3, <1>4 DEF AllKeys, StatusKey

\* What the service does leaves the handle alone.
LEMMA ServiceStepIsGeneral ==
  ASSUME GeneralInv, UNCHANGED <<class, handleVars, threadVars, historyVars>>,
         left' \in [Chances -> Nat], InStages(phase', done', Devices, Len(Keys)),
         line' \in Seq(AllReports), IsKept(dict'), dict'.listeners = dict.listeners
  PROVE  GeneralInv'
<1>1. /\ AllKeys' = AllKeys /\ AllReports' = AllReports /\ StatusKeys' = StatusKeys
      /\ Len(Keys)' = Len(Keys) /\ Devices' = Devices
      /\ InitKeysOf(class)' = InitKeysOf(class) /\ CountedVars(class)' = CountedVars(class)
  BY SameClass
<1>2. ServiceTyped'
  BY <1>1 DEF ServiceTyped, GeneralInv
<1>3. HandleTyped'
  BY <1>1 DEF HandleTyped, GeneralInv, handleVars, threadVars, historyVars
<1>4. DictInv'
  BY <1>1 DEF DictInv, IsKept, IsHeard, GeneralInv, handleVars
<1>5. ListensInv'
  BY DEF ListensInv, GeneralInv, handleVars, threadVars
<1> QED
  BY <1>2, <1>3, <1>4, <1>5 DEF GeneralInv

\* What the handle does leaves the dictionary and the devices alone.
LEMMA HandleStepIsGeneral ==
  ASSUME GeneralInv, UNCHANGED <<class, phase, done>>, left' \in [Chances -> Nat],
         line' \in Seq(AllReports), HandleTyped', ListensInv',
         \/ UNCHANGED <<dict, listening>>
         \/ IsKept(dict') /\ IsHeard(dict', listening')
  PROVE  GeneralInv'
<1>1. /\ AllKeys' = AllKeys /\ AllReports' = AllReports /\ StatusKeys' = StatusKeys
      /\ Len(Keys)' = Len(Keys) /\ Devices' = Devices
  BY SameClass
<1>2. ServiceTyped'
  BY <1>1 DEF ServiceTyped, GeneralInv
<1>3. DictInv'
  BY <1>1 DEF DictInv, IsKept, IsHeard, GeneralInv
<1> QED
  BY <1>2, <1>3 DEF GeneralInv

LEMMA GeneralStep ==
  ASSUME GeneralInv, [Next]_vars
  PROVE  GeneralInv'
<1>1. ServiceTyped /\ HandleTyped /\ DictInv /\ ListensInv
  BY DEF GeneralInv
<1>2. /\ class \in Instances /\ left \in [Chances -> Nat]
      /\ InStages(phase, done, Devices, Len(Keys)) /\ line \in Seq(AllReports)
  BY <1>1 DEF ServiceTyped
<1>3. /\ InStages(phase, done, Devices, Len(Keys)) /\ IsKept(dict)
      /\ \A c \in Chances : Spend(c) => left' \in [Chances -> Nat]
  BY <1>1, <1>2, ChanceSpent DEF DictInv
<1>4. {"plug", "open", "loss", "change", "set"} = Chances
  BY DEF Chances
<1>5. line /= <<>> => /\ Tail(line) \in Seq(AllReports)
                      /\ \E d \in Devices, i \in DOMAIN Keys : Head(line).key = KeyOf(d, i)
  <2>1. line /= <<>> => Tail(line) \in Seq(AllReports) /\ Head(line) \in AllReports
    BY <1>2
  <2> QED
    BY <2>1 DEF AllReports, AllKeys
<1>6. line /= <<>> => DeviceOf(Head(line).key) \in {1, 2} /\ NumberOf(Head(line).key) \in DOMAIN Keys
  BY <1>2, <1>5, KeysOfDevices
<1>7. /\ class' = class => CountedVars(class)' = CountedVars(class)
      /\ class' = class => InitKeysOf(class)' = InitKeysOf(class)
  BY SameClass
<1>8. ASSUME NEW d \in Devices, Plug(d)
      PROVE  GeneralInv'
  <2>1. /\ UNCHANGED <<class, dict, line, handleVars, threadVars, historyVars>>
        /\ phase' = [phase EXCEPT ![d] = "adding"] /\ done' = [done EXCEPT ![d] = 0]
        /\ left' \in [Chances -> Nat]
    BY <1>8, <1>3, <1>4 DEF Plug
  <2>2. InStages(phase', done', Devices, Len(Keys))
    BY <1>1, <1>3, <2>1, KeyOfStep, StageStarts DEF Phases
  <2> QED
    BY <1>2, <1>3, <2>1, <2>2, ServiceStepIsGeneral
<1>9. ASSUME NEW d \in Devices, Publish(d)
      PROVE  GeneralInv'
  <2> DEFINE i == Published[done[d] + 1]
             k == KeyOf(d, i)
             v == IF i = Named("Status") THEN "Attached" ELSE "value"
  <2>1. /\ UNCHANGED <<class, left, handleVars, threadVars, historyVars>>
        /\ phase[d] = "adding" /\ Sets(k, v)
        /\ done' = [done EXCEPT ![d] = @ + 1]
        /\ phase' = [phase EXCEPT ![d] = IF done'[d] = Len(Keys) THEN "present" ELSE @]
    BY <1>9 DEF Publish
  <2>2. k \in AllKeys /\ v \in Told /\ done[d] < Len(Keys) /\ Len(Keys) \in Nat
    BY <1>1, <2>1, KeyOfStep DEF Told
  <2>3. InStages(phase', done', Devices, Len(Keys))
    BY <1>3, <2>1, <2>2, StageMoves
  <2> HIDE DEF k, v
  <2>4. IsKept(dict') /\ dict'.listeners = dict.listeners /\ line' \in Seq(AllReports)
    BY <1>1, <2>1, <2>2, SetsIsKept
  <2> QED
    BY <1>2, <2>1, <2>3, <2>4, ServiceStepIsGeneral
<1>10. ASSUME NEW d \in Devices, Change(d)
       PROVE  GeneralInv'
  <2>1. /\ UNCHANGED <<class, phase, done, handleVars, threadVars, historyVars>>
        /\ Spend("change")
        /\ \E i \in DOMAIN Keys : Sets(KeyOf(d, i), "value")
    BY <1>10 DEF Change
  <2>2. PICK i \in DOMAIN Keys : Sets(KeyOf(d, i), "value")
    BY <2>1
  <2> DEFINE k == KeyOf(d, i)
  <2>3. k \in AllKeys /\ "value" \in Told /\ Sets(k, "value")
    BY <1>1, <2>2, KeyOfStep DEF Told
  <2> HIDE DEF k
  <2>4. IsKept(dict') /\ dict'.listeners = dict.listeners /\ line' \in Seq(AllReports)
    BY <1>1, <2>3, SetsIsKept
  <2>5. left' \in [Chances -> Nat]
    BY <1>3, <1>4, <2>1
  <2> QED
    BY <1>2, <2>1, <2>4, <2>5, ServiceStepIsGeneral
<1>11. ASSUME NEW d \in Devices, Unplug(d)
       PROVE  GeneralInv'
  <2> DEFINE k == KeyOf(d, Named("Status"))
  <2>1. /\ UNCHANGED <<class, left, handleVars, threadVars, historyVars>>
        /\ Sets(k, "Detached")
        /\ phase' = [phase EXCEPT ![d] = "removing"] /\ done' = [done EXCEPT ![d] = 0]
    BY <1>11 DEF Unplug
  <2>2. k \in AllKeys /\ "Detached" \in Told
    BY <1>1, KeyOfStep DEF Told
  <2>3. InStages(phase', done', Devices, Len(Keys))
    BY <1>1, <1>3, <2>1, KeyOfStep, StageStarts DEF Phases
  <2> HIDE DEF k
  <2>4. IsKept(dict') /\ dict'.listeners = dict.listeners /\ line' \in Seq(AllReports)
    BY <1>1, <2>1, <2>2, SetsIsKept
  <2> QED
    BY <1>2, <2>1, <2>3, <2>4, ServiceStepIsGeneral
<1>12. ASSUME NEW d \in Devices, Withdraw(d)
       PROVE  GeneralInv'
  <2> DEFINE k == KeyOf(d, Withdrawn[done[d] + 1])
  <2>1. /\ UNCHANGED <<class, left, handleVars, threadVars, historyVars>>
        /\ phase[d] = "removing"
        /\ dict' = PdictRemove(dict, k) /\ line' = line \o ForHandle(RemoveNotes(dict, k))
        /\ done' = [done EXCEPT ![d] = @ + 1]
        /\ phase' = [phase EXCEPT ![d] = IF done'[d] = Len(Keys) THEN "absent" ELSE @]
    BY <1>12 DEF Withdraw
  <2>2. k \in AllKeys /\ done[d] < Len(Keys) /\ Len(Keys) \in Nat
    BY <1>1, <2>1, KeyOfStep
  <2>3. InStages(phase', done', Devices, Len(Keys))
    BY <1>3, <2>1, <2>2, StageMoves
  <2> HIDE DEF k
  <2>4. IsKept(dict') /\ dict'.listeners = dict.listeners /\ line' \in Seq(AllReports)
    BY <1>1, <2>1, <2>2, RemovedIsKept
  <2> QED
    BY <1>2, <2>1, <2>3, <2>4, ServiceStepIsGeneral
<1>13. CASE Connect
  <2>1. /\ UNCHANGED <<class, left, phase, done, specific, serial, keyCount, initKeys, known,
                       threadVars, historyVars>>
        /\ user = "open" /\ "connected" \notin status
        /\ status' = status \cup {"connected"} /\ listening' = TRUE
        /\ dict' = PdictListen(dict, Handle, Pattern)
        /\ line' = line \o Current(dict, Handle, Pattern)
    BY <1>13 DEF Connect
  <2>2. ~listening
    BY <1>1, <2>1 DEF ListensInv
  <2>3. IsKept(dict') /\ IsHeard(dict', TRUE) /\ line' \in Seq(AllReports)
    BY <1>1, <2>1, <2>2, ListensIsKept
  <2>4. HandleTyped'
    BY <1>1, <1>7, <2>1 DEF HandleTyped, threadVars, historyVars
  <2>5. ListensInv'
    BY <2>1 DEF ListensInv, threadVars
  <2> QED
    BY <1>2, <2>1, <2>3, <2>4, <2>5, HandleStepIsGeneral
<1>14. CASE Lose
  <2>1. /\ UNCHANGED <<class, phase, done, specific, serial, keyCount, initKeys, known,
                       threadVars, overwritten>>
        /\ listening /\ Spend("loss")
        /\ status' \subseteq status /\ caught' \in {FALSE, caught}
        /\ listening' = FALSE /\ dict' = PdictIgnore(dict, Handle)
        /\ line' = <<>> /\ lost' = TRUE
    BY <1>14 DEF Lose
  <2>2. IsKept(dict') /\ IsHeard(dict', FALSE)
    BY <1>1, <2>1, IgnoredIsKept
  <2>3. left' \in [Chances -> Nat] /\ line' \in Seq(AllReports)
    BY <1>3, <1>4, <2>1
  <2>4. HandleTyped'
    BY <1>1, <1>7, <2>1 DEF HandleTyped, threadVars
  <2>5. ListensInv'
    BY <2>1 DEF ListensInv
  <2> QED
    BY <2>1, <2>2, <2>3, <2>4, <2>5, HandleStepIsGeneral
<1>15. CASE CloseIgnores
  <2>1. /\ UNCHANGED <<class, left, phase, done, line, status, specific, serial, keyCount,
                       initKeys, known, reader, setter, historyVars>>
        /\ dict' = (IF listening THEN PdictIgnore(dict, Handle) ELSE dict)
        /\ listening' = FALSE /\ user' = "reset"
    BY <1>15 DEF CloseIgnores
  <2>2. IsKept(dict') /\ IsHeard(dict', FALSE)
    <3>1. CASE listening
      BY <1>1, <2>1, <3>1, IgnoredIsKept
    <3>2. CASE ~listening
      BY <1>1, <2>1, <3>2 DEF DictInv, HandleTyped
    <3> QED
      BY <3>1, <3>2
  <2>3. HandleTyped'
    BY <1>1, <1>7, <2>1 DEF HandleTyped, historyVars
  <2>4. ListensInv'
    BY <2>1 DEF ListensInv
  <2> QED
    BY <1>2, <2>1, <2>2, <2>3, <2>4, HandleStepIsGeneral
<1>16. CASE ReaderCounts
  <2> DEFINE i == NumberOf(Head(line).key)
  <2>1. /\ UNCHANGED <<class, left, dict, phase, done, status, listening, user, setter,
                       historyVars>>
        /\ line /= <<>> /\ line' = Tail(line) /\ reader' = "test"
        /\ specific' \in {"anyAttached", specific} /\ serial' = DeviceOf(Head(line).key)
        /\ keyCount' = keyCount + Counts(i)
        /\ known' = known \cup (Keys[i].vars \ {EachTime})
        /\ initKeys' \in {InitKeysOf(class), initKeys}
    BY <1>16 DEF ReaderCounts, Binds
  <2>2. i \in DOMAIN Keys /\ serial' \in 0..2 /\ line' \in Seq(AllReports)
    BY <1>5, <1>6, <2>1
  <2> HIDE DEF i
  <2>3. EachTime \notin known
    BY <1>1 DEF HandleTyped, CountedVars
  <2>4. Counts(i) \in Nat /\ Keys[i].vars \ {EachTime} \subseteq CountedVars(class)
    BY <1>2, <2>2, <2>3, CountOf
  <2>5. keyCount' \in Nat /\ known' \subseteq CountedVars(class)
    BY <1>1, <2>1, <2>4 DEF HandleTyped
  <2>6. HandleTyped'
    BY <1>1, <1>7, <2>1, <2>2, <2>5 DEF HandleTyped, historyVars
  <2>7. ListensInv'
    BY <1>1, <2>1 DEF ListensInv
  <2> QED
    BY <1>2, <2>1, <2>2, <2>6, <2>7, HandleStepIsGeneral
<1>17. CASE Open
  <2>1. UNCHANGED <<class, phase, done, dict, line, keyCount, listening, reader, setter, caught>>
    BY <1>17 DEF Open, serviceVars
  <2>2. left' \in [Chances -> Nat]
    BY <1>17, <1>3, <1>4 DEF Open
  <2>3. /\ status' = status \cup {"opened"} /\ known' \subseteq known
        /\ initKeys' = Unknown /\ user' = "open" /\ lost' = FALSE /\ overwritten' = FALSE
        /\ user = "closed"
    BY <1>17 DEF Open
  <2>4. specific' \in {"serial", "any", "anyAttached"} /\ serial' \in 0..2
    BY <1>17 DEF Open
  <2>5. known' \subseteq CountedVars(class) /\ status' \subseteq {"opened", "connected", "attached"}
    BY <1>1, <2>3 DEF HandleTyped
  <2>6. HandleTyped'
    BY <1>1, <1>7, <2>1, <2>3, <2>4, <2>5 DEF HandleTyped
  <2>7. ListensInv'
    BY <1>1, <2>1, <2>3 DEF ListensInv
  <2> QED
    BY <1>2, <2>1, <2>2, <2>6, <2>7, HandleStepIsGeneral
<1>18. CASE SetterWrites
  <2>1. /\ UNCHANGED <<class, left, serviceVars, status, specific, serial, keyCount,
                       initKeys, listening, reader, user, lost, caught>>
        /\ setter' = FALSE /\ overwritten' \in BOOLEAN
        /\ \E v \in ClassSets(class) : known' = known \cup {v}
    BY <1>18, <1>1 DEF SetterWrites, HandleTyped
  <2>2. ClassSets(class) \subseteq CountedVars(class)
    BY <1>2, InstancesAssumption, SettersAreCounted
  <2>3. known' \subseteq CountedVars(class)
    BY <1>1, <2>1, <2>2 DEF HandleTyped
  <2>4. HandleTyped'
    BY <1>1, <1>7, <2>1, <2>3 DEF HandleTyped
  <2>5. ListensInv'
    BY <1>1, <2>1 DEF ListensInv
  <2> QED
    BY <1>2, <2>1, <2>4, <2>5, HandleStepIsGeneral DEF serviceVars
<1>19. CASE ReaderSkips
  <2>1. UNCHANGED <<class, phase, done, dict, listening>> /\ line' \in Seq(AllReports)
    BY <1>19, <1>2, <1>5 DEF ReaderSkips, serviceVars, handleVars
  <2>2. left' \in [Chances -> Nat]
    BY <1>19, <1>2, <1>3, <1>4 DEF ReaderSkips
  <2>3. HandleTyped'
    BY <1>19, <1>1, <1>7, <2>1 DEF ReaderSkips, HandleTyped, handleVars, threadVars, historyVars
  <2>4. ListensInv'
    BY <1>19, <1>1, <2>1 DEF ReaderSkips, ListensInv, handleVars, threadVars
  <2> QED
    BY <2>1, <2>2, <2>3, <2>4, HandleStepIsGeneral
<1>20. CASE ReaderDetaches
  <2>1. UNCHANGED <<class, phase, done, dict, listening>> /\ line' \in Seq(AllReports)
    BY <1>20, <1>2, <1>5 DEF ReaderDetaches, serviceVars, handleVars
  <2>2. left' \in [Chances -> Nat]
    BY <1>20, <1>2, <1>3, <1>4 DEF ReaderDetaches
  <2>3. HandleTyped'
    BY <1>20, <1>1, <1>7, <2>1 DEF ReaderDetaches, HandleTyped, handleVars, threadVars, historyVars
  <2>4. ListensInv'
    BY <1>20, <1>1, <2>1 DEF ReaderDetaches, ListensInv, handleVars, threadVars
  <2> QED
    BY <2>1, <2>2, <2>3, <2>4, HandleStepIsGeneral
<1>21. CASE ReaderClears
  <2>1. UNCHANGED <<class, phase, done, dict, listening>> /\ line' \in Seq(AllReports)
    BY <1>21, <1>2, <1>5 DEF ReaderClears, serviceVars, handleVars
  <2>2. left' \in [Chances -> Nat]
    BY <1>21, <1>2, <1>3, <1>4 DEF ReaderClears
  <2>3. HandleTyped'
    BY <1>21, <1>1, <1>7, <2>1 DEF ReaderClears, HandleTyped, handleVars, threadVars, historyVars
  <2>4. ListensInv'
    BY <1>21, <1>1, <2>1 DEF ReaderClears, ListensInv, handleVars, threadVars
  <2> QED
    BY <2>1, <2>2, <2>3, <2>4, HandleStepIsGeneral
<1>22. CASE ReaderTests
  <2>1. UNCHANGED <<class, phase, done, dict, listening>> /\ line' \in Seq(AllReports)
    BY <1>22, <1>2, <1>5 DEF ReaderTests, serviceVars, handleVars
  <2>2. left' \in [Chances -> Nat]
    BY <1>22, <1>2, <1>3, <1>4 DEF ReaderTests
  <2>3. HandleTyped'
    BY <1>22, <1>1, <1>7, <2>1 DEF ReaderTests, HandleTyped, handleVars, threadVars, historyVars
  <2>4. ListensInv'
    BY <1>22, <1>1, <2>1 DEF ReaderTests, ListensInv, handleVars, threadVars
  <2> QED
    BY <2>1, <2>2, <2>3, <2>4, HandleStepIsGeneral
<1>23. CASE ReaderAttaches
  <2>1. UNCHANGED <<class, phase, done, dict, listening>> /\ line' \in Seq(AllReports)
    BY <1>23, <1>2, <1>5 DEF ReaderAttaches, serviceVars, handleVars
  <2>2. left' \in [Chances -> Nat]
    BY <1>23, <1>2, <1>3, <1>4 DEF ReaderAttaches
  <2>3. HandleTyped'
    BY <1>23, <1>1, <1>7, <2>1 DEF ReaderAttaches, HandleTyped, handleVars, threadVars, historyVars
  <2>4. ListensInv'
    BY <1>23, <1>1, <2>1 DEF ReaderAttaches, ListensInv, handleVars, threadVars
  <2> QED
    BY <2>1, <2>2, <2>3, <2>4, HandleStepIsGeneral
<1>24. CASE CloseStarts
  <2>1. UNCHANGED <<class, phase, done, dict, listening>> /\ line' \in Seq(AllReports)
    BY <1>24, <1>2, <1>5 DEF CloseStarts, serviceVars, handleVars
  <2>2. left' \in [Chances -> Nat]
    BY <1>24, <1>2, <1>3, <1>4 DEF CloseStarts
  <2>3. HandleTyped'
    BY <1>24, <1>1, <1>7, <2>1 DEF CloseStarts, HandleTyped, handleVars, threadVars, historyVars
  <2>4. ListensInv'
    BY <1>24, <1>1, <2>1 DEF CloseStarts, ListensInv, handleVars, threadVars
  <2> QED
    BY <2>1, <2>2, <2>3, <2>4, HandleStepIsGeneral
<1>25. CASE CloseClears
  <2>1. UNCHANGED <<class, phase, done, dict, listening>> /\ line' \in Seq(AllReports)
    BY <1>25, <1>2, <1>5 DEF CloseClears, serviceVars, handleVars
  <2>2. left' \in [Chances -> Nat]
    BY <1>25, <1>2, <1>3, <1>4 DEF CloseClears
  <2>3. HandleTyped'
    BY <1>25, <1>1, <1>7, <2>1 DEF CloseClears, HandleTyped, handleVars, threadVars, historyVars
  <2>4. ListensInv'
    BY <1>25, <1>1, <2>1 DEF CloseClears, ListensInv, handleVars, threadVars
  <2> QED
    BY <2>1, <2>2, <2>3, <2>4, HandleStepIsGeneral
<1>26. CASE CloseResets
  <2>1. UNCHANGED <<class, phase, done, dict, listening>> /\ line' \in Seq(AllReports)
    BY <1>26, <1>2, <1>5 DEF CloseResets, serviceVars, handleVars
  <2>2. left' \in [Chances -> Nat]
    BY <1>26, <1>2, <1>3, <1>4 DEF CloseResets
  <2>3. HandleTyped'
    BY <1>26, <1>1, <1>7, <2>1 DEF CloseResets, HandleTyped, handleVars, threadVars, historyVars
  <2>4. ListensInv'
    BY <1>26, <1>1, <2>1 DEF CloseResets, ListensInv, handleVars, threadVars
  <2> QED
    BY <2>1, <2>2, <2>3, <2>4, HandleStepIsGeneral
<1>27. CASE SetterTests
  <2>1. UNCHANGED <<class, phase, done, dict, listening>> /\ line' \in Seq(AllReports)
    BY <1>27, <1>2, <1>5 DEF SetterTests, serviceVars, handleVars
  <2>2. left' \in [Chances -> Nat]
    BY <1>27, <1>2, <1>3, <1>4 DEF SetterTests
  <2>3. HandleTyped'
    BY <1>27, <1>1, <1>7, <2>1 DEF SetterTests, HandleTyped, handleVars, threadVars, historyVars
  <2>4. ListensInv'
    BY <1>27, <1>1, <2>1 DEF SetterTests, ListensInv, handleVars, threadVars
  <2> QED
    BY <2>1, <2>2, <2>3, <2>4, HandleStepIsGeneral
<1>28. CASE UNCHANGED vars
  BY <1>28, <1>1, <1>2, HandleStepIsGeneral
     DEF vars, serviceVars, handleVars, threadVars, historyVars, HandleTyped,
         ListensInv
<1>29. QED
  BY Zenon, <1>8, <1>9, <1>10, <1>11, <1>12, <1>13, <1>14, <1>15, <1>16,
     <1>17, <1>18, <1>19, <1>20, <1>21, <1>22, <1>23, <1>24, <1>25, <1>26,
     <1>27, <1>28
     DEF Next, Service, Reader, User, Setter

LEMMA GeneralHoldsFirst ==
  ASSUME Init
  PROVE  GeneralInv
<1>1. /\ class \in Instances /\ left = Budget[class]
      /\ phase = [d \in Devices |-> "absent"] /\ done = [d \in Devices |-> 0]
      /\ line = <<>> /\ status = {} /\ specific = "serial" /\ serial = 0
      /\ keyCount = 0 /\ initKeys = Unknown /\ known = {} /\ listening = FALSE
      /\ reader = "idle" /\ user = "closed" /\ setter = FALSE
      /\ lost = FALSE /\ overwritten = FALSE /\ caught = FALSE
      /\ dict = PdictListen(EmptyPdict, Observer, StatusKeys)
  BY DEF Init
<1>2. Len(Keys) \in Nat /\ left \in [Chances -> Nat]
  BY <1>1, KeysOfTheDevice, InstancesAssumption
<1>3. ServiceTyped
  <2>1. line \in Seq(AllReports)
    BY <1>1
  <2>2. InStages(phase, done, Devices, Len(Keys))
    BY <1>1, <1>2 DEF InStages, Phases
  <2> QED
    BY <1>1, <1>2, <2>1, <2>2 DEF ServiceTyped
<1>4. HandleTyped /\ ListensInv
  <2>1. status \subseteq {"opened", "connected", "attached"} /\ known \subseteq CountedVars(class)
    BY <1>1
  <2>2. /\ specific \in {"serial", "any", "anyAttached"} /\ serial \in 0..2
        /\ keyCount \in Nat /\ initKeys \in {InitKeysOf(class), Unknown}
    BY <1>1
  <2> QED
    BY <1>1, <2>1, <2>2 DEF HandleTyped, ListensInv
<1>5. /\ Upright(dict) /\ dict.listeners = Sole(Observer, StatusKeys)
      /\ dict.vals = [k \in Values |-> NoValue] /\ KeptBy(dict) = {}
  BY <1>1, FirstListener
<1>6. DictInv
  BY <1>1, <1>5 DEF DictInv, IsKept, IsHeard
<1> QED
  BY <1>3, <1>4, <1>6 DEF GeneralInv

LEMMA GeneralTypes ==
  ASSUME GeneralInv
  PROVE  TypeOK /\ DictionaryIsSound
<1>1. ServiceTyped /\ HandleTyped /\ DictInv
  BY DEF GeneralInv
<1>2. Sound(dict) /\ IsTree(dict.ents)
  BY <1>1, UprightIsSound DEF DictInv, IsKept
<1>3. ASSUME NEW d \in Devices
      PROVE  phase[d] \in {"absent", "adding", "present", "removing"} /\ done[d] \in 0..Len(Keys)
  BY <1>1 DEF ServiceTyped, InStages, Phases
<1>4. ASSUME NEW i \in DOMAIN line
      PROVE  line[i].key \in Values /\ line[i].to = Handle
  <2>1. line[i] \in AllReports
    BY <1>1 DEF ServiceTyped
  <2>2. line[i].key \in AllKeys /\ line[i].to = Handle
    BY <2>1 DEF AllReports
  <2>3. AllKeys \subseteq Values
    BY <1>1, KeysOfDevices DEF ServiceTyped
  <2> QED
    BY <2>2, <2>3
<1>5. listening = \E i \in DOMAIN dict.listeners : dict.listeners[i].who = Handle
  <2>1. CASE listening
    <3> DEFINE Q == dict.listeners[2].pattern
    <3>1. dict.listeners = <<[who |-> Observer, pattern |-> StatusKeys],
                             [who |-> Handle, pattern |-> Q]>>
      BY <1>1, <2>1 DEF DictInv, IsHeard, Pair
    <3> HIDE DEF Q
    <3>2. dict.listeners[2] = [who |-> Handle, pattern |-> Q] /\ 2 \in DOMAIN dict.listeners
      BY <3>1
    <3>3. \E i \in DOMAIN dict.listeners : dict.listeners[i].who = Handle
      BY <3>2
    <3> QED
      BY <2>1, <3>3, <1>1 DEF HandleTyped
  <2>2. CASE ~listening
    <3>1. dict.listeners = <<[who |-> Observer, pattern |-> StatusKeys]>>
      BY <1>1, <2>2 DEF DictInv, IsHeard, Sole
    <3>2. DOMAIN dict.listeners = {1} /\ dict.listeners[1].who = Observer
      BY <3>1
    <3>3. ~\E i \in DOMAIN dict.listeners : dict.listeners[i].who = Handle
      BY <3>2 DEF Observer, Handle
    <3> QED
      BY <2>2, <3>3, <1>1 DEF HandleTyped
  <2> QED
    BY <2>1, <2>2
<1>6. {listening, setter, lost, overwritten, caught} \subseteq BOOLEAN
  BY <1>1 DEF HandleTyped
<1>7. TypeOK
  BY <1>1, <1>2, <1>3, <1>4, <1>5, <1>6 DEF TypeOK, ServiceTyped, HandleTyped
<1> QED
  BY <1>2, <1>7 DEF DictionaryIsSound

\* The variables have their types, for every class and any number of devices
\* of it: what was counted of a handle is a number of keys, the dictionary has
\* its listener exactly while the handle is known to have one, and every report
\* is for the handle (network_phidget_event_handler, CPhidget_open and
\* CPhidget_close).
THEOREM TypeCorrect == Spec => []TypeOK
<1>1. GeneralInv /\ [Next]_vars => GeneralInv'
  BY GeneralStep
<1>2. Init => GeneralInv
  BY GeneralHoldsFirst
<1>3. GeneralInv => TypeOK
  BY GeneralTypes
<1> QED
  BY <1>1, <1>2, <1>3, PTL DEF Spec

\* The tree of the dictionary stays a search tree of the keys that have a value,
\* through every insertion and removal, and each entry is heard by the listeners
\* whose pattern matches its key (utils/ptree.c, dict/pdict.c).
THEOREM DictionaryStaysSound == Spec => []DictionaryIsSound
<1>1. GeneralInv /\ [Next]_vars => GeneralInv'
  BY GeneralStep
<1>2. Init => GeneralInv
  BY GeneralHoldsFirst
<1>3. GeneralInv => DictionaryIsSound
  BY GeneralTypes
<1> QED
  BY <1>1, <1>2, <1>3, PTL DEF Spec

\* In a class with one device to a handle: when the attach handler runs, every
\* variable a key is counted for has its value, unless the server was lost,
\* which leaves keyCount of the handle as it was (network_phidget_event_handler,
\* CPhidget_close).
THEOREM AttachedHandleKnows ==
  ASSUME OneDevice
  PROVE  Spec => []AttachIsComplete
<1>1. Inv /\ DictionaryIsSound /\ DictionaryIsSound' /\ [Next]_vars => Inv'
  BY InvStep
<1>2. Init => Inv
  BY InvHoldsFirst
<1>3. Inv /\ TypeOK => AttachIsComplete
  <2> SUFFICES ASSUME Inv, TypeOK, CountedVars(class) /= {}
               PROVE  AttachIsComplete
    BY DEF AttachIsComplete, AttachHasKeys
  <2>1. Devices = {1}
    BY DEF OneDevice, Devices, TypeOK
  <2> QED
    BY <2>1 DEF Inv, AttachedInv, AttachInv, AttachIsComplete, AttachHasKeys, Undisturbed
<1> QED
  BY <1>1, <1>2, <1>3, TypeCorrect, DictionaryStaysSound, PTL DEF Spec

\* In a class with one device: when all reports are handled, the handle of a user
\* who has it open is attached if and only if the device is published, however
\* often it came and went, but for a variable that a setter wrote before its key
\* came (network_phidget_event_handler, CPHIDGETCLEARVARS, the setters of
\* cphidgetmacros.h).
THEOREM HandleAndDeviceAgree == Spec => [](Devices = {1} => SettledAgrees)
<1> DEFINE One == Devices = {1} => SettledInv
<1>1. Inv /\ One /\ DictionaryIsSound /\ DictionaryIsSound' /\ [Next]_vars => One'
  <2> SUFFICES ASSUME Inv, One, DictionaryIsSound, DictionaryIsSound', [Next]_vars
               PROVE  One'
    OBVIOUS
  <2>1. Devices' = Devices
    BY ClassStays, KeysStay
  <2>2. ASSUME Devices = {1}
        PROVE  SettledInv'
    BY <2>2, SettledStep DEF Inv
  <2> QED
    BY <2>1, <2>2
<1>2. Inv /\ DictionaryIsSound /\ DictionaryIsSound' /\ [Next]_vars => Inv'
  BY InvStep
<1>3. Init => Inv /\ One
  BY InvHoldsFirst, SettledHoldsFirst
<1>4. Inv /\ One => (Devices = {1} => SettledAgrees)
  BY HandledAgrees DEF Inv, AttachedInv, SettledInv
<1> HIDE DEF One
<1> QED
  BY <1>1, <1>2, <1>3, <1>4, DictionaryStaysSound, PTL DEF Spec
=============================================================================
