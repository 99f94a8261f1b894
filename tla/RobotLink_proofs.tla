--------------------------- MODULE RobotLink_proofs ---------------------------
(***************************************************************************)
(* Theorems about RobotLink: its types, and what the program believes of   *)
(* the Arduino.  Inv, at the end, is inductive.  Some of it holds however  *)
(* late replies come: every "a" in what has arrived begins the whole echo  *)
(* of an attach of a device that is bound (EchoesAreTrue), and the last    *)
(* command on the line for a motor that close has reset stops it           *)
(* (StopInv).  The rest (PunctualInv) holds as long as no reply was late:  *)
(* the line is empty between two calls and during one holds its command or *)
(* the whole of its reply (LineInv), from which each return is taken to be *)
(* that of its own command; the pins, the cache and the motors agree but   *)
(* for what the call under way has changed on one side only (PinsInv,      *)
(* CacheInv, MotorsInv).                                                   *)
(***************************************************************************)
EXTENDS RobotLink, FiniteSetTheorems, SequenceTheorems, TLAPS

USE DEF robotVars, threadVars, closeVars, lineVars, boardVars, historyVars

-----------------------------------------------------------------------------
(* Sequences.                                                               *)

LEMMA Removes ==
  ASSUME NEW T, NEW s \in Seq(T), NEW k \in 1 .. Len(s),
         \A i \in 1 .. Len(s) : s[i] = s[k] => i = k
  PROVE  LET r == RemoveFirst(s, s[k])
         IN  /\ r \in Seq(T) /\ Len(r) = Len(s) - 1
             /\ \A i \in 1 .. Len(s) - 1 : r[i] = IF i < k THEN s[i] ELSE s[i + 1]
<1>1. RemoveFirst(s, s[k]) = SubSeq(s, 1, k - 1) \o SubSeq(s, k + 1, Len(s))
  <2> DEFINE I == {i \in 1 .. Len(s) : s[i] = s[k]}
  <2>1. I = {k}
    OBVIOUS
  <2>2. SelectInSeq(s, LAMBDA v : v = s[k]) = Min(I)
    BY <2>1 DEF SelectInSeq
  <2>3. Min(I) = k
    BY <2>1 DEF Min
  <2>4. RemoveFirst(s, s[k]) = RemoveAt(s, k)
    BY <2>2, <2>3 DEF RemoveFirst
  <2>5. QED
    BY <2>4 DEF RemoveAt
<1>2. Len(s) \in Nat /\ \A i \in 1 .. Len(s) : s[i] \in T
  BY LenProperties, ElementOfSeq
<1> DEFINE a == SubSeq(s, 1, k - 1)
           b == SubSeq(s, k + 1, Len(s))
<1>3. /\ a \in Seq(T) /\ Len(a) = k - 1
      /\ \A i \in 1 .. k - 1 : a[i] = s[i]
  <2>1. \A i \in 1 .. k - 1 : s[i] \in T
    BY <1>2
  <2>2. /\ SubSeq(s, 1, k - 1) \in Seq(T)
        /\ Len(SubSeq(s, 1, k - 1)) = IF 1 <= k - 1 THEN k - 1 - 1 + 1 ELSE 0
        /\ \A i \in 1 .. k - 1 - 1 + 1 : SubSeq(s, 1, k - 1)[i] = s[1 + i - 1]
    BY <2>1, <1>2, SubSeqProperties
  <2>3. QED
    BY <2>2, <1>2
<1>4. /\ b \in Seq(T) /\ Len(b) = Len(s) - k
      /\ \A i \in 1 .. Len(s) - k : b[i] = s[k + i]
  <2>1. \A i \in k + 1 .. Len(s) : s[i] \in T
    BY <1>2
  <2>2. /\ SubSeq(s, k + 1, Len(s)) \in Seq(T)
        /\ Len(SubSeq(s, k + 1, Len(s))) = IF k + 1 <= Len(s) THEN Len(s) - (k + 1) + 1 ELSE 0
        /\ \A i \in 1 .. Len(s) - (k + 1) + 1 : SubSeq(s, k + 1, Len(s))[i] = s[(k + 1) + i - 1]
    BY <2>1, <1>2, SubSeqProperties
  <2>3. QED
    BY <2>2, <1>2
<1> HIDE DEF a, b
<1>5. /\ a \o b \in Seq(T) /\ Len(a \o b) = Len(a) + Len(b)
      /\ \A i \in 1 .. Len(a) + Len(b) :
            (a \o b)[i] = IF i <= Len(a) THEN a[i] ELSE b[i - Len(a)]
  BY <1>3, <1>4, ConcatProperties
<1>6. \A i \in 1 .. Len(s) - 1 : (a \o b)[i] = IF i < k THEN s[i] ELSE s[i + 1]
  <2>1. SUFFICES ASSUME NEW i \in 1 .. Len(s) - 1
                 PROVE  (a \o b)[i] = IF i < k THEN s[i] ELSE s[i + 1]
    OBVIOUS
  <2>2. CASE i < k
    BY <1>2, <1>3, <1>4, <1>5, <2>2
  <2>3. CASE ~(i < k)
    <3>1. i - (k - 1) \in 1 .. Len(s) - k /\ i \in 1 .. Len(a) + Len(b) /\ ~(i <= Len(a))
      BY <1>2, <1>3, <1>4, <2>3
    <3>2. (a \o b)[i] = b[i - (k - 1)] /\ b[i - (k - 1)] = s[k + (i - (k - 1))]
      BY <1>3, <1>4, <1>5, <3>1
    <3>3. k + (i - (k - 1)) = i + 1 /\ ~(i < k)
      BY <1>2, <2>3
    <3>4. QED
      BY <3>2, <3>3
  <2>4. QED
    BY <1>2, <2>2, <2>3
<1>7. RemoveFirst(s, s[k]) = a \o b
  BY <1>1 DEF a, b
<1>8. QED
  <2>1. Len(a \o b) = Len(s) - 1
    BY <1>2, <1>3, <1>4, <1>5
  <2>2. QED
    BY <1>5, <1>6, <1>7, <2>1

\* The places of a finite set of numbers in their order.
Rank(S, i) == Cardinality({j \in S : j <= i})

LEMMA RankIsOwn ==
  ASSUME NEW S \in SUBSET Nat, IsFiniteSet(S)
  PROVE  /\ \A i \in S : Rank(S, i) \in 1 .. Cardinality(S)
         /\ \A i, j \in S : i < j => Rank(S, i) < Rank(S, j)
<1>1. ASSUME NEW i \in S PROVE Rank(S, i) \in 1 .. Cardinality(S)
  <2> DEFINE U == {j \in S : j <= i}
  <2>1. IsFiniteSet(U) /\ Cardinality(U) <= Cardinality(S)
    BY FS_Subset
  <2>2. U # {}
    BY <1>1
  <2>3. Cardinality(U) \in Nat /\ Cardinality(S) \in Nat /\ Cardinality(U) # 0
    BY <2>1, <2>2, FS_CardinalityType, FS_EmptySet
  <2>4. QED
    BY <2>1, <2>3 DEF Rank
<1>2. ASSUME NEW i \in S, NEW j \in S, i < j PROVE Rank(S, i) < Rank(S, j)
  <2> DEFINE U == {k \in S : k <= i}
             V == {k \in S : k <= j}
  <2>1. IsFiniteSet(U) /\ IsFiniteSet(V)
    <3>1. U \in SUBSET S /\ V \in SUBSET S
      OBVIOUS
    <3>2. QED
      BY <3>1, FS_Subset
  <2>2. U \in SUBSET V /\ j \in V /\ j \notin U
    <3>1. i \in Nat /\ j \in Nat /\ \A k \in S : k \in Nat
      OBVIOUS
    <3>2. j <= j /\ ~(j <= i) /\ \A k \in S : k <= i => k <= j
      BY <1>2, <3>1
    <3>3. QED
      BY <3>2
  <2>3. Cardinality(U) <= Cardinality(V) /\ Cardinality(V) # Cardinality(U)
    BY <2>1, <2>2, FS_Subset
  <2>4. Cardinality(U) \in Nat /\ Cardinality(V) \in Nat
    BY <2>1, FS_CardinalityType
  <2>5. QED
    BY <2>3, <2>4 DEF Rank
<1>3. QED
  BY <1>1, <1>2

LEMMA NthIsRanked ==
  ASSUME NEW S \in SUBSET Nat, IsFiniteSet(S)
  PROVE  /\ Cardinality(S) \in Nat
         /\ \A n \in 1 .. Cardinality(S) : Nth(S, n) \in S /\ Rank(S, Nth(S, n)) = n
         /\ \A i \in S : Nth(S, Rank(S, i)) = i
<1>1. Cardinality(S) \in Nat
  BY FS_CardinalityType
<1> DEFINE f == [i \in S |-> Rank(S, i)]
<1>2. f \in Injection(S, 1 .. Cardinality(S))
  <2>1. \A i, j \in S : f[i] = f[j] => i = j
    <3>1. SUFFICES ASSUME NEW i \in S, NEW j \in S, i # j PROVE f[i] # f[j]
      OBVIOUS
    <3>2. /\ i \in Nat /\ j \in Nat
          /\ Rank(S, i) \in 1 .. Cardinality(S) /\ Rank(S, j) \in 1 .. Cardinality(S)
          /\ i < j => Rank(S, i) < Rank(S, j)
          /\ j < i => Rank(S, j) < Rank(S, i)
      BY RankIsOwn
    <3>3. QED
      BY <3>1, <3>2
  <2>2. f \in [S -> 1 .. Cardinality(S)]
    BY RankIsOwn
  <2>3. QED
    BY <2>1, <2>2 DEF Injection, IsInjective
<1>3. f \in Surjection(S, 1 .. Cardinality(S))
  <2>1. IsFiniteSet(1 .. Cardinality(S)) /\ Cardinality(1 .. Cardinality(S)) = Cardinality(S)
    BY <1>1, FS_Interval
  <2>2. QED
    BY <1>2, <2>1, FS_Injection
<1>4. \A n \in 1 .. Cardinality(S) : \E i \in S : Rank(S, i) = n
  BY <1>3 DEF Surjection
<1>5. \A i, j \in S : Rank(S, i) = Rank(S, j) => i = j
  BY <1>2 DEF Injection, IsInjective
<1>6. \A n : Nth(S, n) = CHOOSE i \in S : Rank(S, i) = n
  BY DEF Nth, Rank
<1> HIDE DEF f
<1>7. \A n \in 1 .. Cardinality(S) : Nth(S, n) \in S /\ Rank(S, Nth(S, n)) = n
  BY <1>4, <1>6
<1>8. \A i \in S : Nth(S, Rank(S, i)) = i
  BY <1>5, <1>7, RankIsOwn
<1>9. QED
  BY <1>1, <1>7, <1>8

-----------------------------------------------------------------------------
(* Pins in the order of PinList.                                            *)

\* The pins at these places, in order, and the places nothing is bound to.
InOrder(S) == [n \in 1 .. Cardinality(S) |-> PinList[Nth(S, n)]]
Free == {i \in DOMAIN PinList : \A d \in Devices : boardPin[d] # PinList[i]}

LEMMA FreeInOrder == BoardFree = InOrder(Free)
BY DEF BoardFree, InOrder, Free

LEMMA Places ==
  /\ DOMAIN PinList \in SUBSET Nat
  /\ \A S \in SUBSET DOMAIN PinList : S \in SUBSET Nat /\ IsFiniteSet(S)
  /\ \A i \in DOMAIN PinList : PinList[i] \in Pins
  /\ \A i, j \in DOMAIN PinList : PinList[i] = PinList[j] => i = j
<1>1. DOMAIN PinList = 1 .. Len(PinList) /\ Len(PinList) \in Nat
  BY PinsAssumption, LenProperties
<1>2. IsFiniteSet(DOMAIN PinList)
  BY <1>1, FS_Interval
<1>3. \A S \in SUBSET DOMAIN PinList : IsFiniteSet(S)
  BY <1>2, FS_Subset
<1>4. QED
  BY <1>1, <1>3, PinsAssumption, ElementOfSeq DEF IsInjective

LEMMA Ordered ==
  ASSUME NEW S \in SUBSET DOMAIN PinList
  PROVE  /\ InOrder(S) \in Seq(Pins) /\ Len(InOrder(S)) = Cardinality(S)
         /\ Range(InOrder(S)) = {PinList[i] : i \in S}
         /\ IsInjective(InOrder(S))
         /\ \A i \in S : /\ Rank(S, i) \in 1 .. Cardinality(S)
                         /\ InOrder(S)[Rank(S, i)] = PinList[i]
<1>1. S \in SUBSET Nat /\ IsFiniteSet(S) /\ Cardinality(S) \in Nat
  BY Places, FS_CardinalityType
<1>2. \A n \in 1 .. Cardinality(S) :
         Nth(S, n) \in S /\ Nth(S, n) \in DOMAIN PinList /\ Rank(S, Nth(S, n)) = n
  BY <1>1, NthIsRanked
<1>3. InOrder(S) \in [1 .. Cardinality(S) -> Pins]
  BY <1>2, Places DEF InOrder
<1>4. InOrder(S) \in Seq(Pins) /\ Len(InOrder(S)) = Cardinality(S)
  BY <1>1, <1>3
<1>5. \A i \in S : /\ Rank(S, i) \in 1 .. Cardinality(S)
                   /\ InOrder(S)[Rank(S, i)] = PinList[i]
  BY <1>1, NthIsRanked, RankIsOwn DEF InOrder
<1>6. \A n \in DOMAIN InOrder(S) : InOrder(S)[n] \in {PinList[i] : i \in S}
  BY <1>2 DEF InOrder
<1>7. DOMAIN InOrder(S) = 1 .. Cardinality(S)
  BY DEF InOrder
<1>8. Range(InOrder(S)) = {PinList[i] : i \in S}
  BY <1>5, <1>6, <1>7 DEF Range
<1>9. IsInjective(InOrder(S))
  <2>1. SUFFICES ASSUME NEW m \in 1 .. Cardinality(S), NEW n \in 1 .. Cardinality(S),
                        InOrder(S)[m] = InOrder(S)[n]
                 PROVE  m = n
    BY <1>7 DEF IsInjective
  <2>2. PinList[Nth(S, m)] = PinList[Nth(S, n)]
    BY <2>1 DEF InOrder
  <2>3. Nth(S, m) = Nth(S, n)
    BY <1>2, <2>2, Places
  <2>4. QED
    BY <1>2, <2>3
<1>10. QED
  BY <1>4, <1>5, <1>8, <1>9

LEMMA RankWithout ==
  ASSUME NEW S \in SUBSET Nat, IsFiniteSet(S), NEW k \in S, NEW i \in S \ {k}
  PROVE  Rank(S \ {k}, i) = IF i < k THEN Rank(S, i) ELSE Rank(S, i) - 1
<1> DEFINE U == {j \in S : j <= i}
<1>1. IsFiniteSet(U) /\ {j \in S \ {k} : j <= i} = U \ {k}
  <2>1. U \in SUBSET S
    OBVIOUS
  <2>2. QED
    BY <2>1, FS_Subset
<1>2. Cardinality(U \ {k}) = IF k \in U THEN Cardinality(U) - 1 ELSE Cardinality(U)
  BY <1>1, FS_RemoveElement
<1>3. k \in U <=> ~(i < k)
  <2>1. k \in Nat /\ i \in Nat /\ i # k
    OBVIOUS
  <2>2. QED
    BY <2>1
<1>4. QED
  BY <1>1, <1>2, <1>3 DEF Rank

LEMMA RemovesPlace ==
  ASSUME NEW S \in SUBSET DOMAIN PinList, NEW k \in S
  PROVE  RemoveFirst(InOrder(S), PinList[k]) = InOrder(S \ {k})
<1> DEFINE s == InOrder(S)
           t == InOrder(S \ {k})
           r == Rank(S, k)
           N == Cardinality(S)
<1>1. S \in SUBSET Nat /\ IsFiniteSet(S) /\ N \in Nat
  BY Places, FS_CardinalityType
<1>2. /\ IsFiniteSet(S \ {k}) /\ Cardinality(S \ {k}) = N - 1
      /\ S \ {k} \in SUBSET DOMAIN PinList /\ S \ {k} \in SUBSET Nat
  BY <1>1, FS_RemoveElement
<1>3. /\ s \in Seq(Pins) /\ Len(s) = N /\ r \in 1 .. N /\ s[r] = PinList[k]
      /\ IsInjective(s)
  BY Ordered
<1>4. DOMAIN s = 1 .. Len(s)
  BY <1>3, LenProperties
<1>5. \A i \in 1 .. Len(s) : s[i] = s[r] => i = r
  BY <1>3, <1>4 DEF IsInjective
<1>6. t \in Seq(Pins) /\ Len(t) = N - 1
  BY <1>2, Ordered
<1>7. ASSUME NEW n \in 1 .. N - 1 PROVE t[n] = IF n < r THEN s[n] ELSE s[n + 1]
  <2> DEFINE i == Nth(S \ {k}, n)
  <2>1. i \in S \ {k} /\ Rank(S \ {k}, i) = n
    BY <1>2, NthIsRanked
  <2>2. t[n] = PinList[i]
    BY <1>2 DEF InOrder
  <2>3. /\ i < k => Rank(S, i) = n /\ Rank(S, i) < r
        /\ ~(i < k) => Rank(S, i) = n + 1 /\ Rank(S, i) > r
    <3> HIDE DEF i
    <3>1. n = IF i < k THEN Rank(S, i) ELSE Rank(S, i) - 1
      BY <1>1, <2>1, RankWithout
    <3>2. /\ Rank(S, i) \in 1 .. N /\ i \in Nat /\ k \in Nat /\ i # k
          /\ i < k => Rank(S, i) < r
          /\ k < i => r < Rank(S, i)
      BY <1>1, <2>1, RankIsOwn
    <3>3. QED
      BY <1>1, <1>3, <3>1, <3>2
  <2>4. s[Rank(S, i)] = PinList[i]
    BY <2>1, Ordered
  <2> HIDE DEF i, r, s, t
  <2>5. r \in Nat
    BY <1>1, <1>3
  <2>6. QED
    BY <1>1, <2>2, <2>3, <2>4, <2>5
<1> HIDE DEF s, t, r, N
<1>8. LET q == RemoveFirst(s, s[r])
      IN  /\ q \in Seq(Pins) /\ Len(q) = Len(s) - 1
          /\ \A i \in 1 .. Len(s) - 1 : q[i] = IF i < r THEN s[i] ELSE s[i + 1]
  BY <1>3, <1>5, Removes
<1>9. RemoveFirst(s, s[r]) = t
  <2> DEFINE q == RemoveFirst(s, s[r])
  <2>1. /\ q \in Seq(Pins) /\ Len(q) = Len(t)
        /\ \A i \in 1 .. Len(q) : q[i] = t[i]
    BY <1>3, <1>6, <1>7, <1>8
  <2> HIDE DEF q
  <2>2. q = t
    BY <1>6, <2>1, SeqEqual
  <2>3. QED
    BY <2>2 DEF q
<1>10. QED
  BY <1>3, <1>9 DEF s, t

-----------------------------------------------------------------------------
(* Commands and replies.                                                    *)

\* Everything a token can be of.
Subjects == Devices \cup Pins
            \cup {"zero", "some", "timed", "forever", "ticks", "position"}

\* The tokens of replies up to the n-th call.
Texts == [kind : {"word"}, at : {0},
          of : {"a", "m", "s", "v", "r", "run", "encoded", "ping", "ticks"}]
Tokens(n) == [kind : {"number", "measured"}, of : Subjects, at : 0 .. n] \cup Texts

\* The commands a call writes.
Commands ==
    {Command("attach", d, p, <<>>, "none") : d \in Devices, p \in Pins}
    \cup {Command("read", Nothing, Nothing, <<>>, "none")}
    \cup {Command("ping", p, Nothing, <<>>, "none") : p \in Pins}
    \cup {Command("ticks", m, Nothing, <<>>, "none") : m \in Encoded}
    \cup {Command("servo", s, Nothing, <<>>, "none") : s \in Servos}
    \cup {Command("run", Nothing, Nothing, runs, time) :
              runs \in Runs, time \in {"timed", "forever"}}
    \cup {Command("encoded", Nothing, Nothing, runs, "ticks") : runs \in Runs}

LEMMA CommandIs ==
  ASSUME NEW c \in Commands
  PROVE  /\ c.op \in {"attach", "read", "ping", "ticks", "servo", "run", "encoded"}
         /\ c.op = "attach" => c.what \in Devices /\ c.pin \in Pins
         /\ c.op = "ping" => c.what \in Pins
         /\ c.op = "ticks" => c.what \in Encoded
         /\ c.op = "servo" => c.what \in Servos
         /\ c.op = "run" => c.runs \in Runs /\ c.time \in {"timed", "forever"}
         /\ c.op = "encoded" => c.runs \in Runs /\ c.time = "ticks"
         /\ c.op \notin {"run", "encoded"} => c.runs = <<>> /\ c.time = "none"
BY DEF Commands, Command

LEMMA RunParts ==
  ASSUME NEW runs \in Runs
  PROVE  /\ runs \in Seq(Motors \X Speeds) /\ Len(runs) \in {1, 2}
         /\ MotorsOf(runs) \subseteq Motors /\ IsFiniteSet(MotorsOf(runs))
         /\ Moved(runs) \subseteq MotorsOf(runs) /\ IsFiniteSet(Moved(runs))
<1>1. runs \in Seq(Motors \X Speeds) /\ Len(runs) \in {1, 2}
  <2>1. CASE \E m \in Motors, v \in Speeds : runs = <<<<m, v>>>>
    BY <2>1
  <2>2. CASE \E m, k \in Motors, v, w \in Speeds : runs = <<<<m, v>>, <<k, w>>>>
    BY <2>2
  <2>3. QED
    BY <2>1, <2>2 DEF Runs
<1>2. MotorsOf(runs) \subseteq Motors
  BY <1>1 DEF MotorsOf
<1>3. IsFiniteSet(MotorsOf(runs))
  <2>1. \A m, k : IsFiniteSet({m} \cup {k})
    BY FS_Singleton, FS_AddElement
  <2>2. CASE Len(runs) = 1
    <3>1. MotorsOf(runs) = {runs[1][1]} \cup {runs[1][1]}
      BY <1>1, <2>2 DEF MotorsOf
    <3>2. QED
      BY <2>1, <3>1
  <2>3. CASE Len(runs) = 2
    <3>1. MotorsOf(runs) = {runs[1][1]} \cup {runs[2][1]}
      BY <1>1, <2>3 DEF MotorsOf
    <3>2. QED
      BY <2>1, <3>1
  <2>4. QED
    BY <1>1, <2>2, <2>3
<1>4. Moved(runs) \in SUBSET MotorsOf(runs)
  BY DEF Moved
<1>5. QED
  BY <1>1, <1>2, <1>3, <1>4, FS_Subset

LEMMA NoRuns == MotorsOf(<<>>) = {} /\ Moved(<<>>) = {}
BY DEF MotorsOf, Moved

\* runMotor(i, 0, 0).
LEMMA RunOfZero ==
  ASSUME NEW m \in Motors
  PROVE  /\ <<<<m, "zero">>>> \in Runs
         /\ MotorsOf(<<<<m, "zero">>>>) = {m} /\ Moved(<<<<m, "zero">>>>) = {}
<1> DEFINE runs == <<<<m, "zero">>>>
<1>1. runs \in Runs /\ DOMAIN runs = {1} /\ runs[1] = <<m, "zero">>
  BY DEF Runs, Speeds
<1> HIDE DEF runs
<1>2. MotorsOf(runs) = {m}
  BY <1>1 DEF MotorsOf
<1>3. Speed(runs, m) = "zero"
  <2>1. (CHOOSE i \in DOMAIN runs : runs[i][1] = m /\ \A j \in DOMAIN runs : runs[j][1] = m => j <= i) = 1
    BY <1>1
  <2>2. QED
    BY <1>1, <2>1 DEF Speed
<1>4. Moved(runs) = {}
  BY <1>2, <1>3 DEF Moved
<1>5. QED
  BY <1>1, <1>2, <1>4 DEF runs

LEMMA RunTokensAre ==
  ASSUME NEW runs \in Runs, NEW n \in Nat
  PROVE  RunTokens(runs) \in Seq(Tokens(n) \ Texts)
<1>1. runs \in Seq(Motors \X Speeds) /\ Len(runs) \in {1, 2}
  BY RunParts
<1>2. ASSUME NEW i \in 1 .. 2 * Len(runs)
      PROVE  (i + 1) \div 2 \in 1 .. Len(runs) /\ 2 - (i % 2) \in {1, 2}
  <2>1. i \in {1, 2, 3, 4} /\ (Len(runs) = 1 => i \in {1, 2})
    <3>1. CASE Len(runs) = 1
      <4>1. 2 * Len(runs) = 2
        BY <3>1
      <4>2. QED
        BY <4>1
    <3>2. CASE Len(runs) = 2
      <4>1. 2 * Len(runs) = 4 /\ Len(runs) # 1
        BY <3>2
      <4>2. QED
        BY <4>1
    <3>3. QED
      BY <1>1, <3>1, <3>2
  <2>2. /\ (1 + 1) \div 2 = 1 /\ (2 + 1) \div 2 = 1 /\ (3 + 1) \div 2 = 2 /\ (4 + 1) \div 2 = 2
        /\ 1 % 2 = 1 /\ 2 % 2 = 0 /\ 3 % 2 = 1 /\ 4 % 2 = 0
    OBVIOUS
  <2>3. QED
    BY <1>1, <2>1, <2>2
<1>3. ASSUME NEW k \in 1 .. Len(runs), NEW j \in {1, 2}
      PROVE  Number(runs[k][j]) \in Tokens(n) \ Texts
  <2>1. runs[k] \in Motors \X Speeds
    BY <1>1, ElementOfSeq
  <2>2. runs[k][j] \in Subjects
    BY <2>1 DEF Subjects, Devices, Speeds
  <2>3. QED
    BY <2>2 DEF Number, Tokens, Texts
<1>4. \A i \in 1 .. 2 * Len(runs) : Number(runs[(i + 1) \div 2][2 - (i % 2)]) \in Tokens(n) \ Texts
  BY <1>2, <1>3
<1>5. RunTokens(runs) \in [1 .. 2 * Len(runs) -> Tokens(n) \ Texts]
  BY <1>4 DEF RunTokens
<1>6. QED
  BY <1>1, <1>5

LEMMA Tuples ==
  ASSUME NEW S, NEW a \in S, NEW b \in S, NEW c \in S, NEW d \in S
  PROVE  /\ <<a>> \in Seq(S) /\ Len(<<a>>) = 1 /\ <<a>>[1] = a
         /\ <<a, b, c>> \in Seq(S) /\ Len(<<a, b, c>>) = 3 /\ <<a, b, c>>[3] = c
         /\ <<a, b, c, d>> \in Seq(S) /\ Len(<<a, b, c, d>>) = 4 /\ <<a, b, c, d>>[3] = c
OBVIOUS

\* An echo; only that of an attach begins with "a".
LEMMA EchoIs ==
  ASSUME NEW c \in Commands, c.op \in {"attach", "servo", "run", "encoded"}, NEW n \in Nat
  PROVE  /\ Echo(c) \in Seq(Tokens(n)) /\ Len(Echo(c)) > 0
         /\ c.op = "attach" =>
               Echo(c) = <<Word("a"), Word(IF c.what \in Motors THEN "m" ELSE "s"),
                           Number(c.what), Number(c.pin)>>
         /\ c.op # "attach" => \A i \in 1 .. Len(Echo(c)) : Echo(c)[i] # Word("a")
<1>1. \A w \in {"a", "m", "s", "v", "r", "run", "encoded", "ping", "ticks"} :
          Word(w) \in Texts /\ Word(w) \in Tokens(n) /\ (w # "a" => Word(w) # Word("a"))
  BY DEF Texts, Tokens, Word
<1>2. \A x \in Subjects : Number(x) \in Tokens(n) \ Texts /\ Number(x) # Word("a")
  BY DEF Texts, Tokens, Word, Number
<1>3. CASE c.op = "attach"
  <2>1. c.what \in Subjects /\ c.pin \in Subjects
    BY <1>3, CommandIs DEF Subjects
  <2>2. Echo(c) = <<Word("a"), Word(IF c.what \in Motors THEN "m" ELSE "s"),
                    Number(c.what), Number(c.pin)>>
    BY <1>3 DEF Echo
  <2>3. QED
    BY <1>1, <1>2, <1>3, <2>1, <2>2
<1>4. CASE c.op = "servo"
  <2>1. c.what \in Subjects /\ "position" \in Subjects
    BY <1>4, CommandIs DEF Subjects, Devices
  <2>2. Echo(c) = <<Word("v"), Number(c.what), Number("position")>>
    BY <1>4 DEF Echo
  <2>3. QED
    BY <1>1, <1>2, <1>4, <2>1, <2>2
<1>5. CASE c.op \in {"run", "encoded"}
  <2> DEFINE S == Tokens(n) \ {Word("a")}
             h == <<Word(c.op)>>
             t == <<Number(c.time)>>
             r == RunTokens(c.runs)
  <2>1. c.runs \in Runs /\ c.time \in Subjects
    BY <1>5, CommandIs DEF Subjects
  <2>2. r \in Seq(Tokens(n) \ Texts) /\ Tokens(n) \ Texts \subseteq S
    BY <1>1, <2>1, RunTokensAre
  <2>3. r \in Seq(S)
    BY <2>2, SeqMonotonic
  <2>4. h \in Seq(S) /\ Len(h) = 1 /\ t \in Seq(S) /\ Len(t) = 1
    BY <1>1, <1>2, <1>5, <2>1
  <2>5. Echo(c) = (h \o r) \o t
    BY <1>5 DEF Echo
  <2> HIDE DEF S, h, t, r
  <2>6. h \o r \in Seq(S) /\ Len(h \o r) = 1 + Len(r) /\ Len(r) \in Nat
    BY <2>3, <2>4, ConcatProperties, LenProperties
  <2>7. Echo(c) \in Seq(S) /\ Len(Echo(c)) = 2 + Len(r)
    BY <2>4, <2>5, <2>6, ConcatProperties
  <2>8. \A i \in 1 .. Len(Echo(c)) : Echo(c)[i] \in S
    BY <2>7, ElementOfSeq
  <2>9. S \subseteq Tokens(n) /\ Word("a") \notin S
    BY DEF S
  <2>10. Echo(c) \in Seq(Tokens(n))
    BY <2>7, <2>9, SeqMonotonic
  <2>11. QED
    BY <1>5, <2>6, <2>7, <2>8, <2>9, <2>10
<1>6. QED
  BY <1>3, <1>4, <1>5

LEMMA BoardFreeIs ==
  BoardFree \in Seq(Pins) /\ BoardFree = InOrder(Free) /\ Len(BoardFree) \in Nat
<1>1. Free \in SUBSET DOMAIN PinList
  BY DEF Free
<1>2. QED
  BY <1>1, Ordered, FreeInOrder, LenProperties

\* A reply comes whole, and only that of an attach begins with "a".
LEMMA ReplyIs ==
  ASSUME NEW c \in Commands, callNo \in Nat
  PROVE  /\ Reply(c) \in Seq(Tokens(callNo)) /\ Len(Reply(c)) > 0
         /\ c.op \in {"attach", "servo", "run", "encoded"} => Reply(c) = Echo(c)
         /\ c.op = "read" =>
               /\ Len(Reply(c)) = Len(BoardFree) + 1
               /\ \A i \in 1 .. Len(BoardFree) : Reply(c)[i + 1] = Measured(BoardFree[i], callNo)
         /\ c.op \in {"ping", "ticks"} =>
               Len(Reply(c)) = 3 /\ Reply(c)[3] = Measured(c.what, callNo)
         /\ c.op # "attach" => \A i \in 1 .. Len(Reply(c)) : Reply(c)[i] # Word("a")
<1> DEFINE S == Tokens(callNo) \ {Word("a")}
<1>1. \A w \in {"r", "ping", "ticks"} : Word(w) \in S
  BY DEF Texts, Tokens, Word
<1>2. \A x \in Subjects : Number(x) \in S /\ Measured(x, callNo) \in S
  BY DEF Texts, Tokens, Word, Number, Measured
<1>3. ASSUME NEW q \in Seq(S)
      PROVE  q \in Seq(Tokens(callNo)) /\ \A i \in 1 .. Len(q) : q[i] # Word("a")
  <2>1. S \subseteq Tokens(callNo)
    OBVIOUS
  <2>2. q \in Seq(Tokens(callNo))
    BY <2>1, SeqMonotonic
  <2>3. \A i \in 1 .. Len(q) : q[i] \in S
    BY ElementOfSeq
  <2>4. QED
    BY <2>2, <2>3
<1>4. CASE c.op \in {"attach", "servo", "run", "encoded"}
  <2>1. Reply(c) = Echo(c)
    BY <1>4 DEF Reply
  <2>2. QED
    BY <1>4, <2>1, EchoIs
<1>5. CASE c.op \in {"ping", "ticks"}
  <2>1. Reply(c) = <<Word(c.op), Number(c.what), Measured(c.what, callNo)>>
    BY <1>5 DEF Reply
  <2>2. c.what \in Subjects
    BY <1>5, CommandIs, DevicesAssumption DEF Subjects, Devices
  <2>3. Word(c.op) \in S /\ Number(c.what) \in S /\ Measured(c.what, callNo) \in S
    BY <1>1, <1>2, <1>5, <2>2
  <2> HIDE DEF S
  <2>4. Reply(c) \in Seq(S) /\ Len(Reply(c)) = 3 /\ Reply(c)[3] = Measured(c.what, callNo)
    BY <2>1, <2>3, Tuples
  <2>5. QED
    BY <1>3, <1>5, <2>4
<1>6. CASE c.op = "read"
  <2> DEFINE m == [i \in DOMAIN BoardFree |-> Measured(BoardFree[i], callNo)]
             h == <<Word("r")>>
  <2>1. Reply(c) = h \o m
    BY <1>6 DEF Reply
  <2>2. /\ DOMAIN BoardFree = 1 .. Len(BoardFree) /\ Len(BoardFree) \in Nat
        /\ \A i \in DOMAIN BoardFree : BoardFree[i] \in Subjects
    BY BoardFreeIs, LenProperties, ElementOfSeq DEF Subjects
  <2>3. \A i \in DOMAIN BoardFree : Measured(BoardFree[i], callNo) \in S
    BY <1>2, <2>2
  <2> HIDE DEF S
  <2>4. m \in [1 .. Len(BoardFree) -> S]
    BY <2>2, <2>3
  <2>5. m \in Seq(S) /\ Len(m) = Len(BoardFree)
    BY <2>2, <2>4
  <2>6. h \in Seq(S) /\ Len(h) = 1
    BY <1>1
  <2>7. \A i \in 1 .. Len(BoardFree) : m[i] = Measured(BoardFree[i], callNo)
    BY <2>2
  <2> HIDE DEF m, h
  <2>8. /\ h \o m \in Seq(S) /\ Len(h \o m) = Len(BoardFree) + 1
        /\ \A i \in 1 .. 1 + Len(BoardFree) : (h \o m)[i] = IF i <= 1 THEN h[i] ELSE m[i - 1]
    <3>1. /\ h \o m \in Seq(S) /\ Len(h \o m) = Len(h) + Len(m)
          /\ \A i \in 1 .. Len(h) + Len(m) :
                (h \o m)[i] = IF i <= Len(h) THEN h[i] ELSE m[i - Len(h)]
      BY <2>5, <2>6, ConcatProperties
    <3>2. Len(h) + Len(m) = Len(BoardFree) + 1 /\ Len(h) + Len(m) = 1 + Len(BoardFree)
      BY <2>2, <2>5, <2>6
    <3>3. QED
      BY <2>6, <3>1, <3>2
  <2>9. \A i \in 1 .. Len(BoardFree) : (h \o m)[i + 1] = Measured(BoardFree[i], callNo)
    <3>1. SUFFICES ASSUME NEW i \in 1 .. Len(BoardFree)
                   PROVE  (h \o m)[i + 1] = Measured(BoardFree[i], callNo)
      OBVIOUS
    <3>2. i + 1 \in 1 .. 1 + Len(BoardFree) /\ ~(i + 1 <= 1) /\ (i + 1) - 1 = i
      BY <2>2
    <3>3. QED
      BY <2>7, <2>8, <3>2
  <2>10. Len(Reply(c)) > 0
    BY <2>1, <2>2, <2>8
  <2>11. QED
    BY <1>3, <1>6, <2>1, <2>8, <2>9, <2>10
<1>7. QED
  BY <1>4, <1>5, <1>6, CommandIs

-----------------------------------------------------------------------------
(* Types.                                                                   *)

\* What is on the thread.
CallTypes ==
    /\ pc \in {"idle", "sleep", "settle", "loop", "closing", "closed"}
    /\ closing \in BOOLEAN /\ callNo \in Nat
    /\ ~closing => callNo <= MaxCalls
    /\ pc = "idle" => ~closing
    /\ pc \in {"closing", "closed"} => closing
    /\ pc \in {"sleep", "settle", "loop"} => req \in Commands
    /\ pc = "settle" => req.op = "run"
    /\ pc = "loop" => req.op = "encoded"
    /\ closing /\ pc \in {"sleep", "settle", "loop"} => req.op \in {"servo", "run"}

CountTypes ==
    /\ retries \in 0 .. Retries /\ late \in 0 .. MaxLate /\ miscounted \in BOOLEAN

MotorTypes ==
    /\ attached \subseteq Devices /\ running \subseteq Motors /\ resets \subseteq attached
    /\ sleepFor \subseteq Motors

\* What is on the line.
LineTypes ==
    /\ toBoard \in Seq(Commands) /\ toHost \in Seq(Tokens(callNo))
    /\ response \in Seq(Tokens(callNo))
    /\ pc # "loop" => response = <<>>

BoardTypes ==
    /\ boardPin \in [Devices -> Pins \cup {Elsewhere, Nothing}]
    /\ boardRun \in [Motors -> {"off", "timed", "on", "encoded"}]

PinTypes ==
    /\ available \in Seq(Pins) /\ IsInjective(available)
    /\ refreshed.no \in 0 .. MaxCalls /\ refreshed.pins \in Seq(Pins)
    /\ Len(available) <= Len(refreshed.pins) \/ refreshed.no = 0

ValueTypes ==
    /\ cache \in Seq(Values) /\ DOMAIN cache = DOMAIN refreshed.pins
    /\ result \in Values

Types == /\ CallTypes /\ CountTypes /\ MotorTypes /\ LineTypes /\ BoardTypes
         /\ PinTypes /\ ValueTypes

LEMMA TypesInit == Init => Types
<1> SUFFICES ASSUME Init PROVE Types
  OBVIOUS
<1>0. MaxCalls \in Nat /\ MaxLate \in Nat /\ Retries \in Nat
  BY RetriesAssumption
<1>1. CallTypes
  <2>1. pc = "idle" /\ ~closing /\ callNo = 0
    BY DEF Init
  <2>2. closing \in BOOLEAN
    BY DEF Init
  <2>3. 0 \in Nat /\ 0 <= MaxCalls
    BY <1>0
  <2>4. QED
    BY <2>1, <2>2, <2>3 DEF CallTypes
<1>2. CountTypes
  <2>1. miscounted \in BOOLEAN
    BY DEF Init
  <2>2. retries \in 0 .. Retries /\ late \in 0 .. MaxLate
    BY <1>0 DEF Init
  <2>3. QED
    BY <2>1, <2>2 DEF CountTypes
<1>3. MotorTypes
  BY DevicesAssumption DEF Init, MotorTypes, Devices
<1>4. LineTypes
  BY DEF Init, LineTypes
<1>5. BoardTypes
  BY DEF Init, BoardTypes
<1>6. PinTypes
  BY PinsAssumption, RetriesAssumption DEF Init, PinTypes
<1>7. ValueTypes
  BY DEF Init, ValueTypes, Values
<1>8. QED
  BY <1>1, <1>2, <1>3, <1>4, <1>5, <1>6, <1>7 DEF Types

LEMMA CommandsAre ==
  /\ \A d \in Devices, p \in Pins : Command("attach", d, p, <<>>, "none") \in Commands
  /\ Command("read", Nothing, Nothing, <<>>, "none") \in Commands
  /\ \A op \in {"ping", "ticks"} : \A x :
        (IF op = "ping" THEN x \in Pins ELSE x \in Encoded) =>
           Command(op, x, Nothing, <<>>, "none") \in Commands
  /\ \A s \in Servos : Command("servo", s, Nothing, <<>>, "none") \in Commands
  /\ \A runs \in Runs, time \in {"timed", "forever"} :
        Command("run", Nothing, Nothing, runs, time) \in Commands
  /\ \A runs \in Runs : Command("encoded", Nothing, Nothing, runs, "ticks") \in Commands
  /\ \A op, what, pin, runs, time :
        /\ Command(op, what, pin, runs, time).op = op
        /\ Command(op, what, pin, runs, time).what = what
        /\ Command(op, what, pin, runs, time).pin = pin
        /\ Command(op, what, pin, runs, time).runs = runs
        /\ Command(op, what, pin, runs, time).time = time
<1>1. \A op \in {"ping", "ticks"} : \A x :
        (IF op = "ping" THEN x \in Pins ELSE x \in Encoded) =>
           Command(op, x, Nothing, <<>>, "none") \in Commands
  BY DEF Commands
<1>2. \A runs \in Runs, time \in {"timed", "forever"} :
        Command("run", Nothing, Nothing, runs, time) \in Commands
  BY DEF Commands
<1>3. \A op, what, pin, runs, time :
        /\ Command(op, what, pin, runs, time).op = op
        /\ Command(op, what, pin, runs, time).what = what
        /\ Command(op, what, pin, runs, time).pin = pin
        /\ Command(op, what, pin, runs, time).runs = runs
        /\ Command(op, what, pin, runs, time).time = time
  BY DEF Command
<1>4. QED
  BY <1>1, <1>2, <1>3, RunsAssumption DEF Commands

LEMMA CallTypesStep ==
  ASSUME Types, [Next]_vars
  PROVE  CallTypes'
<1>1. CallTypes /\ MaxCalls \in Nat
  BY RetriesAssumption DEF Types
<1>2. ASSUME UNCHANGED <<pc, closing, callNo, req>> PROVE CallTypes'
  BY <1>1, <1>2 DEF CallTypes
<1>3. \A d \in Motors : Command("run", Nothing, Nothing, <<<<d, "zero">>>>, "forever") \in Commands
  BY CommandsAre, RunOfZero
<1>4. ASSUME NEW d \in Devices, NEW p \in Pins, AttachDevice(d, p)
      PROVE  CallTypes'
  BY <1>4, CommandsAre, <1>1
     DEF AttachDevice, Calls, Sends, CallTypes
<1>5. CASE RefreshDigitalPins
  BY <1>5, CommandsAre, <1>1
     DEF RefreshDigitalPins, Calls, Sends, CallTypes
<1>6. ASSUME NEW op \in {"ping", "ticks"}, NEW x \in IF op = "ping" THEN Pins ELSE Encoded, Ask(op, x)
      PROVE  CallTypes'

  <2>1. Command(op, x, Nothing, <<>>, "none") \in Commands
    BY <1>6, CommandsAre DEF Ask
  <2>2. Calls(Command(op, x, Nothing, <<>>, "none"))
    BY <1>6 DEF Ask
  <2>3. QED
    BY <1>1, <2>1, <2>2, CommandsAre DEF CallTypes, Calls, Sends
<1>7. ASSUME NEW s \in Servos, MoveServo(s)
      PROVE  CallTypes'
  BY <1>7, CommandsAre, <1>1
     DEF MoveServo, Calls, Sends, CallTypes
<1>8. ASSUME NEW runs \in RunArguments, NEW time \in {"timed", "forever"}, RunMotor(runs, time)
      PROVE  CallTypes'
  BY <1>8, CommandsAre, RunsAssumption, <1>1
     DEF RunMotor, Calls, Sends, CallTypes
<1>9. ASSUME NEW runs \in RunArguments, RunEncodedMotor(runs)
      PROVE  CallTypes'
  BY <1>9, CommandsAre, RunsAssumption, <1>1
     DEF RunEncodedMotor, Calls, Sends, CallTypes
<1>10. ASSUME NEW p \in Pins, GetDigitalPin(p)
       PROVE  CallTypes'
  BY <1>10, <1>1
     DEF GetDigitalPin, CallTypes
<1>11. ASSUME NEW runs \in RunArguments, RunIsRefused(runs)
       PROVE  CallTypes'
  BY <1>11, <1>1
     DEF RunIsRefused, CallTypes
<1>12. CASE \/ Close \/ CloseReturns
  BY <1>12, <1>1
     DEF Close, CloseReturns, CallTypes
<1>13. CASE \/ RunReturns \/ EncodedSleeps
  BY <1>13, <1>1
     DEF RunReturns, EncodedSleeps, Caller, CallTypes
<1>14. ASSUME NEW n \in 0 .. Len(toHost),
              \/ AttachReturns(n) \/ RefreshReturns(n) \/ AskReturns(n)
              \/ MoveServoReturns(n) \/ RunAnswers(n)
       PROVE  CallTypes'
  BY <1>14, <1>1
     DEF AttachReturns, Receives, Caller, RefreshReturns, AskReturns,
         MoveServoReturns, RunAnswers, CallTypes
<1>15. ASSUME NEW n \in 0 .. Len(toHost), EncodedReads(n)
       PROVE  CallTypes'
  BY <1>15, <1>1
     DEF EncodedReads, Caller, CallTypes
<1>16. ASSUME NEW d \in Devices, CloseResets(d)
       PROVE  CallTypes'
  BY <1>16, CommandsAre, <1>3, <1>1
     DEF CloseResets, Sends, Devices, CallTypes
<1>17. ASSUME NEW m \in Motors, BoardStops(m)
       PROVE  CallTypes'
  BY <1>17, <1>2
     DEF BoardStops
<1>18. CASE \/ SendAgain \/ BoardExecutes \/ BoardStarts \/ BoardFinishes
  BY <1>18, <1>2
     DEF SendAgain, BoardExecutes, BoardStarts, BoardFinishes
<1>19. CASE UNCHANGED vars
  BY <1>19, <1>2
     DEF vars
<1>20. QED
  BY Zenon, <1>4, <1>5, <1>6, <1>7, <1>8, <1>9, <1>10, <1>11, <1>12, <1>13,
     <1>14, <1>15, <1>16, <1>17, <1>18, <1>19
     DEF Next, ProgramCalls, CallContinues, Board

LEMMA CountTypesStep ==
  ASSUME Types, [Next]_vars
  PROVE  CountTypes'
<1>1. CountTypes /\ MaxLate \in Nat /\ Retries \in Nat \ {0}
  BY RetriesAssumption DEF Types
<1>2. ASSUME UNCHANGED <<retries, late, miscounted>> PROVE CountTypes'
  BY <1>1, <1>2 DEF CountTypes
<1>3. ASSUME NEW d \in Devices, NEW p \in Pins, AttachDevice(d, p)
      PROVE  CountTypes'
  BY <1>3, <1>1
     DEF AttachDevice, Calls, Sends, CountTypes
<1>4. CASE RefreshDigitalPins
  BY <1>4, <1>1
     DEF RefreshDigitalPins, Calls, Sends, CountTypes
<1>5. ASSUME NEW op \in {"ping", "ticks"}, NEW x \in IF op = "ping" THEN Pins ELSE Encoded, Ask(op, x)
      PROVE  CountTypes'
  BY <1>5, <1>1
     DEF Ask, Calls, Sends, CountTypes
<1>6. ASSUME NEW s \in Servos, MoveServo(s)
      PROVE  CountTypes'
  BY <1>6, <1>1
     DEF MoveServo, Calls, Sends, CountTypes
<1>7. ASSUME NEW runs \in RunArguments, NEW time \in {"timed", "forever"}, RunMotor(runs, time)
      PROVE  CountTypes'
  BY <1>7, <1>1
     DEF RunMotor, Calls, Sends, CountTypes
<1>8. ASSUME NEW runs \in RunArguments, RunEncodedMotor(runs)
      PROVE  CountTypes'
  BY <1>8, <1>1
     DEF RunEncodedMotor, Calls, Sends, CountTypes
<1>9. ASSUME NEW runs \in RunArguments, RunIsRefused(runs)
      PROVE  CountTypes'
  BY <1>9, <1>1
     DEF RunIsRefused, CountTypes
<1>10. CASE SendAgain
  BY <1>10, <1>1
     DEF SendAgain, CountTypes
<1>11. ASSUME NEW n \in 0 .. Len(toHost),
              \/ AttachReturns(n) \/ RefreshReturns(n) \/ AskReturns(n)
              \/ MoveServoReturns(n) \/ RunAnswers(n)
       PROVE  CountTypes'
  BY <1>11, <1>1
     DEF AttachReturns, Receives, Caller, RefreshReturns, AskReturns,
         MoveServoReturns, RunAnswers, CountTypes
<1>12. ASSUME NEW d \in Devices, CloseResets(d)
       PROVE  CountTypes'
  BY <1>12, <1>1
     DEF CloseResets, Sends, CountTypes
<1>13. ASSUME NEW p \in Pins, GetDigitalPin(p)
       PROVE  CountTypes'
  BY <1>13, <1>2
     DEF GetDigitalPin
<1>14. ASSUME NEW n \in 0 .. Len(toHost), EncodedReads(n)
       PROVE  CountTypes'
  BY <1>14, <1>2
     DEF EncodedReads, Caller
<1>15. ASSUME NEW m \in Motors, BoardStops(m)
       PROVE  CountTypes'
  BY <1>15, <1>2
     DEF BoardStops
<1>16. CASE \/ Close \/ RunReturns \/ EncodedSleeps \/ CloseReturns
            \/ BoardExecutes \/ BoardStarts \/ BoardFinishes
  BY <1>16, <1>2
     DEF Close, RunReturns, EncodedSleeps, CloseReturns, BoardExecutes,
         BoardStarts, BoardFinishes
<1>17. CASE UNCHANGED vars
  BY <1>17, <1>2
     DEF vars
<1>18. QED
  BY Zenon, <1>3, <1>4, <1>5, <1>6, <1>7, <1>8, <1>9, <1>10, <1>11, <1>12,
     <1>13, <1>14, <1>15, <1>16, <1>17
     DEF Next, ProgramCalls, CallContinues, Board

LEMMA MotorTypesStep ==
  ASSUME Types, [Next]_vars
  PROVE  MotorTypes'
<1>1. MotorTypes /\ CallTypes
  BY DEF Types
<1>2. ASSUME UNCHANGED <<attached, running, resets, sleepFor>> PROVE MotorTypes'
  BY <1>1, <1>2 DEF MotorTypes
<1>3. ASSUME NEW runs \in RunArguments PROVE Counted(runs) \subseteq Motors
  BY <1>1, <1>3, RunsAssumption, RunParts DEF Counted, MotorTypes
<1>4. pc = "sleep" /\ req.op = "attach" => req.what \in Devices
  BY <1>1, CommandIs DEF CallTypes
<1>5. pc = "sleep" /\ req.op = "run" => MotorsOf(req.runs) \subseteq Motors
  BY <1>1, CommandIs, RunParts DEF CallTypes
<1>6. ASSUME NEW n \in 0 .. Len(toHost), AttachReturns(n)
      PROVE  MotorTypes'
  BY <1>6, <1>4, <1>1
     DEF AttachReturns, Receives, Caller, MotorTypes
<1>7. ASSUME NEW n \in 0 .. Len(toHost), RunAnswers(n)
      PROVE  MotorTypes'
  BY <1>7, <1>5, <1>1
     DEF RunAnswers, Receives, Caller, MotorTypes
<1>8. ASSUME NEW runs \in RunArguments,
             \/ RunIsRefused(runs) \/ RunEncodedMotor(runs)
      PROVE  MotorTypes'
  BY <1>8, <1>3, <1>1
     DEF RunIsRefused, RunEncodedMotor, Calls, Sends, MotorTypes
<1>9. ASSUME NEW runs \in RunArguments, NEW time \in {"timed", "forever"}, RunMotor(runs, time)
      PROVE  MotorTypes'
  BY <1>9, <1>3, <1>1
     DEF RunMotor, Calls, Sends, MotorTypes
<1>10. CASE RunReturns
  BY <1>10, <1>1
     DEF RunReturns, MotorTypes
<1>11. ASSUME NEW n \in 0 .. Len(toHost), EncodedReads(n)
       PROVE  MotorTypes'
  BY <1>11, <1>1
     DEF EncodedReads, Caller, MotorTypes
<1>12. CASE Close
  BY <1>12, <1>1
     DEF Close, MotorTypes
<1>13. ASSUME NEW d \in Devices, CloseResets(d)
       PROVE  MotorTypes'
  BY <1>13, <1>1
     DEF CloseResets, Sends, MotorTypes
<1>14. ASSUME NEW d \in Devices, NEW p \in Pins, AttachDevice(d, p)
       PROVE  MotorTypes'
  BY <1>14, <1>2
     DEF AttachDevice, Calls, Sends
<1>15. ASSUME NEW p \in Pins, GetDigitalPin(p)
       PROVE  MotorTypes'
  BY <1>15, <1>2
     DEF GetDigitalPin
<1>16. ASSUME NEW op \in {"ping", "ticks"}, NEW x \in IF op = "ping" THEN Pins ELSE Encoded, Ask(op, x)
       PROVE  MotorTypes'
  BY <1>16, <1>2
     DEF Ask, Calls, Sends
<1>17. ASSUME NEW s \in Servos, MoveServo(s)
       PROVE  MotorTypes'
  BY <1>17, <1>2
     DEF MoveServo, Calls, Sends
<1>18. ASSUME NEW n \in 0 .. Len(toHost),
              \/ RefreshReturns(n) \/ AskReturns(n) \/ MoveServoReturns(n)
       PROVE  MotorTypes'
  BY <1>18, <1>2
     DEF RefreshReturns, Receives, Caller, AskReturns, MoveServoReturns
<1>19. ASSUME NEW m \in Motors, BoardStops(m)
       PROVE  MotorTypes'
  BY <1>19, <1>2
     DEF BoardStops
<1>20. CASE \/ RefreshDigitalPins \/ SendAgain \/ EncodedSleeps
            \/ CloseReturns \/ BoardExecutes \/ BoardStarts \/ BoardFinishes
  BY <1>20, <1>2
     DEF RefreshDigitalPins, Calls, Sends, SendAgain, EncodedSleeps,
         CloseReturns, BoardExecutes, BoardStarts, BoardFinishes
<1>21. CASE UNCHANGED vars
  BY <1>21, <1>2
     DEF vars
<1>22. QED
  BY Zenon, <1>6, <1>7, <1>8, <1>9, <1>10, <1>11, <1>12, <1>13, <1>14, <1>15,
     <1>16, <1>17, <1>18, <1>19, <1>20, <1>21
     DEF Next, ProgramCalls, CallContinues, Board

\* What is read, and what is left on the line.
LEMMA Reads ==
  ASSUME NEW T, NEW s \in Seq(T), NEW n \in 0 .. Len(s)
  PROVE  LET a == SubSeq(s, 1, n)
             b == SubSeq(s, n + 1, Len(s))
         IN  /\ a \in Seq(T) /\ Len(a) = n /\ \A i \in 1 .. n : a[i] = s[i]
             /\ b \in Seq(T) /\ Len(b) = Len(s) - n
             /\ \A i \in 1 .. Len(s) - n : b[i] = s[n + i]
             /\ n = Len(s) => a = s /\ b = <<>>
             /\ a \o b = s
<1> DEFINE a == SubSeq(s, 1, n)
           b == SubSeq(s, n + 1, Len(s))
<1>1. Len(s) \in Nat /\ n \in Nat /\ \A i \in 1 .. Len(s) : s[i] \in T
  BY LenProperties, ElementOfSeq
<1>2. a \in Seq(T) /\ Len(a) = n /\ \A i \in 1 .. n : a[i] = s[i]
  <2>1. \A i \in 1 .. n : s[i] \in T
    BY <1>1
  <2>2. /\ a \in Seq(T) /\ Len(a) = (IF 1 <= n THEN n - 1 + 1 ELSE 0)
        /\ \A i \in 1 .. n - 1 + 1 : a[i] = s[1 + i - 1]
    BY <1>1, <2>1, SubSeqProperties
  <2>3. QED
    BY <1>1, <2>2
<1>3. b \in Seq(T) /\ Len(b) = Len(s) - n /\ \A i \in 1 .. Len(s) - n : b[i] = s[n + i]
  <2>1. \A i \in n + 1 .. Len(s) : s[i] \in T
    BY <1>1
  <2>2. /\ b \in Seq(T) /\ Len(b) = (IF n + 1 <= Len(s) THEN Len(s) - (n + 1) + 1 ELSE 0)
        /\ \A i \in 1 .. Len(s) - (n + 1) + 1 : b[i] = s[(n + 1) + i - 1]
    BY <1>1, <2>1, SubSeqProperties
  <2> HIDE DEF b
  <2>3. QED
    BY <1>1, <2>2
<1>4. n = Len(s) => a = s /\ b = <<>>
  BY <1>1, SubSeqFull, SubSeqEmpty
<1> HIDE DEF a, b
<1>5. a \o b = s
  <2>1. /\ a \o b \in Seq(T) /\ Len(a \o b) = Len(a) + Len(b)
        /\ \A i \in 1 .. Len(a) + Len(b) :
              (a \o b)[i] = IF i <= Len(a) THEN a[i] ELSE b[i - Len(a)]
    BY <1>2, <1>3, ConcatProperties
  <2>2. Len(a) + Len(b) = Len(s)
    BY <1>1, <1>2, <1>3
  <2>3. ASSUME NEW i \in 1 .. Len(s) PROVE (a \o b)[i] = s[i]
    <3>1. CASE i <= n
      BY <1>1, <1>2, <2>1, <2>2, <3>1
    <3>2. CASE ~(i <= n)
      <4>1. i - n \in 1 .. Len(s) - n /\ n + (i - n) = i
        BY <1>1, <3>2
      <4>2. (a \o b)[i] = b[i - n] /\ b[i - n] = s[n + (i - n)]
        BY <1>2, <1>3, <2>1, <2>2, <3>2, <4>1
      <4>3. QED
        BY <4>1, <4>2
    <3>3. QED
      BY <3>1, <3>2
  <2>4. QED
    BY <2>1, <2>2, <2>3, SeqEqual
<1>6. QED
  BY <1>2, <1>3, <1>4, <1>5 DEF a, b

LEMMA TokensGrow ==
  ASSUME NEW n \in Nat, NEW s \in Seq(Tokens(n))
  PROVE  s \in Seq(Tokens(n + 1))
<1>1. 0 .. n \subseteq 0 .. n + 1
  OBVIOUS
<1>2. Tokens(n) \subseteq Tokens(n + 1)
  BY <1>1 DEF Tokens
<1>3. QED
  BY <1>2, SeqMonotonic

LEMMA LineTypesStep ==
  ASSUME Types, [Next]_vars
  PROVE  LineTypes'
<1>1. /\ LineTypes /\ callNo \in Nat
      /\ pc = "sleep" => req \in Commands
      /\ pc \in {"idle", "sleep", "settle", "loop", "closing", "closed"}
  BY DEF Types, CallTypes
<1>2. ASSUME UNCHANGED <<toBoard, toHost, response, callNo, pc>> PROVE LineTypes'
  BY <1>1, <1>2 DEF LineTypes
<1>3. LineTypes /\ CallTypes
  BY DEF Types
<1>4. ASSUME NEW c \in Commands, Sends(c), pc # "loop" PROVE LineTypes'
  <2>1. Append(toBoard, c) \in Seq(Commands)
    BY <1>3, AppendProperties DEF LineTypes
  <2>2. toHost \in Seq(Tokens(callNo + 1)) /\ response \in Seq(Tokens(callNo + 1))
    BY <1>3, TokensGrow DEF LineTypes, CallTypes
  <2>3. QED
    BY <1>3, <1>4, <2>1, <2>2 DEF LineTypes, Sends
<1>5. ASSUME NEW c \in Commands, Calls(c) PROVE LineTypes'
  BY <1>4, <1>5 DEF Calls
<1>6. ASSUME UNCHANGED <<toBoard, toHost, response>>, callNo' = callNo + 1,
             pc' = pc, pc = "idle"
      PROVE  LineTypes'
  <2>1. toHost \in Seq(Tokens(callNo + 1)) /\ response \in Seq(Tokens(callNo + 1))
    BY <1>3, TokensGrow DEF LineTypes, CallTypes
  <2>2. QED
    BY <1>3, <1>6, <2>1 DEF LineTypes
<1>7. ASSUME NEW n \in 0 .. Len(toHost), Receives(n), pc' # "loop" PROVE LineTypes'
  <2>1. SubSeq(toHost, n + 1, Len(toHost)) \in Seq(Tokens(callNo))
    BY <1>3, Reads DEF LineTypes
  <2>2. QED
    BY <1>3, <1>7, <2>1 DEF LineTypes, Receives
<1>8. ASSUME UNCHANGED <<toBoard, toHost, response, callNo>>, pc # "loop" PROVE LineTypes'
  BY <1>3, <1>8 DEF LineTypes
<1>9. \A d \in Motors : Command("run", Nothing, Nothing, <<<<d, "zero">>>>, "forever") \in Commands
  BY CommandsAre, RunOfZero
<1>10. ASSUME NEW d \in Devices, NEW p \in Pins, AttachDevice(d, p)
       PROVE  LineTypes'

  BY <1>10, <1>5, CommandsAre DEF AttachDevice
<1>11. CASE RefreshDigitalPins

  BY <1>11, <1>5, CommandsAre DEF RefreshDigitalPins
<1>12. ASSUME NEW op \in {"ping", "ticks"}, NEW x \in IF op = "ping" THEN Pins ELSE Encoded, Ask(op, x)
       PROVE  LineTypes'

  BY <1>12, <1>5, CommandsAre DEF Ask
<1>13. ASSUME NEW s \in Servos, MoveServo(s)
       PROVE  LineTypes'

  BY <1>13, <1>5, CommandsAre DEF MoveServo
<1>14. ASSUME NEW runs \in RunArguments, NEW time \in {"timed", "forever"}, RunMotor(runs, time)
       PROVE  LineTypes'

  BY <1>14, <1>5, CommandsAre, RunsAssumption DEF RunMotor
<1>15. ASSUME NEW runs \in RunArguments, RunEncodedMotor(runs)
       PROVE  LineTypes'

  BY <1>15, <1>5, CommandsAre, RunsAssumption DEF RunEncodedMotor
<1>16. ASSUME NEW p \in Pins, GetDigitalPin(p)
       PROVE  LineTypes'
  BY <1>16, <1>6, <1>2
     DEF GetDigitalPin
<1>17. ASSUME NEW runs \in RunArguments, RunIsRefused(runs)
       PROVE  LineTypes'
  BY <1>17, <1>6, <1>2
     DEF RunIsRefused
<1>18. CASE \/ Close \/ CloseReturns \/ EncodedSleeps
  BY <1>18, <1>8, <1>2
     DEF Close, CloseReturns, EncodedSleeps
<1>19. CASE RunReturns
  BY <1>19, <1>8, <1>2
     DEF RunReturns, Caller
<1>20. CASE SendAgain

  <2>1. req \in Commands
    BY <1>20, <1>1 DEF SendAgain
  <2>2. Append(toBoard, req) \in Seq(Commands)
    BY <1>3, <2>1, AppendProperties DEF LineTypes
  <2>3. QED
    BY <1>3, <1>20, <2>2 DEF LineTypes, SendAgain
<1>21. ASSUME NEW n \in 0 .. Len(toHost),
              \/ AttachReturns(n) \/ RefreshReturns(n) \/ AskReturns(n)
              \/ MoveServoReturns(n) \/ RunAnswers(n)
       PROVE  LineTypes'

  <2>1. Receives(n) /\ pc' # "loop"
    BY <1>21 DEF AttachReturns, RefreshReturns, AskReturns, MoveServoReturns, RunAnswers, Caller
  <2>2. QED
    BY <1>7, <2>1
<1>22. ASSUME NEW n \in 0 .. Len(toHost), EncodedReads(n)
       PROVE  LineTypes'

  <2>1. /\ SubSeq(toHost, n + 1, Len(toHost)) \in Seq(Tokens(callNo))
        /\ Arrived(n) \in Seq(Tokens(callNo))
    BY <1>3, Reads DEF LineTypes, Arrived
  <2>2. response \o Arrived(n) \in Seq(Tokens(callNo))
    BY <1>3, <2>1, ConcatProperties DEF LineTypes
  <2>3. QED
    <3>1. /\ UNCHANGED <<toBoard, callNo>> /\ toHost' \in Seq(Tokens(callNo))
          /\ \/ response' = <<>> /\ pc' # "loop"
             \/ response' = response \o Arrived(n) /\ pc' = "loop"
      BY <1>22, <2>1 DEF EncodedReads, Caller
    <3>2. CASE response' = <<>> /\ pc' # "loop"
      BY <1>3, <3>1, <3>2 DEF LineTypes
    <3>3. CASE response' = response \o Arrived(n) /\ pc' = "loop"
      BY <1>3, <2>2, <3>1, <3>3 DEF LineTypes
    <3>4. QED
      BY <3>1, <3>2, <3>3
<1>23. ASSUME NEW d \in Devices, CloseResets(d)
       PROVE  LineTypes'

  <2>1. CASE d \in Servos
    <3>1. Sends(Command("servo", d, Nothing, <<>>, "none"))
      BY <1>23, <2>1 DEF CloseResets
    <3>2. QED
      BY <1>4, <1>23, <3>1, CommandsAre, <2>1 DEF CloseResets
  <2>2. CASE d \notin Servos
    <3>1. Sends(Command("run", Nothing, Nothing, <<<<d, "zero">>>>, "forever"))
      BY <1>23, <2>2 DEF CloseResets
    <3>2. QED
      BY <1>4, <1>23, <3>1, <1>9, <2>2 DEF CloseResets, Devices
  <2>3. QED
    BY <2>1, <2>2
<1>24. CASE \/ BoardExecutes \/ BoardFinishes

  <2>1. Head(toBoard) \in Commands /\ Tail(toBoard) \in Seq(Commands)
    <3>1. toBoard # <<>> /\ toBoard \in Seq(Commands)
      BY <1>24, <1>3 DEF BoardExecutes, BoardFinishes, LineTypes
    <3>2. QED
      BY <3>1, HeadTailProperties
  <2>2. PICK r \in Seq(Tokens(callNo)) : toHost' = toHost \o r
    <3>1. CASE BoardExecutes
      BY <1>1, <2>1, <3>1, ReplyIs DEF BoardExecutes
    <3>2. CASE BoardFinishes
      BY <1>1, <2>1, <3>2, EchoIs DEF BoardFinishes
    <3>3. QED
      BY <1>24, <3>1, <3>2
  <2>3. toHost' \in Seq(Tokens(callNo))
    BY <1>3, <2>2, ConcatProperties DEF LineTypes
  <2>4. QED
    BY <1>24, <1>3, <2>1, <2>3 DEF BoardExecutes, BoardFinishes, LineTypes
<1>25. ASSUME NEW m \in Motors, BoardStops(m)
       PROVE  LineTypes'
  BY <1>25, <1>2
     DEF BoardStops
<1>26. CASE BoardStarts
  BY <1>26, <1>2
     DEF BoardStarts
<1>27. CASE UNCHANGED vars
  BY <1>27, <1>2
     DEF vars
<1>28. QED
  BY Zenon, <1>10, <1>11, <1>12, <1>13, <1>14, <1>15, <1>16, <1>17, <1>18,
     <1>19, <1>20, <1>21, <1>22, <1>23, <1>24, <1>25, <1>26, <1>27
     DEF Next, ProgramCalls, CallContinues, Board

LEMMA BoardTypesStep ==
  ASSUME Types, [Next]_vars
  PROVE  BoardTypes'
<1>1. BoardTypes
  BY DEF Types
<1>2. ASSUME UNCHANGED boardVars PROVE BoardTypes'
  BY <1>1, <1>2 DEF BoardTypes
<1>3. \A c, way : way \in {"off", "timed", "on", "encoded"} =>
         BoardMoves(c, way) \in [Motors -> {"off", "timed", "on", "encoded"}]
  BY <1>1 DEF BoardTypes, BoardMoves
<1>4. ASSUME NEW c \in Commands
      PROVE  BoardBinds(c) \in [Devices -> Pins \cup {Elsewhere, Nothing}]
  BY <1>1, CommandIs DEF BoardTypes, BoardBinds
<1>5. ASSUME toBoard # <<>> PROVE Head(toBoard) \in Commands
  BY <1>5, HeadTailProperties DEF Types, LineTypes
<1>6. ASSUME NEW d \in Devices, NEW p \in Pins, AttachDevice(d, p)
      PROVE  BoardTypes'
  BY <1>6, <1>2
     DEF AttachDevice, Calls, Sends
<1>7. CASE RefreshDigitalPins
  BY <1>7, <1>2
     DEF RefreshDigitalPins, Calls, Sends
<1>8. ASSUME NEW op \in {"ping", "ticks"}, NEW x \in IF op = "ping" THEN Pins ELSE Encoded, Ask(op, x)
      PROVE  BoardTypes'
  BY <1>8, <1>2
     DEF Ask, Calls, Sends
<1>9. ASSUME NEW s \in Servos, MoveServo(s)
      PROVE  BoardTypes'
  BY <1>9, <1>2
     DEF MoveServo, Calls, Sends
<1>10. ASSUME NEW runs \in RunArguments, NEW time \in {"timed", "forever"}, RunMotor(runs, time)
       PROVE  BoardTypes'
  BY <1>10, <1>2
     DEF RunMotor, Calls, Sends
<1>11. ASSUME NEW runs \in RunArguments, RunEncodedMotor(runs)
       PROVE  BoardTypes'
  BY <1>11, <1>2
     DEF RunEncodedMotor, Calls, Sends
<1>12. ASSUME NEW d \in Devices, CloseResets(d)
       PROVE  BoardTypes'
  BY <1>12, <1>2
     DEF CloseResets, Sends
<1>13. ASSUME NEW n \in 0 .. Len(toHost),
              \/ AttachReturns(n) \/ RefreshReturns(n) \/ AskReturns(n)
              \/ MoveServoReturns(n) \/ RunAnswers(n)
       PROVE  BoardTypes'
  BY <1>13, <1>2
     DEF AttachReturns, Receives, Caller, RefreshReturns, AskReturns,
         MoveServoReturns, RunAnswers
<1>14. CASE BoardExecutes
  BY <1>14, <1>1, <1>3, <1>4, <1>5, <1>2
     DEF BoardExecutes, BoardTypes
<1>15. CASE \/ BoardStarts \/ BoardFinishes
  BY <1>15, <1>1, <1>3, <1>2
     DEF BoardStarts, BoardFinishes, BoardTypes
<1>16. ASSUME NEW m \in Motors, BoardStops(m)
       PROVE  BoardTypes'
  BY <1>16, <1>1, <1>2
     DEF BoardStops, BoardTypes
<1>17. ASSUME NEW p \in Pins, GetDigitalPin(p)
       PROVE  BoardTypes'
  BY <1>17, <1>2
     DEF GetDigitalPin
<1>18. ASSUME NEW runs \in RunArguments, RunIsRefused(runs)
       PROVE  BoardTypes'
  BY <1>18, <1>2
     DEF RunIsRefused
<1>19. ASSUME NEW n \in 0 .. Len(toHost), EncodedReads(n)
       PROVE  BoardTypes'
  BY <1>19, <1>2
     DEF EncodedReads, Caller
<1>20. CASE \/ Close \/ SendAgain \/ RunReturns \/ EncodedSleeps
            \/ CloseReturns
  BY <1>20, <1>2
     DEF Close, SendAgain, RunReturns, EncodedSleeps, CloseReturns
<1>21. CASE UNCHANGED vars
  BY <1>21, <1>2
     DEF vars
<1>22. QED
  BY Zenon, <1>6, <1>7, <1>8, <1>9, <1>10, <1>11, <1>12, <1>13, <1>14, <1>15,
     <1>16, <1>17, <1>18, <1>19, <1>20, <1>21
     DEF Next, ProgramCalls, CallContinues, Board

LEMMA RemovesOne ==
  ASSUME NEW s \in Seq(Pins), IsInjective(s), NEW p
  PROVE  /\ RemoveFirst(s, p) \in Seq(Pins) /\ IsInjective(RemoveFirst(s, p))
         /\ Len(RemoveFirst(s, p)) <= Len(s)
<1>1. DOMAIN s = 1 .. Len(s) /\ Len(s) \in Nat
  BY LenProperties
<1>2. CASE ~\E i \in 1 .. Len(s) : s[i] = p
  BY <1>1, <1>2 DEF RemoveFirst
<1>3. CASE \E i \in 1 .. Len(s) : s[i] = p
  <2>1. PICK k \in 1 .. Len(s) : s[k] = p
    BY <1>3
  <2>2. \A i, j \in 1 .. Len(s) : s[i] = s[j] => i = j
    BY <1>1 DEF IsInjective
  <2> DEFINE r == RemoveFirst(s, s[k])
  <2>3. /\ r \in Seq(Pins) /\ Len(r) = Len(s) - 1
        /\ \A i \in 1 .. Len(s) - 1 : r[i] = IF i < k THEN s[i] ELSE s[i + 1]
    BY <2>2, Removes
  <2> HIDE DEF r
  <2>4. DOMAIN r = 1 .. Len(s) - 1
    BY <2>3, LenProperties
  <2>5. ASSUME NEW i \in 1 .. Len(s) - 1, NEW j \in 1 .. Len(s) - 1, r[i] = r[j] PROVE i = j
    <3> DEFINE x == IF i < k THEN i ELSE i + 1
               y == IF j < k THEN j ELSE j + 1
    <3>1. x \in 1 .. Len(s) /\ y \in 1 .. Len(s) /\ (x = y => i = j)
      BY <1>1
    <3>2. r[i] = s[x] /\ r[j] = s[y]
      BY <2>3
    <3>3. QED
      BY <2>2, <2>5, <3>1, <3>2
  <2>6. QED
    BY <1>1, <2>1, <2>3, <2>4, <2>5 DEF IsInjective, r
<1>4. QED
  BY <1>2, <1>3

LEMMA PinTypesStep ==
  ASSUME Types, [Next]_vars
  PROVE  PinTypes'
<1>1. PinTypes /\ callNo \in Nat /\ MaxCalls \in Nat
  BY RetriesAssumption DEF Types, CallTypes
<1>2. ASSUME UNCHANGED <<available, refreshed>> PROVE PinTypes'
  BY <1>1, <1>2 DEF PinTypes
<1>3. ASSUME NEW d \in Devices, NEW p \in Pins, AttachDevice(d, p)
      PROVE  PinTypes'
  BY <1>3, <1>2
     DEF AttachDevice, Calls, Sends
<1>4. ASSUME NEW op \in {"ping", "ticks"}, NEW x \in IF op = "ping" THEN Pins ELSE Encoded, Ask(op, x)
      PROVE  PinTypes'
  BY <1>4, <1>2
     DEF Ask, Calls, Sends
<1>5. ASSUME NEW s \in Servos, MoveServo(s)
      PROVE  PinTypes'
  BY <1>5, <1>2
     DEF MoveServo, Calls, Sends
<1>6. ASSUME NEW runs \in RunArguments, NEW time \in {"timed", "forever"}, RunMotor(runs, time)
      PROVE  PinTypes'
  BY <1>6, <1>2
     DEF RunMotor, Calls, Sends
<1>7. ASSUME NEW runs \in RunArguments, RunEncodedMotor(runs)
      PROVE  PinTypes'
  BY <1>7, <1>2
     DEF RunEncodedMotor, Calls, Sends
<1>8. ASSUME NEW d \in Devices, CloseResets(d)
      PROVE  PinTypes'
  BY <1>8, <1>2
     DEF CloseResets, Sends
<1>9. ASSUME NEW n \in 0 .. Len(toHost),
             \/ RefreshReturns(n) \/ AskReturns(n) \/ MoveServoReturns(n)
             \/ RunAnswers(n)
      PROVE  PinTypes'
  BY <1>9, <1>2
     DEF RefreshReturns, Receives, Caller, AskReturns, MoveServoReturns,
         RunAnswers
<1>10. CASE RefreshDigitalPins

  <2>1. /\ available' = available /\ refreshed' = [no |-> callNo + 1, pins |-> available]
        /\ callNo < MaxCalls
    BY <1>10 DEF RefreshDigitalPins, Calls
  <2>2. Len(available) <= Len(available)
    BY <1>1, LenProperties DEF PinTypes
  <2>3. QED
    BY <1>1, <2>1, <2>2 DEF PinTypes
<1>11. ASSUME NEW n \in 0 .. Len(toHost), AttachReturns(n)
       PROVE  PinTypes'

  <2>1. /\ refreshed' = refreshed
        /\ available' = available \/ available' = RemoveFirst(available, req.pin)
    BY <1>11 DEF AttachReturns, Receives
  <2> DEFINE r == RemoveFirst(available, req.pin)
  <2>2. r \in Seq(Pins) /\ IsInjective(r) /\ Len(r) <= Len(available)
    BY <1>1, RemovesOne DEF PinTypes
  <2>3. /\ Len(r) \in Nat /\ Len(available) \in Nat /\ Len(refreshed.pins) \in Nat
    BY <1>1, <2>2, LenProperties DEF PinTypes
  <2> HIDE DEF r
  <2>4. CASE available' = r
    BY <1>1, <2>1, <2>2, <2>3, <2>4 DEF PinTypes
  <2>5. QED
    BY <1>2, <2>1, <2>4 DEF r
<1>12. ASSUME NEW p \in Pins, GetDigitalPin(p)
       PROVE  PinTypes'
  BY <1>12, <1>2
     DEF GetDigitalPin
<1>13. ASSUME NEW runs \in RunArguments, RunIsRefused(runs)
       PROVE  PinTypes'
  BY <1>13, <1>2
     DEF RunIsRefused
<1>14. ASSUME NEW n \in 0 .. Len(toHost), EncodedReads(n)
       PROVE  PinTypes'
  BY <1>14, <1>2
     DEF EncodedReads, Caller
<1>15. ASSUME NEW m \in Motors, BoardStops(m)
       PROVE  PinTypes'
  BY <1>15, <1>2
     DEF BoardStops
<1>16. CASE \/ Close \/ SendAgain \/ RunReturns \/ EncodedSleeps
            \/ CloseReturns \/ BoardExecutes \/ BoardStarts \/ BoardFinishes
  BY <1>16, <1>2
     DEF Close, SendAgain, RunReturns, EncodedSleeps, CloseReturns,
         BoardExecutes, BoardStarts, BoardFinishes
<1>17. CASE UNCHANGED vars
  BY <1>17, <1>2
     DEF vars
<1>18. QED
  BY Zenon, <1>3, <1>4, <1>5, <1>6, <1>7, <1>8, <1>9, <1>10, <1>11, <1>12,
     <1>13, <1>14, <1>15, <1>16, <1>17
     DEF Next, ProgramCalls, CallContinues, Board

LEMMA ValueTypesStep ==
  ASSUME Types, [Next]_vars
  PROVE  ValueTypes'
<1>1. /\ ValueTypes /\ PinTypes /\ CallTypes /\ LineTypes
      /\ callNo \in Nat /\ MaxCalls \in Nat
  BY RetriesAssumption DEF Types, CallTypes
<1>2. ASSUME UNCHANGED <<cache, refreshed, result>> PROVE ValueTypes'
  BY <1>1, <1>2 DEF ValueTypes
<1>3. ASSUME UNCHANGED <<cache, refreshed>>, result' = Nothing PROVE ValueTypes'
  BY <1>1, <1>3 DEF ValueTypes, Values
<1>4. ASSUME NEW t \in Tokens(callNo), t.kind # "word", ~closing PROVE t \in Values
  <2>1. 0 .. callNo \subseteq 0 .. MaxCalls
    BY <1>1, <1>4 DEF CallTypes
  <2>2. t \in [kind : {"number", "measured"}, of : Subjects, at : 0 .. callNo]
    BY <1>4 DEF Tokens, Texts
  <2>3. QED
    BY <2>1, <2>2 DEF Values, Subjects
<1>5. ASSUME NEW n \in 0 .. Len(toHost)
      PROVE  /\ Arrived(n) \in Seq(Tokens(callNo)) /\ Len(Arrived(n)) = n
             /\ \A i \in 1 .. n : Arrived(n)[i] \in Tokens(callNo)
  <2>1. Arrived(n) \in Seq(Tokens(callNo)) /\ Len(Arrived(n)) = n
    BY <1>1, Reads DEF LineTypes, Arrived
  <2>2. QED
    BY <2>1, ElementOfSeq
<1>6. /\ cache \in Seq(Values) /\ DOMAIN cache = 1 .. Len(cache) /\ Len(cache) \in Nat
      /\ Len(cache) = Len(refreshed.pins)
      /\ DOMAIN available = 1 .. Len(available) /\ Len(available) \in Nat
      /\ DOMAIN refreshed.pins = 1 .. Len(refreshed.pins) /\ Len(refreshed.pins) \in Nat
  <2>1. /\ DOMAIN cache = 1 .. Len(cache) /\ Len(cache) \in Nat
        /\ DOMAIN available = 1 .. Len(available) /\ Len(available) \in Nat
        /\ DOMAIN refreshed.pins = 1 .. Len(refreshed.pins) /\ Len(refreshed.pins) \in Nat
    BY <1>1, LenProperties DEF ValueTypes, PinTypes
  <2>2. 1 .. Len(cache) = 1 .. Len(refreshed.pins)
    BY <1>1, <2>1 DEF ValueTypes
  <2>3. Len(cache) = Len(refreshed.pins)
    BY <2>1, <2>2
  <2>4. QED
    BY <1>1, <2>1, <2>3 DEF ValueTypes
<1>7. ASSUME NEW d \in Devices, NEW p \in Pins, AttachDevice(d, p)
      PROVE  ValueTypes'
  BY <1>7, <1>3, <1>2
     DEF AttachDevice, Calls, Sends
<1>8. ASSUME NEW op \in {"ping", "ticks"}, NEW x \in IF op = "ping" THEN Pins ELSE Encoded, Ask(op, x)
      PROVE  ValueTypes'
  BY <1>8, <1>3, <1>2
     DEF Ask, Calls, Sends
<1>9. ASSUME NEW s \in Servos, MoveServo(s)
      PROVE  ValueTypes'
  BY <1>9, <1>3, <1>2
     DEF MoveServo, Calls, Sends
<1>10. ASSUME NEW runs \in RunArguments, NEW time \in {"timed", "forever"}, RunMotor(runs, time)
       PROVE  ValueTypes'
  BY <1>10, <1>3, <1>2
     DEF RunMotor, Calls, Sends
<1>11. ASSUME NEW runs \in RunArguments, RunEncodedMotor(runs)
       PROVE  ValueTypes'
  BY <1>11, <1>3, <1>2
     DEF RunEncodedMotor, Calls, Sends
<1>12. ASSUME NEW d \in Devices, CloseResets(d)
       PROVE  ValueTypes'
  BY <1>12, <1>3, <1>2
     DEF CloseResets, Sends
<1>13. ASSUME NEW runs \in RunArguments, RunIsRefused(runs)
       PROVE  ValueTypes'
  BY <1>13, <1>3, <1>2
     DEF RunIsRefused
<1>14. ASSUME NEW n \in 0 .. Len(toHost),
              \/ AttachReturns(n) \/ MoveServoReturns(n) \/ RunAnswers(n)
       PROVE  ValueTypes'
  BY <1>14, <1>2, <1>2
     DEF AttachReturns, Receives, Caller, MoveServoReturns, RunAnswers
<1>15. CASE RefreshDigitalPins

  <2>1. /\ cache' = [i \in DOMAIN available |-> Nothing] /\ result' = Nothing
        /\ refreshed' = [no |-> callNo + 1, pins |-> available]
    BY <1>15 DEF RefreshDigitalPins, Calls, Sends
  <2>2. Nothing \in Values
    BY DEF Values
  <2>3. cache' \in [1 .. Len(available) -> Values]
    BY <1>6, <2>1, <2>2
  <2>4. cache' \in Seq(Values)
    BY <1>6, <2>3
  <2>5. DOMAIN cache' = DOMAIN refreshed'.pins
    BY <2>1
  <2>6. QED
    BY <2>1, <2>2, <2>4, <2>5 DEF ValueTypes
<1>16. ASSUME NEW p \in Pins, GetDigitalPin(p)
       PROVE  ValueTypes'

  <2> DEFINE i == CHOOSE j \in DOMAIN available : available[j] = p
  <2>1. /\ UNCHANGED <<cache, refreshed>> /\ result' = cache[i]
        /\ refreshed.no # 0 /\ p \in Range(available)
    BY <1>16 DEF GetDigitalPin
  <2>2. i \in 1 .. Len(available)
    BY <1>6, <2>1 DEF Range
  <2> HIDE DEF i
  <2>3. Len(available) <= Len(cache)
    BY <1>1, <1>6, <2>1 DEF PinTypes
  <2>4. i \in 1 .. Len(cache)
    BY <1>6, <2>2, <2>3
  <2>5. cache[i] \in Values
    BY <1>6, <2>4, ElementOfSeq
  <2>6. QED
    BY <1>1, <2>1, <2>5 DEF ValueTypes
<1>17. ASSUME NEW n \in 0 .. Len(toHost), AskReturns(n)
       PROVE  ValueTypes'

  <2>1. /\ UNCHANGED <<cache, refreshed>> /\ ~closing
        /\ result' = IF n = 3 /\ Arrived(n)[3].kind # "word" THEN Arrived(n)[3] ELSE Nothing
    BY <1>17, <1>1 DEF AskReturns, Receives, CallTypes
  <2>2. n = 3 => Arrived(n)[3] \in Tokens(callNo)
    BY <1>5
  <2>3. result' \in Values
    BY <1>4, <2>1, <2>2 DEF Values
  <2>4. QED
    BY <1>1, <2>1, <2>3 DEF ValueTypes
<1>18. ASSUME NEW n \in 0 .. Len(toHost), RefreshReturns(n)
       PROVE  ValueTypes'

  <2>1. /\ UNCHANGED <<refreshed, result>> /\ ~closing
        /\ cache' = [i \in DOMAIN cache |->
                        IF n > 1 /\ n - 1 >= Len(cache) /\ Parsed(Arrived(n), i)
                        THEN Arrived(n)[i + 1] ELSE Nothing]
    BY <1>18, <1>1 DEF RefreshReturns, Receives, CallTypes
  <2>2. ASSUME NEW i \in DOMAIN cache, Parsed(Arrived(n), i)
        PROVE  Arrived(n)[i + 1] \in Values
    <3>1. i \in Nat /\ i >= 1 /\ n \in Nat
      BY <1>6
    <3>2. i + 1 <= n /\ i + 1 \in 2 .. i + 1
      BY <1>5, <2>2, <3>1 DEF Parsed
    <3>3. i + 1 \in 1 .. n
      BY <3>1, <3>2
    <3>4. Arrived(n)[i + 1].kind # "word"
      BY <2>2, <3>2 DEF Parsed
    <3>5. QED
      BY <1>4, <1>5, <2>1, <3>3, <3>4
  <2>3. Nothing \in Values
    BY DEF Values
  <2>4. cache' \in [1 .. Len(cache) -> Values]
    BY <1>6, <2>1, <2>2, <2>3
  <2>5. cache' \in Seq(Values)
    BY <1>6, <2>4
  <2>6. DOMAIN cache' = DOMAIN cache
    BY <2>1
  <2>7. QED
    BY <1>1, <2>1, <2>5, <2>6 DEF ValueTypes
<1>19. ASSUME NEW n \in 0 .. Len(toHost), EncodedReads(n)
       PROVE  ValueTypes'
  BY <1>19, <1>2
     DEF EncodedReads, Caller
<1>20. ASSUME NEW m \in Motors, BoardStops(m)
       PROVE  ValueTypes'
  BY <1>20, <1>2
     DEF BoardStops
<1>21. CASE \/ Close \/ SendAgain \/ RunReturns \/ EncodedSleeps
            \/ CloseReturns \/ BoardExecutes \/ BoardStarts \/ BoardFinishes
  BY <1>21, <1>2
     DEF Close, SendAgain, RunReturns, EncodedSleeps, CloseReturns,
         BoardExecutes, BoardStarts, BoardFinishes
<1>22. CASE UNCHANGED vars
  BY <1>22, <1>2
     DEF vars
<1>23. QED
  BY Zenon, <1>7, <1>8, <1>9, <1>10, <1>11, <1>12, <1>13, <1>14, <1>15, <1>16,
     <1>17, <1>18, <1>19, <1>20, <1>21, <1>22
     DEF Next, ProgramCalls, CallContinues, Board

LEMMA TypesStep == Types /\ [Next]_vars => Types'
BY CallTypesStep, CountTypesStep, MotorTypesStep, LineTypesStep, BoardTypesStep,
   PinTypesStep, ValueTypesStep DEF Types

\* The types, for every set of motors, servos and pins, every number of writes
\* and of late replies: no pin is twice among those available, getDigitalPin finds its
\* index in the cache and what is cached or returned is a value that was sent.
THEOREM TypeCorrect == Spec => []TypeOK
<1>1. Types => TypeOK
  <2> SUFFICES ASSUME Types PROVE TypeOK
    OBVIOUS
  <2>1. Range(available) \subseteq Pins
    BY RangeOfSeq DEF Types, PinTypes
  <2>2. \A i \in DOMAIN cache : cache[i] \in Values
    BY LenProperties, ElementOfSeq DEF Types, ValueTypes
  <2>3. QED
    BY <2>1, <2>2 DEF Types, CallTypes, CountTypes, MotorTypes, BoardTypes, PinTypes,
       ValueTypes, TypeOK
<1>2. QED
  BY TypesInit, TypesStep, <1>1, PTL DEF Spec

-----------------------------------------------------------------------------
(* What the program believes is attached.                                   *)

\* The echo of an attach comes whole, and after the Arduino has bound a pin.
EchoesAreTrue ==
    \A i \in 1 .. Len(toHost) : toHost[i] = Word("a") =>
        /\ i + 2 <= Len(toHost)
        /\ \E d \in Devices : toHost[i + 2] = Number(d) /\ boardPin[d] # Nothing

\* The Arduino does not let go of a pin.
LEMMA BindsOnly ==
  ASSUME NEW c \in Commands, BoardTypes
  PROVE  /\ \A d \in Devices : boardPin[d] # Nothing => BoardBinds(c)[d] # Nothing
         /\ c.op = "attach" => BoardBinds(c)[c.what] = c.pin /\ c.pin # Nothing
         /\ c.op # "attach" => BoardBinds(c) = boardPin
BY CommandIs, PinsAssumption DEF BoardTypes, BoardBinds

LEMMA EchoesStep ==
  ASSUME Types, EchoesAreTrue, AttachedIsBound, [Next]_vars
  PROVE  EchoesAreTrue' /\ AttachedIsBound'
<1>1. /\ EchoesAreTrue /\ AttachedIsBound /\ BoardTypes /\ LineTypes /\ CallTypes
      /\ toHost \in Seq(Tokens(callNo)) /\ Len(toHost) \in Nat
  BY LenProperties DEF Types, LineTypes
<1>2. ASSUME UNCHANGED <<toHost, boardPin, attached>>
      PROVE  EchoesAreTrue' /\ AttachedIsBound'
  BY <1>1, <1>2 DEF EchoesAreTrue, AttachedIsBound
\* Reading leaves whole echoes, but for the first.
<1>3. ASSUME NEW n \in 0 .. Len(toHost), boardPin' = boardPin,
             toHost' = SubSeq(toHost, n + 1, Len(toHost))
      PROVE  EchoesAreTrue'
  <2> DEFINE b == SubSeq(toHost, n + 1, Len(toHost))
  <2>1. /\ Len(b) = Len(toHost) - n
        /\ \A i \in 1 .. Len(toHost) - n : b[i] = toHost[n + i]
    BY <1>1, Reads
  <2> HIDE DEF b
  <2>2. SUFFICES ASSUME NEW i \in 1 .. Len(b), b[i] = Word("a")
                 PROVE  /\ i + 2 <= Len(b)
                        /\ \E d \in Devices : b[i + 2] = Number(d) /\ boardPin[d] # Nothing
    BY <1>3 DEF EchoesAreTrue, b
  <2>3. n + i \in 1 .. Len(toHost) /\ toHost[n + i] = Word("a")
    BY <1>1, <2>1, <2>2
  <2>4. /\ (n + i) + 2 <= Len(toHost)
        /\ \E d \in Devices : toHost[(n + i) + 2] = Number(d) /\ boardPin[d] # Nothing
    BY <1>1, <2>3 DEF EchoesAreTrue
  <2>5. i + 2 \in 1 .. Len(toHost) - n /\ (n + i) + 2 = n + (i + 2)
    BY <1>1, <2>1, <2>2, <2>4
  <2>6. QED
    BY <2>1, <2>4, <2>5
\* A reply is added whole.
<1>4. ASSUME NEW r \in Seq(Tokens(callNo)), toHost' = toHost \o r,
             \A d \in Devices : boardPin[d] # Nothing => boardPin'[d] # Nothing,
             \A i \in 1 .. Len(r) : r[i] = Word("a") =>
                 /\ i + 2 <= Len(r)
                 /\ \E d \in Devices : r[i + 2] = Number(d) /\ boardPin'[d] # Nothing
      PROVE  EchoesAreTrue'
  <2>1. Len(r) \in Nat
    BY LenProperties
  <2>2. /\ Len(toHost') = Len(toHost) + Len(r)
        /\ \A i \in 1 .. Len(toHost) + Len(r) :
              toHost'[i] = IF i <= Len(toHost) THEN toHost[i] ELSE r[i - Len(toHost)]
    BY <1>1, <1>4, ConcatProperties
  <2>3. SUFFICES ASSUME NEW i \in 1 .. Len(toHost) + Len(r), toHost'[i] = Word("a")
                 PROVE  /\ i + 2 <= Len(toHost) + Len(r)
                        /\ \E d \in Devices : toHost'[i + 2] = Number(d) /\ boardPin'[d] # Nothing
    BY <2>2 DEF EchoesAreTrue
  <2>4. CASE i <= Len(toHost)
    <3>1. i \in 1 .. Len(toHost) /\ toHost[i] = Word("a")
      BY <2>2, <2>3, <2>4
    <3>2. /\ i + 2 <= Len(toHost)
          /\ \E d \in Devices : toHost[i + 2] = Number(d) /\ boardPin[d] # Nothing
      BY <1>1, <3>1 DEF EchoesAreTrue
    <3>3. i + 2 \in 1 .. Len(toHost) + Len(r)
      BY <1>1, <2>1, <3>2
    <3>4. QED
      BY <1>4, <2>2, <3>2, <3>3
  <2>5. CASE ~(i <= Len(toHost))
    <3>1. i - Len(toHost) \in 1 .. Len(r) /\ r[i - Len(toHost)] = Word("a")
      BY <1>1, <2>1, <2>2, <2>3, <2>5
    <3>2. /\ (i - Len(toHost)) + 2 <= Len(r)
          /\ \E d \in Devices : r[(i - Len(toHost)) + 2] = Number(d) /\ boardPin'[d] # Nothing
      BY <1>4, <3>1
    <3>3. /\ i + 2 \in 1 .. Len(toHost) + Len(r) /\ ~(i + 2 <= Len(toHost))
          /\ (i + 2) - Len(toHost) = (i - Len(toHost)) + 2
      BY <1>1, <2>1, <2>5, <3>1, <3>2
    <3>4. QED
      BY <2>2, <3>2, <3>3
  <2>6. QED
    BY <2>4, <2>5
<1>5. ASSUME NEW n \in 0 .. Len(toHost), Receives(n), attached' = attached
      PROVE  EchoesAreTrue' /\ AttachedIsBound'
  BY <1>1, <1>3, <1>5 DEF Receives, AttachedIsBound
<1>6. ASSUME toBoard # <<>>
      PROVE  Head(toBoard) \in Commands
  BY <1>1, <1>6, HeadTailProperties DEF LineTypes
<1>7. ASSUME NEW d \in Devices, NEW p \in Pins, AttachDevice(d, p)
      PROVE  (EchoesAreTrue' /\ AttachedIsBound')
  BY <1>7, <1>2, <1>2
     DEF AttachDevice, Calls, Sends
<1>8. CASE RefreshDigitalPins
  BY <1>8, <1>2, <1>2
     DEF RefreshDigitalPins, Calls, Sends
<1>9. ASSUME NEW op \in {"ping", "ticks"}, NEW x \in IF op = "ping" THEN Pins ELSE Encoded, Ask(op, x)
      PROVE  (EchoesAreTrue' /\ AttachedIsBound')
  BY <1>9, <1>2, <1>2
     DEF Ask, Calls, Sends
<1>10. ASSUME NEW s \in Servos, MoveServo(s)
       PROVE  (EchoesAreTrue' /\ AttachedIsBound')
  BY <1>10, <1>2, <1>2
     DEF MoveServo, Calls, Sends
<1>11. ASSUME NEW runs \in RunArguments, NEW time \in {"timed", "forever"}, RunMotor(runs, time)
       PROVE  (EchoesAreTrue' /\ AttachedIsBound')
  BY <1>11, <1>2, <1>2
     DEF RunMotor, Calls, Sends
<1>12. ASSUME NEW runs \in RunArguments, RunEncodedMotor(runs)
       PROVE  (EchoesAreTrue' /\ AttachedIsBound')
  BY <1>12, <1>2, <1>2
     DEF RunEncodedMotor, Calls, Sends
<1>13. ASSUME NEW d \in Devices, CloseResets(d)
       PROVE  (EchoesAreTrue' /\ AttachedIsBound')
  BY <1>13, <1>2, <1>2
     DEF CloseResets, Sends
<1>14. ASSUME NEW n \in 0 .. Len(toHost), AttachReturns(n)
       PROVE  (EchoesAreTrue' /\ AttachedIsBound')

  <2>1. EchoesAreTrue' /\ boardPin' = boardPin
    BY <1>14, <1>3 DEF AttachReturns, Receives
  <2>2. CASE attached' = attached
    BY <1>1, <2>1, <2>2 DEF AttachedIsBound
  <2>3. CASE attached' # attached
    <3>1. /\ attached' = attached \cup {req.what} /\ Arrived(n) = Echo(req)
          /\ req.op = "attach" /\ req \in Commands
      BY <1>14, <1>1, <2>3 DEF AttachReturns, Receives, CallTypes
    <3>2. /\ Len(Arrived(n)) = n /\ \A i \in 1 .. n : Arrived(n)[i] = toHost[i]
      BY <1>1, Reads DEF Arrived
    <3>3. Arrived(n) = <<Word("a"), Word(IF req.what \in Motors THEN "m" ELSE "s"),
                         Number(req.what), Number(req.pin)>>
      BY <1>1, <3>1, EchoIs DEF CallTypes
    <3>4. Len(Arrived(n)) = 4 /\ Arrived(n)[1] = Word("a") /\ Arrived(n)[3] = Number(req.what)
      BY <3>3
    <3>5. toHost[1] = Word("a") /\ toHost[3] = Number(req.what) /\ Len(toHost) >= 4
      BY <1>1, <3>2, <3>4
    <3>6. PICK d \in Devices : toHost[1 + 2] = Number(d) /\ boardPin[d] # Nothing
      BY <1>1, <3>5 DEF EchoesAreTrue
    <3>7. d = req.what
      BY <3>5, <3>6 DEF Number
    <3>8. QED
      BY <1>1, <2>1, <3>1, <3>6, <3>7 DEF AttachedIsBound
  <2>4. QED
    BY <2>2, <2>3
<1>15. ASSUME NEW n \in 0 .. Len(toHost),
              \/ RefreshReturns(n) \/ AskReturns(n) \/ MoveServoReturns(n)
              \/ RunAnswers(n)
       PROVE  (EchoesAreTrue' /\ AttachedIsBound')

  <2>1. Receives(n) /\ attached' = attached
    BY <1>15 DEF RefreshReturns, AskReturns, MoveServoReturns, RunAnswers
  <2>2. QED
    BY <1>5, <2>1
<1>16. ASSUME NEW n \in 0 .. Len(toHost), EncodedReads(n)
       PROVE  (EchoesAreTrue' /\ AttachedIsBound')

  BY <1>16, <1>1, <1>3 DEF EncodedReads, AttachedIsBound
<1>17. CASE BoardExecutes

  <2> DEFINE c == Head(toBoard)
  <2>1. /\ c \in Commands /\ toHost' = toHost \o Reply(c) /\ boardPin' = BoardBinds(c)
        /\ attached' = attached
    BY <1>17, <1>6 DEF BoardExecutes
  <2> HIDE DEF c
  <2>2. \A d \in Devices : boardPin[d] # Nothing => boardPin'[d] # Nothing
    BY <1>1, <2>1, BindsOnly
  <2>3. AttachedIsBound'
    BY <1>1, <2>1, <2>2 DEF AttachedIsBound, Types, MotorTypes
  <2>4. Reply(c) \in Seq(Tokens(callNo))
    BY <1>1, <2>1, ReplyIs DEF CallTypes
  <2>5. ASSUME NEW i \in 1 .. Len(Reply(c)), Reply(c)[i] = Word("a")
        PROVE  /\ i + 2 <= Len(Reply(c))
               /\ \E d \in Devices : Reply(c)[i + 2] = Number(d) /\ boardPin'[d] # Nothing
    <3>1. c.op = "attach"
      BY <1>1, <2>1, <2>5, ReplyIs DEF CallTypes
    <3>2. Reply(c) = <<Word("a"), Word(IF c.what \in Motors THEN "m" ELSE "s"),
                       Number(c.what), Number(c.pin)>>
      BY <1>1, <2>1, <3>1, ReplyIs, EchoIs DEF CallTypes
    <3>3. c.what \in Devices /\ boardPin'[c.what] # Nothing
      BY <1>1, <2>1, <3>1, BindsOnly, CommandIs
    <3>4. Len(Reply(c)) = 4 /\ Reply(c)[3] = Number(c.what)
      BY <3>2
    <3>5. i = 1
      BY <2>5, <3>2, <3>4 DEF Word, Number
    <3>6. QED
      BY <3>3, <3>4, <3>5
  <2>6. QED
    BY <1>4, <2>1, <2>2, <2>3, <2>4, <2>5
<1>18. CASE BoardFinishes

  <2> DEFINE c == Head(toBoard)
  <2>1. /\ c \in Commands /\ c.op = "encoded" /\ toHost' = toHost \o Echo(c)
        /\ boardPin' = boardPin /\ attached' = attached
    BY <1>18, <1>6 DEF BoardFinishes
  <2> HIDE DEF c
  <2>2. /\ Echo(c) \in Seq(Tokens(callNo))
        /\ \A i \in 1 .. Len(Echo(c)) : Echo(c)[i] # Word("a")
    BY <1>1, <2>1, EchoIs DEF CallTypes
  <2>3. EchoesAreTrue'
    BY <1>4, <2>1, <2>2
  <2>4. QED
    BY <1>1, <2>1, <2>3 DEF AttachedIsBound
<1>19. ASSUME NEW p \in Pins, GetDigitalPin(p)
       PROVE  (EchoesAreTrue' /\ AttachedIsBound')
  BY <1>19, <1>2
     DEF GetDigitalPin
<1>20. ASSUME NEW runs \in RunArguments, RunIsRefused(runs)
       PROVE  (EchoesAreTrue' /\ AttachedIsBound')
  BY <1>20, <1>2
     DEF RunIsRefused
<1>21. ASSUME NEW m \in Motors, BoardStops(m)
       PROVE  (EchoesAreTrue' /\ AttachedIsBound')
  BY <1>21, <1>2
     DEF BoardStops
<1>22. CASE \/ Close \/ SendAgain \/ RunReturns \/ EncodedSleeps
            \/ CloseReturns \/ BoardStarts
  BY <1>22, <1>2
     DEF Close, SendAgain, RunReturns, EncodedSleeps, CloseReturns,
         BoardStarts
<1>23. CASE UNCHANGED vars
  BY <1>23, <1>2
     DEF vars
<1>24. QED
  BY Zenon, <1>7, <1>8, <1>9, <1>10, <1>11, <1>12, <1>13, <1>14, <1>15, <1>16,
     <1>17, <1>18, <1>19, <1>20, <1>21, <1>22, <1>23
     DEF Next, ProgramCalls, CallContinues, Board

LEMMA EchoesInit == Init => EchoesAreTrue /\ AttachedIsBound
BY PinsAssumption, DevicesAssumption
   DEF Init, EchoesAreTrue, AttachedIsBound, Devices

-----------------------------------------------------------------------------
(* close.                                                                   *)

\* The commands on the line that run this motor.
IsRun(c, m) == c.op = "run" /\ m \in MotorsOf(c.runs)
RunsOf(m) == {i \in 1 .. Len(toBoard) : IsRun(toBoard[i], m)}

\* The last command that runs the motor stops it.
Stops(m) ==
    \/ RunsOf(m) = {} /\ boardRun[m] # "on"
    \/ \E i \in RunsOf(m) : /\ toBoard[i].runs = <<<<m, "zero">>>>
                            /\ \A j \in RunsOf(m) : j <= i

StopInv ==
    /\ \A m \in Motors : RunsOf(m) # {} \/ boardRun[m] = "on" => m \in attached
    /\ closing => \A m \in Motors \ resets : Stops(m)

\* A command is written: only the last is new.
LEMMA Writes ==
  ASSUME LineTypes, NEW c \in Commands, toBoard' = Append(toBoard, c), NEW m
  PROVE  /\ Len(toBoard) \in Nat /\ Len(toBoard') = Len(toBoard) + 1
         /\ \A i \in 1 .. Len(toBoard) : toBoard'[i] = toBoard[i]
         /\ toBoard'[Len(toBoard) + 1] = c
         /\ RunsOf(m)' = IF IsRun(c, m) THEN RunsOf(m) \cup {Len(toBoard) + 1} ELSE RunsOf(m)
<1>1. Len(toBoard) \in Nat
  BY LenProperties DEF LineTypes
<1>2. /\ Len(toBoard') = Len(toBoard) + 1
      /\ \A i \in 1 .. Len(toBoard) : toBoard'[i] = toBoard[i]
      /\ toBoard'[Len(toBoard) + 1] = c
  BY AppendProperties DEF LineTypes
<1>3. 1 .. Len(toBoard) + 1 = 1 .. Len(toBoard) \cup {Len(toBoard) + 1}
  BY <1>1
<1>4. QED
  BY <1>1, <1>2, <1>3 DEF RunsOf

\* A command is executed: the others move up.
LEMMA Executes ==
  ASSUME LineTypes, toBoard # <<>>, toBoard' = Tail(toBoard), NEW m
  PROVE  /\ Head(toBoard) \in Commands /\ Head(toBoard) = toBoard[1]
         /\ \A i \in RunsOf(m)' : i + 1 \in RunsOf(m)
         /\ \A i \in RunsOf(m) \ {1} : i - 1 \in RunsOf(m)' /\ toBoard'[i - 1] = toBoard[i]
         /\ IsRun(Head(toBoard), m) <=> 1 \in RunsOf(m)
<1>1. Len(toBoard) \in Nat /\ Len(toBoard) # 0
  BY LenProperties, EmptySeq DEF LineTypes
<1>2. /\ Head(toBoard) \in Commands
      /\ Len(toBoard') = Len(toBoard) - 1
      /\ \A i \in 1 .. Len(toBoard) - 1 : toBoard'[i] = toBoard[i + 1]
  BY HeadTailProperties DEF LineTypes
<1>3. Head(toBoard) = toBoard[1]
  BY DEF LineTypes
<1>4. \A i \in RunsOf(m)' : i + 1 \in RunsOf(m)
  <2>1. SUFFICES ASSUME NEW i \in 1 .. Len(toBoard'), IsRun(toBoard'[i], m)
                 PROVE  i + 1 \in 1 .. Len(toBoard) /\ IsRun(toBoard[i + 1], m)
    BY DEF RunsOf, IsRun
  <2>2. i \in 1 .. Len(toBoard) - 1 /\ i + 1 \in 1 .. Len(toBoard)
    BY <1>1, <1>2
  <2>3. QED
    BY <1>2, <2>1, <2>2
<1>5. \A i \in RunsOf(m) \ {1} : i - 1 \in RunsOf(m)' /\ toBoard'[i - 1] = toBoard[i]
  <2>1. SUFFICES ASSUME NEW i \in 1 .. Len(toBoard), i # 1, IsRun(toBoard[i], m)
                 PROVE  /\ i - 1 \in 1 .. Len(toBoard') /\ IsRun(toBoard'[i - 1], m)
                        /\ toBoard'[i - 1] = toBoard[i]
    BY DEF RunsOf, IsRun
  <2>2. i - 1 \in 1 .. Len(toBoard) - 1 /\ (i - 1) + 1 = i
    BY <1>1, <2>1
  <2>3. QED
    BY <1>2, <2>1, <2>2
<1>6. IsRun(Head(toBoard), m) <=> 1 \in RunsOf(m)
  BY <1>1, <1>3 DEF RunsOf
<1>7. QED
  BY <1>2, <1>3, <1>4, <1>5, <1>6

LEMMA StopInit == Init => StopInv
BY DEF Init, StopInv, RunsOf

LEMMA StopStep ==
  ASSUME Types, StopInv, [Next]_vars
  PROVE  StopInv'
<1>1. /\ StopInv /\ BoardTypes /\ LineTypes /\ CallTypes /\ MotorTypes
      /\ \A m : RunsOf(m) \subseteq Nat
  BY DEF Types, RunsOf
<1>2. ASSUME toBoard' = toBoard, boardRun' = boardRun, closing' = closing,
             attached \subseteq attached', resets' = resets
      PROVE  StopInv'
  <2>1. \A m : RunsOf(m)' = RunsOf(m)
    BY <1>2 DEF RunsOf
  <2>2. \A m : Stops(m)' <=> Stops(m)
    BY <1>2, <2>1 DEF Stops
  <2>3. QED
    BY <1>1, <1>2, <2>1, <2>2 DEF StopInv
\* What is written outside close runs motors that are attached.
<1>3. ASSUME NEW c \in Commands, toBoard' = Append(toBoard, c),
             UNCHANGED <<boardRun, closing, attached, resets>>,
             c.op = "run" => MotorsOf(c.runs) \subseteq attached /\ ~closing
      PROVE  StopInv'
  <2>1. \A m : RunsOf(m)' = IF IsRun(c, m) THEN RunsOf(m) \cup {Len(toBoard) + 1} ELSE RunsOf(m)
    BY <1>1, <1>3, Writes
  <2>2. ASSUME NEW m \in Motors, RunsOf(m)' # {} \/ boardRun'[m] = "on" PROVE m \in attached'
    BY <1>1, <1>3, <2>1, <2>2 DEF StopInv, IsRun
  <2>3. ASSUME closing', NEW m \in Motors \ resets' PROVE Stops(m)'
    <3>1. Stops(m) /\ RunsOf(m)' = RunsOf(m)
      BY <1>1, <1>3, <2>1, <2>3 DEF StopInv, IsRun
    <3>2. \A i \in RunsOf(m) : toBoard'[i] = toBoard[i]
      BY <1>1, <1>3, Writes DEF RunsOf
    <3>3. QED
      BY <1>3, <3>1, <3>2 DEF Stops
  <2>4. QED
    BY <2>2, <2>3 DEF StopInv
<1>4. ASSUME NEW c \in Commands, Calls(c), attached' = attached,
             c.op = "run" => MotorsOf(c.runs) \subseteq attached
      PROVE  StopInv'
  BY <1>1, <1>3, <1>4 DEF Calls, Sends, CallTypes
<1>5. ASSUME NEW d \in Devices, NEW p \in Pins, AttachDevice(d, p)
      PROVE  StopInv'

  BY <1>5, <1>4, CommandsAre DEF AttachDevice
<1>6. CASE RefreshDigitalPins

  BY <1>6, <1>4, CommandsAre DEF RefreshDigitalPins
<1>7. ASSUME NEW op \in {"ping", "ticks"}, NEW x \in IF op = "ping" THEN Pins ELSE Encoded, Ask(op, x)
      PROVE  StopInv'

  <2>1. Calls(Command(op, x, Nothing, <<>>, "none")) /\ attached' = attached
    BY <1>7 DEF Ask
  <2>2. /\ Command(op, x, Nothing, <<>>, "none") \in Commands
        /\ Command(op, x, Nothing, <<>>, "none").op # "run"
    BY CommandsAre
  <2>3. QED
    BY <1>4, <2>1, <2>2
<1>8. ASSUME NEW s \in Servos, MoveServo(s)
      PROVE  StopInv'

  BY <1>8, <1>4, CommandsAre DEF MoveServo
<1>9. ASSUME NEW runs \in RunArguments, NEW time \in {"timed", "forever"}, RunMotor(runs, time)
      PROVE  StopInv'

  BY <1>9, <1>4, CommandsAre, RunsAssumption DEF RunMotor
<1>10. ASSUME NEW runs \in RunArguments, RunEncodedMotor(runs)
       PROVE  StopInv'

  BY <1>10, <1>4, CommandsAre, RunsAssumption DEF RunEncodedMotor
<1>11. ASSUME NEW p \in Pins, GetDigitalPin(p)
       PROVE  StopInv'
  BY <1>11, <1>2, <1>2
     DEF GetDigitalPin
<1>12. ASSUME NEW runs \in RunArguments, RunIsRefused(runs)
       PROVE  StopInv'
  BY <1>12, <1>2, <1>2
     DEF RunIsRefused
<1>13. CASE Close

  <2>1. /\ toBoard' = toBoard /\ boardRun' = boardRun /\ attached' = attached
        /\ resets' = attached
    BY <1>13 DEF Close
  <2>2. \A m : RunsOf(m)' = RunsOf(m)
    BY <2>1 DEF RunsOf
  <2>3. \A m \in Motors \ attached : Stops(m)'
    BY <1>1, <2>1, <2>2 DEF StopInv, Stops
  <2>4. QED
    BY <1>1, <2>1, <2>2, <2>3 DEF StopInv
<1>14. CASE SendAgain

  <2>1. req \in Commands /\ req.op # "run"
    BY <1>14, <1>1 DEF SendAgain, TriesAgain, CallTypes
  <2>2. QED
    BY <1>14, <1>3, <2>1 DEF SendAgain
<1>15. ASSUME NEW n \in 0 .. Len(toHost),
              \/ AttachReturns(n) \/ RefreshReturns(n) \/ AskReturns(n)
              \/ MoveServoReturns(n) \/ RunAnswers(n)
       PROVE  StopInv'
  BY <1>15, <1>2, <1>2
     DEF AttachReturns, Receives, Caller, RefreshReturns, AskReturns,
         MoveServoReturns, RunAnswers
<1>16. ASSUME NEW d \in Devices, CloseResets(d)
       PROVE  StopInv'

  <2>1. /\ closing /\ closing' = closing /\ attached' = attached /\ boardRun' = boardRun
        /\ resets' = resets \ {d} /\ d \in attached
    BY <1>16, <1>1 DEF CloseResets, Sends, CallTypes, MotorTypes
  <2> DEFINE c == IF d \in Servos THEN Command("servo", d, Nothing, <<>>, "none")
                  ELSE Command("run", Nothing, Nothing, <<<<d, "zero">>>>, "forever")
  <2>2. toBoard' = Append(toBoard, c)
    BY <1>16 DEF CloseResets, Sends
  <2>3. /\ c \in Commands
        /\ d \in Servos => c.op = "servo"
        /\ d \notin Servos => /\ d \in Motors /\ c.op = "run" /\ c.runs = <<<<d, "zero">>>>
                              /\ MotorsOf(c.runs) = {d}
    BY CommandsAre, RunOfZero DEF Devices
  <2> HIDE DEF c
  <2>4. /\ \A m : RunsOf(m)' = IF IsRun(c, m) THEN RunsOf(m) \cup {Len(toBoard) + 1} ELSE RunsOf(m)
        /\ Len(toBoard) \in Nat
        /\ \A i \in 1 .. Len(toBoard) : toBoard'[i] = toBoard[i]
        /\ toBoard'[Len(toBoard) + 1] = c
    BY <1>1, <2>2, <2>3, Writes
  <2>5. ASSUME NEW m \in Motors, RunsOf(m)' # {} \/ boardRun'[m] = "on" PROVE m \in attached'
    BY <1>1, <2>1, <2>3, <2>4, <2>5 DEF StopInv, IsRun
  <2>6. ASSUME NEW m \in Motors \ resets' PROVE Stops(m)'
    <3>1. CASE m = d
      <4>1. d \in Motors /\ d \notin Servos /\ IsRun(c, m)
        BY <2>3, <3>1, DevicesAssumption DEF IsRun
      <4>2. RunsOf(m)' = RunsOf(m) \cup {Len(toBoard) + 1}
        BY <2>4, <4>1
      <4>3. \A j \in RunsOf(m) : j <= Len(toBoard) + 1
        BY <2>4 DEF RunsOf
      <4>4. QED
        BY <2>3, <2>4, <3>1, <4>1, <4>2, <4>3 DEF Stops
    <3>2. CASE m # d
      <4>1. Stops(m) /\ ~IsRun(c, m)
        BY <1>1, <2>1, <2>3, <2>6, <3>2 DEF StopInv, IsRun
      <4>2. RunsOf(m)' = RunsOf(m) /\ \A i \in RunsOf(m) : toBoard'[i] = toBoard[i]
        BY <2>4, <4>1 DEF RunsOf
      <4>3. QED
        BY <2>1, <4>1, <4>2 DEF Stops
    <3>3. QED
      BY <3>1, <3>2
  <2>7. QED
    BY <2>5, <2>6 DEF StopInv
<1>17. CASE \/ BoardExecutes \/ BoardFinishes

  <2> DEFINE c == Head(toBoard)
  <2>1. /\ toBoard # <<>> /\ toBoard' = Tail(toBoard)
        /\ UNCHANGED <<attached, closing, resets>>
    BY <1>17 DEF BoardExecutes, BoardFinishes
  <2>2. PICK way \in {"timed", "on", "off"} :
           boardRun' = BoardMoves(c, way) /\ (way = "on" => c.op # "encoded")
    BY <1>17 DEF BoardExecutes, BoardFinishes
  <2>3. c \in Commands
    BY <1>1, <2>1, HeadTailProperties DEF LineTypes
  <2>4. \A m \in Motors : boardRun'[m] = IF m \notin MotorsOf(c.runs) THEN boardRun[m]
                                         ELSE IF m \in Moved(c.runs) THEN way ELSE "off"
    BY <2>2 DEF BoardMoves
  <2>5. c.op \notin {"run", "encoded"} => MotorsOf(c.runs) = {}
    BY <2>3, CommandIs, NoRuns
  <2>6. \A m : /\ \A i \in RunsOf(m)' : i + 1 \in RunsOf(m)
               /\ \A i \in RunsOf(m) \ {1} : i - 1 \in RunsOf(m)' /\ toBoard'[i - 1] = toBoard[i]
               /\ IsRun(c, m) <=> 1 \in RunsOf(m)
               /\ c = toBoard[1]
    BY <1>1, <2>1, Executes
  <2> HIDE DEF c
  <2>7. ASSUME NEW m \in Motors, boardRun'[m] = "on" PROVE boardRun[m] = "on" \/ IsRun(c, m)
    BY <2>2, <2>3, <2>4, <2>5, <2>7, CommandIs DEF IsRun
  <2>8. ASSUME NEW m \in Motors, RunsOf(m)' # {} \/ boardRun'[m] = "on" PROVE m \in attached'
    BY <1>1, <2>1, <2>6, <2>7, <2>8 DEF StopInv
  <2>9. ASSUME closing', NEW m \in Motors \ resets' PROVE Stops(m)'
    <3>1. Stops(m)
      BY <1>1, <2>1, <2>9 DEF StopInv
    <3>2. CASE RunsOf(m) = {}
      BY <2>6, <2>7, <3>1, <3>2 DEF Stops
    <3>3. CASE RunsOf(m) # {}
      <4>1. PICK i \in RunsOf(m) : /\ toBoard[i].runs = <<<<m, "zero">>>>
                                   /\ \A j \in RunsOf(m) : j <= i
        BY <3>1, <3>3 DEF Stops
      <4>2. i \in Nat /\ \A j \in RunsOf(m)' : j \in Nat /\ j >= 1
        BY <1>1 DEF RunsOf
      <4>3. CASE i = 1
        <5>1. RunsOf(m)' = {}
          BY <2>6, <4>1, <4>2, <4>3
        <5>2. IsRun(c, m) /\ c.runs = <<<<m, "zero">>>>
          BY <2>6, <4>1, <4>3
        <5>3. boardRun'[m] = "off"
          BY <2>4, <5>2, RunOfZero DEF IsRun
        <5>4. QED
          BY <5>1, <5>3 DEF Stops
      <4>4. CASE i # 1
        <5>1. i - 1 \in RunsOf(m)' /\ toBoard'[i - 1].runs = <<<<m, "zero">>>>
          BY <2>6, <4>1, <4>4
        <5>2. \A j \in RunsOf(m)' : j <= i - 1
          BY <2>6, <4>1, <4>2
        <5>3. QED
          BY <5>1, <5>2 DEF Stops
      <4>5. QED
        BY <4>3, <4>4
    <3>4. QED
      BY <3>2, <3>3
  <2>10. QED
    BY <2>8, <2>9 DEF StopInv
<1>18. CASE BoardStarts

  <2>1. /\ UNCHANGED <<toBoard, attached, closing, resets>>
        /\ \A k \in Motors : boardRun'[k] = "on" => boardRun[k] = "on"
    BY <1>18, <1>1 DEF BoardStarts, BoardMoves, BoardTypes
  <2>2. \A k : RunsOf(k)' = RunsOf(k)
    BY <2>1 DEF RunsOf
  <2>3. \A k \in Motors : Stops(k) => Stops(k)'
    BY <2>1, <2>2 DEF Stops
  <2>4. QED
    BY <1>1, <2>1, <2>2, <2>3 DEF StopInv
<1>19. ASSUME NEW m \in Motors, BoardStops(m)
       PROVE  StopInv'

  <2>1. /\ UNCHANGED <<toBoard, attached, closing, resets>>
        /\ \A k \in Motors : boardRun'[k] = "on" => boardRun[k] = "on"
    BY <1>19, <1>1 DEF BoardStops, BoardTypes
  <2>2. \A k : RunsOf(k)' = RunsOf(k)
    BY <2>1 DEF RunsOf
  <2>3. \A k \in Motors : Stops(k) => Stops(k)'
    BY <2>1, <2>2 DEF Stops
  <2>4. QED
    BY <1>1, <2>1, <2>2, <2>3 DEF StopInv
<1>20. ASSUME NEW n \in 0 .. Len(toHost), EncodedReads(n)
       PROVE  StopInv'
  BY <1>20, <1>2
     DEF EncodedReads, Caller
<1>21. CASE \/ RunReturns \/ EncodedSleeps \/ CloseReturns
  BY <1>21, <1>2
     DEF RunReturns, EncodedSleeps, CloseReturns
<1>22. CASE UNCHANGED vars
  BY <1>22, <1>2
     DEF vars
<1>23. QED
  BY Zenon, <1>5, <1>6, <1>7, <1>8, <1>9, <1>10, <1>11, <1>12, <1>13, <1>14,
     <1>15, <1>16, <1>17, <1>18, <1>19, <1>20, <1>21, <1>22
     DEF Next, ProgramCalls, CallContinues, Board

\* The port is closed when everything has been reset.
ResetInv == pc = "closed" => resets = {}

LEMMA ResetStep ==
  ASSUME Types, ResetInv, [Next]_vars
  PROVE  ResetInv'
<1>1. ResetInv
  OBVIOUS
<1>2. ASSUME NEW d \in Devices, NEW p \in Pins, AttachDevice(d, p)
      PROVE  ResetInv'
  BY <1>2, <1>1
     DEF AttachDevice, Calls, Sends, ResetInv
<1>3. CASE RefreshDigitalPins
  BY <1>3, <1>1
     DEF RefreshDigitalPins, Calls, Sends, ResetInv
<1>4. ASSUME NEW op \in {"ping", "ticks"}, NEW x \in IF op = "ping" THEN Pins ELSE Encoded, Ask(op, x)
      PROVE  ResetInv'
  BY <1>4, <1>1
     DEF Ask, Calls, Sends, ResetInv
<1>5. ASSUME NEW s \in Servos, MoveServo(s)
      PROVE  ResetInv'
  BY <1>5, <1>1
     DEF MoveServo, Calls, Sends, ResetInv
<1>6. ASSUME NEW runs \in RunArguments, NEW time \in {"timed", "forever"}, RunMotor(runs, time)
      PROVE  ResetInv'
  BY <1>6, <1>1
     DEF RunMotor, Calls, Sends, ResetInv
<1>7. ASSUME NEW runs \in RunArguments, RunEncodedMotor(runs)
      PROVE  ResetInv'
  BY <1>7, <1>1
     DEF RunEncodedMotor, Calls, Sends, ResetInv
<1>8. ASSUME NEW d \in Devices, CloseResets(d)
      PROVE  ResetInv'
  BY <1>8, <1>1
     DEF CloseResets, Sends, ResetInv
<1>9. ASSUME NEW n \in 0 .. Len(toHost),
             \/ AttachReturns(n) \/ RefreshReturns(n) \/ AskReturns(n)
             \/ MoveServoReturns(n) \/ RunAnswers(n)
      PROVE  ResetInv'
  BY <1>9, <1>1
     DEF AttachReturns, Receives, Caller, RefreshReturns, AskReturns,
         MoveServoReturns, RunAnswers, ResetInv
<1>10. ASSUME NEW n \in 0 .. Len(toHost), EncodedReads(n)
       PROVE  ResetInv'
  BY <1>10, <1>1
     DEF EncodedReads, Caller, ResetInv
<1>11. CASE RunReturns
  BY <1>11, <1>1
     DEF RunReturns, Caller, ResetInv
<1>12. ASSUME NEW p \in Pins, GetDigitalPin(p)
       PROVE  ResetInv'
  BY <1>12, <1>1
     DEF GetDigitalPin, ResetInv
<1>13. ASSUME NEW runs \in RunArguments, RunIsRefused(runs)
       PROVE  ResetInv'
  BY <1>13, <1>1
     DEF RunIsRefused, ResetInv
<1>14. ASSUME NEW m \in Motors, BoardStops(m)
       PROVE  ResetInv'
  BY <1>14, <1>1
     DEF BoardStops, ResetInv
<1>15. CASE \/ Close \/ SendAgain \/ EncodedSleeps \/ CloseReturns
            \/ BoardExecutes \/ BoardStarts \/ BoardFinishes
  BY <1>15, <1>1
     DEF Close, SendAgain, EncodedSleeps, CloseReturns, BoardExecutes,
         BoardStarts, BoardFinishes, ResetInv
<1>16. CASE UNCHANGED vars
  BY <1>16, <1>1
     DEF vars, ResetInv
<1>17. QED
  BY Zenon, <1>2, <1>3, <1>4, <1>5, <1>6, <1>7, <1>8, <1>9, <1>10, <1>11,
     <1>12, <1>13, <1>14, <1>15, <1>16
     DEF Next, ProgramCalls, CallContinues, Board

LEMMA ClosedStops == Types /\ StopInv /\ ResetInv => ClosedIsStopped
<1>1. SUFFICES ASSUME Types, StopInv, ResetInv, pc = "closed", toBoard = <<>>, NEW m \in Motors
               PROVE  boardRun[m] # "on"
  BY DEF ClosedIsStopped
<1>2. RunsOf(m) = {}
  BY <1>1 DEF RunsOf
<1>3. closing /\ resets = {}
  BY <1>1 DEF ResetInv, Types, CallTypes
<1>4. QED
  BY <1>1, <1>2, <1>3 DEF StopInv, Stops

-----------------------------------------------------------------------------
(* What the program counts as running.                                      *)

RunningInv == IsFiniteSet(running) /\ Cardinality(running) <= 2

LEMMA RunningInit == Init => RunningInv
BY FS_EmptySet DEF Init, RunningInv

LEMMA RunningStep ==
  ASSUME Types, RunningInv, [Next]_vars
  PROVE  RunningInv'
<1>1. /\ IsFiniteSet(running) /\ Cardinality(running) <= 2 /\ Cardinality(running) \in Nat
      /\ CallTypes
  BY FS_CardinalityType DEF RunningInv, Types
<1>2. ASSUME running' = running PROVE RunningInv'
  BY <1>2 DEF RunningInv
<1>3. ASSUME NEW S \in SUBSET running, running' = S PROVE RunningInv'
  <2>1. IsFiniteSet(S) /\ Cardinality(S) <= Cardinality(running) /\ Cardinality(S) \in Nat
    BY <1>1, FS_Subset, FS_CardinalityType
  <2>2. QED
    BY <1>1, <1>3, <2>1 DEF RunningInv
<1>4. ASSUME NEW runs \in RunArguments, CheckRunningMotors(runs), running' = Counted(runs)
      PROVE  RunningInv'
  <2>1. IsFiniteSet(Moved(runs))
    BY RunsAssumption, RunParts
  <2>2. running \ MotorsOf(runs) \in SUBSET running
    OBVIOUS
  <2>3. IsFiniteSet(running \ MotorsOf(runs))
    BY <1>1, <2>2, FS_Subset
  <2>4. IsFiniteSet(Counted(runs))
    BY <2>1, <2>3, FS_Union DEF Counted
  <2>5. QED
    BY <1>4, <2>4 DEF CheckRunningMotors, RunningInv
<1>5. ASSUME NEW runs \in RunArguments, RunIsRefused(runs)
      PROVE  RunningInv'
  BY <1>5, <1>4, <1>2
     DEF RunIsRefused
<1>6. ASSUME NEW runs \in RunArguments, NEW time \in {"timed", "forever"}, RunMotor(runs, time)
      PROVE  RunningInv'
  BY <1>6, <1>4, <1>2
     DEF RunMotor, Calls, Sends
<1>7. ASSUME NEW runs \in RunArguments, RunEncodedMotor(runs)
      PROVE  RunningInv'
  BY <1>7, <1>4, <1>2
     DEF RunEncodedMotor, Calls, Sends
<1>8. ASSUME NEW n \in 0 .. Len(toHost), RunAnswers(n)
      PROVE  RunningInv'

  <2>1. running' \in SUBSET running
    BY <1>8 DEF RunAnswers
  <2>2. QED
    BY <1>3, <2>1
<1>9. CASE RunReturns

  <2>1. running' \in SUBSET running
    BY <1>9 DEF RunReturns
  <2>2. QED
    BY <1>3, <2>1
<1>10. ASSUME NEW n \in 0 .. Len(toHost), EncodedReads(n)
       PROVE  RunningInv'

  <2>1. running' \in SUBSET running
    BY <1>10 DEF EncodedReads
  <2>2. QED
    BY <1>3, <2>1
<1>11. ASSUME NEW d \in Devices, CloseResets(d)
       PROVE  RunningInv'

  <2>1. running' \in SUBSET running
    BY <1>11 DEF CloseResets
  <2>2. QED
    BY <1>3, <2>1
<1>12. ASSUME NEW d \in Devices, NEW p \in Pins, AttachDevice(d, p)
       PROVE  RunningInv'
  BY <1>12, <1>2
     DEF AttachDevice, Calls, Sends
<1>13. ASSUME NEW p \in Pins, GetDigitalPin(p)
       PROVE  RunningInv'
  BY <1>13, <1>2
     DEF GetDigitalPin
<1>14. ASSUME NEW op \in {"ping", "ticks"}, NEW x \in IF op = "ping" THEN Pins ELSE Encoded, Ask(op, x)
       PROVE  RunningInv'
  BY <1>14, <1>2
     DEF Ask, Calls, Sends
<1>15. ASSUME NEW s \in Servos, MoveServo(s)
       PROVE  RunningInv'
  BY <1>15, <1>2
     DEF MoveServo, Calls, Sends
<1>16. ASSUME NEW n \in 0 .. Len(toHost),
              \/ AttachReturns(n) \/ RefreshReturns(n) \/ AskReturns(n)
              \/ MoveServoReturns(n)
       PROVE  RunningInv'
  BY <1>16, <1>2
     DEF AttachReturns, Receives, Caller, RefreshReturns, AskReturns,
         MoveServoReturns
<1>17. ASSUME NEW m \in Motors, BoardStops(m)
       PROVE  RunningInv'
  BY <1>17, <1>2
     DEF BoardStops
<1>18. CASE \/ RefreshDigitalPins \/ Close \/ SendAgain \/ EncodedSleeps
            \/ CloseReturns \/ BoardExecutes \/ BoardStarts \/ BoardFinishes
  BY <1>18, <1>2
     DEF RefreshDigitalPins, Calls, Sends, Close, SendAgain, EncodedSleeps,
         CloseReturns, BoardExecutes, BoardStarts, BoardFinishes
<1>19. CASE UNCHANGED vars
  BY <1>19, <1>2
     DEF vars
<1>20. QED
  BY Zenon, <1>5, <1>6, <1>7, <1>8, <1>9, <1>10, <1>11, <1>12, <1>13, <1>14,
     <1>15, <1>16, <1>17, <1>18, <1>19
     DEF Next, ProgramCalls, CallContinues, Board

-----------------------------------------------------------------------------
(* As long as no reply was late: the line.                                  *)

\* Between two calls the line is empty; during one it holds the command or the
\* whole of its reply.
LineInv ==
    /\ pc \in {"idle", "settle", "closing", "closed"} => toBoard = <<>> /\ toHost = <<>>
    /\ pc = "sleep" => \/ toBoard = <<req>> /\ toHost = <<>>
                       \/ toBoard = <<>> /\ toHost = Reply(req)
    /\ pc = "loop" => \/ toBoard = <<req>> /\ toHost = <<>> /\ response = <<>>
                      \/ toBoard = <<>> /\ response \o toHost = Echo(req)

LEMMA PunctualBefore ==
  ASSUME Types, [Next]_vars, Punctual'
  PROVE  Punctual
<1>1. late \in Nat /\ late' = 0
  BY RetriesAssumption DEF Types, CountTypes, Punctual
<1>2. ASSUME late' = late PROVE Punctual
  BY <1>1, <1>2 DEF Punctual
<1>3. ASSUME NEW d \in Devices, NEW p \in Pins, AttachDevice(d, p)
      PROVE  Punctual
  BY <1>3, <1>1
     DEF AttachDevice, Calls, Sends, Punctual
<1>4. CASE RefreshDigitalPins
  BY <1>4, <1>1
     DEF RefreshDigitalPins, Calls, Sends, Punctual
<1>5. ASSUME NEW op \in {"ping", "ticks"}, NEW x \in IF op = "ping" THEN Pins ELSE Encoded, Ask(op, x)
      PROVE  Punctual
  BY <1>5, <1>1
     DEF Ask, Calls, Sends, Punctual
<1>6. ASSUME NEW s \in Servos, MoveServo(s)
      PROVE  Punctual
  BY <1>6, <1>1
     DEF MoveServo, Calls, Sends, Punctual
<1>7. ASSUME NEW runs \in RunArguments, NEW time \in {"timed", "forever"}, RunMotor(runs, time)
      PROVE  Punctual
  BY <1>7, <1>1
     DEF RunMotor, Calls, Sends, Punctual
<1>8. ASSUME NEW runs \in RunArguments, RunEncodedMotor(runs)
      PROVE  Punctual
  BY <1>8, <1>1
     DEF RunEncodedMotor, Calls, Sends, Punctual
<1>9. ASSUME NEW d \in Devices, CloseResets(d)
      PROVE  Punctual
  BY <1>9, <1>1
     DEF CloseResets, Sends, Punctual
<1>10. CASE SendAgain
  BY <1>10, <1>1
     DEF SendAgain, Punctual
<1>11. ASSUME NEW n \in 0 .. Len(toHost),
              \/ AttachReturns(n) \/ RefreshReturns(n) \/ AskReturns(n)
              \/ MoveServoReturns(n) \/ RunAnswers(n)
       PROVE  Punctual
  BY <1>11, <1>1
     DEF AttachReturns, Receives, Caller, RefreshReturns, AskReturns,
         MoveServoReturns, RunAnswers, Punctual
<1>12. ASSUME NEW p \in Pins, GetDigitalPin(p)
       PROVE  Punctual
  BY <1>12, <1>2
     DEF GetDigitalPin
<1>13. ASSUME NEW runs \in RunArguments, RunIsRefused(runs)
       PROVE  Punctual
  BY <1>13, <1>2
     DEF RunIsRefused
<1>14. ASSUME NEW n \in 0 .. Len(toHost), EncodedReads(n)
       PROVE  Punctual
  BY <1>14, <1>2
     DEF EncodedReads, Caller
<1>15. ASSUME NEW m \in Motors, BoardStops(m)
       PROVE  Punctual
  BY <1>15, <1>2
     DEF BoardStops
<1>16. CASE \/ Close \/ RunReturns \/ EncodedSleeps \/ CloseReturns
            \/ BoardExecutes \/ BoardStarts \/ BoardFinishes
  BY <1>16, <1>2
     DEF Close, RunReturns, EncodedSleeps, CloseReturns, BoardExecutes,
         BoardStarts, BoardFinishes
<1>17. CASE UNCHANGED vars
  BY <1>17, <1>2
     DEF vars
<1>18. QED
  BY Zenon, <1>3, <1>4, <1>5, <1>6, <1>7, <1>8, <1>9, <1>10, <1>11, <1>12,
     <1>13, <1>14, <1>15, <1>16, <1>17
     DEF Next, ProgramCalls, CallContinues, Board

\* A miscount is not forgotten.
LEMMA CountsStay ==
  ASSUME Types, [Next]_vars, miscounted
  PROVE  miscounted'
<1>1. ASSUME NEW d \in Devices, NEW p \in Pins, AttachDevice(d, p)
      PROVE  miscounted'
  BY <1>1
     DEF AttachDevice, Calls, Sends
<1>2. CASE RefreshDigitalPins
  BY <1>2
     DEF RefreshDigitalPins, Calls, Sends
<1>3. ASSUME NEW op \in {"ping", "ticks"}, NEW x \in IF op = "ping" THEN Pins ELSE Encoded, Ask(op, x)
      PROVE  miscounted'
  BY <1>3
     DEF Ask, Calls, Sends
<1>4. ASSUME NEW s \in Servos, MoveServo(s)
      PROVE  miscounted'
  BY <1>4
     DEF MoveServo, Calls, Sends
<1>5. ASSUME NEW runs \in RunArguments, NEW time \in {"timed", "forever"}, RunMotor(runs, time)
      PROVE  miscounted'
  BY <1>5
     DEF RunMotor, Calls, Sends
<1>6. ASSUME NEW runs \in RunArguments, RunEncodedMotor(runs)
      PROVE  miscounted'
  BY <1>6
     DEF RunEncodedMotor, Calls, Sends
<1>7. ASSUME NEW d \in Devices, CloseResets(d)
      PROVE  miscounted'
  BY <1>7
     DEF CloseResets, Sends
<1>8. CASE SendAgain
  BY <1>8
     DEF SendAgain
<1>9. ASSUME NEW runs \in RunArguments, RunIsRefused(runs)
      PROVE  miscounted'
  BY <1>9
     DEF RunIsRefused
<1>10. ASSUME NEW n \in 0 .. Len(toHost),
              \/ AttachReturns(n) \/ RefreshReturns(n) \/ AskReturns(n)
              \/ MoveServoReturns(n) \/ RunAnswers(n)
       PROVE  miscounted'
  BY <1>10
     DEF AttachReturns, Receives, Caller, RefreshReturns, AskReturns,
         MoveServoReturns, RunAnswers
<1>11. ASSUME NEW p \in Pins, GetDigitalPin(p)
       PROVE  miscounted'
  BY <1>11
     DEF GetDigitalPin
<1>12. ASSUME NEW n \in 0 .. Len(toHost), EncodedReads(n)
       PROVE  miscounted'
  BY <1>12
     DEF EncodedReads, Caller
<1>13. ASSUME NEW m \in Motors, BoardStops(m)
       PROVE  miscounted'
  BY <1>13
     DEF BoardStops
<1>14. CASE \/ Close \/ RunReturns \/ EncodedSleeps \/ CloseReturns
            \/ BoardExecutes \/ BoardStarts \/ BoardFinishes
  BY <1>14
     DEF Close, RunReturns, EncodedSleeps, CloseReturns, BoardExecutes,
         BoardStarts, BoardFinishes
<1>15. CASE UNCHANGED vars
  BY <1>15
     DEF vars
<1>16. QED
  BY Zenon, <1>1, <1>2, <1>3, <1>4, <1>5, <1>6, <1>7, <1>8, <1>9, <1>10,
     <1>11, <1>12, <1>13, <1>14, <1>15
     DEF Next, ProgramCalls, CallContinues, Board

\* A call that returns has read the whole of its reply.
LEMMA PunctualReads ==
  ASSUME Types, LineInv, Punctual', NEW n \in 0 .. Len(toHost), Receives(n)
  PROVE  /\ pc = "sleep" /\ req \in Commands /\ toBoard = <<>> /\ toBoard' = <<>>
         /\ toHost' = <<>> /\ n = Len(Reply(req)) /\ n > 0 /\ Arrived(n) = Reply(req)
         /\ UNCHANGED <<response, boardPin, boardRun, callNo, refreshed, closing, miscounted>>
<1>1. /\ toHost \in Seq(Tokens(callNo)) /\ Len(toHost) \in Nat /\ late \in Nat /\ callNo \in Nat
      /\ pc = "sleep" /\ req \in Commands
  BY LenProperties, RetriesAssumption DEF Types, LineTypes, CountTypes, CallTypes, Receives
<1>2. /\ toHost' = SubSeq(toHost, n + 1, Len(toHost))
      /\ late' = (IF toBoard # <<>> \/ n # Len(toHost) THEN late + 1 ELSE late)
      /\ UNCHANGED <<toBoard, response, boardPin, boardRun, callNo, refreshed, closing, miscounted>>
  BY DEF Receives
<1>3. toBoard = <<>> /\ n = Len(toHost)
  BY <1>1, <1>2 DEF Punctual
<1>4. toHost = Reply(req) /\ Len(Reply(req)) > 0
  BY <1>1, <1>3, ReplyIs DEF LineInv
<1>5. Arrived(n) = toHost /\ toHost' = <<>>
  BY <1>1, <1>2, <1>3, Reads DEF Arrived
<1>6. QED
  BY <1>1, <1>2, <1>3, <1>4, <1>5

\* The one command on the line is that of the call.
LEMMA OnLine ==
  ASSUME Types, LineInv, toBoard # <<>>
  PROVE  /\ pc \in {"sleep", "loop"} /\ toBoard = <<req>> /\ toHost = <<>> /\ req \in Commands
         /\ Head(toBoard) = req /\ Tail(toBoard) = <<>> /\ response = <<>>
         /\ pc = "loop" => req.op = "encoded"
<1>1. LineInv /\ CallTypes /\ LineTypes
  BY DEF Types
<1>2. pc \in {"sleep", "loop"}
  BY <1>1 DEF LineInv, CallTypes
<1>3. toBoard = <<req>> /\ toHost = <<>> /\ response = <<>>
  BY <1>1, <1>2 DEF LineInv, LineTypes
<1>4. QED
  BY <1>1, <1>2, <1>3 DEF CallTypes

LEMMA LineStep ==
  ASSUME Types, LineInv, [Next]_vars, Punctual'
  PROVE  LineInv'
<1>1. /\ LineInv /\ CallTypes /\ LineTypes /\ callNo \in Nat
      /\ toHost \in Seq(Tokens(callNo)) /\ response \in Seq(Tokens(callNo))
  BY DEF Types, LineTypes, CallTypes
<1>2. ASSUME pc' \in {"idle", "settle", "closing", "closed"}, toBoard' = <<>>, toHost' = <<>>
      PROVE  LineInv'
  BY <1>2 DEF LineInv
<1>3. ASSUME UNCHANGED <<pc, req, response, toBoard, toHost, boardPin, callNo>>
      PROVE  LineInv'
  <2>1. Reply(req)' = Reply(req) /\ Echo(req)' = Echo(req)
    BY <1>3 DEF Reply, BoardFree, Echo
  <2>2. QED
    BY <1>1, <1>3, <2>1 DEF LineInv
<1>4. ASSUME NEW c \in Commands, Sends(c), pc \in {"idle", "closing"} PROVE LineInv'
  <2>1. toBoard = <<>> /\ toHost = <<>>
    BY <1>1, <1>4 DEF LineInv
  <2>2. pc' = "sleep" /\ toBoard' = <<req'>> /\ toHost' = <<>>
    BY <1>4, <2>1 DEF Sends
  <2>3. QED
    BY <2>2 DEF LineInv
<1>5. toBoard # <<>> =>
        /\ pc \in {"sleep", "loop"} /\ toBoard = <<req>> /\ toHost = <<>> /\ req \in Commands
        /\ Head(toBoard) = req /\ Tail(toBoard) = <<>> /\ response = <<>>
  BY OnLine
<1>6. \A q \in Seq(Tokens(callNo)) : <<>> \o q = q
  BY ConcatEmptySeq
<1>7. ASSUME NEW d \in Devices, NEW p \in Pins, AttachDevice(d, p)
      PROVE  LineInv'
  BY <1>7, <1>4, CommandsAre, <1>3
     DEF AttachDevice, Calls
<1>8. CASE RefreshDigitalPins
  BY <1>8, <1>4, CommandsAre, <1>3
     DEF RefreshDigitalPins, Calls
<1>9. ASSUME NEW op \in {"ping", "ticks"}, NEW x \in IF op = "ping" THEN Pins ELSE Encoded, Ask(op, x)
      PROVE  LineInv'

  <2>1. Command(op, x, Nothing, <<>>, "none") \in Commands
    BY CommandsAre
  <2>2. QED
    BY <1>9, <1>4, <2>1 DEF Ask, Calls
<1>10. ASSUME NEW s \in Servos, MoveServo(s)
       PROVE  LineInv'
  BY <1>10, <1>4, CommandsAre, <1>3
     DEF MoveServo, Calls
<1>11. ASSUME NEW runs \in RunArguments, NEW time \in {"timed", "forever"}, RunMotor(runs, time)
       PROVE  LineInv'
  BY <1>11, <1>4, CommandsAre, RunsAssumption, <1>3
     DEF RunMotor, Calls
<1>12. ASSUME NEW runs \in RunArguments, RunEncodedMotor(runs)
       PROVE  LineInv'
  BY <1>12, <1>4, CommandsAre, RunsAssumption, <1>3
     DEF RunEncodedMotor, Calls
<1>13. ASSUME NEW d \in Devices, CloseResets(d)
       PROVE  LineInv'

  <2>1. PICK c \in Commands : Sends(c)
    BY <1>13, CommandsAre, RunOfZero DEF CloseResets, Devices
  <2>2. QED
    BY <1>13, <1>4, <2>1 DEF CloseResets
<1>14. ASSUME NEW p \in Pins, GetDigitalPin(p)
       PROVE  LineInv'
  BY <1>14, <1>1, <1>2, <1>3
     DEF GetDigitalPin, LineInv
<1>15. ASSUME NEW runs \in RunArguments, RunIsRefused(runs)
       PROVE  LineInv'
  BY <1>15, <1>1, <1>2, <1>3
     DEF RunIsRefused, LineInv
<1>16. CASE \/ Close \/ CloseReturns
  BY <1>16, <1>1, <1>2, <1>3
     DEF Close, CloseReturns, LineInv
<1>17. CASE SendAgain

  <2>1. late \in Nat /\ late' = late + 1 /\ late' = 0
    BY <1>17, RetriesAssumption DEF SendAgain, Punctual, Types, CountTypes
  <2>2. QED
    BY <2>1
<1>18. ASSUME NEW n \in 0 .. Len(toHost),
              \/ AttachReturns(n) \/ RefreshReturns(n) \/ AskReturns(n)
              \/ MoveServoReturns(n) \/ RunAnswers(n)
       PROVE  LineInv'

  <2>1. Receives(n) /\ pc' \in {"idle", "settle", "closing"}
    BY <1>18 DEF AttachReturns, RefreshReturns, AskReturns, MoveServoReturns, RunAnswers, Caller
  <2>2. toBoard' = <<>> /\ toHost' = <<>>
    BY <1>1, <2>1, PunctualReads
  <2>3. QED
    BY <1>2, <2>1, <2>2
<1>19. CASE RunReturns
  BY <1>19, <1>1, <1>2, <1>3
     DEF RunReturns, LineInv, Caller
<1>20. CASE EncodedSleeps

  <2>1. /\ pc = "sleep" /\ req.op = "encoded" /\ pc' = "loop" /\ req \in Commands
        /\ UNCHANGED <<req, toBoard, toHost, response>> /\ response = <<>>
    BY <1>20, <1>1 DEF EncodedSleeps, CallTypes, LineTypes
  <2>2. Reply(req) = Echo(req) /\ Echo(req)' = Echo(req)
    BY <1>1, <2>1, ReplyIs DEF Echo
  <2>3. response \o toHost = toHost
    BY <1>1, <1>6, <2>1
  <2>4. QED
    BY <1>1, <2>1, <2>2, <2>3 DEF LineInv
<1>21. ASSUME NEW n \in 0 .. Len(toHost), EncodedReads(n)
       PROVE  LineInv'

  <2> DEFINE a == Arrived(n)
             b == SubSeq(toHost, n + 1, Len(toHost))
  <2>1. /\ pc = "loop" /\ n \in 1 .. Len(toHost) /\ toHost' = b /\ toBoard' = toBoard
        /\ IF response \o a = Echo(req)
           THEN pc' \in {"idle", "closing"}
           ELSE response' = response \o a /\ UNCHANGED <<pc, req>>
    BY <1>21 DEF EncodedReads, Caller
  <2>2. /\ a \in Seq(Tokens(callNo)) /\ Len(a) = n /\ b \in Seq(Tokens(callNo))
        /\ n = Len(toHost) => b = <<>>
        /\ a \o b = toHost /\ Len(toHost) \in Nat
    <3>1. Len(toHost) \in Nat /\ toHost \in Seq(Tokens(callNo)) /\ a = SubSeq(toHost, 1, n)
      BY <1>1, LenProperties DEF Arrived
    <3> HIDE DEF a
    <3>2. a \in Seq(Tokens(callNo)) /\ Len(a) = n /\ b \in Seq(Tokens(callNo))
      BY <3>1, Reads
    <3>3. n = Len(toHost) => b = <<>>
      BY <3>1, Reads
    <3>4. SubSeq(toHost, 1, n) \o b = toHost
      BY <3>1, Reads, Zenon
    <3>5. QED
      BY <3>1, <3>2, <3>3, <3>4
  <2>3. toHost # <<>>
    BY <2>1
  <2>4. toBoard = <<>> /\ response \o toHost = Echo(req)
    BY <1>1, <2>1, <2>3 DEF LineInv
  <2> HIDE DEF a, b
  <2>5. CASE response \o a = Echo(req)
    <3>1. Len(response \o a) = Len(response) + n /\ Len(response \o toHost) = Len(response) + Len(toHost)
      BY <1>1, <2>2, ConcatProperties
    <3>2. n = Len(toHost)
      BY <1>1, <2>2, <2>4, <2>5, <3>1, LenProperties
    <3>3. QED
      BY <1>2, <2>1, <2>2, <2>4, <2>5, <3>2
  <2>6. CASE response \o a # Echo(req)
    <3>1. (response \o a) \o b = response \o (a \o b)
      <4> DEFINE T == Tokens(callNo)
                 r == response
      <4>1. r \in Seq(T) /\ a \in Seq(T) /\ b \in Seq(T)
        BY <1>1, <2>2
      <4> HIDE DEF T, r
      <4>2. (r \o a) \o b = r \o (a \o b)
        BY <4>1, ConcatAssociative
      <4>3. QED
        BY <4>2 DEF r
    <3>2. Echo(req)' = Echo(req)
      BY <2>1, <2>6 DEF Echo
    <3>3. QED
      BY <2>1, <2>2, <2>4, <2>6, <3>1, <3>2 DEF LineInv
  <2>7. QED
    BY <2>5, <2>6
<1>22. CASE BoardExecutes

  <2>1. /\ toBoard # <<>> /\ req.op # "encoded" /\ pc = "sleep" /\ req \in Commands
        /\ toHost' = <<>> \o Reply(req) /\ toBoard' = <<>> /\ boardPin' = BoardBinds(req)
        /\ UNCHANGED <<pc, req, callNo>>
    BY <1>22, <1>1, <1>5 DEF BoardExecutes, CallTypes
  <2>2. toHost' = Reply(req)
    BY <1>1, <1>6, <2>1, ReplyIs
  <2>3. Reply(req)' = Reply(req)
    <3>1. CASE req.op = "attach"
      BY <2>1, <3>1 DEF Reply, Echo
    <3>2. CASE req.op # "attach"
      <4>1. boardPin' = boardPin
        BY <2>1, <3>2 DEF BoardBinds
      <4>2. QED
        BY <2>1, <4>1 DEF Reply, BoardFree, Echo
    <3>3. QED
      BY <3>1, <3>2
  <2>4. QED
    BY <2>1, <2>2, <2>3 DEF LineInv
<1>23. CASE BoardFinishes

  <2>1. /\ toBoard # <<>> /\ req.op = "encoded" /\ pc \in {"sleep", "loop"} /\ req \in Commands
        /\ toHost' = <<>> \o Echo(req) /\ toBoard' = <<>> /\ response = <<>>
        /\ UNCHANGED <<pc, req, callNo, boardPin, response>>
    BY <1>23, <1>5 DEF BoardFinishes
  <2>2. Echo(req) \in Seq(Tokens(callNo)) /\ Reply(req) = Echo(req)
    BY <1>1, <2>1, ReplyIs
  <2>3. toHost' = Echo(req) /\ response' \o toHost' = Echo(req)
    BY <1>6, <2>1, <2>2
  <2>4. Reply(req)' = Reply(req) /\ Echo(req)' = Echo(req)
    BY <2>1 DEF Reply, BoardFree, Echo
  <2>5. QED
    BY <2>1, <2>2, <2>3, <2>4 DEF LineInv
<1>24. ASSUME NEW m \in Motors, BoardStops(m)
       PROVE  LineInv'
  BY <1>24, <1>3
     DEF BoardStops
<1>25. CASE BoardStarts
  BY <1>25, <1>3
     DEF BoardStarts
<1>26. CASE UNCHANGED vars
  BY <1>26, <1>3
     DEF vars
<1>27. QED
  BY Zenon, <1>7, <1>8, <1>9, <1>10, <1>11, <1>12, <1>13, <1>14, <1>15, <1>16,
     <1>17, <1>18, <1>19, <1>20, <1>21, <1>22, <1>23, <1>24, <1>25, <1>26
     DEF Next, ProgramCalls, CallContinues, Board

-----------------------------------------------------------------------------
(* As long as no reply was late: the pins.                                  *)

\* An attach that the Arduino has executed and the program has not seen.
Bound == pc = "sleep" /\ req.op = "attach" /\ toBoard = <<>>
BoundPlaces == IF Bound THEN {i \in DOMAIN PinList : PinList[i] = req.pin} ELSE {}

\* The pins the program takes for free are those nothing is bound to, and the
\* one that an attach under way has bound.
PinsInv ==
    /\ available = InOrder(Free \cup BoundPlaces)
    /\ \A d \in Devices \ attached :
           boardPin[d] = IF Bound /\ d = req.what THEN req.pin ELSE Nothing
    /\ pc = "sleep" /\ req.op = "attach" =>
           req.what \notin attached /\ req.pin \in Range(available)

\* The place of a pin.
LEMMA PlaceOf ==
  ASSUME NEW p \in Pins
  PROVE  \E k \in DOMAIN PinList : {i \in DOMAIN PinList : PinList[i] = p} = {k} /\ PinList[k] = p
<1>1. PICK k \in DOMAIN PinList : PinList[k] = p
  BY DEF Pins, Range
<1>2. QED
  BY <1>1, Places

LEMMA PinsInit == Init => PinsInv
<1> SUFFICES ASSUME Init PROVE PinsInv
  OBVIOUS
<1>1. ~Bound /\ BoundPlaces = {} /\ pc = "idle"
  BY DEF Init, Bound, BoundPlaces
<1>2. Free = DOMAIN PinList
  BY Places, PinsAssumption DEF Init, Free
<1>3. InOrder(DOMAIN PinList) = PinList
  <2> DEFINE D == DOMAIN PinList
             f == InOrder(D)
  <2>1. D = 1 .. Len(PinList) /\ Len(PinList) \in Nat
    BY PinsAssumption, LenProperties
  <2>2. D \in SUBSET Nat /\ IsFiniteSet(D) /\ Cardinality(D) = Len(PinList)
    <3>1. \A n \in Nat : Cardinality(1 .. n) = n
      BY FS_Interval
    <3>2. QED
      BY <2>1, <3>1, Places
  <2>3. ASSUME NEW i \in D PROVE Rank(D, i) = i
    <3>1. {j \in D : j <= i} = 1 .. i /\ i \in Nat
      BY <2>1
    <3>2. Cardinality(1 .. i) = i
      BY <3>1, FS_Interval
    <3>3. QED
      BY <3>1, <3>2 DEF Rank
  <2>4. f \in Seq(Pins) /\ Len(f) = Len(PinList)
    BY <2>2, Ordered
  <2>5. ASSUME NEW i \in 1 .. Len(f) PROVE f[i] = PinList[i]
    BY <2>1, <2>3, <2>4, Ordered
  <2> HIDE DEF f
  <2>6. f = PinList
    BY <2>4, <2>5, PinsAssumption, SeqEqual
  <2>7. QED
    BY <2>6 DEF f
<1>4. available = InOrder(Free \cup BoundPlaces)
  BY <1>1, <1>2, <1>3 DEF Init
<1>5. \A d \in Devices \ attached : boardPin[d] = Nothing
  BY DEF Init
<1>6. QED
  BY <1>1, <1>4, <1>5 DEF PinsInv

LEMMA PinsStep ==
  ASSUME Types, LineInv, PinsInv, [Next]_vars, Punctual'
  PROVE  PinsInv'
<1>1. /\ PinsInv /\ CallTypes /\ LineTypes /\ BoardTypes /\ LineInv
  BY DEF Types
<1>2. ASSUME UNCHANGED <<available, attached, boardPin, pc, req, toBoard>> PROVE PinsInv'
  BY <1>1, <1>2 DEF PinsInv, Free, Bound, BoundPlaces, InOrder
\* No attach is under way, before or after.
<1>3. ASSUME UNCHANGED <<available, attached, boardPin>>, ~Bound,
             ~(pc' = "sleep" /\ req'.op = "attach")
      PROVE  PinsInv'
  <2>1. Free' = Free /\ BoundPlaces = {} /\ BoundPlaces' = {} /\ ~Bound'
    BY <1>3 DEF Free, Bound, BoundPlaces
  <2>2. QED
    BY <1>1, <1>3, <2>1 DEF PinsInv, InOrder
<1>4. ASSUME pc \in {"idle", "closing", "settle", "loop", "closed"} \/ req.op # "attach" PROVE ~Bound
  BY <1>4 DEF Bound
<1>5. toBoard # <<>> =>
        /\ pc \in {"sleep", "loop"} /\ toBoard = <<req>> /\ req \in Commands
        /\ Head(toBoard) = req /\ Tail(toBoard) = <<>>
        /\ pc = "loop" => req.op = "encoded"
  BY OnLine
<1>6. ASSUME NEW d \in Devices, NEW p \in Pins, AttachDevice(d, p)
      PROVE  PinsInv'

  <2>1. /\ pc = "idle" /\ d \notin attached /\ p \in Range(available)
        /\ UNCHANGED <<available, attached, boardPin>>
        /\ req' = Command("attach", d, p, <<>>, "none")
        /\ toBoard' = Append(toBoard, Command("attach", d, p, <<>>, "none"))
    BY <1>6 DEF AttachDevice, Calls, Sends
  <2>2. req'.what = d /\ req'.pin = p
    BY <2>1 DEF Command
  <2>3. toBoard' # <<>>
    BY <1>1, <2>1, CommandsAre, AppendProperties DEF LineTypes
  <2>4. ~Bound /\ ~Bound'
    BY <2>1, <2>3 DEF Bound
  <2>5. Free' = Free /\ BoundPlaces = {} /\ BoundPlaces' = {}
    BY <2>1, <2>4 DEF Free, BoundPlaces
  <2>6. QED
    BY <1>1, <2>1, <2>2, <2>4, <2>5 DEF PinsInv, InOrder
<1>7. CASE RefreshDigitalPins
  BY <1>7, <1>3, <1>4, CommandsAre, <1>2
     DEF RefreshDigitalPins, Calls, Sends
<1>8. ASSUME NEW op \in {"ping", "ticks"}, NEW x \in IF op = "ping" THEN Pins ELSE Encoded, Ask(op, x)
      PROVE  PinsInv'
  BY <1>8, <1>3, <1>4, CommandsAre, <1>2
     DEF Ask, Calls, Sends
<1>9. ASSUME NEW s \in Servos, MoveServo(s)
      PROVE  PinsInv'
  BY <1>9, <1>3, <1>4, CommandsAre, <1>2
     DEF MoveServo, Calls, Sends
<1>10. ASSUME NEW runs \in RunArguments, NEW time \in {"timed", "forever"}, RunMotor(runs, time)
       PROVE  PinsInv'
  BY <1>10, <1>3, <1>4, CommandsAre, <1>2
     DEF RunMotor, Calls, Sends
<1>11. ASSUME NEW runs \in RunArguments, RunEncodedMotor(runs)
       PROVE  PinsInv'
  BY <1>11, <1>3, <1>4, CommandsAre, <1>2
     DEF RunEncodedMotor, Calls, Sends
<1>12. ASSUME NEW d \in Devices, CloseResets(d)
       PROVE  PinsInv'

  <2>1. /\ pc = "closing" /\ UNCHANGED <<available, attached, boardPin>>
        /\ req'.op \in {"servo", "run"}
    BY <1>12, CommandsAre DEF CloseResets, Sends
  <2>2. QED
    BY <1>3, <1>4, <2>1
<1>13. ASSUME NEW p \in Pins, GetDigitalPin(p)
       PROVE  PinsInv'
  BY <1>13, <1>3, <1>4, <1>2
     DEF GetDigitalPin
<1>14. ASSUME NEW runs \in RunArguments, RunIsRefused(runs)
       PROVE  PinsInv'
  BY <1>14, <1>3, <1>4, <1>2
     DEF RunIsRefused
<1>15. CASE \/ Close \/ CloseReturns
  BY <1>15, <1>3, <1>4, <1>2
     DEF Close, CloseReturns
<1>16. CASE SendAgain

  <2>1. late \in Nat /\ late' = late + 1 /\ late' = 0
    BY <1>16, RetriesAssumption DEF SendAgain, Punctual, Types, CountTypes
  <2>2. QED
    BY <2>1
<1>17. ASSUME NEW n \in 0 .. Len(toHost), AttachReturns(n)
       PROVE  PinsInv'

  <2>1. /\ req.op = "attach" /\ pc' \in {"idle", "closing"} /\ Receives(n)
        /\ IF Arrived(n) = Echo(req)
           THEN /\ attached' = attached \cup {req.what}
                /\ available' = RemoveFirst(available, req.pin)
           ELSE UNCHANGED <<attached, available>>
    BY <1>17 DEF AttachReturns, Caller
  <2>2. /\ pc = "sleep" /\ req \in Commands /\ toBoard = <<>>
        /\ Arrived(n) = Reply(req) /\ boardPin' = boardPin
    BY <2>1, PunctualReads
  <2>3. Arrived(n) = Echo(req) /\ req.pin \in Pins /\ req.what \in Devices
    BY <1>1, <2>1, <2>2, ReplyIs, CommandIs DEF CallTypes
  <2>4. PICK k \in DOMAIN PinList : /\ {i \in DOMAIN PinList : PinList[i] = req.pin} = {k}
                                    /\ PinList[k] = req.pin
    BY <2>3, PlaceOf
  <2>5. Bound /\ BoundPlaces = {k} /\ ~Bound' /\ BoundPlaces' = {} /\ Free' = Free
    BY <2>1, <2>2, <2>4 DEF Bound, BoundPlaces, Free
  <2>6. req.what \notin attached /\ boardPin[req.what] = req.pin
    BY <1>1, <2>1, <2>2, <2>3, <2>5 DEF PinsInv
  <2>7. k \notin Free /\ Free \cup {k} \in SUBSET DOMAIN PinList
    BY <2>3, <2>4, <2>6 DEF Free
  <2>8. RemoveFirst(InOrder(Free \cup {k}), PinList[k]) = InOrder((Free \cup {k}) \ {k})
    BY <2>7, RemovesPlace
  <2>9. (Free \cup {k}) \ {k} = Free /\ Free \cup {} = Free
    BY <2>7
  <2>10. available' = InOrder(Free)
    BY <1>1, <2>1, <2>3, <2>4, <2>5, <2>8, <2>9 DEF PinsInv
  <2>11. available' = InOrder(Free' \cup BoundPlaces')
    BY <2>5, <2>9, <2>10
  <2>12. \A e \in Devices \ attached' : boardPin'[e] = Nothing
    BY <1>1, <2>1, <2>2, <2>3 DEF PinsInv
  <2>13. QED
    BY <2>1, <2>5, <2>11, <2>12 DEF PinsInv, InOrder
<1>18. ASSUME NEW n \in 0 .. Len(toHost),
              \/ RefreshReturns(n) \/ AskReturns(n) \/ MoveServoReturns(n)
              \/ RunAnswers(n)
       PROVE  PinsInv'

  <2>1. /\ req.op # "attach" /\ pc' # "sleep" /\ Receives(n)
        /\ UNCHANGED <<available, attached, boardPin>>
    BY <1>18 DEF RefreshReturns, AskReturns, MoveServoReturns, RunAnswers, Receives, Caller
  <2>2. QED
    BY <1>3, <1>4, <2>1
<1>19. CASE \/ RunReturns \/ EncodedSleeps
  BY <1>19, <1>3, <1>4, <1>2
     DEF RunReturns, EncodedSleeps, Caller
<1>20. ASSUME NEW n \in 0 .. Len(toHost), EncodedReads(n)
       PROVE  PinsInv'

  <2>1. pc = "loop" /\ pc' # "sleep" /\ UNCHANGED <<available, attached, boardPin>>
    BY <1>20 DEF EncodedReads, Caller
  <2>2. QED
    BY <1>3, <1>4, <2>1
<1>21. CASE BoardExecutes

  <2>1. /\ toBoard # <<>> /\ toBoard' = <<>> /\ req \in Commands /\ pc = "sleep"
        /\ boardPin' = BoardBinds(req) /\ UNCHANGED <<pc, req, available, attached>>
    BY <1>21, <1>5 DEF BoardExecutes
  <2>2. CASE req.op # "attach"
    BY <1>3, <1>4, <2>1, <2>2, BindsOnly DEF BoardBinds
  <2>3. CASE req.op = "attach"
    <3>1. /\ req.pin \in Pins /\ req.what \in Devices \ attached /\ req.pin \in Range(available)
          /\ ~Bound /\ BoundPlaces = {}
      BY <1>1, <2>1, <2>3, CommandIs DEF PinsInv, Bound, BoundPlaces
    <3>2. PICK k \in DOMAIN PinList : /\ {i \in DOMAIN PinList : PinList[i] = req.pin} = {k}
                                      /\ PinList[k] = req.pin
      BY <3>1, PlaceOf
    <3>3. Bound' /\ BoundPlaces' = {k}
      BY <2>1, <2>3, <3>2 DEF Bound, BoundPlaces
    <3>4. Free \cup {} = Free /\ Free \in SUBSET DOMAIN PinList
      BY DEF Free
    <3>5. available = InOrder(Free)
      BY <1>1, <3>1, <3>4 DEF PinsInv
    <3>6. k \in Free
      <4>1. req.pin \in {PinList[i] : i \in Free}
        BY <3>1, <3>4, <3>5, Ordered
      <4>2. QED
        BY <3>2, <4>1, Places DEF Free
    <3>7. /\ boardPin[req.what] = Nothing /\ \A i \in DOMAIN PinList : PinList[i] # Nothing
          /\ boardPin' = [boardPin EXCEPT ![req.what] = req.pin]
          /\ \A e \in Devices : boardPin'[e] = IF e = req.what THEN req.pin ELSE boardPin[e]
      <4>1. boardPin' = [boardPin EXCEPT ![req.what] = req.pin]
        BY <2>1, <2>3 DEF BoardBinds
      <4>2. boardPin[req.what] = Nothing
        BY <1>1, <3>1 DEF PinsInv
      <4>3. \A i \in DOMAIN PinList : PinList[i] # Nothing
        BY Places, PinsAssumption
      <4>4. QED
        BY <1>1, <3>1, <4>1, <4>2, <4>3 DEF BoardTypes
    <3>8. Free' = Free \ {k}
      <4>1. ASSUME NEW i \in DOMAIN PinList
            PROVE  (\A e \in Devices : boardPin'[e] # PinList[i]) <=>
                   ((\A e \in Devices : boardPin[e] # PinList[i]) /\ i # k)
        <5>1. PinList[i] = req.pin <=> i = k
          BY <3>2
        <5>2. QED
          BY <3>1, <3>7, <5>1
      <4>2. QED
        BY <4>1 DEF Free
    <3>9. Free' \cup BoundPlaces' = Free
      BY <3>3, <3>6, <3>8
    <3>10. \A e \in Devices \ attached' :
              boardPin'[e] = IF e = req'.what THEN req'.pin ELSE Nothing
      BY <1>1, <2>1, <3>1, <3>7 DEF PinsInv
    <3>11. available' = InOrder(Free' \cup BoundPlaces')
      BY <2>1, <3>5, <3>9
    <3>12. QED
      BY <2>1, <3>1, <3>3, <3>10, <3>11 DEF PinsInv, InOrder
  <2>4. QED
    BY <2>2, <2>3
<1>22. CASE BoardFinishes

  <2>1. req.op = "encoded" /\ UNCHANGED <<pc, req, available, attached, boardPin>>
    BY <1>22, <1>5 DEF BoardFinishes
  <2>2. QED
    BY <1>3, <1>4, <2>1
<1>23. ASSUME NEW m \in Motors, BoardStops(m)
       PROVE  PinsInv'
  BY <1>23, <1>2
     DEF BoardStops
<1>24. CASE BoardStarts
  BY <1>24, <1>2
     DEF BoardStarts
<1>25. CASE UNCHANGED vars
  BY <1>25, <1>2
     DEF vars
<1>26. QED
  BY Zenon, <1>6, <1>7, <1>8, <1>9, <1>10, <1>11, <1>12, <1>13, <1>14, <1>15,
     <1>16, <1>17, <1>18, <1>19, <1>20, <1>21, <1>22, <1>23, <1>24, <1>25
     DEF Next, ProgramCalls, CallContinues, Board

-----------------------------------------------------------------------------
(* As long as no reply was late: the values.                                *)

\* The cache is that of the last refresh, and a refresh under way reads the pins
\* the program takes for free.
CacheInv ==
    IF pc = "sleep" /\ req.op = "read"
    THEN refreshed = [no |-> callNo, pins |-> available]
    ELSE cache = [i \in DOMAIN refreshed.pins |->
                     Measured(refreshed.pins[i], refreshed.no)]

LEMMA SameInterval == \A a, b \in Nat : 1 .. a = 1 .. b => a = b
<1>1. SUFFICES ASSUME NEW a \in Nat, NEW b \in Nat, 1 .. a = 1 .. b, a # b
               PROVE  FALSE
  OBVIOUS
<1>2. CASE a < b
  <2>1. b \in 1 .. b /\ b \notin 1 .. a
    BY <1>2
  <2>2. QED
    BY <1>1, <2>1
<1>3. CASE b < a
  <2>1. a \in 1 .. a /\ a \notin 1 .. b
    BY <1>3
  <2>2. QED
    BY <1>1, <2>1
<1>4. QED
  BY <1>1, <1>2, <1>3

LEMMA ValuesInit == Init => CacheInv /\ AnswerIsOwn
<1> SUFFICES ASSUME Init PROVE CacheInv /\ AnswerIsOwn
  OBVIOUS
<1>1. /\ cache = <<>> /\ refreshed.pins = <<>> /\ pc = "idle"
      /\ req.op = "none"
  BY DEF Init, NoCommand, Command
<1>2. [i \in DOMAIN refreshed.pins |-> Measured(refreshed.pins[i], refreshed.no)] = <<>>
  BY <1>1
<1>3. QED
  BY <1>1, <1>2 DEF CacheInv, AnswerIsOwn

LEMMA CacheStep ==
  ASSUME Types, LineInv, PinsInv, CacheInv, [Next]_vars, Punctual'
  PROVE  CacheInv'
<1>1. /\ CacheInv /\ CallTypes /\ LineInv /\ PinsInv /\ ValueTypes /\ PinTypes
  BY DEF Types
<1>2. ASSUME UNCHANGED <<cache, refreshed, pc, req, callNo, available>> PROVE CacheInv'
  BY <1>1, <1>2 DEF CacheInv
\* No refresh is under way, before or after.
<1>3. ASSUME UNCHANGED <<cache, refreshed>>, ~(pc = "sleep" /\ req.op = "read"),
             ~(pc' = "sleep" /\ req'.op = "read")
      PROVE  CacheInv'
  BY <1>1, <1>3 DEF CacheInv
<1>4. ASSUME NEW d \in Devices, NEW p \in Pins, AttachDevice(d, p)
      PROVE  CacheInv'
  BY <1>4, <1>3, CommandsAre, <1>2
     DEF AttachDevice, Calls, Sends
<1>5. ASSUME NEW op \in {"ping", "ticks"}, NEW x \in IF op = "ping" THEN Pins ELSE Encoded, Ask(op, x)
      PROVE  CacheInv'
  BY <1>5, <1>3, CommandsAre, <1>2
     DEF Ask, Calls, Sends
<1>6. ASSUME NEW s \in Servos, MoveServo(s)
      PROVE  CacheInv'
  BY <1>6, <1>3, CommandsAre, <1>2
     DEF MoveServo, Calls, Sends
<1>7. ASSUME NEW runs \in RunArguments, NEW time \in {"timed", "forever"}, RunMotor(runs, time)
      PROVE  CacheInv'
  BY <1>7, <1>3, CommandsAre, <1>2
     DEF RunMotor, Calls, Sends
<1>8. ASSUME NEW runs \in RunArguments, RunEncodedMotor(runs)
      PROVE  CacheInv'
  BY <1>8, <1>3, CommandsAre, <1>2
     DEF RunEncodedMotor, Calls, Sends
<1>9. ASSUME NEW d \in Devices, CloseResets(d)
      PROVE  CacheInv'

  <2>1. pc = "closing" /\ UNCHANGED <<cache, refreshed>> /\ req'.op \in {"servo", "run"}
    BY <1>9, CommandsAre DEF CloseResets, Sends
  <2>2. QED
    BY <1>3, <2>1
<1>10. CASE RefreshDigitalPins

  <2>1. /\ pc' = "sleep" /\ req' = Command("read", Nothing, Nothing, <<>>, "none")
        /\ refreshed' = [no |-> callNo', pins |-> available'] /\ req'.op = "read"
    BY <1>10, CommandsAre DEF RefreshDigitalPins, Calls, Sends
  <2>2. QED
    BY <2>1 DEF CacheInv
<1>11. ASSUME NEW p \in Pins, GetDigitalPin(p)
       PROVE  CacheInv'
  BY <1>11, <1>3, <1>2
     DEF GetDigitalPin
<1>12. ASSUME NEW runs \in RunArguments, RunIsRefused(runs)
       PROVE  CacheInv'
  BY <1>12, <1>3, <1>2
     DEF RunIsRefused
<1>13. CASE \/ Close \/ CloseReturns
  BY <1>13, <1>3, <1>2
     DEF Close, CloseReturns
<1>14. CASE SendAgain

  <2>1. late \in Nat /\ late' = late + 1 /\ late' = 0
    BY <1>14, RetriesAssumption DEF SendAgain, Punctual, Types, CountTypes
  <2>2. QED
    BY <2>1
<1>15. ASSUME NEW n \in 0 .. Len(toHost),
              \/ AttachReturns(n) \/ AskReturns(n) \/ MoveServoReturns(n)
              \/ RunAnswers(n)
       PROVE  CacheInv'

  <2>1. req.op # "read" /\ pc' # "sleep" /\ UNCHANGED <<cache, refreshed>>
    BY <1>15 DEF AttachReturns, AskReturns, MoveServoReturns, RunAnswers, Receives, Caller
  <2>2. QED
    BY <1>3, <2>1
<1>16. ASSUME NEW n \in 0 .. Len(toHost), RefreshReturns(n)
       PROVE  CacheInv'

  <2>1. /\ req.op = "read" /\ pc' # "sleep" /\ Receives(n)
        /\ cache' = [i \in DOMAIN cache |->
                        IF n > 1 /\ n - 1 >= Len(cache) /\ Parsed(Arrived(n), i)
                        THEN Arrived(n)[i + 1] ELSE Nothing]
    BY <1>16 DEF RefreshReturns, Caller
  <2>2. /\ pc = "sleep" /\ req \in Commands /\ n = Len(Reply(req)) /\ Arrived(n) = Reply(req)
        /\ refreshed' = refreshed
    BY <2>1, PunctualReads
  <2>3. /\ n = Len(BoardFree) + 1
        /\ \A i \in 1 .. Len(BoardFree) : Arrived(n)[i + 1] = Measured(BoardFree[i], callNo)
        /\ Len(Arrived(n)) = n
    BY <1>1, <2>1, <2>2, ReplyIs DEF CallTypes
  <2>4. BoardFree = available
    <3>1. BoundPlaces = {} /\ Free \cup {} = Free
      BY <2>1 DEF BoundPlaces, Bound
    <3>2. QED
      BY <1>1, <3>1, FreeInOrder DEF PinsInv
  <2>5. refreshed.no = callNo /\ refreshed.pins = available
    BY <1>1, <2>1, <2>2 DEF CacheInv
  <2>6. /\ DOMAIN cache = 1 .. Len(BoardFree) /\ Len(cache) = Len(BoardFree)
        /\ Len(BoardFree) \in Nat
    <3>1. /\ DOMAIN available = 1 .. Len(available) /\ Len(available) \in Nat
          /\ DOMAIN cache = 1 .. Len(cache) /\ Len(cache) \in Nat
      BY <1>1, LenProperties DEF PinTypes, ValueTypes
    <3>2. DOMAIN cache = DOMAIN available
      BY <1>1, <2>5 DEF ValueTypes
    <3>3. 1 .. Len(cache) = 1 .. Len(available)
      BY <3>1, <3>2
    <3>4. Len(cache) = Len(available)
      BY <3>1, <3>3, SameInterval
    <3>5. QED
      BY <2>4, <3>1, <3>4
  <2>7. ASSUME NEW i \in 1 .. Len(BoardFree)
        PROVE  cache'[i] = Measured(refreshed.pins[i], refreshed.no)
    <3>1. n > 1 /\ n - 1 >= Len(cache) /\ i + 1 <= n
      BY <2>3, <2>6
    <3>2. ASSUME NEW j \in 2 .. i + 1 PROVE Arrived(n)[j].kind # "word"
      <4>1. j - 1 \in 1 .. Len(BoardFree) /\ (j - 1) + 1 = j
        BY <2>6
      <4>2. Arrived(n)[j] = Measured(BoardFree[j - 1], callNo)
        BY <2>3, <4>1
      <4>3. QED
        BY <4>2 DEF Measured
    <3>3. Parsed(Arrived(n), i)
      BY <2>3, <3>1, <3>2 DEF Parsed
    <3>4. cache'[i] = Arrived(n)[i + 1]
      BY <2>1, <2>6, <3>1, <3>3
    <3>5. QED
      BY <2>3, <2>4, <2>5, <3>4
  <2>8. DOMAIN cache' = 1 .. Len(BoardFree) /\ DOMAIN refreshed.pins = 1 .. Len(BoardFree)
    BY <1>1, <2>1, <2>6 DEF ValueTypes
  <2>9. cache' = [i \in DOMAIN refreshed.pins |-> Measured(refreshed.pins[i], refreshed.no)]
    <3>1. cache' = [i \in DOMAIN cache' |-> cache'[i]]
      BY <2>1
    <3>2. QED
      BY <2>7, <2>8, <3>1
  <2>10. QED
    BY <2>1, <2>2, <2>9 DEF CacheInv
<1>17. CASE \/ RunReturns \/ EncodedSleeps
  BY <1>17, <1>3, <1>2
     DEF RunReturns, EncodedSleeps, Caller
<1>18. ASSUME NEW n \in 0 .. Len(toHost), EncodedReads(n)
       PROVE  CacheInv'

  <2>1. pc = "loop" /\ pc' # "sleep" /\ UNCHANGED <<cache, refreshed>>
    BY <1>18 DEF EncodedReads, Caller
  <2>2. QED
    BY <1>3, <2>1
<1>19. ASSUME NEW m \in Motors, BoardStops(m)
       PROVE  CacheInv'
  BY <1>19, <1>2
     DEF BoardStops
<1>20. CASE \/ BoardExecutes \/ BoardStarts \/ BoardFinishes
  BY <1>20, <1>2
     DEF BoardExecutes, BoardStarts, BoardFinishes
<1>21. CASE UNCHANGED vars
  BY <1>21, <1>2
     DEF vars
<1>22. QED
  BY Zenon, <1>4, <1>5, <1>6, <1>7, <1>8, <1>9, <1>10, <1>11, <1>12, <1>13,
     <1>14, <1>15, <1>16, <1>17, <1>18, <1>19, <1>20, <1>21
     DEF Next, ProgramCalls, CallContinues, Board

LEMMA AnswerStep ==
  ASSUME Types, LineInv, Punctual, AnswerIsOwn, [Next]_vars, Punctual'
  PROVE  AnswerIsOwn'
<1>1. AnswerIsOwn /\ CallTypes /\ LineInv /\ Punctual
  BY DEF Types
<1>2. ASSUME UNCHANGED <<pc, req, result, callNo>> PROVE AnswerIsOwn'
  BY <1>1, <1>2 DEF AnswerIsOwn
<1>3. ASSUME pc' # "idle" \/ req'.op \notin {"ping", "ticks"} PROVE AnswerIsOwn'
  BY <1>3 DEF AnswerIsOwn
<1>4. NoCommand.op = "none"
  BY DEF NoCommand, Command
<1>5. ASSUME NEW d \in Devices, NEW p \in Pins, AttachDevice(d, p)
      PROVE  AnswerIsOwn'
  BY <1>5, <1>3, <1>2
     DEF AttachDevice, Calls, Sends
<1>6. CASE RefreshDigitalPins
  BY <1>6, <1>3, <1>2
     DEF RefreshDigitalPins, Calls, Sends
<1>7. ASSUME NEW op \in {"ping", "ticks"}, NEW x \in IF op = "ping" THEN Pins ELSE Encoded, Ask(op, x)
      PROVE  AnswerIsOwn'
  BY <1>7, <1>3, <1>2
     DEF Ask, Calls, Sends
<1>8. ASSUME NEW s \in Servos, MoveServo(s)
      PROVE  AnswerIsOwn'
  BY <1>8, <1>3, <1>2
     DEF MoveServo, Calls, Sends
<1>9. ASSUME NEW runs \in RunArguments, NEW time \in {"timed", "forever"}, RunMotor(runs, time)
      PROVE  AnswerIsOwn'
  BY <1>9, <1>3, <1>2
     DEF RunMotor, Calls, Sends
<1>10. ASSUME NEW runs \in RunArguments, RunEncodedMotor(runs)
       PROVE  AnswerIsOwn'
  BY <1>10, <1>3, <1>2
     DEF RunEncodedMotor, Calls, Sends
<1>11. ASSUME NEW d \in Devices, CloseResets(d)
       PROVE  AnswerIsOwn'
  BY <1>11, <1>3, <1>2
     DEF CloseResets, Sends
<1>12. ASSUME NEW p \in Pins, GetDigitalPin(p)
       PROVE  AnswerIsOwn'
  BY <1>12, <1>3, CommandsAre, <1>2
     DEF GetDigitalPin
<1>13. ASSUME NEW runs \in RunArguments, RunIsRefused(runs)
       PROVE  AnswerIsOwn'
  BY <1>13, <1>3, <1>4, <1>2
     DEF RunIsRefused
<1>14. CASE \/ Close \/ CloseReturns
  BY <1>14, <1>3, <1>2
     DEF Close, CloseReturns
<1>15. ASSUME NEW n \in 0 .. Len(toHost),
              \/ AttachReturns(n) \/ RefreshReturns(n) \/ MoveServoReturns(n)
              \/ RunAnswers(n)
       PROVE  AnswerIsOwn'

  <2>1. pc' # "idle" \/ req' = NoCommand
    BY <1>15 DEF AttachReturns, RefreshReturns, MoveServoReturns, RunAnswers
  <2>2. QED
    BY <1>3, <1>4, <2>1
<1>16. ASSUME NEW n \in 0 .. Len(toHost), AskReturns(n)
       PROVE  AnswerIsOwn'

  <2>1. /\ req.op \in {"ping", "ticks"} /\ req' = req /\ Receives(n)
        /\ result' = IF n = 3 /\ Arrived(n)[3].kind # "word" THEN Arrived(n)[3] ELSE Nothing
    BY <1>16 DEF AskReturns
  <2>2. /\ req \in Commands /\ n = Len(Reply(req)) /\ Arrived(n) = Reply(req) /\ callNo' = callNo
    BY <2>1, PunctualReads
  <2>3. n = 3 /\ Arrived(n)[3] = Measured(req.what, callNo)
    BY <1>1, <2>1, <2>2, ReplyIs DEF CallTypes
  <2>4. Arrived(n)[3].kind # "word"
    BY <2>3 DEF Measured
  <2>5. QED
    BY <2>1, <2>2, <2>3, <2>4 DEF AnswerIsOwn
<1>17. CASE RunReturns
  BY <1>17, <1>3, <1>4, <1>2
     DEF RunReturns
<1>18. CASE EncodedSleeps
  BY <1>18, <1>3, <1>2
     DEF EncodedSleeps
<1>19. ASSUME NEW n \in 0 .. Len(toHost), EncodedReads(n)
       PROVE  AnswerIsOwn'

  <2>1. pc' # "idle" \/ req' = NoCommand
    BY <1>19 DEF EncodedReads
  <2>2. QED
    BY <1>3, <1>4, <2>1
<1>20. ASSUME NEW m \in Motors, BoardStops(m)
       PROVE  AnswerIsOwn'
  BY <1>20, <1>2
     DEF BoardStops
<1>21. CASE \/ SendAgain \/ BoardExecutes \/ BoardStarts \/ BoardFinishes
  BY <1>21, <1>2
     DEF SendAgain, BoardExecutes, BoardStarts, BoardFinishes
<1>22. CASE UNCHANGED vars
  BY <1>22, <1>2
     DEF vars
<1>23. QED
  BY Zenon, <1>5, <1>6, <1>7, <1>8, <1>9, <1>10, <1>11, <1>12, <1>13, <1>14,
     <1>15, <1>16, <1>17, <1>18, <1>19, <1>20, <1>21, <1>22
     DEF Next, ProgramCalls, CallContinues, Board

-----------------------------------------------------------------------------
(* As long as no reply was late and no call was refused after it had counted *)
(* its motors: the motors.                                                   *)

\* The motors that run.
Turning == {m \in Motors : boardRun[m] # "off"}

\* The motors of the call, once the Arduino has executed its command: those of
\* an encoded run are off again, those of a timed one off or on their time.
CallIsOver ==
    /\ pc \in {"sleep", "loop"} /\ req.op = "encoded" =>
           \A m \in MotorsOf(req.runs) : boardRun[m] = "off"
    /\ pc \in {"sleep", "settle"} /\ req.op = "run" /\ req.time = "timed" =>
           \A m \in MotorsOf(req.runs) :
               \/ boardRun[m] = "off"
               \/ boardRun[m] = "timed" /\ (pc = "settle" => m \in sleepFor)

\* A motor that runs is counted, or the command on the line takes it over.
MotorsInv ==
    /\ IsFiniteSet(Turning) /\ Cardinality(Turning) <= 2
    /\ Turning \subseteq running \cup (IF toBoard = <<>> THEN {} ELSE MotorsOf(req.runs))
    /\ toBoard # <<>> => Moved(req.runs) \subseteq running
    /\ toBoard = <<>> => CallIsOver

LEMMA MotorsInit == Init => MotorsInv
<1> SUFFICES ASSUME Init PROVE MotorsInv
  OBVIOUS
<1>1. Turning = {}
  BY DEF Init, Turning
<1>2. toBoard = <<>> /\ pc = "idle"
  BY DEF Init
<1>3. CallIsOver
  BY <1>2 DEF CallIsOver
<1>4. QED
  BY <1>1, <1>2, <1>3, FS_EmptySet DEF MotorsInv

LEMMA MotorsStep ==
  ASSUME Types, LineInv, RunningInv, MotorsInv, [Next]_vars, Punctual'
  PROVE  miscounted' \/ MotorsInv'
<1>1. /\ MotorsInv /\ CallTypes /\ LineTypes /\ BoardTypes /\ MotorTypes /\ LineInv
      /\ IsFiniteSet(running) /\ Cardinality(running) <= 2 /\ Cardinality(running) \in Nat
  BY FS_CardinalityType DEF Types, RunningInv
<1>2. pc \in {"idle", "settle", "closing", "closed"} => toBoard = <<>>
  BY <1>1 DEF LineInv
\* Enough for the number of motors that run.
<1>3. ASSUME Turning' \subseteq running \/ Turning' \subseteq Turning
      PROVE  IsFiniteSet(Turning') /\ Cardinality(Turning') <= 2
  <2>1. PICK S : IsFiniteSet(S) /\ Cardinality(S) <= 2 /\ Turning' \in SUBSET S
    BY <1>1, <1>3 DEF MotorsInv
  <2>2. /\ IsFiniteSet(Turning') /\ Cardinality(Turning') <= Cardinality(S)
        /\ Cardinality(Turning') \in Nat /\ Cardinality(S) \in Nat
    BY <2>1, FS_Subset, FS_CardinalityType
  <2>3. QED
    BY <2>1, <2>2
\* A call writes its command.
<1>4. ASSUME NEW c \in Commands, Sends(c), pc \in {"idle", "closing"},
             running \subseteq running' \cup MotorsOf(c.runs), Moved(c.runs) \subseteq running'
      PROVE  MotorsInv'
  <2>1. Turning' = Turning /\ toBoard' # <<>> /\ req' = c
    BY <1>1, <1>4, AppendProperties DEF Sends, Turning, LineTypes
  <2>2. Turning \subseteq running
    BY <1>1, <1>2, <1>4 DEF MotorsInv
  <2>3. IsFiniteSet(Turning') /\ Cardinality(Turning') <= 2
    BY <1>3, <2>1
  <2>4. QED
    BY <1>4, <2>1, <2>2, <2>3 DEF MotorsInv
\* The line stays empty.
<1>5. ASSUME toBoard = <<>>, toBoard' = <<>>, boardRun' = boardRun,
             running' = running \/ \E S : running' = running \ S /\ \A m \in S \cap Motors : boardRun[m] = "off",
             CallIsOver'
      PROVE  MotorsInv'
  <2>1. Turning' = Turning /\ Turning \subseteq running
    BY <1>1, <1>5 DEF Turning, MotorsInv
  <2>2. Turning \subseteq running'
    BY <1>5, <2>1 DEF Turning
  <2>3. IsFiniteSet(Turning') /\ Cardinality(Turning') <= 2
    BY <1>3, <2>1
  <2>4. QED
    BY <1>5, <2>1, <2>2, <2>3 DEF MotorsInv
<1>6. ASSUME pc' \in {"idle", "closing", "closed"} PROVE CallIsOver'
  BY <1>6 DEF CallIsOver
<1>7. ASSUME UNCHANGED <<running, pc, req, sleepFor, toBoard, boardRun>> PROVE MotorsInv'
  BY <1>1, <1>7 DEF MotorsInv, Turning, CallIsOver
<1>8. toBoard # <<>> =>
        /\ pc \in {"sleep", "loop"} /\ toBoard = <<req>> /\ req \in Commands
        /\ Head(toBoard) = req /\ Tail(toBoard) = <<>>
        /\ pc = "loop" => req.op = "encoded"
        /\ Turning \subseteq running \cup MotorsOf(req.runs) /\ Moved(req.runs) \subseteq running
  BY <1>1, OnLine DEF MotorsInv
<1>9. \A c : c.runs = <<>> => MotorsOf(c.runs) = {} /\ Moved(c.runs) = {}
  BY NoRuns
<1>10. \A runs : /\ running \subseteq Counted(runs) \cup MotorsOf(runs)
                 /\ Moved(runs) \subseteq Counted(runs)
  BY DEF Counted
<1>11. ASSUME NEW d \in Devices, NEW p \in Pins, AttachDevice(d, p)
       PROVE  (miscounted' \/ MotorsInv')

  <2> DEFINE c == Command("attach", d, p, <<>>, "none")
  <2>1. c \in Commands /\ c.runs = <<>> /\ Sends(c) /\ pc = "idle" /\ running' = running
    BY <1>11, CommandsAre DEF AttachDevice, Calls
  <2>2. QED
    BY <1>4, <1>9, <2>1
<1>12. CASE RefreshDigitalPins

  <2> DEFINE c == Command("read", Nothing, Nothing, <<>>, "none")
  <2>1. c \in Commands /\ c.runs = <<>> /\ Sends(c) /\ pc = "idle" /\ running' = running
    BY <1>12, CommandsAre DEF RefreshDigitalPins, Calls
  <2>2. QED
    BY <1>4, <1>9, <2>1
<1>13. ASSUME NEW op \in {"ping", "ticks"}, NEW x \in IF op = "ping" THEN Pins ELSE Encoded, Ask(op, x)
       PROVE  (miscounted' \/ MotorsInv')

  <2> DEFINE c == Command(op, x, Nothing, <<>>, "none")
  <2>1. c \in Commands /\ c.runs = <<>>
    BY CommandsAre
  <2>2. Sends(c) /\ pc = "idle" /\ running' = running
    BY <1>13 DEF Ask, Calls
  <2>3. QED
    BY <1>4, <1>9, <2>1, <2>2
<1>14. ASSUME NEW s \in Servos, MoveServo(s)
       PROVE  (miscounted' \/ MotorsInv')

  <2> DEFINE c == Command("servo", s, Nothing, <<>>, "none")
  <2>1. c \in Commands /\ c.runs = <<>> /\ Sends(c) /\ pc = "idle" /\ running' = running
    BY <1>14, CommandsAre DEF MoveServo, Calls
  <2>2. QED
    BY <1>4, <1>9, <2>1
<1>15. ASSUME NEW runs \in RunArguments, NEW time \in {"timed", "forever"}, RunMotor(runs, time)
       PROVE  (miscounted' \/ MotorsInv')

  <2> DEFINE c == Command("run", Nothing, Nothing, runs, time)
  <2>1. c \in Commands /\ c.runs = runs
    BY CommandsAre, RunsAssumption
  <2>2. Sends(c) /\ pc = "idle" /\ running' = Counted(runs)
    BY <1>15 DEF RunMotor, Calls
  <2>3. QED
    BY <1>4, <1>10, <2>1, <2>2
<1>16. ASSUME NEW runs \in RunArguments, RunEncodedMotor(runs)
       PROVE  (miscounted' \/ MotorsInv')

  <2> DEFINE c == Command("encoded", Nothing, Nothing, runs, "ticks")
  <2>1. c \in Commands /\ c.runs = runs
    BY CommandsAre, RunsAssumption
  <2>2. Sends(c) /\ pc = "idle" /\ running' = Counted(runs)
    BY <1>16 DEF RunEncodedMotor, Calls
  <2>3. QED
    BY <1>4, <1>10, <2>1, <2>2
<1>17. ASSUME NEW d \in Devices, CloseResets(d)
       PROVE  (miscounted' \/ MotorsInv')

  <2>1. pc = "closing" /\ running' = running \ {d}
    BY <1>17 DEF CloseResets
  <2>2. CASE d \in Servos
    <3> DEFINE c == Command("servo", d, Nothing, <<>>, "none")
    <3>1. c \in Commands /\ c.runs = <<>> /\ Sends(c)
      BY <1>17, <2>2, CommandsAre DEF CloseResets
    <3>2. d \notin running
      BY <1>1, <2>2, DevicesAssumption DEF MotorTypes
    <3>3. QED
      BY <1>4, <1>9, <2>1, <3>1, <3>2
  <2>3. CASE d \notin Servos
    <3> DEFINE c == Command("run", Nothing, Nothing, <<<<d, "zero">>>>, "forever")
    <3>1. d \in Motors
      BY <2>3 DEF Devices
    <3>2. c \in Commands /\ c.runs = <<<<d, "zero">>>> /\ Sends(c)
      <4>1. c \in Commands /\ c.runs = <<<<d, "zero">>>>
        BY <3>1, CommandsAre, RunOfZero
      <4>2. Sends(c)
        BY <1>17, <2>3 DEF CloseResets
      <4>3. QED
        BY <4>1, <4>2
    <3>3. MotorsOf(c.runs) = {d} /\ Moved(c.runs) = {}
      BY <3>1, <3>2, RunOfZero
    <3>4. QED
      BY <1>4, <2>1, <3>2, <3>3
  <2>4. QED
    BY <2>2, <2>3
<1>18. ASSUME NEW p \in Pins, GetDigitalPin(p)
       PROVE  (miscounted' \/ MotorsInv')

  BY <1>18, <1>2, <1>5, <1>6 DEF GetDigitalPin
<1>19. ASSUME NEW runs \in RunArguments, RunIsRefused(runs)
       PROVE  (miscounted' \/ MotorsInv')

  BY <1>19 DEF RunIsRefused
<1>20. CASE \/ Close \/ CloseReturns

  BY <1>20, <1>2, <1>5, <1>6 DEF Close, CloseReturns
<1>21. CASE SendAgain

  <2>1. late \in Nat /\ late' = late + 1 /\ late' = 0
    BY <1>21, RetriesAssumption DEF SendAgain, Punctual, Types, CountTypes
  <2>2. QED
    BY <2>1
<1>22. ASSUME NEW n \in 0 .. Len(toHost),
              \/ AttachReturns(n) \/ RefreshReturns(n) \/ AskReturns(n)
              \/ MoveServoReturns(n)
       PROVE  (miscounted' \/ MotorsInv')

  <2>1. Receives(n) /\ running' = running /\ pc' \in {"idle", "closing"}
    BY <1>22 DEF AttachReturns, RefreshReturns, AskReturns, MoveServoReturns, Caller
  <2>2. toBoard = <<>> /\ toBoard' = <<>> /\ boardRun' = boardRun
    BY <2>1, PunctualReads
  <2>3. QED
    BY <1>5, <1>6, <2>1, <2>2
<1>23. ASSUME NEW n \in 0 .. Len(toHost), RunAnswers(n)
       PROVE  (miscounted' \/ MotorsInv')

  <2>1. Receives(n) /\ req.op = "run"
    BY <1>23 DEF RunAnswers
  <2>2. /\ pc = "sleep" /\ toBoard = <<>> /\ toBoard' = <<>> /\ boardRun' = boardRun /\ n > 0
    BY <2>1, PunctualReads
  <2>3. /\ pc' = "settle" /\ req' = req /\ running' = running
        /\ sleepFor' = {m \in MotorsOf(req.runs) : req.time = "timed" /\ boardRun[m] = "timed"}
    BY <1>23, <2>2 DEF RunAnswers
  <2>4. req.time = "timed" => \A m \in MotorsOf(req.runs) : boardRun[m] \in {"off", "timed"}
    BY <1>1, <2>1, <2>2 DEF MotorsInv, CallIsOver
  <2>5. CallIsOver'
    BY <2>1, <2>2, <2>3, <2>4 DEF CallIsOver
  <2>6. QED
    BY <1>5, <2>2, <2>3, <2>5
<1>24. CASE RunReturns

  <2>1. /\ pc = "settle" /\ pc' \in {"idle", "closing"} /\ UNCHANGED <<toBoard, boardRun>>
        /\ \A m \in sleepFor : boardRun[m] # "timed"
        /\ running' = IF req.time = "timed" THEN running \ MotorsOf(req.runs) ELSE running
    BY <1>24 DEF RunReturns, Caller
  <2>2. toBoard = <<>> /\ req.op = "run"
    BY <1>1, <1>2, <2>1 DEF CallTypes
  <2>3. req.time = "timed" => \A m \in MotorsOf(req.runs) : boardRun[m] = "off"
    BY <1>1, <2>1, <2>2 DEF MotorsInv, CallIsOver
  <2>4. QED
    BY <1>5, <1>6, <2>1, <2>2, <2>3
<1>25. CASE EncodedSleeps

  BY <1>25, <1>1 DEF EncodedSleeps, MotorsInv, Turning, CallIsOver
<1>26. ASSUME NEW n \in 0 .. Len(toHost), EncodedReads(n)
       PROVE  (miscounted' \/ MotorsInv')

  <2>1. /\ pc = "loop" /\ Len(toHost) # 0 /\ UNCHANGED <<toBoard, boardRun, sleepFor>>
        /\ \/ pc' \in {"idle", "closing"} /\ running' = running \ MotorsOf(req.runs)
           \/ UNCHANGED <<pc, req, running>>
    <3>1. n \in 1 .. Len(toHost) => Len(toHost) # 0
      OBVIOUS
    <3>2. QED
      BY <1>26, <3>1 DEF EncodedReads, Caller
  <2>2. toHost # <<>>
    BY <2>1
  <2>3. toBoard = <<>> /\ req.op = "encoded"
    BY <1>1, <2>1, <2>2 DEF LineInv, CallTypes
  <2>4. CallIsOver /\ \A m \in MotorsOf(req.runs) : boardRun[m] = "off"
    BY <1>1, <2>1, <2>3 DEF MotorsInv, CallIsOver
  <2>5. CASE pc' \in {"idle", "closing"} /\ running' = running \ MotorsOf(req.runs)
    BY <1>5, <1>6, <2>1, <2>3, <2>4, <2>5
  <2>6. CASE UNCHANGED <<pc, req, running>>
    BY <1>7, <2>1, <2>6
  <2>7. QED
    BY <2>1, <2>5, <2>6
<1>27. CASE \/ BoardExecutes \/ BoardStarts \/ BoardFinishes

  <2>1. /\ toBoard # <<>> /\ toBoard' \in {toBoard, <<>>}
        /\ UNCHANGED <<pc, req, running, sleepFor>>
    BY <1>27, <1>8 DEF BoardExecutes, BoardStarts, BoardFinishes
  <2>2. PICK way \in {"timed", "on", "encoded", "off"} :
           /\ boardRun' = BoardMoves(req, way)
           /\ toBoard' = <<>> /\ req.op = "encoded" => way = "off"
           /\ toBoard' = <<>> /\ req.time = "timed" /\ req.op = "run" => way = "timed"
    BY <1>27, <1>8, <2>1 DEF BoardExecutes, BoardStarts, BoardFinishes
  <2>3. \A m \in Motors : boardRun'[m] = IF m \notin MotorsOf(req.runs) THEN boardRun[m]
                                         ELSE IF m \in Moved(req.runs) THEN way ELSE "off"
    BY <2>2 DEF BoardMoves
  <2>4. Turning' \subseteq running
    BY <1>8, <2>1, <2>3 DEF Turning
  <2>5. IsFiniteSet(Turning') /\ Cardinality(Turning') <= 2
    BY <1>3, <2>4
  <2>6. ASSUME toBoard' = <<>> PROVE CallIsOver'
    <3>1. req.op \in {"run", "encoded"} => MotorsOf(req.runs) \subseteq Motors
      BY <1>8, <2>1, CommandIs, RunParts
    <3>2. pc # "settle"
      BY <1>8, <2>1
    <3>3. QED
      BY <2>1, <2>2, <2>3, <2>6, <3>1, <3>2 DEF CallIsOver
  <2>7. QED
    BY <1>8, <2>1, <2>4, <2>5, <2>6 DEF MotorsInv
<1>28. ASSUME NEW m \in Motors, BoardStops(m)
       PROVE  (miscounted' \/ MotorsInv')

  <2>1. /\ UNCHANGED <<pc, req, running, sleepFor, toBoard>>
        /\ \A k \in Motors : boardRun'[k] = IF k = m THEN "off" ELSE boardRun[k]
    BY <1>28, <1>1 DEF BoardStops, BoardTypes
  <2>2. Turning' \subseteq Turning
    BY <2>1 DEF Turning
  <2>3. IsFiniteSet(Turning') /\ Cardinality(Turning') <= 2
    BY <1>3, <2>2
  <2>4. pc \in {"sleep", "settle", "loop"} /\ req.op \in {"run", "encoded"} =>
            MotorsOf(req.runs) \subseteq Motors
    BY <1>1, CommandIs, RunParts DEF CallTypes
  <2>5. CallIsOver => CallIsOver'
    BY <2>1, <2>4 DEF CallIsOver
  <2>6. QED
    BY <1>1, <2>1, <2>2, <2>3, <2>5 DEF MotorsInv
<1>29. CASE UNCHANGED vars
  BY <1>29, <1>7
     DEF vars
<1>30. QED
  BY Zenon, <1>11, <1>12, <1>13, <1>14, <1>15, <1>16, <1>17, <1>18, <1>19,
     <1>20, <1>21, <1>22, <1>23, <1>24, <1>25, <1>26, <1>27, <1>28, <1>29
     DEF Next, ProgramCalls, CallContinues, Board

-----------------------------------------------------------------------------
(* The inductive invariant and what follows from it.                        *)

PunctualInv ==
    Punctual => /\ LineInv /\ PinsInv /\ CacheInv /\ AnswerIsOwn
                /\ miscounted \/ MotorsInv

Inv == /\ Types /\ EchoesAreTrue /\ AttachedIsBound /\ StopInv /\ ResetInv
       /\ RunningInv /\ PunctualInv

LEMMA InvInit == Init => Inv
<1> SUFFICES ASSUME Init PROVE Inv
  OBVIOUS
<1>1. EchoesAreTrue /\ AttachedIsBound
  BY EchoesInit
<1>2. LineInv /\ ResetInv
  BY DEF Init, LineInv, ResetInv
<1>3. QED
  BY <1>1, <1>2, TypesInit, StopInit, RunningInit, PinsInit, ValuesInit, MotorsInit
     DEF Inv, PunctualInv

LEMMA InvStep == Inv /\ [Next]_vars => Inv'
<1> SUFFICES ASSUME Inv, [Next]_vars PROVE Inv'
  OBVIOUS
<1>1. Types /\ EchoesAreTrue /\ AttachedIsBound /\ StopInv /\ ResetInv /\ RunningInv
  BY DEF Inv
<1>2. Types' /\ EchoesAreTrue' /\ AttachedIsBound' /\ StopInv' /\ ResetInv' /\ RunningInv'
  BY <1>1, TypesStep, EchoesStep, StopStep, ResetStep, RunningStep
<1>3. ASSUME Punctual' PROVE LineInv' /\ PinsInv' /\ CacheInv' /\ AnswerIsOwn' /\ (miscounted' \/ MotorsInv')
  <2>1. Punctual
    BY <1>1, <1>3, PunctualBefore
  <2>2. LineInv /\ PinsInv /\ CacheInv /\ AnswerIsOwn /\ (miscounted \/ MotorsInv)
    BY <2>1 DEF Inv, PunctualInv
  <2>3. LineInv' /\ PinsInv' /\ CacheInv' /\ AnswerIsOwn'
    BY <1>1, <1>3, <2>1, <2>2, LineStep, PinsStep, CacheStep, AnswerStep
  <2>4. miscounted => miscounted'
    BY <1>1, CountsStay
  <2>5. MotorsInv => miscounted' \/ MotorsInv'
    BY <1>1, <1>3, <2>2, MotorsStep
  <2>6. QED
    BY <2>2, <2>3, <2>4, <2>5
<1>4. QED
  BY <1>2, <1>3 DEF Inv, PunctualInv

LEMMA InvHolds == Spec => []Inv
BY InvInit, InvStep, PTL DEF Spec

\* attachMotor, attachServo and sendRaw: a device marked as attached is bound by
\* the Arduino however late, partial or doubled the replies are, and as long as
\* none was late the pins of getAvailableDigitalPins are those nothing is bound to.
THEOREM ProgramAgreesWithBoard == Spec => []PinsAgree
<1>1. Inv => PinsAgree
  <2> SUFFICES ASSUME Inv PROVE PinsAgree
    OBVIOUS
  <2>1. ASSUME pc = "idle", Punctual PROVE available = BoardFree
    <3>1. PinsInv /\ BoundPlaces = {} /\ Free \cup {} = Free
      BY <2>1 DEF Inv, PunctualInv, BoundPlaces, Bound
    <3>2. QED
      BY <3>1, FreeInOrder DEF PinsInv
  <2>2. QED
    BY <2>1 DEF Inv, PinsAgree, AvailableIsFree
<1>2. QED
  BY <1>1, InvHolds, PTL

\* refreshDigitalPins, getPing and getEncodedMotorPosition: as long as no reply
\* was late, each cached value was measured at its pin during the last refresh
\* and what a call returns was measured where it asked, during that call.
THEOREM ValuesAreOfTheCall == Spec => []ValuesAreOwn
<1>1. Inv => ValuesAreOwn
  <2> SUFFICES ASSUME Inv PROVE ValuesAreOwn
    OBVIOUS
  <2>1. CacheIsOfRefresh
    BY DEF Inv, PunctualInv, CacheInv, CacheIsOfRefresh
  <2>2. AnswerIsOwn
    BY DEF Inv, PunctualInv, AnswerIsOwn
  <2>3. QED
    BY <2>1, <2>2 DEF ValuesAreOwn
<1>2. QED
  BY <1>1, InvHolds, PTL

\* runMotor, runEncodedMotor and close: as long as no reply was late and no call
\* was refused after it had counted its motors at most two of the Arduino's
\* motors run, and none runs on after close whatever was late or refused.
THEOREM RunningMotorsAreCounted == Spec => []MotorsAreCounted
<1>1. Inv => MotorsAreCounted
  <2> SUFFICES ASSUME Inv PROVE MotorsAreCounted
    OBVIOUS
  <2>1. TwoMotorsRun
    BY DEF Inv, PunctualInv, MotorsInv, Turning, TwoMotorsRun
  <2>2. ClosedIsStopped
    BY ClosedStops DEF Inv
  <2>3. QED
    BY <2>1, <2>2 DEF MotorsAreCounted
<1>2. QED
  BY <1>1, InvHolds, PTL

\* runEncodedMotor: as long as no reply was late what its loop has read begins
\* the echo it waits for.
THEOREM EncodedLoopCanEnd == Spec => []EncodedCanEnd
<1>1. Inv => EncodedCanEnd
  <2> SUFFICES ASSUME Inv, pc = "loop", Punctual PROVE IsPrefix(response, Echo(req))
    BY DEF EncodedCanEnd
  <2> DEFINE T == Tokens(callNo)
             r == response
             s == toHost
             e == Echo(req)
  <2>1. r \in Seq(T) /\ s \in Seq(T) /\ callNo \in Nat /\ req \in Commands /\ req.op = "encoded"
    BY DEF Inv, Types, LineTypes, CallTypes
  <2>2. e \in Seq(T)
    BY <2>1, EchoIs
  <2>3. r = <<>> \/ r \o s = e
    BY DEF Inv, PunctualInv, LineInv
  <2> HIDE DEF T, r, s, e
  <2>4. /\ r \o s \in Seq(T) /\ Len(r \o s) = Len(r) + Len(s)
        /\ \A i \in 1 .. Len(r) + Len(s) :
              (r \o s)[i] = IF i <= Len(r) THEN r[i] ELSE s[i - Len(r)]
    BY <2>1, ConcatProperties
  <2>5. Len(r) \in Nat /\ Len(s) \in Nat /\ Len(e) \in Nat
    BY <2>1, <2>2, LenProperties
  <2>6. Len(r) <= Len(e) /\ \A i \in 1 .. Len(r) : e[i] = r[i]
    <3>1. CASE r = <<>>
      BY <2>5, <3>1
    <3>2. CASE r \o s = e
      BY <2>4, <2>5, <3>2
    <3>3. QED
      BY <2>3, <3>1, <3>2
  <2>7. SubSeq(r, 1, Len(r)) = SubSeq(e, 1, Len(r))
    <3>1. SubSeq(r, 1, Len(r)) = r
      BY <2>1, SubSeqFull
    <3> DEFINE p == SubSeq(e, 1, Len(r))
    <3>2. p \in Seq(T) /\ Len(p) = Len(r) /\ \A i \in 1 .. Len(r) : p[i] = e[i]
      <4>1. Len(r) \in 0 .. Len(e)
        BY <2>5, <2>6
      <4>2. QED
        BY <2>2, <4>1, Reads
    <3> HIDE DEF p
    <3>3. p = r
      BY <2>1, <2>6, <3>2, SeqEqual
    <3>4. QED
      BY <3>1, <3>3 DEF p
  <2>8. IsPrefix(r, e)
    BY <2>6, <2>7 DEF IsPrefix
  <2>9. QED
    BY <2>8 DEF r, e
<1>2. QED
  BY <1>1, InvHolds, PTL
=============================================================================
