----------------------------- MODULE Pdict_proofs -----------------------------
(***************************************************************************)
(* Theorems about Ptree and Pdict.                                         *)
(***************************************************************************)
EXTENDS Pdict, FiniteSetTheorems, TLAPS

\* What holds 0 and with each number the next holds them all.
LEMMA NatIsGenerated ==
  ASSUME NEW S \in SUBSET Nat, 0 \in S, \A n \in S : n + 1 \in S
  PROVE  S = Nat
<1> DEFINE T == Nat \ S
           R == {ss \in Nat \X Nat : ss[1] < ss[2]}
<1> SUFFICES ASSUME T /= {}
             PROVE  FALSE
  OBVIOUS
<1>1. IsWellFoundedOn(R, Nat)
  BY NatLessThanWellFounded, Zenon DEF OpToRel
<1>2. PICK m \in T : \A n \in T : <<n, m>> \notin R
  BY <1>1, WFMin
<1>3. \A n \in T : ~(n < m)
  BY <1>2
<1>4. m \in Nat /\ m \notin S /\ m /= 0
  BY <1>2
<1>5. m - 1 \in Nat /\ m - 1 < m /\ (m - 1) + 1 = m
  BY <1>4
<1>6. m - 1 \in S
  BY <1>3, <1>5
<1> QED
  BY <1>4, <1>5, <1>6

\* The elements of two sequences, one after the other.
LEMMA Joined ==
  ASSUME NEW S, NEW T, NEW s \in Seq(S), NEW t \in Seq(T)
  PROVE  /\ Len(s \o t) = Len(s) + Len(t) /\ DOMAIN (s \o t) = 1..(Len(s) + Len(t))
         /\ \A i \in 1..Len(s) : (s \o t)[i] = s[i]
         /\ \A i \in 1..(Len(s) + Len(t)) : i > Len(s) => (s \o t)[i] = t[i - Len(s)]
OBVIOUS

LEMMA IsSequence ==
  ASSUME NEW S, NEW m \in Nat, NEW s \in [1..m -> S]
  PROVE  s \in Seq(S)
OBVIOUS

-----------------------------------------------------------------------------
(* Chosen: the elements of a sequence at some of its places.                 *)

LEMMA ChosenNone ==
  ASSUME NEW s
  PROVE  Chosen(s, {}) = <<>>
BY FS_EmptySet DEF Chosen

LEMMA ChosenOne ==
  ASSUME NEW s, NEW i \in Nat
  PROVE  Chosen(s, {i}) = <<s[i]>>
<1> DEFINE place(j) == CHOOSE a \in {i} : Cardinality({h \in {i} : h <= a}) = j
<1>1. {h \in {i} : h <= i} = {i}
  OBVIOUS
<1>2. Cardinality({i}) = 1
  BY FS_Singleton
<1>3. place(1) = i
  BY <1>1, <1>2
<1>4. Chosen(s, {i}) = [j \in 1..1 |-> s[place(j)]]
  BY <1>2 DEF Chosen
<1> HIDE DEF place
<1> QED
  BY <1>3, <1>4

LEMMA ChosenBoth ==
  ASSUME NEW s
  PROVE  Chosen(s, {1, 2}) = <<s[1], s[2]>>
<1> DEFINE place(j) == CHOOSE a \in {1, 2} : Cardinality({h \in {1, 2} : h <= a}) = j
<1>1. {h \in {1, 2} : h <= 1} = {1} /\ {h \in {1, 2} : h <= 2} = {1, 2}
  OBVIOUS
<1>2. Cardinality({1}) = 1 /\ Cardinality({1, 2}) = 2
  <2>1. {1} \cup {2} = {1, 2} /\ 2 \notin {1}
    OBVIOUS
  <2>2. IsFiniteSet({1}) /\ Cardinality({1}) = 1
    BY FS_Singleton
  <2>3. Cardinality({1} \cup {2}) = 1 + 1
    BY <2>1, <2>2, FS_AddElement
  <2> QED
    BY <2>1, <2>2, <2>3
<1>3. place(1) = 1 /\ place(2) = 2
  BY <1>1, <1>2
<1>4. Chosen(s, {1, 2}) = [j \in 1..2 |-> s[place(j)]]
  BY <1>2 DEF Chosen
<1> HIDE DEF place
<1> QED
  BY <1>3, <1>4

\* A place is chosen by its rank, and every place has one; they keep their order.
Takes(place, s, I) ==
  /\ \A j \in 1..Cardinality(I) : Chosen(s, I)[j] = s[place[j]]
  /\ \A j, k \in 1..Cardinality(I) : j < k => place[j] < place[k]

LEMMA ChosenPlaces ==
  ASSUME NEW s, NEW n \in Nat, NEW I \in SUBSET (1..n)
  PROVE  /\ Chosen(s, I) \in [1..Cardinality(I) -> {s[i] : i \in I}]
         /\ Cardinality(I) \in Nat
         /\ \E place \in Bijection(1..Cardinality(I), I) : Takes(place, s, I)
<1> DEFINE upTo(i) == {h \in I : h <= i}
           rank == [i \in I |-> Cardinality(upTo(i))]
           at(j) == CHOOSE i \in I : Cardinality(upTo(i)) = j
           place == [j \in 1..Cardinality(I) |-> at(j)]
<1>0. Chosen(s, I) = [j \in 1..Cardinality(I) |-> s[at(j)]]
  BY DEF Chosen
<1>1. IsFiniteSet(I) /\ Cardinality(I) \in Nat
  <2>1. IsFiniteSet(1..n)
    BY FS_Interval
  <2> QED
    BY <2>1, FS_Subset, FS_CardinalityType
<1>2. ASSUME NEW i \in I
      PROVE  IsFiniteSet(upTo(i)) /\ Cardinality(upTo(i)) \in 1..Cardinality(I)
  <2>1. upTo(i) \in SUBSET I /\ i \in upTo(i)
    OBVIOUS
  <2>2. Cardinality(upTo(i)) <= Cardinality(I) /\ IsFiniteSet(upTo(i))
    BY <1>1, <2>1, FS_Subset
  <2>3. Cardinality(upTo(i)) \in Nat /\ Cardinality(upTo(i)) /= 0
    BY <2>1, <2>2, FS_CardinalityType, FS_EmptySet
  <2> QED
    BY <1>1, <2>2, <2>3
<1>3. ASSUME NEW i \in I, NEW k \in I, i < k
      PROVE  Cardinality(upTo(i)) < Cardinality(upTo(k))
  <2>1. upTo(i) \in SUBSET upTo(k) /\ upTo(i) /= upTo(k)
    <3>1. k \in upTo(k) /\ k \notin upTo(i)
      BY <1>3
    <3>2. \A h \in upTo(i) : h \in upTo(k)
      BY <1>3
    <3> QED
      BY <3>1, <3>2
  <2>2. /\ Cardinality(upTo(i)) <= Cardinality(upTo(k))
        /\ Cardinality(upTo(k)) = Cardinality(upTo(i)) => upTo(k) = upTo(i)
    BY <1>2, <2>1, FS_Subset
  <2> QED
    BY <1>2, <2>1, <2>2
<1> HIDE DEF upTo
<1>4. rank \in Injection(I, 1..Cardinality(I))
  <2>1. rank \in [I -> 1..Cardinality(I)]
    BY <1>2
  <2>2. ASSUME NEW i \in I, NEW k \in I, rank[i] = rank[k]
        PROVE  i = k
    BY <1>2, <1>3, <2>2
  <2> QED
    BY <2>1, <2>2 DEF Injection, IsInjective
<1>5. rank \in Surjection(I, 1..Cardinality(I))
  BY <1>1, <1>4, FS_Injection, FS_Interval
<1>6. \A j \in 1..Cardinality(I) : at(j) \in I /\ rank[at(j)] = j
  <2>1. \A j \in 1..Cardinality(I) : \E i \in I : rank[i] = j
    BY <1>5 DEF Surjection
  <2>2. \A j \in 1..Cardinality(I) : \E i \in I : Cardinality(upTo(i)) = j
    BY <2>1
  <2> QED
    BY <2>2
<1> HIDE DEF at, rank
<1>7. place \in Bijection(1..Cardinality(I), I)
  <2>1. place \in [1..Cardinality(I) -> I]
    BY <1>6
  <2>2. \A j, k \in 1..Cardinality(I) : place[j] = place[k] => j = k
    BY <1>6
  <2>3. ASSUME NEW i \in I
        PROVE  \E j \in 1..Cardinality(I) : place[j] = i
    <3>1. rank[i] \in 1..Cardinality(I)
      BY <1>4 DEF Injection
    <3>2. rank[at(rank[i])] = rank[i] /\ at(rank[i]) \in I
      BY <1>6, <3>1
    <3> QED
      BY <1>4, <3>1, <3>2 DEF Injection, IsInjective
  <2> QED
    BY <2>1, <2>2, <2>3 DEF Bijection, Injection, IsInjective, Surjection
<1>8. ASSUME NEW j \in 1..Cardinality(I), NEW k \in 1..Cardinality(I), j < k
      PROVE  place[j] < place[k]
  <2>1. /\ at(j) \in I /\ at(k) \in I /\ rank[at(j)] = j /\ rank[at(k)] = k
        /\ place[j] = at(j) /\ place[k] = at(k)
    BY <1>6
  <2>2. at(j) \in Nat /\ at(k) \in Nat
    <3>1. \A i \in I : i \in Nat
      OBVIOUS
    <3> HIDE DEF place
    <3> QED
      BY <2>1, <3>1
  <2>3. CASE at(k) < at(j)
    <3>1. rank[at(k)] < rank[at(j)]
      BY <1>3, <2>1, <2>3 DEF rank
    <3> QED
      BY <1>8, <2>1, <3>1
  <2>4. CASE at(k) = at(j)
    BY <1>8, <2>1, <2>4
  <2> QED
    BY <2>1, <2>2, <2>3, <2>4
<1> QED
  <2>1. \A j \in 1..Cardinality(I) : Chosen(s, I)[j] = s[place[j]]
    BY <1>0
  <2>2. Chosen(s, I) \in [1..Cardinality(I) -> {s[i] : i \in I}]
    BY <1>0, <1>6
  <2> HIDE DEF place
  <2>3. Takes(place, s, I)
    BY <1>8, <2>1 DEF Takes
  <2> QED
    BY <1>1, <1>7, <2>2, <2>3

LEMMA ChosenOnes ==
  ASSUME NEW s, NEW n \in Nat, NEW I \in SUBSET (1..n)
  PROVE  /\ Chosen(s, I) \in [1..Cardinality(I) -> {s[i] : i \in I}]
         /\ Cardinality(I) \in Nat
  BY ChosenPlaces, Zenon

-----------------------------------------------------------------------------
(* A sequence without one of its elements.                                   *)

LEMMA RemovedAt ==
  ASSUME NEW S, NEW s \in Seq(S), NEW p \in 1..Len(s)
  PROVE  /\ RemoveAt(s, p) \in Seq(S)
         /\ Len(RemoveAt(s, p)) = Len(s) - 1
         /\ \A j \in 1..(Len(s) - 1) :
               RemoveAt(s, p)[j] = IF j < p THEN s[j] ELSE s[j + 1]
<1>1. Len(s) \in Nat /\ p \in Nat
  OBVIOUS
<1>2. /\ SubSeq(s, 1, p - 1) \in Seq(S) /\ Len(SubSeq(s, 1, p - 1)) = p - 1
      /\ \A j \in 1..(p - 1) : SubSeq(s, 1, p - 1)[j] = s[j]
  BY <1>1
<1>3. /\ SubSeq(s, p + 1, Len(s)) \in Seq(S) /\ Len(SubSeq(s, p + 1, Len(s))) = Len(s) - p
      /\ \A j \in 1..(Len(s) - p) : SubSeq(s, p + 1, Len(s))[j] = s[p + j]
  <2>1. SubSeq(s, p + 1, Len(s)) \in Seq(S)
    BY <1>1
  <2>2. Len(SubSeq(s, p + 1, Len(s))) = Len(s) - p
    BY <1>1
  <2>3. ASSUME NEW j \in 1..(Len(s) - p)
        PROVE  SubSeq(s, p + 1, Len(s))[j] = s[p + j]
    BY <1>1
  <2> QED
    BY <2>1, <2>2, <2>3
<1> DEFINE a == SubSeq(s, 1, p - 1)
           b == SubSeq(s, p + 1, Len(s))
<1>4. /\ Len(a \o b) = Len(a) + Len(b)
      /\ \A i \in 1..Len(a) : (a \o b)[i] = a[i]
      /\ \A i \in 1..(Len(a) + Len(b)) : i > Len(a) => (a \o b)[i] = b[i - Len(a)]
  <2> HIDE DEF a, b
  <2>1. a \in Seq(S) /\ b \in Seq(S)
    BY <1>2, <1>3 DEF a, b
  <2> QED
    BY <2>1, Joined
<1>5. a \o b \in Seq(S)
  BY <1>2, <1>3
<1>6. /\ Len(a) = p - 1 /\ Len(b) = Len(s) - p
      /\ \A j \in 1..(p - 1) : a[j] = s[j]
      /\ \A j \in 1..(Len(s) - p) : b[j] = s[p + j]
  BY <1>2, <1>3
<1> HIDE DEF a, b
<1>7. ASSUME NEW j \in 1..(Len(s) - 1)
      PROVE  (a \o b)[j] = IF j < p THEN s[j] ELSE s[j + 1]
  <2>1. CASE j < p
    BY <1>1, <1>4, <1>6, <2>1
  <2>2. CASE ~(j < p)
    <3>1. j - (p - 1) \in 1..(Len(s) - p) /\ p + (j - (p - 1)) = j + 1
      BY <1>1, <2>2
    <3>2. j > Len(a) /\ j \in 1..(Len(a) + Len(b)) /\ Len(a) = p - 1
      BY <1>1, <1>6, <2>2
    <3>3. (a \o b)[j] = b[j - Len(a)]
      BY <1>4, <3>2
    <3>4. b[j - (p - 1)] = s[p + (j - (p - 1))]
      BY <1>6, <3>1
    <3> QED
      BY <2>2, <3>1, <3>2, <3>3, <3>4
  <2> QED
    BY <2>1, <2>2
<1>8. RemoveAt(s, p) = a \o b
  BY DEF RemoveAt, a, b
<1>9. Len(a \o b) = Len(s) - 1
  BY <1>1, <1>4, <1>6
<1> QED
  BY <1>5, <1>7, <1>8, <1>9

LEMMA RemovedOnce ==
  ASSUME NEW S, NEW s \in Seq(S), NEW p \in 1..Len(s), NEW e,
         \A i \in 1..Len(s) : s[i] = e <=> i = p
  PROVE  /\ RemoveFirst(s, e) \in Seq(S)
         /\ Len(RemoveFirst(s, e)) = Len(s) - 1
         /\ \A j \in 1..(Len(s) - 1) :
               RemoveFirst(s, e)[j] = IF j < p THEN s[j] ELSE s[j + 1]
<1>1. {i \in 1..Len(s) : s[i] = e} = {p}
  OBVIOUS
<1>2. Min({p}) = p
  BY DEF Min
<1>3. SelectInSeq(s, LAMBDA v : v = e) = p
  BY <1>1, <1>2 DEF SelectInSeq
<1>4. RemoveFirst(s, e) = RemoveAt(s, p)
  BY <1>3 DEF RemoveFirst
<1> QED
  BY <1>4, RemovedAt

-----------------------------------------------------------------------------
(* Follow: what the loops over the pointers of a tree reach.                 *)

\* Where each next node has a smaller rank, there is a function that takes
\* every node to the end of its way.
LEMMA FollowIs ==
  ASSUME NEW K \in Nat, NEW next \in [Values -> Values \cup {Nil}],
         NEW rank \in [Values -> 0..K],
         \A m \in Values : next[m] /= Nil => rank[next[m]] < rank[m],
         NEW n \in Values
  PROVE  Follow(next, n) = IF next[n] = Nil THEN n ELSE Follow(next, next[n])
<1> DEFINE Ends(g, m) == g[m] = IF next[m] = Nil THEN m ELSE g[next[m]]
           T == {k \in Nat : \E g \in [Values -> Values] :
                                \A m \in Values : rank[m] < k => Ends(g, m)}
<1>0. ASSUME NEW m \in Values
      PROVE  rank[m] \in Nat /\ rank[m] < K + 1
  <2>1. rank[m] \in 0..K
    OBVIOUS
  <2> QED
    BY <2>1
<1>1. 0 \in T
  <2>1. [m \in Values |-> m] \in [Values -> Values]
    OBVIOUS
  <2>2. ASSUME NEW m \in Values
        PROVE  ~(rank[m] < 0)
    BY <1>0
  <2> HIDE DEF Ends
  <2>3. \E g \in [Values -> Values] : \A m \in Values : rank[m] < 0 => Ends(g, m)
    BY <2>1, <2>2
  <2> QED
    BY <2>3
<1>2. ASSUME NEW k \in T
      PROVE  k + 1 \in T
  <2>1. PICK g \in [Values -> Values] : \A m \in Values : rank[m] < k => Ends(g, m)
    BY <1>2
  <2> DEFINE h == [m \in Values |-> IF rank[m] < k \/ next[m] = Nil THEN g[m]
                                    ELSE g[next[m]]]
             h2 == [m \in Values |-> IF next[m] = Nil THEN m ELSE h[m]]
  <2>2. h2 \in [Values -> Values]
    OBVIOUS
  <2>3. ASSUME NEW m \in Values, rank[m] < k + 1
        PROVE  Ends(h2, m)
    <3>1. CASE next[m] = Nil
      BY <3>1
    <3>2. CASE next[m] /= Nil
      <4>1. next[m] \in Values /\ rank[next[m]] < k /\ k \in Nat
        BY <2>3, <3>2
      <4>2. h2[m] = g[next[m]]
        <5>1. CASE rank[m] < k
          BY <2>1, <3>2, <5>1
        <5>2. CASE ~(rank[m] < k)
          BY <3>2, <5>2
        <5> QED
          BY <5>1, <5>2
      <4>3. h2[next[m]] = g[next[m]]
        BY <2>1, <4>1
      <4> QED
        BY <3>2, <4>2, <4>3
    <3> QED
      BY <3>1, <3>2
  <2> HIDE DEF h2, Ends
  <2> QED
    BY <2>2, <2>3
<1> HIDE DEF Ends
<1>3. T = Nat
  BY <1>1, <1>2, NatIsGenerated
<1>4. PICK g \in [Values -> Values] : \A m \in Values : Ends(g, m)
  <2>1. PICK k \in T : k = K + 1
    <3> HIDE DEF T
    <3> QED
      BY <1>3
  <2>2. ASSUME NEW m \in Values
        PROVE  rank[m] < k
    <3>1. rank[m] < K + 1
      BY <1>0
    <3> QED
      BY <2>1, <3>1
  <2> QED
    BY <2>2
<1>5. g = [m \in Values |-> IF next[m] = Nil THEN m ELSE g[next[m]]]
  BY <1>4 DEF Ends
<1> DEFINE last[m \in Values] == IF next[m] = Nil THEN m ELSE last[next[m]]
<1>6. last = CHOOSE f : f = [m \in Values |-> IF next[m] = Nil THEN m ELSE f[next[m]]]
  BY DEF last
<1>7. last = [m \in Values |-> IF next[m] = Nil THEN m ELSE last[next[m]]]
  BY <1>5, <1>6, Zenon
<1>8. \A m : Follow(next, m) = last[m]
  BY DEF Follow
<1> HIDE DEF last
<1> QED
  BY <1>7, <1>8

\* A way that does not leave Q ends in Q.
LEMMA FollowEnds ==
  ASSUME NEW K \in Nat, NEW next \in [Values -> Values \cup {Nil}],
         NEW rank \in [Values -> 0..K],
         \A m \in Values : next[m] /= Nil => rank[next[m]] < rank[m],
         NEW Q \in SUBSET Values, \A m \in Q : next[m] /= Nil => next[m] \in Q,
         NEW n \in Q
  PROVE  Follow(next, n) \in Q /\ next[Follow(next, n)] = Nil
<1> DEFINE Ends(m) == Follow(next, m) \in Q /\ next[Follow(next, m)] = Nil
           T == {k \in Nat : \A m \in Q : rank[m] < k => Ends(m)}
<1>0. ASSUME NEW m \in Q
      PROVE  rank[m] \in Nat /\ rank[m] < K + 1
  <2>1. rank[m] \in 0..K
    OBVIOUS
  <2> QED
    BY <2>1
<1>1. 0 \in T
  BY <1>0
<1>2. ASSUME NEW k \in T
      PROVE  k + 1 \in T
  <2>1. ASSUME NEW m \in Q, rank[m] < k + 1
        PROVE  Ends(m)
    <3>1. Follow(next, m) = IF next[m] = Nil THEN m ELSE Follow(next, next[m])
      BY FollowIs
    <3>2. CASE next[m] = Nil
      BY <3>1, <3>2
    <3>3. CASE next[m] /= Nil
      <4>1. next[m] \in Q /\ rank[next[m]] < k
        BY <2>1, <3>3
      <4>2. Ends(next[m])
        BY <4>1
      <4> QED
        BY <3>1, <3>3, <4>2
    <3> QED
      BY <3>2, <3>3
  <2> HIDE DEF Ends
  <2> QED
    BY <2>1
<1> HIDE DEF Ends
<1>3. T = Nat
  BY <1>1, <1>2, NatIsGenerated
<1>4. PICK k \in T : k = K + 1
  BY <1>3
<1>5. Ends(n)
  BY <1>0, <1>4
<1> QED
  BY <1>5 DEF Ends

-----------------------------------------------------------------------------
(* Search trees.                                                             *)

\* The pointers of a tree that holds S: whoever has a child is its parent, and
\* each node but the root is a child.
Linked(t, S) ==
  /\ IsTree(t) /\ S \in SUBSET Values
  /\ \A n \in Values : n \notin S => t.left[n] = Nil /\ t.right[n] = Nil /\ t.up[n] = Nil
  /\ t.root \in S \cup {Nil} /\ (S /= {} => t.root /= Nil)
  /\ t.root /= Nil => t.up[t.root] = Nil
  /\ \A n \in S : t.left[n] /= Nil => t.left[n] \in S /\ t.up[t.left[n]] = n
  /\ \A n \in S : t.right[n] /= Nil => t.right[n] \in S /\ t.up[t.right[n]] = n
  /\ \A n \in S : n /= t.root =>
        t.up[n] \in S /\ (t.left[t.up[n]] = n \/ t.right[t.up[n]] = n)

\* The nodes below n are between lo[n] and hi[n]: those on its left below n, and
\* those on its right above.
Bounded(t, S, lo, hi, M) ==
  /\ M \in Nat /\ lo \in [Values -> Nat] /\ hi \in [Values -> Nat]
  /\ \A n \in S : lo[n] < n /\ n < hi[n] /\ hi[n] <= M
  /\ t.root /= Nil => lo[t.root] = 0 /\ hi[t.root] = M
  /\ \A n \in S : t.left[n] /= Nil => lo[t.left[n]] = lo[n] /\ hi[t.left[n]] = n
  /\ \A n \in S : t.right[n] /= Nil => lo[t.right[n]] = n /\ hi[t.right[n]] = hi[n]

\* Nothing is missing between them.
Filled(t, S, lo, hi) ==
  /\ \A n \in S : t.left[n] = Nil => \A m \in S : ~(lo[n] < m /\ m < n)
  /\ \A n \in S : t.right[n] = Nil => \A m \in S : ~(n < m /\ m < hi[n])

\* Both bounds of a node are nodes above it, and what is between its bounds is
\* below it.
Nested(S, lo, hi, M) ==
  /\ \A n \in S : lo[n] = 0 \/ (lo[n] \in S /\ n < hi[lo[n]])
  /\ \A n \in S : hi[n] = M \/ (hi[n] \in S /\ lo[hi[n]] < n)
  /\ \A n, m \in S : lo[n] < m /\ m < n => lo[n] <= lo[m] /\ hi[m] <= n
  /\ \A n, m \in S : n < m /\ m < hi[n] => n <= lo[m] /\ hi[m] <= hi[n]

Searched(t, S, lo, hi, M) ==
  Linked(t, S) /\ Bounded(t, S, lo, hi, M) /\ Filled(t, S, lo, hi) /\ Nested(S, lo, hi, M)

IsSearchTree(t, S) == \E M, lo, hi : Searched(t, S, lo, hi, M)

LEMMA NilIsNone ==
  Nil \notin Values /\ Nil = 0 /\ \A v \in Values : v \in Nat /\ v > 0
BY ValuesAssumption DEF Nil

LEMMA EmptyIsSearchTree == IsSearchTree(EmptyTree, {})
<1> DEFINE z == [n \in Values |-> 0]
<1>1. EmptyTree = [root |-> Nil, left |-> [n \in Values |-> Nil],
                   right |-> [n \in Values |-> Nil], up |-> [n \in Values |-> Nil]]
  BY DEF EmptyTree
<1>2. IsTree(EmptyTree)
  BY <1>1 DEF IsTree
<1>3. Linked(EmptyTree, {})
  BY <1>1, <1>2 DEF Linked
<1>4. Searched(EmptyTree, {}, z, z, 0)
  BY <1>1, <1>3 DEF Searched, Bounded, Filled, Nested
<1> QED
  BY <1>4 DEF IsSearchTree

\* A tree of which the pointers are functions.
LEMMA TreeIs ==
  ASSUME NEW t, IsTree(t)
  PROVE  /\ t = [root |-> t.root, left |-> t.left, right |-> t.right, up |-> t.up]
         /\ t.root \in Values \cup {Nil}
         /\ t.left \in [Values -> Values \cup {Nil}]
         /\ t.right \in [Values -> Values \cup {Nil}]
         /\ t.up \in [Values -> Values \cup {Nil}]
BY DEF IsTree

\* Changing one of the pointers.
IsRecord(t) == t = [root |-> t.root, left |-> t.left, right |-> t.right, up |-> t.up]

LEMMA RootIsSet ==
  ASSUME NEW t, IsRecord(t), NEW f
  PROVE  /\ [t EXCEPT !.root = f] = [root |-> f, left |-> t.left, right |-> t.right, up |-> t.up]
         /\ IsRecord([t EXCEPT !.root = f])
<1>1. PICK r, a, b, c : t = [root |-> r, left |-> a, right |-> b, up |-> c]
  BY DEF IsRecord
<1> QED
  BY <1>1 DEF IsRecord

LEMMA LeftIsSet ==
  ASSUME NEW t, IsRecord(t), NEW f
  PROVE  /\ [t EXCEPT !.left = f] = [root |-> t.root, left |-> f, right |-> t.right, up |-> t.up]
         /\ IsRecord([t EXCEPT !.left = f])
<1>1. PICK r, a, b, c : t = [root |-> r, left |-> a, right |-> b, up |-> c]
  BY DEF IsRecord
<1> QED
  BY <1>1 DEF IsRecord

LEMMA RightIsSet ==
  ASSUME NEW t, IsRecord(t), NEW f
  PROVE  /\ [t EXCEPT !.right = f] = [root |-> t.root, left |-> t.left, right |-> f, up |-> t.up]
         /\ IsRecord([t EXCEPT !.right = f])
<1>1. PICK r, a, b, c : t = [root |-> r, left |-> a, right |-> b, up |-> c]
  BY DEF IsRecord
<1> QED
  BY <1>1 DEF IsRecord

LEMMA UpIsSet ==
  ASSUME NEW t, IsRecord(t), NEW f
  PROVE  /\ [t EXCEPT !.up = f] = [root |-> t.root, left |-> t.left, right |-> t.right, up |-> f]
         /\ IsRecord([t EXCEPT !.up = f])
<1>1. PICK r, a, b, c : t = [root |-> r, left |-> a, right |-> b, up |-> c]
  BY DEF IsRecord
<1> QED
  BY <1>1 DEF IsRecord

\* The bounds of a node in the tree narrow on the way down.
Width(S, lo, hi) == [n \in Values |-> IF n \in S THEN hi[n] - lo[n] ELSE 0]

LEMMA WidthIs ==
  ASSUME NEW t, NEW S, NEW lo, NEW hi, NEW M, Searched(t, S, lo, hi, M)
  PROVE  /\ Width(S, lo, hi) \in [Values -> 0..M]
         /\ \A n \in S : Width(S, lo, hi)[n] = hi[n] - lo[n]
<1>1. ASSUME NEW n \in Values
      PROVE  (IF n \in S THEN hi[n] - lo[n] ELSE 0) \in 0..M
  <2>1. lo[n] \in Nat /\ hi[n] \in Nat /\ M \in Nat /\ n \in Nat
    BY NilIsNone DEF Searched, Bounded
  <2>2. CASE n \in S
    <3>1. lo[n] < n /\ n < hi[n] /\ hi[n] <= M
      BY <2>2 DEF Searched, Bounded
    <3> QED
      BY <2>1, <2>2, <3>1
  <2> QED
    BY <2>1, <2>2
<1>2. S \subseteq Values
  BY DEF Searched, Linked
<1> QED
  BY <1>1, <1>2 DEF Width

\* What is on the way down to v.
Way(t, v) == [n \in Values |-> CASE v < n -> t.left[n] [] v > n -> t.right[n] [] OTHER -> Nil]

LEMMA WayIs ==
  ASSUME NEW t, IsTree(t), NEW v \in Values
  PROVE  /\ Way(t, v) \in [Values -> Values \cup {Nil}]
         /\ \A n \in Values : /\ v < n => Way(t, v)[n] = t.left[n]
                              /\ v > n => Way(t, v)[n] = t.right[n]
                              /\ v = n => Way(t, v)[n] = Nil
<1>1. ASSUME NEW n \in Values
      PROVE  /\ v < n => Way(t, v)[n] = t.left[n]
             /\ v > n => Way(t, v)[n] = t.right[n]
             /\ v = n => Way(t, v)[n] = Nil
  <2>1. v \in Nat /\ n \in Nat
    BY NilIsNone
  <2>2. Way(t, v)[n] = CASE v < n -> t.left[n] [] v > n -> t.right[n] [] OTHER -> Nil
    BY DEF Way
  <2> QED
    BY <2>1, <2>2
<1>2. ASSUME NEW n \in Values
      PROVE  Way(t, v)[n] \in Values \cup {Nil}
  <2>1. v \in Nat /\ n \in Nat
    BY NilIsNone
  <2>2. t.left[n] \in Values \cup {Nil} /\ t.right[n] \in Values \cup {Nil}
    BY TreeIs
  <2>3. v < n \/ v > n \/ v = n
    BY <2>1
  <2> QED
    BY <1>1, <2>2, <2>3
<1>3. Way(t, v) \in [Values -> Values \cup {Nil}]
  BY <1>2 DEF Way
<1> QED
  BY <1>1, <1>3

\* The way to v ends at v, or where v would hang.
LEMMA WalkEnds ==
  ASSUME NEW t, NEW S, NEW lo, NEW hi, NEW M, Searched(t, S, lo, hi, M), S /= {},
         NEW v \in Values, v < M
  PROVE  LET p == WalkTo(t, v)
         IN /\ p \in S /\ lo[p] < v /\ v < hi[p]
            /\ v = p \/ (v < p /\ t.left[p] = Nil) \/ (v > p /\ t.right[p] = Nil)
<1> DEFINE way == Way(t, v)
           rank == Width(S, lo, hi)
           Q == {n \in S : lo[n] < v /\ v < hi[n]}
<1>1. IsTree(t) /\ S \subseteq Values /\ M \in Nat
  BY DEF Searched, Linked, Bounded
<1>2. way \in [Values -> Values \cup {Nil}]
  BY <1>1, WayIs
<1>3. rank \in [Values -> 0..M] /\ \A n \in S : rank[n] = hi[n] - lo[n]
  BY WidthIs
<1>4. ASSUME NEW n \in S, way[n] /= Nil
      PROVE  /\ way[n] \in S
             /\ v < n => lo[way[n]] = lo[n] /\ hi[way[n]] = n
             /\ ~(v < n) => n < v /\ lo[way[n]] = n /\ hi[way[n]] = hi[n]
  <2>1. n \in Values /\ n \in Nat /\ v \in Nat
    BY <1>1, NilIsNone
  <2>2. CASE v < n
    <3>1. way[n] = t.left[n]
      BY <1>1, <2>1, <2>2, WayIs
    <3> QED
      BY <1>4, <2>2, <3>1 DEF Searched, Linked, Bounded
  <2>3. CASE v > n
    <3>1. way[n] = t.right[n]
      BY <1>1, <2>1, <2>3, WayIs
    <3>2. way[n] \in S /\ lo[way[n]] = n /\ hi[way[n]] = hi[n]
      BY <1>4, <2>3, <3>1 DEF Searched, Linked, Bounded
    <3> QED
      BY <2>1, <2>3, <3>2
  <2>4. v /= n
    BY <1>1, <1>4, <2>1, WayIs
  <2> QED
    BY <2>1, <2>2, <2>3, <2>4
<1>5. ASSUME NEW n \in S
      PROVE  lo[n] \in Nat /\ hi[n] \in Nat /\ n \in Nat /\ v \in Nat /\ lo[n] < n /\ n < hi[n]
  BY <1>1, NilIsNone DEF Searched, Bounded
<1>6. ASSUME NEW n \in Values, way[n] /= Nil
      PROVE  rank[way[n]] < rank[n]
  <2>1. n \in S
    <3>1. n \notin S => t.left[n] = Nil /\ t.right[n] = Nil
      BY DEF Searched, Linked
    <3>2. n \in Nat /\ v \in Nat
      BY NilIsNone
    <3> QED
      BY <1>1, <1>6, <3>1, <3>2, WayIs
  <2>2. /\ way[n] \in S /\ rank[way[n]] = hi[way[n]] - lo[way[n]] /\ rank[n] = hi[n] - lo[n]
    BY <1>3, <1>4, <1>6, <2>1
  <2>3. lo[n] \in Nat /\ hi[n] \in Nat /\ n \in Nat /\ lo[n] < n /\ n < hi[n]
    BY <1>5, <2>1
  <2>4. CASE v < n
    BY <1>4, <1>6, <2>1, <2>2, <2>3, <2>4
  <2>5. CASE ~(v < n)
    BY <1>4, <1>6, <2>1, <2>2, <2>3, <2>5
  <2> QED
    BY <2>4, <2>5
<1>7. ASSUME NEW n \in Q, way[n] /= Nil
      PROVE  way[n] \in Q
  <2>1. CASE v < n
    BY <1>4, <1>7, <2>1
  <2>2. CASE ~(v < n)
    BY <1>4, <1>7, <2>2
  <2> QED
    BY <2>1, <2>2
<1>8. t.root \in Q
  <2>1. t.root \in S /\ lo[t.root] = 0 /\ hi[t.root] = M
    BY DEF Searched, Linked, Bounded
  <2> QED
    BY <2>1, NilIsNone
<1>9. Q \in SUBSET Values
  BY <1>1
<1>10. WalkTo(t, v) = Follow(way, t.root)
  <2>1. t.root /= Nil
    BY DEF Searched, Linked
  <2> QED
    BY <2>1 DEF WalkTo, Way
<1> HIDE DEF way, rank, Q
<1>11. WalkTo(t, v) \in Q /\ way[WalkTo(t, v)] = Nil
  BY <1>1, <1>2, <1>3, <1>6, <1>7, <1>8, <1>9, <1>10, FollowEnds
<1>12. PICK p : p = WalkTo(t, v)
  OBVIOUS
<1>13. p \in S /\ lo[p] < v /\ v < hi[p]
  BY <1>11, <1>12 DEF Q
<1>14. v = p \/ (v < p /\ t.left[p] = Nil) \/ (v > p /\ t.right[p] = Nil)
  <2>1. p \in Values /\ p \in Nat /\ v \in Nat
    BY <1>1, <1>13, NilIsNone
  <2>2. v < p \/ v > p \/ v = p
    BY <2>1
  <2> QED
    BY <1>1, <1>11, <1>12, <2>1, <2>2, WayIs DEF way
<1> QED
  BY <1>12, <1>13, <1>14

\* A bound of the tree may be raised.
LEMMA BoundIsRaised ==
  ASSUME NEW t, NEW S, IsSearchTree(t, S), NEW v \in Nat
  PROVE  \E M, lo, hi : v < M /\ Searched(t, S, lo, hi, M)
<1>1. PICK M, lo, hi : Searched(t, S, lo, hi, M)
  BY DEF IsSearchTree
<1> DEFINE N == M + v + 1
           up == [n \in Values |-> IF hi[n] = M THEN N ELSE hi[n]]
<1>2. M \in Nat /\ S \subseteq Values /\ lo \in [Values -> Nat] /\ hi \in [Values -> Nat]
  BY <1>1 DEF Searched, Bounded, Linked
<1>3. N \in Nat /\ v < N /\ M < N
  BY <1>2
<1> HIDE DEF N
<1>4. \A n \in Values : hi[n] \in Nat /\ up[n] = IF hi[n] = M THEN N ELSE hi[n]
  BY <1>2
<1>5. up \in [Values -> Nat]
  BY <1>2, <1>3
<1> HIDE DEF up
<1>6. ASSUME NEW n \in S
      PROVE  /\ n \in Nat /\ lo[n] \in Nat /\ hi[n] \in Nat /\ lo[n] < n /\ n < hi[n] /\ hi[n] <= M
             /\ hi[n] <= up[n] /\ up[n] <= N
             /\ \A m \in S : m < up[n] <=> m < hi[n]
  <2>1. /\ n \in Nat /\ lo[n] \in Nat /\ hi[n] \in Nat
        /\ lo[n] < n /\ n < hi[n] /\ hi[n] <= M
    BY <1>1, <1>2, NilIsNone DEF Searched, Bounded
  <2>2. \A m \in S : m \in Nat /\ m < M
    <3>1. ASSUME NEW m \in S
          PROVE  m \in Nat /\ m < M
      <4>1. m \in Nat /\ hi[m] \in Nat /\ m < hi[m] /\ hi[m] <= M
        BY <1>1, <1>2, NilIsNone DEF Searched, Bounded
      <4> QED
        BY <1>2, <4>1
    <3> QED
      BY <3>1
  <2>3. up[n] = IF hi[n] = M THEN N ELSE hi[n]
    BY <1>2, <1>4
  <2>4. CASE hi[n] = M
    BY <1>2, <1>3, <2>1, <2>2, <2>3, <2>4
  <2>5. CASE hi[n] /= M
    BY <1>2, <1>3, <2>1, <2>2, <2>3, <2>5
  <2> QED
    BY <2>4, <2>5
<1>7. \A n \in S : n \in Values
  BY <1>2
<1>8. Bounded(t, S, lo, up, N)
  <2>1. \A n \in S : lo[n] < n /\ n < up[n] /\ up[n] <= N
    <3>1. ASSUME NEW n \in S
          PROVE  n < up[n]
      <4>1. up[n] \in Nat
        BY <1>5, <1>7
      <4> QED
        BY <1>6, <4>1
    <3> QED
      BY <1>6, <3>1
  <2>2. t.root /= Nil => lo[t.root] = 0 /\ up[t.root] = N
    <3>1. t.root /= Nil => t.root \in S /\ lo[t.root] = 0 /\ hi[t.root] = M
      BY <1>1 DEF Searched, Bounded, Linked
    <3> QED
      BY <1>4, <1>7, <3>1
  <2>3. ASSUME NEW n \in S, t.left[n] /= Nil
        PROVE  lo[t.left[n]] = lo[n] /\ up[t.left[n]] = n
    <3>1. t.left[n] \in S /\ lo[t.left[n]] = lo[n] /\ hi[t.left[n]] = n
      BY <1>1, <2>3 DEF Searched, Bounded, Linked
    <3>2. n < M
      BY <1>2, <1>6
    <3>3. n /= M
      BY <1>2, <1>6, <3>2
    <3> QED
      BY <1>4, <1>7, <3>1, <3>3
  <2>4. ASSUME NEW n \in S, t.right[n] /= Nil
        PROVE  lo[t.right[n]] = n /\ up[t.right[n]] = up[n]
    <3>1. t.right[n] \in S /\ lo[t.right[n]] = n /\ hi[t.right[n]] = hi[n]
      BY <1>1, <2>4 DEF Searched, Bounded, Linked
    <3> QED
      BY <1>4, <1>7, <3>1
  <2> QED
    BY <1>2, <1>3, <1>5, <2>1, <2>2, <2>3, <2>4 DEF Bounded
<1>9. Filled(t, S, lo, up)
  BY <1>1, <1>6 DEF Searched, Filled
<1>10. Nested(S, lo, up, N)
  <2>1. ASSUME NEW n \in S, lo[n] /= 0
        PROVE  lo[n] \in S /\ n < up[lo[n]]
    <3>1. lo[n] \in S /\ n < hi[lo[n]]
      BY <1>1, <2>1 DEF Searched, Nested
    <3> QED
      BY <1>6, <3>1
  <2>2. ASSUME NEW n \in S, up[n] /= N
        PROVE  up[n] \in S /\ lo[up[n]] < n
    <3>1. hi[n] /= M /\ up[n] = hi[n]
      BY <1>4, <1>7, <2>2
    <3> QED
      BY <1>1, <3>1 DEF Searched, Nested
  <2>3. ASSUME NEW n \in S, NEW m \in S, lo[n] < m, m < n
        PROVE  lo[n] <= lo[m] /\ up[m] <= n
    <3>1. lo[n] <= lo[m] /\ hi[m] <= n
      BY <1>1, <2>3 DEF Searched, Nested
    <3>2. hi[m] /= M
      BY <1>2, <1>6, <3>1
    <3> QED
      BY <1>4, <1>7, <3>1, <3>2
  <2>4. ASSUME NEW n \in S, NEW m \in S, n < m, m < up[n]
        PROVE  n <= lo[m] /\ up[m] <= up[n]
    <3>1. m < hi[n]
      BY <1>6, <2>4
    <3>2. n <= lo[m] /\ hi[m] <= hi[n]
      BY <1>1, <2>4, <3>1 DEF Searched, Nested
    <3>3. up[m] <= up[n]
      <4>1. CASE hi[n] = M
        BY <1>4, <1>6, <1>7, <4>1
      <4>2. CASE hi[n] /= M
        <5>1. hi[m] /= M /\ up[n] = hi[n]
          BY <1>2, <1>4, <1>6, <1>7, <3>2, <4>2
        <5> QED
          BY <1>4, <1>7, <3>2, <5>1
      <4> QED
        BY <4>1, <4>2
    <3> QED
      BY <3>2, <3>3
  <2> QED
    BY <2>1, <2>2, <2>3, <2>4 DEF Nested
<1>11. Searched(t, S, lo, up, N)
  BY <1>1, <1>8, <1>9, <1>10 DEF Searched
<1> QED
  BY <1>3, <1>11

\* What is looked for is found exactly if it is there.
LEMMA HoldsIs ==
  ASSUME NEW t, NEW S, IsSearchTree(t, S), NEW v \in Values
  PROVE  Holds(t, v) <=> v \in S
<1>1. v \in Nat /\ v /= Nil
  BY NilIsNone
<1>2. PICK M, lo, hi : v < M /\ Searched(t, S, lo, hi, M)
  BY <1>1, BoundIsRaised
<1>3. CASE S = {}
  <2>1. t.root = Nil
    BY <1>2, <1>3 DEF Searched, Linked
  <2>2. WalkTo(t, v) = Nil
    BY <2>1 DEF WalkTo
  <2> QED
    BY <1>1, <1>3, <2>2 DEF Holds
<1>4. CASE S /= {}
  <2>1. PICK p \in S : /\ p = WalkTo(t, v) /\ lo[p] < v /\ v < hi[p]
                       /\ v = p \/ (v < p /\ t.left[p] = Nil) \/ (v > p /\ t.right[p] = Nil)
    BY <1>2, <1>4, WalkEnds
  <2>2. v \in S => v = p
    BY <1>2, <2>1 DEF Searched, Filled
  <2> QED
    BY <2>1, <2>2 DEF Holds
<1> QED
  BY <1>3, <1>4

\* The least node that is below n, and the greatest.
LEMMA LeftmostIs ==
  ASSUME NEW t, NEW S, NEW lo, NEW hi, NEW M, Searched(t, S, lo, hi, M), NEW n \in S
  PROVE  LET x == Leftmost(t, n)
         IN x \in S /\ lo[x] = lo[n] /\ hi[x] <= hi[n] /\ t.left[x] = Nil
<1> DEFINE rank == Width(S, lo, hi)
           Q == {m \in S : lo[m] = lo[n] /\ hi[m] <= hi[n]}
<1>1. IsTree(t) /\ S \subseteq Values /\ M \in Nat
  BY DEF Searched, Linked, Bounded
<1>2. t.left \in [Values -> Values \cup {Nil}]
  BY <1>1, TreeIs
<1>3. rank \in [Values -> 0..M] /\ \A m \in S : rank[m] = hi[m] - lo[m]
  BY WidthIs
<1>4. ASSUME NEW m \in S
      PROVE  m \in Nat /\ lo[m] \in Nat /\ hi[m] \in Nat /\ lo[m] < m /\ m < hi[m]
  BY <1>1, NilIsNone DEF Searched, Bounded
<1>5. ASSUME NEW m \in S, t.left[m] /= Nil
      PROVE  t.left[m] \in S /\ lo[t.left[m]] = lo[m] /\ hi[t.left[m]] = m
  BY <1>5 DEF Searched, Bounded, Linked
<1>6. ASSUME NEW m \in Values, t.left[m] /= Nil
      PROVE  rank[t.left[m]] < rank[m]
  <2>1. m \in S
    BY <1>6 DEF Searched, Linked
  <2>2. rank[t.left[m]] = m - lo[m] /\ rank[m] = hi[m] - lo[m]
    BY <1>3, <1>5, <1>6, <2>1
  <2> QED
    BY <1>4, <2>1, <2>2
<1>7. ASSUME NEW m \in Q, t.left[m] /= Nil
      PROVE  t.left[m] \in Q
  <2>1. m \in Nat /\ hi[m] \in Nat /\ hi[n] \in Nat /\ m < hi[m] /\ hi[m] <= hi[n]
    BY <1>4
  <2> QED
    BY <1>5, <1>7, <2>1
<1>8. n \in Q /\ Q \in SUBSET Values
  BY <1>1, <1>4
<1> HIDE DEF rank, Q
<1>9. Leftmost(t, n) \in Q /\ t.left[Leftmost(t, n)] = Nil
  BY <1>1, <1>2, <1>3, <1>6, <1>7, <1>8, FollowEnds DEF Leftmost
<1> QED
  BY <1>9 DEF Q

LEMMA RightmostIs ==
  ASSUME NEW t, NEW S, NEW lo, NEW hi, NEW M, Searched(t, S, lo, hi, M), NEW n \in S
  PROVE  LET x == Rightmost(t, n)
         IN x \in S /\ hi[x] = hi[n] /\ lo[n] <= lo[x] /\ t.right[x] = Nil
<1> DEFINE rank == Width(S, lo, hi)
           Q == {m \in S : hi[m] = hi[n] /\ lo[n] <= lo[m]}
<1>1. IsTree(t) /\ S \subseteq Values /\ M \in Nat
  BY DEF Searched, Linked, Bounded
<1>2. t.right \in [Values -> Values \cup {Nil}]
  BY <1>1, TreeIs
<1>3. rank \in [Values -> 0..M] /\ \A m \in S : rank[m] = hi[m] - lo[m]
  BY WidthIs
<1>4. ASSUME NEW m \in S
      PROVE  m \in Nat /\ lo[m] \in Nat /\ hi[m] \in Nat /\ lo[m] < m /\ m < hi[m]
  BY <1>1, NilIsNone DEF Searched, Bounded
<1>5. ASSUME NEW m \in S, t.right[m] /= Nil
      PROVE  t.right[m] \in S /\ lo[t.right[m]] = m /\ hi[t.right[m]] = hi[m]
  BY <1>5 DEF Searched, Bounded, Linked
<1>6. ASSUME NEW m \in Values, t.right[m] /= Nil
      PROVE  rank[t.right[m]] < rank[m]
  <2>1. m \in S
    BY <1>6 DEF Searched, Linked
  <2>2. rank[t.right[m]] = hi[m] - m /\ rank[m] = hi[m] - lo[m]
    BY <1>3, <1>5, <1>6, <2>1
  <2> QED
    BY <1>4, <2>1, <2>2
<1>7. ASSUME NEW m \in Q, t.right[m] /= Nil
      PROVE  t.right[m] \in Q
  <2>1. m \in Nat /\ lo[m] \in Nat /\ lo[n] \in Nat /\ lo[m] < m /\ lo[n] <= lo[m]
    BY <1>4
  <2> QED
    BY <1>5, <1>7, <2>1
<1>8. n \in Q /\ Q \in SUBSET Values
  BY <1>1, <1>4
<1> HIDE DEF rank, Q
<1>9. Rightmost(t, n) \in Q /\ t.right[Rightmost(t, n)] = Nil
  BY <1>1, <1>2, <1>3, <1>6, <1>7, <1>8, FollowEnds DEF Rightmost
<1> QED
  BY <1>9 DEF Q

\* Where the way up turns right.
Above(t) == [m \in Values |-> LET p == t.up[m]
                              IN IF p /= Nil /\ t.right[p] = m THEN p ELSE Nil]

LEMMA AboveIs ==
  ASSUME NEW t, NEW S, NEW lo, NEW hi, NEW M, Searched(t, S, lo, hi, M)
  PROVE  /\ M \in Nat /\ Above(t) \in [Values -> Values \cup {Nil}]
         /\ \A m \in Values :
               Above(t)[m] = IF t.up[m] /= Nil /\ t.right[t.up[m]] = m THEN t.up[m] ELSE Nil
         /\ \A m \in Values :
               Above(t)[m] /= Nil => m \in S /\ Above(t)[m] \in S /\ hi[m] = hi[Above(t)[m]]
         /\ \E rank \in [Values -> 0..M] :
               \A m \in Values : Above(t)[m] /= Nil => rank[Above(t)[m]] < rank[m]
<1> DEFINE above == Above(t)
           width == Width(S, lo, hi)
           rank == [m \in Values |-> IF m \in S THEN M - width[m] ELSE 0]
<1>1. IsTree(t) /\ S \subseteq Values /\ M \in Nat
  BY DEF Searched, Linked, Bounded
<1>2. ASSUME NEW m \in S
      PROVE  m \in Nat /\ lo[m] \in Nat /\ hi[m] \in Nat /\ lo[m] < m /\ m < hi[m] /\ hi[m] <= M
  BY <1>1, NilIsNone DEF Searched, Bounded
<1>3. \A m \in Values : t.up[m] \in Values \cup {Nil}
  BY <1>1, TreeIs
<1>4. above \in [Values -> Values \cup {Nil}]
  BY <1>3 DEF Above
<1>5. ASSUME NEW m \in Values
      PROVE  above[m] = IF t.up[m] /= Nil /\ t.right[t.up[m]] = m THEN t.up[m] ELSE Nil
  BY DEF Above
<1>6. rank \in [Values -> 0..M] /\ \A m \in S : rank[m] = M - (hi[m] - lo[m])
  <2>1. width \in [Values -> 0..M] /\ \A m \in S : width[m] = hi[m] - lo[m]
    BY WidthIs
  <2> HIDE DEF width
  <2>2. ASSUME NEW m \in Values
        PROVE  (IF m \in S THEN M - width[m] ELSE 0) \in 0..M
    <3>1. width[m] \in 0..M
      BY <2>1
    <3> QED
      BY <1>1, <3>1
  <2> QED
    BY <1>1, <2>1, <2>2
<1>7. ASSUME NEW m \in Values, above[m] /= Nil
      PROVE  m \in S /\ above[m] \in S /\ above[m] = t.up[m] /\ t.right[above[m]] = m
  <2>1. above[m] = t.up[m] /\ t.up[m] /= Nil /\ t.right[t.up[m]] = m
    BY <1>5, <1>7
  <2>2. m \in S
    BY <2>1 DEF Searched, Linked
  <2>3. m /= t.root
    BY <2>1, <2>2 DEF Searched, Linked
  <2> QED
    BY <2>1, <2>2, <2>3 DEF Searched, Linked
<1>8. ASSUME NEW m \in Values, above[m] /= Nil
      PROVE  lo[m] = above[m] /\ hi[m] = hi[above[m]]
  <2>1. m \in S /\ above[m] \in S /\ t.right[above[m]] = m
    BY <1>7, <1>8
  <2>2. m /= Nil
    BY NilIsNone
  <2> QED
    BY <2>1, <2>2 DEF Searched, Bounded
<1>9. ASSUME NEW m \in Values, above[m] /= Nil
      PROVE  rank[above[m]] < rank[m]
  <2>1. PICK a \in S : a = above[m] /\ m \in S /\ lo[m] = a /\ hi[m] = hi[a]
    BY <1>7, <1>8, <1>9
  <2>2. rank[a] = M - (hi[a] - lo[a]) /\ rank[m] = M - (hi[m] - lo[m])
    BY <1>6, <2>1
  <2>3. a \in Nat /\ lo[a] \in Nat /\ hi[a] \in Nat /\ lo[a] < a
    BY <1>2
  <2>4. rank[a] < rank[m]
    BY <1>1, <2>1, <2>2, <2>3
  <2> QED
    BY <2>1, <2>4
<1> HIDE DEF above, rank
<1>10. \E r \in [Values -> 0..M] : \A m \in Values : above[m] /= Nil => r[above[m]] < r[m]
  BY <1>6, <1>9
<1> QED
  BY <1>1, <1>4, <1>5, <1>7, <1>8, <1>10 DEF above

LEMMA AboveEnds ==
  ASSUME NEW t, NEW S, NEW lo, NEW hi, NEW M, Searched(t, S, lo, hi, M), NEW n \in S
  PROVE  LET p == t.up[Follow(Above(t), n)]
         IN (p = Nil /\ hi[n] = M) \/ (p \in S /\ hi[n] = p)
<1> DEFINE above == Above(t)
           Q == {m \in S : hi[m] = hi[n]}
<1>1. IsTree(t) /\ S \subseteq Values /\ M \in Nat
  BY DEF Searched, Linked, Bounded
<1>2. /\ above \in [Values -> Values \cup {Nil}]
      /\ \A m \in Values :
            above[m] = IF t.up[m] /= Nil /\ t.right[t.up[m]] = m THEN t.up[m] ELSE Nil
      /\ \A m \in Values :
            above[m] /= Nil => m \in S /\ above[m] \in S /\ hi[m] = hi[above[m]]
  BY AboveIs
<1>3. PICK rank \in [Values -> 0..M] :
          \A m \in Values : above[m] /= Nil => rank[above[m]] < rank[m]
  BY AboveIs
<1>4. \A m \in Q : above[m] /= Nil => above[m] \in Q
  BY <1>1, <1>2
<1>5. n \in Q /\ Q \in SUBSET Values
  BY <1>1
<1> HIDE DEF above, Q
<1>6. Follow(above, n) \in Q /\ above[Follow(above, n)] = Nil
  BY <1>1, <1>2, <1>3, <1>4, <1>5, FollowEnds
<1>7. PICK m \in S : m = Follow(above, n) /\ hi[m] = hi[n] /\ above[m] = Nil
  BY <1>6 DEF Q
<1>8. CASE m = t.root
  <2>1. t.up[m] = Nil /\ hi[m] = M
    BY <1>1, <1>8, NilIsNone DEF Searched, Linked, Bounded
  <2> QED
    BY <1>7, <2>1 DEF above
<1>9. CASE m /= t.root
  <2>1. t.up[m] \in S /\ (t.left[t.up[m]] = m \/ t.right[t.up[m]] = m)
    BY <1>9 DEF Searched, Linked
  <2>2. t.up[m] /= Nil /\ m \in Values /\ m /= Nil
    BY <1>1, <2>1, NilIsNone
  <2>3. t.left[t.up[m]] = m
    BY <1>2, <1>7, <2>1, <2>2
  <2>4. hi[m] = t.up[m]
    BY <2>1, <2>2, <2>3 DEF Searched, Bounded
  <2> QED
    BY <1>7, <2>1, <2>4 DEF above
<1> QED
  BY <1>8, <1>9

\* Successor is the next greater node.
LEMMA SuccessorIs ==
  ASSUME NEW t, NEW S, NEW lo, NEW hi, NEW M, Searched(t, S, lo, hi, M), NEW n \in S
  PROVE  LET x == Successor(t, n)
         IN \/ x = Nil /\ \A m \in S : m <= n
            \/ x \in S /\ n < x /\ \A m \in S : n < m => x <= m
<1>1. ASSUME NEW m \in S
      PROVE  /\ m \in Values /\ m \in Nat /\ lo[m] \in Nat /\ hi[m] \in Nat
             /\ lo[m] < m /\ m < hi[m] /\ hi[m] <= M /\ M \in Nat
  BY NilIsNone DEF Searched, Bounded, Linked
<1>2. CASE t.right[n] /= Nil
  <2>1. t.right[n] \in S /\ lo[t.right[n]] = n /\ hi[t.right[n]] = hi[n]
    BY <1>2 DEF Searched, Bounded, Linked
  <2>2. PICK x \in S : x = Leftmost(t, t.right[n]) /\ lo[x] = n /\ t.left[x] = Nil
    BY <2>1, LeftmostIs
  <2>3. \A m \in S : ~(n < m /\ m < x)
    BY <2>2 DEF Searched, Filled
  <2>4. n < x
    BY <1>1, <2>2
  <2>5. \A m \in S : n < m => x <= m
    BY <1>1, <2>3
  <2>6. x = Successor(t, n)
    BY <1>2, <2>2 DEF Successor
  <2> QED
    BY <2>4, <2>5, <2>6
<1>3. CASE t.right[n] = Nil
  <2>1. \A m \in S : ~(n < m /\ m < hi[n])
    BY <1>3 DEF Searched, Filled
  <2>2. PICK x : x = Successor(t, n) /\ x = t.up[Follow(Above(t), n)]
    BY <1>3 DEF Successor, Above
  <2>3. (x = Nil /\ hi[n] = M) \/ (x \in S /\ hi[n] = x)
    BY <2>2, AboveEnds
  <2>4. CASE x = Nil /\ hi[n] = M
    <3>1. ASSUME NEW m \in S
          PROVE  m <= n
      <4>1. m < M
        BY <1>1
      <4> QED
        BY <1>1, <2>1, <2>4, <4>1
    <3> QED
      BY <2>2, <2>4, <3>1
  <2>5. CASE x \in S /\ hi[n] = x
    <3>1. ASSUME NEW m \in S, n < m
          PROVE  x <= m
      BY <1>1, <2>1, <2>5, <3>1
    <3>2. n < x
      BY <1>1, <2>5
    <3> QED
      BY <2>2, <2>5, <3>1, <3>2
  <2> QED
    BY <2>3, <2>4, <2>5
<1> QED
  BY <1>2, <1>3

\* What is no node has no successor.
LEMMA NoSuccessor ==
  ASSUME NEW t, NEW S, NEW lo, NEW hi, NEW M, Searched(t, S, lo, hi, M),
         NEW n \in Values, n \notin S
  PROVE  Successor(t, n) = Nil
<1>1. t.right[n] = Nil /\ t.up[n] = Nil
  BY DEF Searched, Linked
<1>2. /\ M \in Nat /\ Above(t) \in [Values -> Values \cup {Nil}]
      /\ Above(t)[n] = Nil
  BY <1>1, AboveIs
<1>3. PICK rank \in [Values -> 0..M] :
          \A m \in Values : Above(t)[m] /= Nil => rank[Above(t)[m]] < rank[m]
  BY AboveIs
<1>4. Follow(Above(t), n) = n
  BY <1>2, <1>3, FollowIs
<1> QED
  BY <1>1, <1>4 DEF Successor, Above

\* The walk from a node is the node and the walk from its successor.
LEMMA WalkIs ==
  ASSUME NEW t, NEW S, NEW lo, NEW hi, NEW M, Searched(t, S, lo, hi, M)
  PROVE  \E walk :
           /\ \A n \in Values : walk[n] = IF Successor(t, n) = Nil THEN <<n>>
                                          ELSE <<n>> \o walk[Successor(t, n)]
           /\ InOrder(t) = IF t.root = Nil THEN <<>> ELSE walk[Leftmost(t, t.root)]
<1> DEFINE next == [n \in Values |-> Successor(t, n)]
           rank == [n \in Values |-> IF n \in S THEN M - n ELSE 0]
           Goes(g, n) == g[n] = IF next[n] = Nil THEN <<n>> ELSE <<n>> \o g[next[n]]
           T == {k \in Nat : \E g \in [Values -> Seq(Values)] :
                                \A n \in Values : rank[n] < k => Goes(g, n)}
<1>1. S \subseteq Values /\ M \in Nat
  BY DEF Searched, Linked, Bounded
<1>2. ASSUME NEW n \in Values
      PROVE  /\ n \in Nat /\ n /= Nil /\ rank[n] \in Nat /\ rank[n] < M + 1
             /\ n \in S => n < M
  <2>1. n \in Nat /\ n /= Nil
    BY NilIsNone
  <2>2. CASE n \in S
    <3>1. hi[n] \in Nat /\ n < hi[n] /\ hi[n] <= M
      BY <2>2 DEF Searched, Bounded
    <3> QED
      BY <1>1, <2>1, <2>2, <3>1
  <2> QED
    BY <1>1, <2>1, <2>2
<1>3. ASSUME NEW n \in Values, next[n] /= Nil
      PROVE  next[n] \in Values /\ n < next[n] /\ rank[next[n]] < rank[n]
  <2>1. n \in S
    BY <1>3, NoSuccessor
  <2>2. next[n] \in S /\ n < next[n]
    BY <1>3, <2>1, SuccessorIs
  <2>3. next[n] \in Nat /\ next[n] < M /\ next[n] \in Values
    BY <1>1, <1>2, <2>2
  <2> HIDE DEF next
  <2> QED
    BY <1>1, <1>2, <2>1, <2>2, <2>3
<1>4. \A n \in Values : next[n] = Successor(t, n)
  OBVIOUS
<1> HIDE DEF next, rank
<1>5. 0 \in T
  <2>1. [m \in Values |-> <<m>>] \in [Values -> Seq(Values)]
    OBVIOUS
  <2>2. ASSUME NEW m \in Values
        PROVE  ~(rank[m] < 0)
    BY <1>2
  <2> HIDE DEF Goes
  <2>3. \E g \in [Values -> Seq(Values)] : \A m \in Values : rank[m] < 0 => Goes(g, m)
    BY <2>1, <2>2
  <2> QED
    BY <2>3
<1>6. ASSUME NEW k \in T
      PROVE  k + 1 \in T
  <2>1. PICK g \in [Values -> Seq(Values)] : \A n \in Values : rank[n] < k => Goes(g, n)
    BY <1>6
  <2> DEFINE h == [n \in Values |-> IF next[n] = Nil THEN <<n>> ELSE <<n>> \o g[next[n]]]
  <2>2. h \in [Values -> Seq(Values)]
    <3>1. ASSUME NEW n \in Values
          PROVE  (IF next[n] = Nil THEN <<n>> ELSE <<n>> \o g[next[n]]) \in Seq(Values)
      <4>1. CASE next[n] = Nil
        BY <4>1
      <4>2. CASE next[n] /= Nil
        <5>1. g[next[n]] \in Seq(Values)
          BY <1>3, <4>2
        <5> QED
          BY <4>2, <5>1
      <4> QED
        BY <4>1, <4>2
    <3> QED
      BY <3>1
  <2>3. ASSUME NEW n \in Values, rank[n] < k + 1
        PROVE  Goes(h, n)
    <3>1. CASE next[n] = Nil
      BY <3>1
    <3>2. CASE next[n] /= Nil
      <4>1. k \in Nat /\ rank[n] \in Nat
        BY <1>2
      <4>2. next[n] \in Values /\ rank[next[n]] < k
        <5>1. next[n] \in Values /\ rank[next[n]] < rank[n]
          BY <1>3, <3>2
        <5>2. rank[next[n]] \in Nat
          BY <1>2, <5>1
        <5> QED
          BY <2>3, <4>1, <5>1, <5>2
      <4>3. h[next[n]] = g[next[n]]
        BY <2>1, <4>2
      <4>4. h[n] = <<n>> \o g[next[n]]
        BY <3>2
      <4> HIDE DEF h
      <4> QED
        BY <3>2, <4>3, <4>4
    <3> QED
      BY <3>1, <3>2
  <2> HIDE DEF h, Goes
  <2> QED
    BY <2>2, <2>3
<1> HIDE DEF Goes
<1>7. T = Nat
  BY <1>5, <1>6, NatIsGenerated
<1>8. PICK g \in [Values -> Seq(Values)] : \A n \in Values : Goes(g, n)
  <2>1. PICK k \in T : k = M + 1
    <3> HIDE DEF T
    <3> QED
      BY <1>1, <1>7
  <2>2. ASSUME NEW n \in Values
        PROVE  rank[n] < k
    BY <1>2, <2>1
  <2> QED
    BY <2>2
<1> DEFINE Body(f, n) == IF next[n] = Nil THEN <<n>>
                         ELSE IF next[n] > n THEN <<n>> \o f[next[n]] ELSE <<n, next[n]>>
           nx == [n \in Values |-> Successor(t, n)]
           walk[n \in Values] == IF nx[n] = Nil THEN <<n>>
                                 ELSE IF nx[n] > n THEN <<n>> \o walk[nx[n]]
                                      ELSE <<n, nx[n]>>
<1>9. ASSUME NEW f, NEW n \in Values
      PROVE  Body(f, n) = IF next[n] = Nil THEN <<n>> ELSE <<n>> \o f[next[n]]
  <2>1. CASE next[n] = Nil
    BY <2>1
  <2>2. CASE next[n] /= Nil
    <3>1. next[n] > n
      BY <1>2, <1>3, <2>2
    <3> QED
      BY <2>2, <3>1
  <2> QED
    BY <2>1, <2>2
<1>10. walk = CHOOSE f : f = [n \in Values |-> Body(f, n)]
  <2>1. walk = CHOOSE f : f = [n \in Values |->
                                IF nx[n] = Nil THEN <<n>>
                                ELSE IF nx[n] > n THEN <<n>> \o f[nx[n]] ELSE <<n, nx[n]>>]
    BY DEF walk
  <2>2. next = nx
    BY DEF next
  <2> HIDE DEF walk, nx
  <2> QED
    BY <2>1, <2>2
<1>11. InOrder(t) = IF t.root = Nil THEN <<>> ELSE walk[Leftmost(t, t.root)]
  BY DEF InOrder, walk
<1> HIDE DEF Body, walk, nx
<1>12. g = [n \in Values |-> Body(g, n)]
  BY <1>8, <1>9 DEF Goes
<1>13. walk = [n \in Values |-> Body(walk, n)]
  BY <1>10, <1>12, Zenon
<1>14. \A n \in Values : walk[n] = IF next[n] = Nil THEN <<n>> ELSE <<n>> \o walk[next[n]]
  BY <1>9, <1>13
<1> QED
  BY <1>4, <1>11, <1>14

\* A walk from n grows and comes to every node from n on.
WalksFrom(w, n, S) ==
  /\ w \in Seq(S) /\ Len(w) > 0 /\ w[1] = n
  /\ \A i \in 1..Len(w) - 1 : w[i] < w[i + 1]
  /\ \A m \in S : n <= m => \E i \in 1..Len(w) : w[i] = m

LEMMA WalkGoesOn ==
  ASSUME NEW S \in SUBSET Nat, NEW n \in S, NEW x \in S, n < x,
         \A m \in S : n < m => x <= m, NEW w, WalksFrom(w, x, S)
  PROVE  WalksFrom(<<n>> \o w, n, S)
<1> DEFINE all == <<n>> \o w
<1>1. w \in Seq(S) /\ <<n>> \in Seq(S) /\ Len(<<n>>) = 1 /\ Len(w) \in Nat
  BY DEF WalksFrom
<1>2. /\ Len(all) = 1 + Len(w)
      /\ \A i \in 1..1 : all[i] = <<n>>[i]
      /\ \A i \in 1..(1 + Len(w)) : i > 1 => all[i] = w[i - 1]
  BY <1>1, Joined
<1>3. all \in Seq(S)
  BY <1>1
<1>4. all[1] = n
  BY <1>2
<1> HIDE DEF all
<1>5. ASSUME NEW i \in 1..Len(all) - 1
      PROVE  all[i] < all[i + 1]
  <2>1. i + 1 \in 1..(1 + Len(w)) /\ i + 1 > 1 /\ all[i + 1] = w[i]
    BY <1>1, <1>2
  <2>2. CASE i = 1
    BY <1>4, <2>1, <2>2 DEF WalksFrom
  <2>3. CASE i /= 1
    <3>1. all[i] = w[i - 1] /\ i - 1 \in 1..Len(w) - 1 /\ (i - 1) + 1 = i
      BY <1>1, <1>2, <2>3
    <3>2. w[i - 1] < w[(i - 1) + 1]
      BY <3>1 DEF WalksFrom
    <3> QED
      BY <2>1, <3>1, <3>2
  <2> QED
    BY <2>2, <2>3
<1>6. ASSUME NEW m \in S, n <= m
      PROVE  \E i \in 1..Len(all) : all[i] = m
  <2>1. CASE m = n
    BY <1>1, <1>2, <1>4, <2>1
  <2>2. CASE m /= n
    <3>1. x <= m
      <4>1. n \in Nat /\ m \in Nat
        OBVIOUS
      <4>2. n < m
        BY <1>6, <2>2, <4>1
      <4> QED
        BY <4>2
    <3>2. PICK i \in 1..Len(w) : w[i] = m
      BY <3>1 DEF WalksFrom
    <3>3. i + 1 \in 1..Len(all) /\ all[i + 1] = m
      BY <1>1, <1>2, <3>2
    <3> QED
      BY <3>3
  <2> QED
    BY <2>1, <2>2
<1>7. Len(all) > 0
  BY <1>1, <1>2
<1> QED
  BY <1>3, <1>4, <1>5, <1>6, <1>7 DEF WalksFrom, all

LEMMA WalkEndsThere ==
  ASSUME NEW S \in SUBSET Nat, NEW n \in S, \A m \in S : m <= n
  PROVE  WalksFrom(<<n>>, n, S)
<1>1. <<n>> \in Seq(S) /\ Len(<<n>>) = 1 /\ <<n>>[1] = n
  OBVIOUS
<1>2. ASSUME NEW m \in S, n <= m
      PROVE  m = n
  <2>1. m \in Nat /\ n \in Nat
    OBVIOUS
  <2> QED
    BY <1>2, <2>1
<1> QED
  BY <1>1, <1>2 DEF WalksFrom

\* A search tree passes VERIFY_TREE.
LEMMA SearchTreeIsVerified ==
  ASSUME NEW t, NEW S, IsSearchTree(t, S)
  PROVE  IsTree(t) /\ Verified(t, S)
<1>1. PICK M, lo, hi : Searched(t, S, lo, hi, M)
  BY DEF IsSearchTree
<1>2. IsTree(t) /\ S \subseteq Values /\ S \in SUBSET Nat /\ M \in Nat
  BY <1>1, NilIsNone DEF Searched, Linked, Bounded
<1>3. PICK walk :
        /\ \A n \in Values : walk[n] = IF Successor(t, n) = Nil THEN <<n>>
                                       ELSE <<n>> \o walk[Successor(t, n)]
        /\ InOrder(t) = IF t.root = Nil THEN <<>> ELSE walk[Leftmost(t, t.root)]
  BY <1>1, WalkIs
<1> DEFINE Goes(n) == WalksFrom(walk[n], n, S)
           T == {k \in Nat : \A n \in S : M - n < k => Goes(n)}
<1>4. ASSUME NEW n \in S
      PROVE  n \in Nat /\ n < M /\ n \in Values
  <2>1. n \in Nat /\ hi[n] \in Nat /\ n < hi[n] /\ hi[n] <= M /\ n \in Values
    BY <1>1, <1>2 DEF Searched, Bounded
  <2> QED
    BY <1>2, <2>1
<1> HIDE DEF Goes
<1>5. 0 \in T
  <2>1. ASSUME NEW n \in S
        PROVE  ~(M - n < 0)
    BY <1>2, <1>4
  <2> QED
    BY <2>1
<1>6. ASSUME NEW k \in T
      PROVE  k + 1 \in T
  <2>1. ASSUME NEW n \in S, M - n < k + 1
        PROVE  Goes(n)
    <3>1. PICK x : x = Successor(t, n)
      OBVIOUS
    <3>2. \/ x = Nil /\ \A m \in S : m <= n
          \/ x \in S /\ n < x /\ \A m \in S : n < m => x <= m
      BY <1>1, <3>1, SuccessorIs
    <3>3. walk[n] = IF x = Nil THEN <<n>> ELSE <<n>> \o walk[x]
      BY <1>3, <1>4, <3>1
    <3>4. CASE x = Nil /\ \A m \in S : m <= n
      BY <1>2, <3>3, <3>4, WalkEndsThere DEF Goes
    <3>5. CASE x \in S /\ n < x /\ \A m \in S : n < m => x <= m
      <4>1. x /= Nil
        BY <1>2, <3>5, NilIsNone
      <4>2. M - x < k
        BY <1>2, <1>4, <2>1, <3>5
      <4>3. WalksFrom(walk[x], x, S)
        BY <3>5, <4>2 DEF Goes
      <4> QED
        BY <1>2, <3>3, <3>5, <4>1, <4>3, WalkGoesOn DEF Goes
    <3> QED
      BY <3>2, <3>4, <3>5
  <2> QED
    BY <2>1
<1>7. T = Nat
  BY <1>5, <1>6, NatIsGenerated
<1>8. ASSUME NEW n \in S
      PROVE  WalksFrom(walk[n], n, S)
  <2>1. PICK k \in T : k = M + 1
    <3> HIDE DEF T
    <3> QED
      BY <1>2, <1>7
  <2>2. M - n < k
    BY <1>2, <1>4, <2>1
  <2> QED
    BY <2>2 DEF Goes
<1>9. PICK w : w = InOrder(t)
  OBVIOUS
<1>10. w \in Seq(S) /\ S \subseteq {w[i] : i \in DOMAIN w} /\ \A i \in 1..Len(w) - 1 : w[i] < w[i + 1]
  <2>1. CASE t.root = Nil
    <3>1. S = {} /\ w = <<>>
      BY <1>1, <1>3, <1>9, <2>1 DEF Searched, Linked
    <3> QED
      BY <3>1
  <2>2. CASE t.root /= Nil
    <3>1. t.root \in S /\ lo[t.root] = 0
      BY <1>1, <2>2 DEF Searched, Linked, Bounded
    <3>2. PICK x \in S : x = Leftmost(t, t.root) /\ lo[x] = 0 /\ t.left[x] = Nil
      BY <1>1, <3>1, LeftmostIs
    <3>3. ASSUME NEW m \in S
          PROVE  x <= m
      <4>1. ~(0 < m /\ m < x)
        BY <1>1, <3>2 DEF Searched, Filled
      <4>2. m > 0
        BY <1>2, NilIsNone
      <4> QED
        BY <1>4, <4>1, <4>2
    <3>4. WalksFrom(w, x, S)
      BY <1>3, <1>8, <1>9, <2>2, <3>2
    <3>5. w \in Seq(S) /\ \A i \in 1..Len(w) - 1 : w[i] < w[i + 1]
      BY <3>4 DEF WalksFrom
    <3>6. DOMAIN w = 1..Len(w)
      BY <3>5
    <3>7. \A m \in S : \E i \in DOMAIN w : w[i] = m
      BY <3>3, <3>4, <3>6 DEF WalksFrom
    <3> QED
      BY <3>5, <3>7
  <2> QED
    BY <2>1, <2>2
<1>11. \A n \in S : /\ t.left[n] /= Nil => t.up[t.left[n]] = n
                    /\ t.right[n] /= Nil => t.up[t.right[n]] = n
  BY <1>1 DEF Searched, Linked
<1> QED
  BY <1>2, <1>9, <1>10, <1>11 DEF Verified

-----------------------------------------------------------------------------
(* Insertion.                                                                *)

\* A node that is new is hung under p, on its left or on its right.
Hung(t, u, p, v) ==
  /\ IsTree(u) /\ u.root = t.root
  /\ u.left = IF v < p THEN [t.left EXCEPT ![p] = v] ELSE t.left
  /\ u.right = IF v < p THEN t.right ELSE [t.right EXCEPT ![p] = v]
  /\ u.up = [t.up EXCEPT ![v] = p]

LEMMA HungIsLinked ==
  ASSUME NEW t, NEW S, Linked(t, S), NEW p \in S, NEW v \in Values, v \notin S,
         (v < p /\ t.left[p] = Nil) \/ (v > p /\ t.right[p] = Nil),
         NEW u, Hung(t, u, p, v)
  PROVE  Linked(u, S \cup {v})
<1>1. IsTree(t) /\ S \subseteq Values
  BY DEF Linked
<1>2. /\ t.left \in [Values -> Values \cup {Nil}] /\ t.right \in [Values -> Values \cup {Nil}]
      /\ t.up \in [Values -> Values \cup {Nil}]
  BY <1>1, TreeIs
<1>3. p \in Values /\ v /= p /\ v /= Nil /\ Nil \notin Values
  BY <1>1, NilIsNone
<1>4. t.left[v] = Nil /\ t.right[v] = Nil /\ t.up[v] = Nil
  BY DEF Linked
<1>12. (v < p => t.left[p] = Nil) /\ (~(v < p) => t.right[p] = Nil)
  <2>1. v \in Nat /\ p \in Nat
    BY <1>3, NilIsNone
  <2>2. v > p => ~(v < p)
    BY <2>1
  <2> QED
    BY <2>2
<1>5. ASSUME NEW n \in Values
      PROVE  /\ u.left[n] = IF v < p /\ n = p THEN v ELSE t.left[n]
             /\ u.right[n] = IF ~(v < p) /\ n = p THEN v ELSE t.right[n]
             /\ u.up[n] = IF n = v THEN p ELSE t.up[n]
  <2>1. u.up[n] = IF n = v THEN p ELSE t.up[n]
    BY <1>2 DEF Hung
  <2>2. CASE v < p
    BY <1>2, <2>1, <2>2 DEF Hung
  <2>3. CASE ~(v < p)
    BY <1>2, <2>1, <2>3 DEF Hung
  <2> QED
    BY <2>2, <2>3
<1>6. ASSUME NEW n \in Values, n \notin S \cup {v}
      PROVE  u.left[n] = Nil /\ u.right[n] = Nil /\ u.up[n] = Nil
  BY <1>5, <1>6 DEF Linked
<1>7. /\ u.root \in S \cup {v} \cup {Nil} /\ u.root /= Nil
      /\ u.root /= v /\ u.up[u.root] = Nil
  <2>1. t.root \in S /\ t.root /= Nil /\ t.up[t.root] = Nil /\ u.root = t.root
    BY <1>1, <1>3 DEF Linked, Hung
  <2> QED
    BY <1>1, <1>5, <2>1
<1>8. ASSUME NEW n \in S \cup {v}, u.left[n] /= Nil
      PROVE  u.left[n] \in S \cup {v} /\ u.up[u.left[n]] = n
  <2>1. n \in Values
    BY <1>1
  <2>2. CASE v < p /\ n = p
    BY <1>5, <2>1, <2>2
  <2>3. CASE ~(v < p /\ n = p)
    <3>1. u.left[n] = t.left[n] /\ n /= v
      BY <1>4, <1>5, <1>8, <2>1, <2>3
    <3>2. t.left[n] \in S /\ t.up[t.left[n]] = n
      BY <1>8, <3>1 DEF Linked
    <3>3. t.left[n] \in Values /\ t.left[n] /= v
      BY <1>1, <3>2
    <3> QED
      BY <1>5, <3>1, <3>2, <3>3
  <2> QED
    BY <2>2, <2>3
<1>9. ASSUME NEW n \in S \cup {v}, u.right[n] /= Nil
      PROVE  u.right[n] \in S \cup {v} /\ u.up[u.right[n]] = n
  <2>1. n \in Values
    BY <1>1
  <2>2. CASE ~(v < p) /\ n = p
    BY <1>5, <2>1, <2>2
  <2>3. CASE ~(~(v < p) /\ n = p)
    <3>1. u.right[n] = t.right[n] /\ n /= v
      BY <1>4, <1>5, <1>9, <2>1, <2>3
    <3>2. t.right[n] \in S /\ t.up[t.right[n]] = n
      BY <1>9, <3>1 DEF Linked
    <3>3. t.right[n] \in Values /\ t.right[n] /= v
      BY <1>1, <3>2
    <3> QED
      BY <1>5, <3>1, <3>2, <3>3
  <2> QED
    BY <2>2, <2>3
<1>10. ASSUME NEW n \in S \cup {v}, n /= u.root
       PROVE  /\ u.up[n] \in S \cup {v}
              /\ u.left[u.up[n]] = n \/ u.right[u.up[n]] = n
  <2>1. n \in Values
    BY <1>1
  <2>2. CASE n = v
    <3>1. u.up[n] = p
      BY <1>5, <2>1, <2>2
    <3>2. u.left[p] = v \/ u.right[p] = v
      BY <1>3, <1>5
    <3> QED
      BY <2>2, <3>1, <3>2
  <2>3. CASE n /= v
    <3>1. u.up[n] = t.up[n] /\ n \in S /\ n /= t.root
      BY <1>5, <1>10, <2>1, <2>3 DEF Hung
    <3>2. PICK q \in S : q = t.up[n] /\ (t.left[q] = n \/ t.right[q] = n)
      BY <3>1 DEF Linked
    <3>3. q \in Values /\ n /= Nil
      BY <1>1, <1>3, <2>1
    <3>4. CASE t.left[q] = n
      <4>1. u.left[q] = n
        BY <1>5, <1>12, <3>3, <3>4
      <4> QED
        BY <3>1, <3>2, <4>1
    <3>5. CASE t.right[q] = n
      <4>1. u.right[q] = n
        BY <1>5, <1>12, <3>3, <3>5
      <4> QED
        BY <3>1, <3>2, <4>1
    <3> QED
      BY <3>2, <3>4, <3>5
  <2> QED
    BY <2>2, <2>3
<1>11. IsTree(u) /\ S \cup {v} \in SUBSET Values
  BY <1>1 DEF Hung
<1> QED
  BY <1>6, <1>7, <1>8, <1>9, <1>10, <1>11 DEF Linked

LEMMA HungIsSearched ==
  ASSUME NEW t, NEW S, NEW lo, NEW hi, NEW M, Searched(t, S, lo, hi, M),
         NEW p \in S, NEW v \in Values, v \notin S, v < M, lo[p] < v, v < hi[p],
         (v < p /\ t.left[p] = Nil) \/ (v > p /\ t.right[p] = Nil),
         NEW u, Hung(t, u, p, v)
  PROVE  IsSearchTree(u, S \cup {v})
<1> DEFINE A == IF v < p THEN lo[p] ELSE p
           B == IF v < p THEN p ELSE hi[p]
           low == [lo EXCEPT ![v] = A]
           high == [hi EXCEPT ![v] = B]
           U == S \cup {v}
<1>1. /\ IsTree(t) /\ S \subseteq Values /\ M \in Nat
      /\ lo \in [Values -> Nat] /\ hi \in [Values -> Nat]
  BY DEF Searched, Linked, Bounded
<1>2. /\ t.left \in [Values -> Values \cup {Nil}] /\ t.right \in [Values -> Values \cup {Nil}]
      /\ t.up \in [Values -> Values \cup {Nil}]
  BY <1>1, TreeIs
<1>3. ASSUME NEW n \in S
      PROVE  /\ n \in Values /\ n \in Nat /\ n > 0 /\ lo[n] \in Nat /\ hi[n] \in Nat
             /\ lo[n] < n /\ n < hi[n] /\ hi[n] <= M /\ n /= v
  BY <1>1, NilIsNone DEF Searched, Bounded
<1>4. v \in Nat /\ v > 0 /\ v /= p /\ v /= Nil /\ Nil = 0
  BY <1>3, NilIsNone
<1>5. \/ v < p /\ t.left[p] = Nil /\ A = lo[p] /\ B = p
      \/ p < v /\ t.right[p] = Nil /\ A = p /\ B = hi[p]
  BY <1>3, <1>4
<1>6. A \in Nat /\ B \in Nat /\ A < v /\ v < B /\ B <= M
  BY <1>1, <1>3, <1>4, <1>5
<1>7. ASSUME NEW m \in S
      PROVE  m <= A \/ B <= m
  BY <1>3, <1>5, <1>7 DEF Searched, Filled
<1>8. (A = 0 \/ A \in S) /\ (B = M \/ B \in S)
  BY <1>3, <1>5 DEF Searched, Nested
<1> HIDE DEF A, B
<1>9. low \in [Values -> Nat] /\ high \in [Values -> Nat]
  BY <1>1, <1>6
<1>10. /\ low[v] = A /\ high[v] = B
       /\ \A n \in S : low[n] = lo[n] /\ high[n] = hi[n]
  BY <1>1, <1>3
<1> HIDE DEF low, high
<1>11. ASSUME NEW n \in S
       PROVE  /\ lo[n] <= A \/ B <= lo[n]
              /\ hi[n] <= A \/ B <= hi[n]
  <2>1. lo[n] = 0 \/ lo[n] \in S
    BY DEF Searched, Nested
  <2>2. hi[n] = M \/ hi[n] \in S
    BY DEF Searched, Nested
  <2> QED
    BY <1>6, <1>7, <2>1, <2>2
<1>12. /\ \A n \in S : u.left[n] = IF v < p /\ n = p THEN v ELSE t.left[n]
       /\ \A n \in S : u.right[n] = IF ~(v < p) /\ n = p THEN v ELSE t.right[n]
       /\ u.left[v] = Nil /\ u.right[v] = Nil
  <2>1. t.left[v] = Nil /\ t.right[v] = Nil /\ p \in Values
    BY <1>3 DEF Searched, Linked
  <2>2. CASE v < p
    BY <1>2, <1>3, <1>4, <2>1, <2>2 DEF Hung
  <2>3. CASE ~(v < p)
    BY <1>2, <1>3, <1>4, <2>1, <2>3 DEF Hung
  <2> QED
    BY <2>2, <2>3
<1>13. (v < p <=> ~(p < v)) /\ (v < p => A = lo[p] /\ B = p) /\ (p < v => A = p /\ B = hi[p])
  BY <1>3, <1>4, <1>5
<1>14. Linked(u, U)
  BY HungIsLinked DEF Searched
<1>15. Bounded(u, U, low, high, M)
  <2>1. \A n \in U : low[n] < n /\ n < high[n] /\ high[n] <= M
    BY <1>3, <1>6, <1>10
  <2>2. u.root /= Nil => low[u.root] = 0 /\ high[u.root] = M
    <3>1. t.root /= Nil => t.root \in S /\ lo[t.root] = 0 /\ hi[t.root] = M
      BY DEF Searched, Linked, Bounded
    <3> QED
      BY <1>10, <3>1 DEF Hung
  <2>3. ASSUME NEW n \in U, u.left[n] /= Nil
        PROVE  low[u.left[n]] = low[n] /\ high[u.left[n]] = n
    <3>1. n \in S
      BY <1>12, <2>3
    <3>2. CASE v < p /\ n = p
      BY <1>10, <1>12, <1>13, <3>1, <3>2
    <3>3. CASE ~(v < p /\ n = p)
      <4>1. u.left[n] = t.left[n]
        BY <1>12, <3>1, <3>3
      <4>2. t.left[n] \in S /\ lo[t.left[n]] = lo[n] /\ hi[t.left[n]] = n
        BY <2>3, <3>1, <4>1 DEF Searched, Linked, Bounded
      <4> QED
        BY <1>10, <3>1, <4>1, <4>2
    <3> QED
      BY <3>2, <3>3
  <2>4. ASSUME NEW n \in U, u.right[n] /= Nil
        PROVE  low[u.right[n]] = n /\ high[u.right[n]] = high[n]
    <3>1. n \in S
      BY <1>12, <2>4
    <3>2. CASE ~(v < p) /\ n = p
      BY <1>10, <1>12, <1>13, <3>1, <3>2
    <3>3. CASE ~(~(v < p) /\ n = p)
      <4>1. u.right[n] = t.right[n]
        BY <1>12, <3>1, <3>3
      <4>2. t.right[n] \in S /\ lo[t.right[n]] = n /\ hi[t.right[n]] = hi[n]
        BY <2>4, <3>1, <4>1 DEF Searched, Linked, Bounded
      <4> QED
        BY <1>10, <3>1, <4>1, <4>2
    <3> QED
      BY <3>2, <3>3
  <2> QED
    BY <1>1, <1>9, <2>1, <2>2, <2>3, <2>4 DEF Bounded
<1>16. Filled(u, U, low, high)
  <2>1. ASSUME NEW n \in S, u.left[n] = Nil, NEW m \in S
        PROVE  ~(lo[n] < m /\ m < n)
    <3>1. t.left[n] = Nil
      BY <1>4, <1>12, <2>1
    <3> QED
      BY <3>1 DEF Searched, Filled
  <2>2. ASSUME NEW n \in S, u.left[n] = Nil, lo[n] < v, v < n
        PROVE  FALSE
    <3>1. t.left[n] = Nil /\ ~(v < p /\ n = p)
      BY <1>4, <1>12, <2>2
    <3>2. \A m \in S : ~(lo[n] < m /\ m < n)
      BY <3>1 DEF Searched, Filled
    <3>3. lo[n] <= A /\ B <= n
      BY <1>3, <1>4, <1>6, <1>7, <1>11, <2>2
    <3>4. CASE v < p
      <4>1. p < n
        BY <1>3, <1>13, <3>1, <3>3, <3>4
      <4>2. lo[n] < p
        BY <1>3, <1>4, <2>2, <3>4
      <4> QED
        BY <3>2, <4>1, <4>2
    <3>5. CASE p < v
      <4>1. p < n
        BY <1>3, <1>4, <2>2, <3>5
      <4>2. lo[n] = p
        BY <1>3, <1>13, <3>2, <3>3, <3>5, <4>1
      <4>3. n < hi[p]
        BY <1>3, <4>2 DEF Searched, Nested
      <4> QED
        BY <1>5, <1>13, <3>5, <4>1, <4>3 DEF Searched, Filled
    <3> QED
      BY <1>13, <3>4, <3>5
  <2>3. ASSUME NEW n \in S, u.right[n] = Nil, NEW m \in S
        PROVE  ~(n < m /\ m < hi[n])
    <3>1. t.right[n] = Nil
      BY <1>4, <1>12, <2>3
    <3> QED
      BY <3>1 DEF Searched, Filled
  <2>4. ASSUME NEW n \in S, u.right[n] = Nil, n < v, v < hi[n]
        PROVE  FALSE
    <3>1. t.right[n] = Nil /\ ~(p < v /\ n = p)
      BY <1>4, <1>12, <1>13, <2>4
    <3>2. \A m \in S : ~(n < m /\ m < hi[n])
      BY <3>1 DEF Searched, Filled
    <3>3. n <= A /\ B <= hi[n]
      BY <1>3, <1>4, <1>6, <1>7, <1>11, <2>4
    <3>4. CASE p < v
      <4>1. n < p
        BY <1>3, <1>13, <3>1, <3>3, <3>4
      <4>2. p < hi[n]
        BY <1>3, <1>4, <2>4, <3>4
      <4> QED
        BY <3>2, <4>1, <4>2
    <3>5. CASE v < p
      <4>1. n < p
        BY <1>3, <1>4, <2>4, <3>5
      <4>2. hi[n] = p
        BY <1>3, <1>13, <3>2, <3>3, <3>5, <4>1
      <4>3. p /= M
        BY <1>3
      <4>4. lo[p] < n
        BY <4>2, <4>3 DEF Searched, Nested
      <4> QED
        BY <1>5, <1>13, <3>5, <4>1, <4>4 DEF Searched, Filled
    <3> QED
      BY <1>13, <3>4, <3>5
  <2>5. ASSUME NEW m \in S
        PROVE  ~(A < m /\ m < v) /\ ~(v < m /\ m < B)
    BY <1>3, <1>4, <1>6, <1>7
  <2>6. ~(A < v /\ v < v) /\ ~(v < v /\ v < B)
    BY <1>4
  <2>7. \A n \in U : u.left[n] = Nil => \A m \in U : ~(low[n] < m /\ m < n)
    BY <1>10, <2>1, <2>2, <2>5, <2>6
  <2>8. \A n \in U : u.right[n] = Nil => \A m \in U : ~(n < m /\ m < high[n])
    BY <1>10, <2>3, <2>4, <2>5, <2>6
  <2> QED
    BY <2>7, <2>8 DEF Filled
<1>17. Nested(U, low, high, M)
  <2>1. ASSUME NEW n \in U, low[n] /= 0
        PROVE  low[n] \in U /\ n < high[low[n]]
    <3>1. CASE n = v
      <4>1. A \in S /\ low[v] = A /\ high[A] = hi[A]
        BY <1>8, <1>10, <2>1, <3>1
      <4>2. v < hi[A]
        <5>1. CASE v < p
          <6>1. p < hi[A]
            BY <1>13, <2>1, <3>1, <4>1, <5>1 DEF Searched, Nested
          <6> QED
            BY <1>3, <1>4, <4>1, <5>1, <6>1
        <5>2. CASE p < v
          BY <1>6, <1>13, <5>2
        <5> QED
          BY <1>13, <5>1, <5>2
      <4> QED
        BY <3>1, <4>1, <4>2
    <3>2. CASE n \in S
      <4>1. lo[n] \in S /\ n < hi[lo[n]]
        BY <1>10, <2>1, <3>2 DEF Searched, Nested
      <4> QED
        BY <1>10, <3>2, <4>1
    <3> QED
      BY <3>1, <3>2
  <2>2. ASSUME NEW n \in U, high[n] /= M
        PROVE  high[n] \in U /\ low[high[n]] < n
    <3>1. CASE n = v
      <4>1. B \in S /\ high[v] = B /\ low[B] = lo[B]
        BY <1>8, <1>10, <2>2, <3>1
      <4>2. lo[B] < v
        <5>1. CASE v < p
          BY <1>6, <1>13, <5>1
        <5>2. CASE p < v
          <6>1. lo[B] < p
            BY <1>13, <2>2, <3>1, <4>1, <5>2 DEF Searched, Nested
          <6> QED
            BY <1>3, <1>4, <4>1, <5>2, <6>1
        <5> QED
          BY <1>13, <5>1, <5>2
      <4> QED
        BY <3>1, <4>1, <4>2
    <3>2. CASE n \in S
      <4>1. hi[n] \in S /\ lo[hi[n]] < n
        BY <1>10, <2>2, <3>2 DEF Searched, Nested
      <4> QED
        BY <1>10, <3>2, <4>1
    <3> QED
      BY <3>1, <3>2
  <2>3. ASSUME NEW n \in S, NEW m \in S
        PROVE  /\ lo[n] < m /\ m < n => lo[n] <= lo[m] /\ hi[m] <= n
               /\ n < m /\ m < hi[n] => n <= lo[m] /\ hi[m] <= hi[n]
    BY DEF Searched, Nested
  <2>4. ASSUME NEW n \in S
        PROVE  /\ lo[n] < v /\ v < n => lo[n] <= A /\ B <= n
               /\ n < v /\ v < hi[n] => n <= A /\ B <= hi[n]
    BY <1>3, <1>4, <1>6, <1>7, <1>11
  <2>5. ASSUME NEW m \in S
        PROVE  ~(A < m /\ m < v) /\ ~(v < m /\ m < B)
    BY <1>3, <1>4, <1>6, <1>7
  <2>6. ~(A < v /\ v < v) /\ ~(v < v /\ v < B)
    BY <1>4
  <2>7. \A n, m \in U : low[n] < m /\ m < n => low[n] <= low[m] /\ high[m] <= n
    BY <1>10, <2>3, <2>4, <2>5, <2>6
  <2>8. \A n, m \in U : n < m /\ m < high[n] => n <= low[m] /\ high[m] <= high[n]
    BY <1>10, <2>3, <2>4, <2>5, <2>6
  <2> QED
    BY <2>1, <2>2, <2>7, <2>8 DEF Nested
<1>18. Searched(u, U, low, high, M)
  BY <1>14, <1>15, <1>16, <1>17 DEF Searched
<1> QED
  BY <1>18 DEF IsSearchTree

\* The first node.
LEMMA RootIsSearched ==
  ASSUME NEW t, IsSearchTree(t, {}), NEW v \in Values
  PROVE  IsSearchTree([t EXCEPT !.root = v], {v})
<1> DEFINE u == [t EXCEPT !.root = v]
           low == [n \in Values |-> 0]
           high == [n \in Values |-> v + 1]
<1>1. Linked(t, {})
  BY DEF IsSearchTree, Searched
<1>2. IsTree(t) /\ \A n \in Values : t.left[n] = Nil /\ t.right[n] = Nil /\ t.up[n] = Nil
  BY <1>1 DEF Linked
<1>3. v \in Nat /\ v > 0 /\ v /= Nil
  BY NilIsNone
<1>4. u = [root |-> v, left |-> t.left, right |-> t.right, up |-> t.up]
  BY <1>2, TreeIs
<1>5. IsTree(u)
  BY <1>2, <1>4, TreeIs DEF IsTree
<1>6. u.root = v /\ u.left = t.left /\ u.right = t.right /\ u.up = t.up
  BY <1>4
<1> HIDE DEF u
<1>7. Linked(u, {v})
  BY <1>2, <1>3, <1>5, <1>6 DEF Linked
<1>8. low \in [Values -> Nat] /\ high \in [Values -> Nat] /\ low[v] = 0 /\ high[v] = v + 1
  BY <1>3
<1> HIDE DEF low, high
<1>9. Bounded(u, {v}, low, high, v + 1)
  BY <1>2, <1>3, <1>6, <1>8 DEF Bounded
<1>10. Filled(u, {v}, low, high)
  BY <1>3, <1>8 DEF Filled
<1>11. Nested({v}, low, high, v + 1)
  BY <1>3, <1>8 DEF Nested
<1> QED
  BY <1>7, <1>9, <1>10, <1>11 DEF Searched, IsSearchTree, u

LEMMA WithIsSearched ==
  ASSUME NEW t, NEW S, IsSearchTree(t, S), NEW v \in Values, v \notin S
  PROVE  IsSearchTree(With(t, v), S \cup {v})
<1>1. v \in Nat /\ v /= Nil
  BY NilIsNone
<1>2. PICK M, lo, hi : v < M /\ Searched(t, S, lo, hi, M)
  BY <1>1, BoundIsRaised
<1>3. IsTree(t) /\ S \subseteq Values
  BY <1>2 DEF Searched, Linked
<1>4. CASE S = {}
  <2>1. t.root = Nil
    BY <1>2, <1>4 DEF Searched, Linked
  <2>2. WalkTo(t, v) = Nil
    BY <2>1 DEF WalkTo
  <2>3. With(t, v) = [t EXCEPT !.root = v]
    BY <1>1, <2>2 DEF With
  <2> QED
    BY <1>4, <2>3, RootIsSearched
<1>5. CASE S /= {}
  <2>1. PICK p \in S : /\ p = WalkTo(t, v) /\ lo[p] < v /\ v < hi[p]
                       /\ v = p \/ (v < p /\ t.left[p] = Nil) \/ (v > p /\ t.right[p] = Nil)
    BY <1>2, <1>5, WalkEnds
  <2>2. p /= v /\ p /= Nil /\ p \in Values
    BY <1>3, <2>1, NilIsNone
  <2> DEFINE u == With(t, v)
  <2>3. u = IF v < p THEN [t EXCEPT !.left[p] = v, !.up[v] = p]
            ELSE [t EXCEPT !.right[p] = v, !.up[v] = p]
    BY <2>1, <2>2 DEF With
  <2>4. /\ t = [root |-> t.root, left |-> t.left, right |-> t.right, up |-> t.up]
        /\ t.left \in [Values -> Values \cup {Nil}] /\ t.right \in [Values -> Values \cup {Nil}]
        /\ t.up \in [Values -> Values \cup {Nil}] /\ t.root \in Values \cup {Nil}
    BY <1>3, TreeIs
  <2> HIDE DEF u
  <2>5. u = IF v < p THEN [root |-> t.root, left |-> [t.left EXCEPT ![p] = v],
                           right |-> t.right, up |-> [t.up EXCEPT ![v] = p]]
            ELSE [root |-> t.root, left |-> t.left,
                  right |-> [t.right EXCEPT ![p] = v], up |-> [t.up EXCEPT ![v] = p]]
    <3>1. CASE v < p
      <4>1. PICK a : a = [t EXCEPT !.left = [t.left EXCEPT ![p] = v]]
        OBVIOUS
      <4>2. u = [a EXCEPT !.up = [a.up EXCEPT ![v] = p]]
        BY <2>3, <3>1, <4>1
      <4>3. /\ IsRecord(a) /\ a.root = t.root /\ a.left = [t.left EXCEPT ![p] = v]
            /\ a.right = t.right /\ a.up = t.up
        BY <2>4, <4>1, LeftIsSet DEF IsRecord
      <4>4. u = [root |-> a.root, left |-> a.left, right |-> a.right,
                 up |-> [a.up EXCEPT ![v] = p]]
        BY <4>2, <4>3, UpIsSet
      <4> QED
        BY <3>1, <4>3, <4>4
    <3>2. CASE ~(v < p)
      <4>1. PICK a : a = [t EXCEPT !.right = [t.right EXCEPT ![p] = v]]
        OBVIOUS
      <4>2. u = [a EXCEPT !.up = [a.up EXCEPT ![v] = p]]
        BY <2>3, <3>2, <4>1
      <4>3. /\ IsRecord(a) /\ a.root = t.root /\ a.left = t.left
            /\ a.right = [t.right EXCEPT ![p] = v] /\ a.up = t.up
        BY <2>4, <4>1, RightIsSet DEF IsRecord
      <4>4. u = [root |-> a.root, left |-> a.left, right |-> a.right,
                 up |-> [a.up EXCEPT ![v] = p]]
        BY <4>2, <4>3, UpIsSet
      <4> QED
        BY <3>2, <4>3, <4>4
    <3> QED
      BY <3>1, <3>2
  <2>6. Hung(t, u, p, v)
    <3>1. [t.up EXCEPT ![v] = p] \in [Values -> Values \cup {Nil}]
      BY <2>2, <2>4
    <3>2. CASE v < p
      <4>1. [t.left EXCEPT ![p] = v] \in [Values -> Values \cup {Nil}]
        BY <2>4
      <4> QED
        BY <2>4, <2>5, <3>1, <3>2, <4>1 DEF Hung, IsTree
    <3>3. CASE ~(v < p)
      <4>1. [t.right EXCEPT ![p] = v] \in [Values -> Values \cup {Nil}]
        BY <2>4
      <4> QED
        BY <2>4, <2>5, <3>1, <3>3, <4>1 DEF Hung, IsTree
    <3> QED
      BY <3>2, <3>3
  <2> QED
    BY <1>2, <2>1, <2>2, <2>6, HungIsSearched DEF u
<1> QED
  BY <1>4, <1>5

-----------------------------------------------------------------------------
(* Removal of a node with at most one child.                                 *)

\* The node n is gone, and c hangs in its place.
Dropped(t, u, n, c) ==
  /\ IsTree(u)
  /\ u.root = IF t.root = n THEN c ELSE t.root
  /\ \A x \in Values : x /= n =>
        /\ u.left[x] = IF t.left[x] = n THEN c ELSE t.left[x]
        /\ u.right[x] = IF t.right[x] = n THEN c ELSE t.right[x]
        /\ u.up[x] = IF x = c THEN t.up[n] ELSE t.up[x]
  /\ u.left[n] = Nil /\ u.right[n] = Nil /\ u.up[n] = Nil

OnlyChild(t, n, c) ==
  (t.left[n] = Nil /\ c = t.right[n]) \/ (t.right[n] = Nil /\ c = t.left[n])

\* No node is its own child, and no two children of a node are the same.
LEMMA ChildrenDiffer ==
  ASSUME NEW t, NEW S, NEW lo, NEW hi, NEW M, Searched(t, S, lo, hi, M), NEW x \in S
  PROVE  /\ x \in Values /\ x /= Nil /\ t.left[x] /= x /\ t.right[x] /= x
         /\ t.left[x] = Nil \/ t.left[x] /= t.right[x]
         /\ t.left[x] /= Nil => t.left[x] \in S /\ t.up[t.left[x]] = x
         /\ t.right[x] /= Nil => t.right[x] \in S /\ t.up[t.right[x]] = x
<1>1. x \in Values /\ x /= Nil /\ x \in Nat
  BY NilIsNone DEF Searched, Linked
<1>2. lo[x] \in Nat /\ hi[x] \in Nat /\ lo[x] < x /\ x < hi[x]
  BY <1>1 DEF Searched, Bounded
<1>3. /\ t.left[x] /= Nil => lo[t.left[x]] = lo[x] /\ hi[t.left[x]] = x
      /\ t.right[x] /= Nil => lo[t.right[x]] = x /\ hi[t.right[x]] = hi[x]
  BY DEF Searched, Bounded
<1>4. /\ t.left[x] /= Nil => t.left[x] \in S /\ t.up[t.left[x]] = x
      /\ t.right[x] /= Nil => t.right[x] \in S /\ t.up[t.right[x]] = x
  BY DEF Searched, Linked
<1>5. t.left[x] /= x
  <2>1. ASSUME t.left[x] = x
        PROVE  FALSE
    BY <1>1, <1>2, <1>3, <2>1
  <2> QED
    BY <2>1
<1>6. t.right[x] /= x
  <2>1. ASSUME t.right[x] = x
        PROVE  FALSE
    BY <1>1, <1>2, <1>3, <2>1
  <2> QED
    BY <2>1
<1>7. t.left[x] = Nil \/ t.left[x] /= t.right[x]
  <2>1. ASSUME t.left[x] /= Nil, t.left[x] = t.right[x]
        PROVE  FALSE
    BY <1>2, <1>3, <2>1
  <2> QED
    BY <2>1
<1> QED
  BY <1>1, <1>4, <1>5, <1>6, <1>7

\* Another node remains if the root has no child.
LEMMA RootIsAlone ==
  ASSUME NEW t, NEW S, NEW lo, NEW hi, NEW M, Searched(t, S, lo, hi, M),
         NEW n \in S, n = t.root, t.left[n] = Nil, t.right[n] = Nil
  PROVE  S = {n}
<1>1. ASSUME NEW m \in S, m /= n
      PROVE  FALSE
  <2>1. m \in Nat /\ m > 0 /\ n \in Nat /\ n > 0 /\ n /= Nil
    BY NilIsNone DEF Searched, Linked
  <2>2. lo[n] = 0 /\ hi[n] = M /\ hi[m] <= M /\ m < hi[m] /\ hi[m] \in Nat /\ M \in Nat
    BY <2>1 DEF Searched, Bounded, Linked
  <2>3. ~(lo[n] < m /\ m < n) /\ ~(n < m /\ m < hi[n])
    BY DEF Searched, Filled
  <2> QED
    BY <1>1, <2>1, <2>2, <2>3
<1> QED
  BY <1>1

LEMMA DroppedIsLinked ==
  ASSUME NEW t, NEW S, NEW lo, NEW hi, NEW M, Searched(t, S, lo, hi, M),
         NEW n \in S, NEW c, OnlyChild(t, n, c), NEW u, Dropped(t, u, n, c)
  PROVE  Linked(u, S \ {n})
<1> DEFINE U == S \ {n}
<1>1. Linked(t, S) /\ IsTree(u) /\ S \subseteq Values
  BY DEF Searched, Linked, Dropped
<1>2. /\ n /= Nil /\ n \in Values /\ c /= n
      /\ c /= Nil => c \in S /\ t.up[c] = n /\ c \in Values
      /\ \A x : t.left[n] = x \/ t.right[n] = x => x = c \/ x = Nil
  BY <1>1, ChildrenDiffer DEF OnlyChild
<1>3. ASSUME NEW x \in Values, x /= n
      PROVE  /\ u.left[x] = IF t.left[x] = n THEN c ELSE t.left[x]
             /\ u.right[x] = IF t.right[x] = n THEN c ELSE t.right[x]
             /\ u.up[x] = IF x = c THEN t.up[n] ELSE t.up[x]
  BY <1>3 DEF Dropped
<1>4. u.root = IF t.root = n THEN c ELSE t.root
  BY DEF Dropped
<1>5. ASSUME NEW x \in Values, x \notin U
      PROVE  u.left[x] = Nil /\ u.right[x] = Nil /\ u.up[x] = Nil
  <2>1. CASE x = n
    BY <2>1 DEF Dropped
  <2>2. CASE x /= n
    <3>1. t.left[x] = Nil /\ t.right[x] = Nil /\ t.up[x] = Nil /\ x \notin S
      BY <1>1, <1>5, <2>2 DEF Linked
    <3>2. x /= c
      BY <1>2, <3>1, NilIsNone
    <3> QED
      BY <1>2, <1>3, <2>2, <3>1, <3>2
  <2> QED
    BY <2>1, <2>2
<1>6. t.root \in S \cup {Nil} /\ (S /= {} => t.root /= Nil) /\ (t.root /= Nil => t.up[t.root] = Nil)
  BY <1>1 DEF Linked
<1>7. /\ u.root \in U \cup {Nil} /\ (U /= {} => u.root /= Nil)
      /\ u.root /= Nil => u.up[u.root] = Nil
  <2>1. CASE t.root = n
    <3>1. c = Nil => U = {}
      <4>1. c = Nil => t.left[n] = Nil /\ t.right[n] = Nil
        BY DEF OnlyChild
      <4> QED
        BY <2>1, <4>1, RootIsAlone
    <3>2. c /= Nil => c \in U /\ u.up[c] = t.up[n] /\ t.up[n] = Nil
      BY <1>2, <1>3, <1>6, <2>1
    <3> QED
      BY <1>4, <2>1, <3>1, <3>2
  <2>2. CASE t.root /= n
    <3>1. t.root /= Nil /\ t.root \in U /\ u.root = t.root /\ t.up[t.root] = Nil
      BY <1>4, <1>6, <2>2
    <3>2. t.root /= c
      BY <1>2, <3>1
    <3> QED
      BY <1>1, <1>3, <3>1, <3>2
  <2> QED
    BY <2>1, <2>2
<1>8. ASSUME NEW x \in U, u.left[x] /= Nil
      PROVE  u.left[x] \in U /\ u.up[u.left[x]] = x
  <2>1. /\ t.left[x] /= Nil => t.left[x] \in S /\ t.up[t.left[x]] = x
        /\ u.left[x] = IF t.left[x] = n THEN c ELSE t.left[x]
    BY <1>1, <1>3, ChildrenDiffer
  <2>2. CASE t.left[x] = n
    <3>1. u.left[x] = c /\ t.up[n] = x /\ c /= Nil
      BY <1>2, <1>8, <2>1, <2>2
    <3>2. c \in U /\ u.up[c] = t.up[n]
      BY <1>2, <1>3, <3>1
    <3> QED
      BY <3>1, <3>2
  <2>3. CASE t.left[x] /= n
    <3>1. t.left[x] \in U /\ t.up[t.left[x]] = x /\ t.left[x] \in Values
      BY <1>1, <1>8, <2>1, <2>3
    <3>2. t.left[x] /= c
      BY <1>2, <3>1, NilIsNone
    <3> QED
      BY <1>3, <2>1, <2>3, <3>1, <3>2
  <2> QED
    BY <2>2, <2>3
<1>9. ASSUME NEW x \in U, u.right[x] /= Nil
      PROVE  u.right[x] \in U /\ u.up[u.right[x]] = x
  <2>1. /\ t.right[x] /= Nil => t.right[x] \in S /\ t.up[t.right[x]] = x
        /\ u.right[x] = IF t.right[x] = n THEN c ELSE t.right[x]
    BY <1>1, <1>3, ChildrenDiffer
  <2>2. CASE t.right[x] = n
    <3>1. u.right[x] = c /\ t.up[n] = x /\ c /= Nil
      BY <1>2, <1>9, <2>1, <2>2
    <3>2. c \in U /\ u.up[c] = t.up[n]
      BY <1>2, <1>3, <3>1
    <3> QED
      BY <3>1, <3>2
  <2>3. CASE t.right[x] /= n
    <3>1. t.right[x] \in U /\ t.up[t.right[x]] = x /\ t.right[x] \in Values
      BY <1>1, <1>9, <2>1, <2>3
    <3>2. t.right[x] /= c
      BY <1>2, <3>1, NilIsNone
    <3> QED
      BY <1>3, <2>1, <2>3, <3>1, <3>2
  <2> QED
    BY <2>2, <2>3
<1>10. ASSUME NEW x \in U, x /= u.root
       PROVE  /\ u.up[x] \in U
              /\ u.left[u.up[x]] = x \/ u.right[u.up[x]] = x
  <2>1. \A y \in S : y /= t.root =>
           t.up[y] \in S /\ (t.left[t.up[y]] = y \/ t.right[t.up[y]] = y)
    BY <1>1 DEF Linked
  <2>2. CASE x = c
    <3>1. n /= t.root
      BY <1>4, <1>10, <2>2
    <3>2. PICK p \in S : p = t.up[n] /\ (t.left[p] = n \/ t.right[p] = n)
      BY <2>1, <3>1
    <3>3. p /= n
      BY <1>1, <3>2, ChildrenDiffer
    <3>4. u.up[x] = p /\ (u.left[p] = x \/ u.right[p] = x)
      BY <1>1, <1>3, <2>2, <3>2, <3>3
    <3> QED
      BY <3>2, <3>3, <3>4
  <2>3. CASE x /= c
    <3>1. x /= t.root
      BY <1>4, <1>10
    <3>2. PICK q \in S : q = t.up[x] /\ (t.left[q] = x \/ t.right[q] = x)
      BY <2>1, <3>1
    <3>3. q /= n
      BY <1>1, <1>2, <2>3, <3>2, NilIsNone
    <3>4. u.up[x] = q /\ (u.left[q] = x \/ u.right[q] = x)
      BY <1>1, <1>3, <2>3, <3>2, <3>3
    <3> QED
      BY <3>2, <3>3, <3>4
  <2> QED
    BY <2>2, <2>3
<1> QED
  BY <1>1, <1>5, <1>7, <1>8, <1>9, <1>10 DEF Linked

\* Without anything on its left the bound it was to nodes on its right is its own.
LEMMA DroppedOnRight ==
  ASSUME NEW t, NEW S, NEW lo, NEW hi, NEW M, Searched(t, S, lo, hi, M),
         NEW n \in S, t.left[n] = Nil, NEW u, Dropped(t, u, n, t.right[n])
  PROVE  IsSearchTree(u, S \ {n})
<1> DEFINE c == t.right[n]
           U == S \ {n}
           low == [x \in Values |-> IF lo[x] = n THEN lo[n] ELSE lo[x]]
<1>1. S \subseteq Values /\ M \in Nat /\ lo \in [Values -> Nat] /\ hi \in [Values -> Nat]
  BY DEF Searched, Linked, Bounded
<1>2. ASSUME NEW x \in S
      PROVE  /\ x \in Values /\ x \in Nat /\ x /= Nil /\ lo[x] \in Nat /\ hi[x] \in Nat
             /\ lo[x] < x /\ x < hi[x] /\ hi[x] <= M /\ 0 <= lo[x] /\ x < M /\ 0 < x
  <2>1. /\ x \in Values /\ x \in Nat /\ x /= Nil /\ lo[x] \in Nat /\ hi[x] \in Nat
        /\ lo[x] < x /\ x < hi[x] /\ hi[x] <= M
    BY <1>1, NilIsNone DEF Searched, Bounded
  <2> QED
    BY <1>1, <2>1
<1>3. low \in [Values -> Nat]
  BY <1>1, <1>2
<1>4. ASSUME NEW x \in S
      PROVE  low[x] = IF lo[x] = n THEN lo[n] ELSE lo[x]
  BY <1>2
<1> HIDE DEF low
<1>5. ASSUME NEW m \in S
      PROVE  ~(lo[n] < m /\ m < n)
  BY DEF Searched, Filled
<1>6. ASSUME NEW x \in S
      PROVE  hi[x] /= n
  <2>1. n /= M
    BY <1>1, <1>2
  <2>2. hi[x] = n => lo[n] < x
    BY <2>1 DEF Searched, Nested
  <2> QED
    BY <1>2, <1>5, <2>2
<1>7. /\ c /= Nil => c \in U /\ lo[c] = n /\ hi[c] = hi[n] /\ low[c] = lo[n]
      /\ c = Nil => \A m \in S : ~(n < m /\ m < hi[n])
  <2>1. c /= Nil => c \in S /\ c /= n
    BY ChildrenDiffer
  <2>2. c /= Nil => lo[c] = n /\ hi[c] = hi[n]
    BY DEF Searched, Bounded
  <2>3. c = Nil => \A m \in S : ~(n < m /\ m < hi[n])
    BY DEF Searched, Filled
  <2> QED
    BY <1>4, <2>1, <2>2, <2>3
<1>8. ASSUME NEW x \in U
      PROVE  /\ u.left[x] = IF t.left[x] = n THEN c ELSE t.left[x]
             /\ u.right[x] = IF t.right[x] = n THEN c ELSE t.right[x]
  BY <1>2 DEF Dropped
<1>9. ASSUME NEW x \in U
      PROVE  /\ t.left[x] /= Nil => t.left[x] \in S /\ lo[t.left[x]] = lo[x] /\ hi[t.left[x]] = x
             /\ t.right[x] /= Nil => t.right[x] \in S /\ lo[t.right[x]] = x /\ hi[t.right[x]] = hi[x]
             /\ t.left[x] = Nil => \A m \in S : ~(lo[x] < m /\ m < x)
             /\ t.right[x] = Nil => \A m \in S : ~(x < m /\ m < hi[x])
  BY DEF Searched, Linked, Bounded, Filled
<1>10. n /= Nil /\ lo[n] /= n
  BY <1>2
<1>11. Linked(u, U)
  BY DroppedIsLinked DEF OnlyChild
<1>12. Bounded(u, U, low, hi, M)
  <2>1. ASSUME NEW x \in U
        PROVE  low[x] < x /\ x < hi[x] /\ hi[x] <= M
    <3>1. CASE lo[x] = n
      BY <1>2, <1>4, <3>1
    <3>2. CASE lo[x] /= n
      BY <1>2, <1>4, <3>2
    <3> QED
      BY <3>1, <3>2
  <2>2. u.root /= Nil => low[u.root] = 0 /\ hi[u.root] = M
    <3>1. t.root \in S /\ lo[t.root] = 0 /\ hi[t.root] = M /\ t.root /= Nil
      BY <1>2 DEF Searched, Linked, Bounded
    <3>2. u.root = IF t.root = n THEN c ELSE t.root
      BY DEF Dropped
    <3>3. CASE t.root = n
      BY <1>7, <3>1, <3>2, <3>3
    <3>4. CASE t.root /= n
      <4>1. n /= 0
        BY <1>2
      <4> QED
        BY <1>4, <3>1, <3>2, <3>4, <4>1
    <3> QED
      BY <3>3, <3>4
  <2>3. ASSUME NEW x \in U, u.left[x] /= Nil
        PROVE  low[u.left[x]] = low[x] /\ hi[u.left[x]] = x
    <3>1. CASE t.left[x] = n
      <4>1. u.left[x] = c /\ lo[n] = lo[x] /\ hi[n] = x /\ low[x] = lo[x]
        BY <1>4, <1>8, <1>9, <1>10, <3>1
      <4> QED
        BY <1>7, <2>3, <4>1
    <3>2. CASE t.left[x] /= n
      BY <1>4, <1>8, <1>9, <2>3, <3>2
    <3> QED
      BY <3>1, <3>2
  <2>4. ASSUME NEW x \in U, u.right[x] /= Nil
        PROVE  low[u.right[x]] = x /\ hi[u.right[x]] = hi[x]
    <3>1. CASE t.right[x] = n
      <4>1. u.right[x] = c /\ lo[n] = x /\ hi[n] = hi[x]
        BY <1>8, <1>9, <1>10, <3>1
      <4> QED
        BY <1>7, <2>4, <4>1
    <3>2. CASE t.right[x] /= n
      BY <1>4, <1>8, <1>9, <2>4, <3>2
    <3> QED
      BY <3>1, <3>2
  <2> QED
    BY <1>1, <1>3, <2>1, <2>2, <2>3, <2>4 DEF Bounded
<1>13. Filled(u, U, low, hi)
  <2>1. ASSUME NEW x \in U, u.left[x] = Nil, NEW m \in U, low[x] < m, m < x
        PROVE  FALSE
    <3>1. CASE t.left[x] = n
      <4>1. c = Nil /\ lo[n] = lo[x] /\ hi[n] = x /\ low[x] = lo[x]
        BY <1>4, <1>8, <1>9, <1>10, <2>1, <3>1
      <4>2. ~(lo[n] < m /\ m < n) /\ ~(n < m /\ m < hi[n])
        BY <1>5, <1>7, <4>1
      <4> QED
        BY <1>2, <2>1, <4>1, <4>2
    <3>2. CASE t.left[x] /= n
      <4>1. ~(lo[x] < m /\ m < x)
        BY <1>8, <1>9, <2>1, <3>2
      <4>2. lo[x] = n /\ low[x] = lo[n]
        BY <1>4, <2>1, <4>1
      <4> QED
        BY <1>2, <1>5, <2>1, <4>1, <4>2
    <3> QED
      BY <3>1, <3>2
  <2>2. ASSUME NEW x \in U, u.right[x] = Nil, NEW m \in U, x < m, m < hi[x]
        PROVE  FALSE
    <3>1. CASE t.right[x] = n
      <4>1. c = Nil /\ lo[n] = x /\ hi[n] = hi[x]
        BY <1>8, <1>9, <1>10, <2>2, <3>1
      <4>2. ~(lo[n] < m /\ m < n) /\ ~(n < m /\ m < hi[n])
        BY <1>5, <1>7, <4>1
      <4> QED
        BY <1>2, <2>2, <4>1, <4>2
    <3>2. CASE t.right[x] /= n
      BY <1>8, <1>9, <2>2, <3>2
    <3> QED
      BY <3>1, <3>2
  <2> QED
    BY <2>1, <2>2 DEF Filled
<1>14. ASSUME NEW x \in S, NEW y \in S
       PROVE  /\ lo[x] = 0 \/ (lo[x] \in S /\ x < hi[lo[x]])
              /\ hi[x] = M \/ (hi[x] \in S /\ lo[hi[x]] < x)
              /\ lo[x] < y /\ y < x => lo[x] <= lo[y] /\ hi[y] <= x
              /\ x < y /\ y < hi[x] => x <= lo[y] /\ hi[y] <= hi[x]
  BY DEF Searched, Nested
<1>15. Nested(U, low, hi, M)
  <2>1. ASSUME NEW x \in U, low[x] /= 0
        PROVE  low[x] \in U /\ x < hi[low[x]]
    <3>1. CASE lo[x] = n
      <4>1. low[x] = lo[n] /\ lo[n] \in S /\ n < hi[lo[n]]
        BY <1>4, <1>14, <2>1, <3>1
      <4>2. x < hi[n]
        BY <1>2, <1>14, <3>1
      <4>3. hi[n] <= hi[lo[n]]
        BY <1>2, <1>14, <4>1
      <4>4. x < hi[lo[n]]
        BY <1>2, <4>1, <4>2, <4>3
      <4> QED
        BY <1>10, <4>1, <4>4
    <3>2. CASE lo[x] /= n
      BY <1>4, <1>14, <2>1, <3>2
    <3> QED
      BY <3>1, <3>2
  <2>2. ASSUME NEW x \in U, hi[x] /= M
        PROVE  hi[x] \in U /\ low[hi[x]] < x
    <3>1. hi[x] \in U /\ lo[hi[x]] < x
      BY <1>6, <1>14, <2>2
    <3>2. CASE lo[hi[x]] = n
      BY <1>2, <1>4, <3>1, <3>2
    <3>3. CASE lo[hi[x]] /= n
      BY <1>4, <3>1, <3>3
    <3> QED
      BY <3>1, <3>2, <3>3
  <2>3. ASSUME NEW x \in U, NEW y \in U, low[x] < y, y < x
        PROVE  low[x] <= low[y] /\ hi[y] <= x
    <3>1. CASE lo[x] = n
      <4>1. low[x] = lo[n] /\ n < y
        <5>1. low[x] = lo[n] /\ y \in Nat /\ n \in Nat /\ y /= n
          BY <1>2, <1>4, <3>1
        <5> QED
          BY <1>5, <2>3, <5>1
      <4>2. n <= lo[y] /\ hi[y] <= x
        BY <1>14, <2>3, <3>1, <4>1
      <4> QED
        BY <1>2, <1>4, <4>1, <4>2
    <3>2. CASE lo[x] /= n
      <4>1. low[x] = lo[x] /\ lo[x] <= lo[y] /\ hi[y] <= x
        BY <1>4, <1>14, <2>3, <3>2
      <4>2. CASE lo[y] = n
        <5>1. lo[x] < n /\ n < x
          BY <1>2, <2>3, <3>2, <4>1, <4>2
        <5>2. lo[x] <= lo[n]
          BY <1>14, <5>1
        <5> QED
          BY <1>4, <4>1, <4>2, <5>2
      <4>3. CASE lo[y] /= n
        BY <1>4, <4>1, <4>3
      <4> QED
        BY <4>2, <4>3
    <3> QED
      BY <3>1, <3>2
  <2>4. ASSUME NEW x \in U, NEW y \in U, x < y, y < hi[x]
        PROVE  x <= low[y] /\ hi[y] <= hi[x]
    <3>1. x <= lo[y] /\ hi[y] <= hi[x]
      BY <1>14, <2>4
    <3>2. CASE lo[y] = n
      <4>1. x < n /\ n < hi[x]
        BY <1>2, <2>4, <3>1, <3>2
      <4>2. x <= lo[n]
        BY <1>14, <4>1
      <4> QED
        BY <1>4, <3>1, <3>2, <4>2
    <3>3. CASE lo[y] /= n
      BY <1>4, <3>1, <3>3
    <3> QED
      BY <3>2, <3>3
  <2> QED
    BY <2>1, <2>2, <2>3, <2>4 DEF Nested
<1>16. Searched(u, U, low, hi, M)
  BY <1>11, <1>12, <1>13, <1>15 DEF Searched
<1> QED
  BY <1>16 DEF IsSearchTree

\* And the other way around.
LEMMA DroppedOnLeft ==
  ASSUME NEW t, NEW S, NEW lo, NEW hi, NEW M, Searched(t, S, lo, hi, M),
         NEW n \in S, t.right[n] = Nil, NEW u, Dropped(t, u, n, t.left[n])
  PROVE  IsSearchTree(u, S \ {n})
<1> DEFINE c == t.left[n]
           U == S \ {n}
           high == [x \in Values |-> IF hi[x] = n THEN hi[n] ELSE hi[x]]
<1>1. S \subseteq Values /\ M \in Nat /\ lo \in [Values -> Nat] /\ hi \in [Values -> Nat]
  BY DEF Searched, Linked, Bounded
<1>2. ASSUME NEW x \in S
      PROVE  /\ x \in Values /\ x \in Nat /\ x /= Nil /\ hi[x] \in Nat /\ lo[x] \in Nat
             /\ lo[x] < x /\ x < hi[x] /\ hi[x] <= M /\ 0 <= lo[x] /\ x < M /\ 0 < x
  <2>1. /\ x \in Values /\ x \in Nat /\ x /= Nil /\ hi[x] \in Nat /\ lo[x] \in Nat
        /\ lo[x] < x /\ x < hi[x] /\ hi[x] <= M
    BY <1>1, NilIsNone DEF Searched, Bounded
  <2> QED
    BY <1>1, <2>1
<1>3. high \in [Values -> Nat]
  BY <1>1, <1>2
<1>4. ASSUME NEW x \in S
      PROVE  high[x] = IF hi[x] = n THEN hi[n] ELSE hi[x]
  BY <1>2
<1> HIDE DEF high
<1>5. ASSUME NEW m \in S
      PROVE  ~(m < hi[n] /\ n < m)
  BY DEF Searched, Filled
<1>6. ASSUME NEW x \in S
      PROVE  lo[x] /= n
  <2>1. n /= 0
    BY <1>1, <1>2
  <2>2. lo[x] = n => x < hi[n]
    BY <2>1 DEF Searched, Nested
  <2> QED
    BY <1>2, <1>5, <2>2
<1>7. /\ c /= Nil => c \in U /\ hi[c] = n /\ lo[c] = lo[n] /\ high[c] = hi[n]
      /\ c = Nil => \A m \in S : ~(m < n /\ lo[n] < m)
  <2>1. c /= Nil => c \in S /\ c /= n
    BY ChildrenDiffer
  <2>2. c /= Nil => hi[c] = n /\ lo[c] = lo[n]
    BY DEF Searched, Bounded
  <2>3. c = Nil => \A m \in S : ~(m < n /\ lo[n] < m)
    BY DEF Searched, Filled
  <2> QED
    BY <1>4, <2>1, <2>2, <2>3
<1>8. ASSUME NEW x \in U
      PROVE  /\ u.right[x] = IF t.right[x] = n THEN c ELSE t.right[x]
             /\ u.left[x] = IF t.left[x] = n THEN c ELSE t.left[x]
  BY <1>2 DEF Dropped
<1>9. ASSUME NEW x \in U
      PROVE  /\ t.right[x] /= Nil => t.right[x] \in S /\ hi[t.right[x]] = hi[x] /\ lo[t.right[x]] = x
             /\ t.left[x] /= Nil => t.left[x] \in S /\ hi[t.left[x]] = x /\ lo[t.left[x]] = lo[x]
             /\ t.right[x] = Nil => \A m \in S : ~(m < hi[x] /\ x < m)
             /\ t.left[x] = Nil => \A m \in S : ~(m < x /\ lo[x] < m)
  BY DEF Searched, Linked, Bounded, Filled
<1>10. n /= Nil /\ hi[n] /= n
  BY <1>2
<1>11. Linked(u, U)
  BY DroppedIsLinked DEF OnlyChild
<1>12. Bounded(u, U, lo, high, M)
  <2>1. ASSUME NEW x \in U
        PROVE  lo[x] < x /\ x < high[x] /\ high[x] <= M
    <3>1. CASE hi[x] = n
      BY <1>2, <1>4, <3>1
    <3>2. CASE hi[x] /= n
      BY <1>2, <1>4, <3>2
    <3> QED
      BY <3>1, <3>2
  <2>2. u.root /= Nil => lo[u.root] = 0 /\ high[u.root] = M
    <3>1. t.root \in S /\ lo[t.root] = 0 /\ hi[t.root] = M /\ t.root /= Nil
      BY <1>2 DEF Searched, Linked, Bounded
    <3>2. u.root = IF t.root = n THEN c ELSE t.root
      BY DEF Dropped
    <3>3. CASE t.root = n
      BY <1>7, <3>1, <3>2, <3>3
    <3>4. CASE t.root /= n
      <4>1. n /= M
        BY <1>1, <1>2
      <4> QED
        BY <1>4, <3>1, <3>2, <3>4, <4>1
    <3> QED
      BY <3>3, <3>4
  <2>3. ASSUME NEW x \in U, u.right[x] /= Nil
        PROVE  high[u.right[x]] = high[x] /\ lo[u.right[x]] = x
    <3>1. CASE t.right[x] = n
      <4>1. u.right[x] = c /\ hi[n] = hi[x] /\ lo[n] = x /\ high[x] = hi[x]
        BY <1>4, <1>8, <1>9, <1>10, <3>1
      <4> QED
        BY <1>7, <2>3, <4>1
    <3>2. CASE t.right[x] /= n
      BY <1>4, <1>8, <1>9, <2>3, <3>2
    <3> QED
      BY <3>1, <3>2
  <2>4. ASSUME NEW x \in U, u.left[x] /= Nil
        PROVE  high[u.left[x]] = x /\ lo[u.left[x]] = lo[x]
    <3>1. CASE t.left[x] = n
      <4>1. u.left[x] = c /\ hi[n] = x /\ lo[n] = lo[x]
        BY <1>8, <1>9, <1>10, <3>1
      <4> QED
        BY <1>7, <2>4, <4>1
    <3>2. CASE t.left[x] /= n
      BY <1>4, <1>8, <1>9, <2>4, <3>2
    <3> QED
      BY <3>1, <3>2
  <2> QED
    BY <1>1, <1>3, <2>1, <2>2, <2>3, <2>4 DEF Bounded
<1>13. Filled(u, U, lo, high)
  <2>1. ASSUME NEW x \in U, u.right[x] = Nil, NEW m \in U, m < high[x], x < m
        PROVE  FALSE
    <3>1. CASE t.right[x] = n
      <4>1. c = Nil /\ hi[n] = hi[x] /\ lo[n] = x /\ high[x] = hi[x]
        BY <1>4, <1>8, <1>9, <1>10, <2>1, <3>1
      <4>2. ~(m < hi[n] /\ n < m) /\ ~(m < n /\ lo[n] < m)
        BY <1>5, <1>7, <4>1
      <4> QED
        BY <1>2, <2>1, <4>1, <4>2
    <3>2. CASE t.right[x] /= n
      <4>1. ~(m < hi[x] /\ x < m)
        BY <1>8, <1>9, <2>1, <3>2
      <4>2. hi[x] = n /\ high[x] = hi[n]
        BY <1>4, <2>1, <4>1
      <4> QED
        BY <1>2, <1>5, <2>1, <4>1, <4>2
    <3> QED
      BY <3>1, <3>2
  <2>2. ASSUME NEW x \in U, u.left[x] = Nil, NEW m \in U, m < x, lo[x] < m
        PROVE  FALSE
    <3>1. CASE t.left[x] = n
      <4>1. c = Nil /\ hi[n] = x /\ lo[n] = lo[x]
        BY <1>8, <1>9, <1>10, <2>2, <3>1
      <4>2. ~(m < hi[n] /\ n < m) /\ ~(m < n /\ lo[n] < m)
        BY <1>5, <1>7, <4>1
      <4> QED
        BY <1>2, <2>2, <4>1, <4>2
    <3>2. CASE t.left[x] /= n
      BY <1>8, <1>9, <2>2, <3>2
    <3> QED
      BY <3>1, <3>2
  <2> QED
    BY <2>1, <2>2 DEF Filled
<1>14. ASSUME NEW x \in S, NEW y \in S
       PROVE  /\ hi[x] = M \/ (hi[x] \in S /\ lo[hi[x]] < x)
              /\ lo[x] = 0 \/ (lo[x] \in S /\ x < hi[lo[x]])
              /\ y < hi[x] /\ x < y => hi[y] <= hi[x] /\ x <= lo[y]
              /\ y < x /\ lo[x] < y => hi[y] <= x /\ lo[x] <= lo[y]
  BY DEF Searched, Nested
<1>15. Nested(U, lo, high, M)
  <2>1. ASSUME NEW x \in U, high[x] /= M
        PROVE  high[x] \in U /\ lo[high[x]] < x
    <3>1. CASE hi[x] = n
      <4>1. high[x] = hi[n] /\ hi[n] \in S /\ lo[hi[n]] < n
        BY <1>4, <1>14, <2>1, <3>1
      <4>2. lo[n] < x
        BY <1>2, <1>14, <3>1
      <4>3. lo[hi[n]] <= lo[n]
        BY <1>2, <1>14, <4>1
      <4>4. lo[hi[n]] < x
        BY <1>2, <4>1, <4>2, <4>3
      <4> QED
        BY <1>10, <4>1, <4>4
    <3>2. CASE hi[x] /= n
      BY <1>4, <1>14, <2>1, <3>2
    <3> QED
      BY <3>1, <3>2
  <2>2. ASSUME NEW x \in U, lo[x] /= 0
        PROVE  lo[x] \in U /\ x < high[lo[x]]
    <3>1. lo[x] \in U /\ x < hi[lo[x]]
      BY <1>6, <1>14, <2>2
    <3>2. CASE hi[lo[x]] = n
      BY <1>2, <1>4, <3>1, <3>2
    <3>3. CASE hi[lo[x]] /= n
      BY <1>4, <3>1, <3>3
    <3> QED
      BY <3>1, <3>2, <3>3
  <2>3. ASSUME NEW x \in U, NEW y \in U, y < high[x], x < y
        PROVE  high[y] <= high[x] /\ x <= lo[y]
    <3>1. CASE hi[x] = n
      <4>1. high[x] = hi[n] /\ y < n
        <5>1. high[x] = hi[n] /\ y \in Nat /\ n \in Nat /\ y /= n
          BY <1>2, <1>4, <3>1
        <5> QED
          BY <1>5, <2>3, <5>1
      <4>2. hi[y] <= n /\ x <= lo[y]
        BY <1>14, <2>3, <3>1, <4>1
      <4> QED
        BY <1>2, <1>4, <4>1, <4>2
    <3>2. CASE hi[x] /= n
      <4>1. high[x] = hi[x] /\ hi[y] <= hi[x] /\ x <= lo[y]
        BY <1>4, <1>14, <2>3, <3>2
      <4>2. CASE hi[y] = n
        <5>1. n < hi[x] /\ x < n
          BY <1>2, <2>3, <3>2, <4>1, <4>2
        <5>2. hi[n] <= hi[x]
          BY <1>14, <5>1
        <5> QED
          BY <1>4, <4>1, <4>2, <5>2
      <4>3. CASE hi[y] /= n
        BY <1>4, <4>1, <4>3
      <4> QED
        BY <4>2, <4>3
    <3> QED
      BY <3>1, <3>2
  <2>4. ASSUME NEW x \in U, NEW y \in U, y < x, lo[x] < y
        PROVE  high[y] <= x /\ lo[x] <= lo[y]
    <3>1. hi[y] <= x /\ lo[x] <= lo[y]
      BY <1>14, <2>4
    <3>2. CASE hi[y] = n
      <4>1. n < x /\ lo[x] < n
        BY <1>2, <2>4, <3>1, <3>2
      <4>2. hi[n] <= x
        BY <1>14, <4>1
      <4> QED
        BY <1>4, <3>1, <3>2, <4>2
    <3>3. CASE hi[y] /= n
      BY <1>4, <3>1, <3>3
    <3> QED
      BY <3>2, <3>3
  <2> QED
    BY <2>1, <2>2, <2>3, <2>4 DEF Nested
<1>16. Searched(u, U, lo, high, M)
  BY <1>11, <1>12, <1>13, <1>15 DEF Searched
<1> QED
  BY <1>16 DEF IsSearchTree
\* The place of n among the pointers of the nodes X.
Placed(t, n, X) ==
  \/ /\ t.up[n] = Nil /\ t.root = n
     /\ \A x \in X : t.left[x] /= n /\ t.right[x] /= n
  \/ /\ t.up[n] \in X /\ t.up[n] /= Nil /\ t.root /= n
     /\ \A x \in X : x /= t.up[n] => t.left[x] /= n /\ t.right[x] /= n
     /\ (t.left[t.up[n]] = n /\ t.right[t.up[n]] /= n) \/ (t.left[t.up[n]] /= n /\ t.right[t.up[n]] = n)

LEMMA PlacedIs ==
  ASSUME NEW t, NEW S, NEW lo, NEW hi, NEW M, Searched(t, S, lo, hi, M), NEW n \in S
  PROVE  Placed(t, n, Values) /\ t.up[n] \in S \cup {Nil}
<1>1. n \in Values /\ n /= Nil /\ S \subseteq Values
  BY NilIsNone DEF Searched, Linked
<1>2. ASSUME NEW x \in Values, t.left[x] = n \/ t.right[x] = n
      PROVE  x \in S /\ t.up[n] = x /\ n /= t.root
  <2>1. x \in S
    BY <1>1, <1>2 DEF Searched, Linked
  <2>2. t.up[n] = x
    BY <1>1, <1>2, <2>1, ChildrenDiffer
  <2>3. x /= Nil
    BY <2>1, ChildrenDiffer
  <2> QED
    BY <1>1, <2>1, <2>2, <2>3 DEF Searched, Linked
<1>3. CASE n = t.root
  <2>1. t.up[n] = Nil
    BY <1>1, <1>3 DEF Searched, Linked
  <2> QED
    BY <1>2, <1>3, <2>1 DEF Placed
<1>4. CASE n /= t.root
  <2>1. PICK p \in S : p = t.up[n] /\ (t.left[p] = n \/ t.right[p] = n)
    BY <1>4 DEF Searched, Linked
  <2>2. p /= Nil /\ p \in Values /\ (t.left[p] = Nil \/ t.left[p] /= t.right[p])
    BY <2>1, ChildrenDiffer
  <2>3. (t.left[p] = n /\ t.right[p] /= n) \/ (t.left[p] /= n /\ t.right[p] = n)
    BY <1>1, <2>1, <2>2
  <2> QED
    BY <1>2, <1>4, <2>1, <2>2, <2>3 DEF Placed
<1> QED
  BY <1>3, <1>4

IsHung(t, u, X, n, m) ==
  /\ IsTree(u) /\ u.up = t.up
  /\ u.root = IF t.root = n THEN m ELSE t.root
  /\ \A x \in X : /\ u.left[x] = IF t.left[x] = n THEN m ELSE t.left[x]
                  /\ u.right[x] = IF t.right[x] = n THEN m ELSE t.right[x]

LEMMA HangIs ==
  ASSUME NEW t, IsTree(t), NEW X \in SUBSET Values, NEW n \in Values, Placed(t, n, X),
         NEW m \in Values \cup {Nil}, NEW u, u = Hang(t, n, m)
  PROVE  IsHung(t, u, X, n, m)
<1> DEFINE p == t.up[n]
<1>1. /\ IsRecord(t) /\ t.root \in Values \cup {Nil}
      /\ t.left \in [Values -> Values \cup {Nil}] /\ t.right \in [Values -> Values \cup {Nil}]
      /\ t.up \in [Values -> Values \cup {Nil}]
  BY TreeIs DEF IsRecord
<1>2. u = IF p = Nil THEN [t EXCEPT !.root = m]
          ELSE IF t.left[p] = n THEN [t EXCEPT !.left = [t.left EXCEPT ![p] = m]]
          ELSE [t EXCEPT !.right = [t.right EXCEPT ![p] = m]]
  BY DEF Hang
<1>3. CASE p = Nil
  <2>1. /\ u = [root |-> m, left |-> t.left, right |-> t.right, up |-> t.up]
    BY <1>1, <1>2, <1>3, RootIsSet
  <2>2. t.root = n /\ \A x \in X : t.left[x] /= n /\ t.right[x] /= n
    BY <1>3 DEF Placed
  <2>3. IsTree(u)
    BY <1>1, <2>1 DEF IsTree
  <2> QED
    BY <2>1, <2>2, <2>3 DEF IsHung
<1>4. CASE p /= Nil
  <2>1. /\ p \in X /\ t.root /= n /\ p \in Values
        /\ \A x \in X : x /= p => t.left[x] /= n /\ t.right[x] /= n
        /\ (t.left[p] = n /\ t.right[p] /= n) \/ (t.left[p] /= n /\ t.right[p] = n)
    BY <1>4 DEF Placed
  <2>2. CASE t.left[p] = n
    <3> DEFINE f == [t.left EXCEPT ![p] = m]
    <3>1. f \in [Values -> Values \cup {Nil}]
      BY <1>1
    <3>2. \A x \in X : f[x] = IF t.left[x] = n THEN m ELSE t.left[x]
      BY <1>1, <2>1, <2>2
    <3> HIDE DEF f
    <3>3. u = [root |-> t.root, left |-> f, right |-> t.right, up |-> t.up]
      BY <1>1, <1>2, <1>4, <2>2, LeftIsSet DEF f
    <3>4. IsTree(u)
      BY <1>1, <3>1, <3>3 DEF IsTree
    <3>5. \A x \in X : t.right[x] /= n
      BY <2>1, <2>2
    <3> QED
      BY <2>1, <3>2, <3>3, <3>4, <3>5 DEF IsHung
  <2>3. CASE t.left[p] /= n
    <3> DEFINE f == [t.right EXCEPT ![p] = m]
    <3>1. f \in [Values -> Values \cup {Nil}]
      BY <1>1
    <3>2. \A x \in X : f[x] = IF t.right[x] = n THEN m ELSE t.right[x]
      BY <1>1, <2>1, <2>3
    <3> HIDE DEF f
    <3>3. u = [root |-> t.root, left |-> t.left, right |-> f, up |-> t.up]
      BY <1>1, <1>2, <1>4, <2>3, RightIsSet DEF f
    <3>4. IsTree(u)
      BY <1>1, <3>1, <3>3 DEF IsTree
    <3>5. \A x \in X : t.left[x] /= n
      BY <2>1, <2>3
    <3> QED
      BY <2>1, <3>2, <3>3, <3>4, <3>5 DEF IsHung
  <2> QED
    BY <2>2, <2>3
<1> QED
  BY <1>3, <1>4

IsAdopted(t, u, m, p) ==
  /\ IsTree(u) /\ u.root = t.root /\ u.left = t.left /\ u.right = t.right
  /\ \A x \in Values : u.up[x] = IF x = m THEN p ELSE t.up[x]

LEMMA AdoptIs ==
  ASSUME NEW t, IsTree(t), NEW m \in Values \cup {Nil}, NEW p \in Values \cup {Nil},
         NEW u, u = Adopt(t, m, p)
  PROVE  IsAdopted(t, u, m, p)
<1>1. /\ IsRecord(t) /\ t.root \in Values \cup {Nil}
      /\ t.left \in [Values -> Values \cup {Nil}] /\ t.right \in [Values -> Values \cup {Nil}]
      /\ t.up \in [Values -> Values \cup {Nil}]
  BY TreeIs DEF IsRecord
<1>2. CASE m = Nil
  <2>1. u = t
    BY <1>2 DEF Adopt
  <2>2. \A x \in Values : x /= m
    BY <1>2, NilIsNone
  <2> QED
    BY <2>1, <2>2 DEF IsAdopted
<1>3. CASE m /= Nil
  <2> DEFINE f == [t.up EXCEPT ![m] = p]
  <2>1. f \in [Values -> Values \cup {Nil}]
    BY <1>1
  <2>2. \A x \in Values : f[x] = IF x = m THEN p ELSE t.up[x]
    BY <1>1
  <2>3. u = [t EXCEPT !.up = f]
    BY <1>3 DEF Adopt
  <2> HIDE DEF f
  <2>4. u = [root |-> t.root, left |-> t.left, right |-> t.right, up |-> f]
    BY <1>1, <2>3, UpIsSet
  <2>5. IsTree(u)
    BY <1>1, <2>1, <2>4 DEF IsTree
  <2> QED
    BY <2>2, <2>4, <2>5 DEF IsAdopted
<1> QED
  BY <1>2, <1>3

\* Setting the pointers of a node.
Pointed(t, n, a, b, p) == [t EXCEPT !.left[n] = a, !.right[n] = b, !.up[n] = p]

IsPointed(t, u, n, a, b, p) ==
  /\ IsTree(u) /\ u.root = t.root
  /\ \A x \in Values : /\ u.left[x] = IF x = n THEN a ELSE t.left[x]
                       /\ u.right[x] = IF x = n THEN b ELSE t.right[x]
                       /\ u.up[x] = IF x = n THEN p ELSE t.up[x]

LEMMA PointedIs ==
  ASSUME NEW t, IsTree(t), NEW n \in Values, NEW a \in Values \cup {Nil},
         NEW b \in Values \cup {Nil}, NEW p \in Values \cup {Nil},
         NEW u, u = Pointed(t, n, a, b, p)
  PROVE  IsPointed(t, u, n, a, b, p)
<1> DEFINE f == [t.left EXCEPT ![n] = a]
           g == [t.right EXCEPT ![n] = b]
           h == [t.up EXCEPT ![n] = p]
<1>1. /\ IsRecord(t) /\ t.root \in Values \cup {Nil}
      /\ t.left \in [Values -> Values \cup {Nil}] /\ t.right \in [Values -> Values \cup {Nil}]
      /\ t.up \in [Values -> Values \cup {Nil}]
  BY TreeIs DEF IsRecord
<1>2. /\ f \in [Values -> Values \cup {Nil}] /\ g \in [Values -> Values \cup {Nil}]
      /\ h \in [Values -> Values \cup {Nil}]
  BY <1>1
<1>3. \A x \in Values : /\ f[x] = IF x = n THEN a ELSE t.left[x]
                        /\ g[x] = IF x = n THEN b ELSE t.right[x]
                        /\ h[x] = IF x = n THEN p ELSE t.up[x]
  BY <1>1
<1>4. u = [root |-> t.root, left |-> f, right |-> g, up |-> h]
  <2>1. PICK i : i = [t EXCEPT !.left = [t.left EXCEPT ![n] = a]]
    OBVIOUS
  <2>2. PICK j : j = [i EXCEPT !.right = [i.right EXCEPT ![n] = b]]
    OBVIOUS
  <2>3. u = [j EXCEPT !.up = [j.up EXCEPT ![n] = p]]
    BY <2>1, <2>2 DEF Pointed
  <2>4. /\ IsRecord(i) /\ i.root = t.root /\ i.left = f /\ i.right = t.right /\ i.up = t.up
    <3>1. i = [root |-> t.root, left |-> f, right |-> t.right, up |-> t.up] /\ IsRecord(i)
      BY <1>1, <2>1, LeftIsSet
    <3> QED
      BY <3>1
  <2>5. /\ IsRecord(j) /\ j.root = t.root /\ j.left = f /\ j.right = g /\ j.up = t.up
    <3>1. g = [i.right EXCEPT ![n] = b]
      BY <2>4
    <3>2. j = [root |-> i.root, left |-> i.left, right |-> g, up |-> i.up] /\ IsRecord(j)
      BY <2>2, <2>4, <3>1, RightIsSet
    <3> QED
      BY <2>4, <3>2
  <2>6. u = [root |-> j.root, left |-> j.left, right |-> j.right, up |-> [j.up EXCEPT ![n] = p]]
    BY <2>3, <2>5, UpIsSet
  <2> QED
    BY <2>5, <2>6
<1> HIDE DEF f, g, h
<1>5. IsTree(u)
  BY <1>1, <1>2, <1>4 DEF IsTree
<1> QED
  BY <1>3, <1>4, <1>5 DEF IsPointed

\* Removing a node that has one child, or none, but for freeing it.
Unlinked(t, n, c) == Adopt(Hang(t, n, c), c, t.up[n])

LEMMA UnlinkedIs ==
  ASSUME NEW t, NEW S, NEW lo, NEW hi, NEW M, Searched(t, S, lo, hi, M),
         NEW n \in S, NEW c, OnlyChild(t, n, c)
  PROVE  LET u == Unlinked(t, n, c)
         IN /\ IsTree(u) /\ Dropped(t, Free(u, n), n, c)
            /\ Free(u, n).root = u.root
            /\ \A x \in Values : x /= n => /\ Free(u, n).left[x] = u.left[x]
                                           /\ Free(u, n).right[x] = u.right[x]
                                           /\ Free(u, n).up[x] = u.up[x]
<1> DEFINE h == Hang(t, n, c)
           u == Unlinked(t, n, c)
           v == Free(u, n)
<1>1. IsTree(t) /\ S \subseteq Values /\ n \in Values
  BY DEF Searched, Linked
<1>2. c \in Values \cup {Nil} /\ t.up[n] \in Values \cup {Nil}
  BY <1>1, TreeIs DEF OnlyChild
<1>3. Placed(t, n, Values)
  BY PlacedIs
<1>11. h = Hang(t, n, c)
  OBVIOUS
<1> HIDE DEF h
<1>4. /\ IsTree(h) /\ h.up = t.up
      /\ h.root = IF t.root = n THEN c ELSE t.root
      /\ \A x \in Values : /\ h.left[x] = IF t.left[x] = n THEN c ELSE t.left[x]
                           /\ h.right[x] = IF t.right[x] = n THEN c ELSE t.right[x]
  <2>1. IsHung(t, h, Values, n, c)
    BY <1>1, <1>2, <1>3, <1>11, HangIs
  <2> QED
    BY <2>1 DEF IsHung
<1>5. u = Adopt(h, c, t.up[n])
  BY DEF Unlinked, h
<1> HIDE DEF u
<1>6. /\ IsTree(u) /\ u.root = h.root /\ u.left = h.left /\ u.right = h.right
      /\ \A x \in Values : u.up[x] = IF x = c THEN t.up[n] ELSE h.up[x]
  <2>1. IsAdopted(h, u, c, t.up[n])
    BY <1>2, <1>4, <1>5, AdoptIs
  <2> QED
    BY <2>1 DEF IsAdopted
<1>7. v = Pointed(u, n, Nil, Nil, Nil)
  BY DEF Free, Pointed
<1> HIDE DEF v
<1>8. /\ IsTree(v) /\ v.root = u.root
      /\ \A x \in Values : /\ v.left[x] = IF x = n THEN Nil ELSE u.left[x]
                           /\ v.right[x] = IF x = n THEN Nil ELSE u.right[x]
                           /\ v.up[x] = IF x = n THEN Nil ELSE u.up[x]
  <2>1. IsPointed(u, v, n, Nil, Nil, Nil)
    BY <1>1, <1>6, <1>7, PointedIs
  <2> QED
    BY <2>1 DEF IsPointed
<1>9. Dropped(t, v, n, c)
  BY <1>1, <1>4, <1>6, <1>8 DEF Dropped
<1> QED
  BY <1>6, <1>8, <1>9 DEF u, v

\* The tree without a node that has one child, or none.
LEMMA DroppedIsSearched ==
  ASSUME NEW t, NEW S, NEW lo, NEW hi, NEW M, Searched(t, S, lo, hi, M),
         NEW n \in S, NEW c, OnlyChild(t, n, c)
  PROVE  IsSearchTree(Free(Unlinked(t, n, c), n), S \ {n})
<1>1. Dropped(t, Free(Unlinked(t, n, c), n), n, c)
  BY UnlinkedIs
<1>2. CASE t.left[n] = Nil /\ c = t.right[n]
  BY <1>1, <1>2, DroppedOnRight
<1>3. CASE t.right[n] = Nil /\ c = t.left[n]
  BY <1>1, <1>3, DroppedOnLeft
<1> QED
  BY <1>2, <1>3 DEF OnlyChild

-----------------------------------------------------------------------------
(* Removal of a node with two children, for which the node before it moves.  *)

\* What x is called when q has taken the place of n.
Called(n, q, x) == IF x = n THEN q ELSE x

Renamed(t, u, S, n, q) ==
  /\ IsTree(u) /\ u.root = Called(n, q, t.root)
  /\ \A x \in S : /\ u.left[Called(n, q, x)] = Called(n, q, t.left[x])
                  /\ u.right[Called(n, q, x)] = Called(n, q, t.right[x])
                  /\ u.up[Called(n, q, x)] = Called(n, q, t.up[x])
  /\ \A x \in Values : x \notin (S \ {n}) \cup {q} =>
        u.left[x] = Nil /\ u.right[x] = Nil /\ u.up[x] = Nil

\* If no other node is between q and n, that is a search tree again.
LEMMA RenamedIsSearched ==
  ASSUME NEW t, NEW S, NEW lo, NEW hi, NEW M, Searched(t, S, lo, hi, M),
         NEW n \in S, NEW q \in Values, q \notin S, q < n,
         \A m \in S : ~(q < m /\ m < n), NEW u, Renamed(t, u, S, n, q)
  PROVE  IsSearchTree(u, (S \ {n}) \cup {q})
<1> DEFINE U == (S \ {n}) \cup {q}
           B == S \cup {0, M}
           R(x) == Called(n, q, x)
           low == [y \in Values |-> IF y = q THEN R(lo[n]) ELSE R(lo[y])]
           high == [y \in Values |-> IF y = q THEN R(hi[n]) ELSE R(hi[y])]
<1>1. /\ S \subseteq Values /\ M \in Nat /\ q \in Nat /\ q > 0
      /\ lo \in [Values -> Nat] /\ hi \in [Values -> Nat]
  BY NilIsNone DEF Searched, Linked, Bounded
<1>2. ASSUME NEW x \in S
      PROVE  /\ x \in Nat /\ x > 0 /\ x /= Nil /\ lo[x] \in B /\ hi[x] \in B
             /\ lo[x] < x /\ x < hi[x] /\ hi[x] <= M /\ x < M
  <2>1. x \in Nat /\ x > 0 /\ x /= Nil /\ lo[x] \in Nat /\ hi[x] \in Nat
    BY <1>1, NilIsNone
  <2>2. lo[x] < x /\ x < hi[x] /\ hi[x] <= M
    BY DEF Searched, Bounded
  <2>3. lo[x] \in B /\ hi[x] \in B
    BY DEF Searched, Nested
  <2> QED
    BY <1>1, <2>1, <2>2, <2>3
<1>3. ASSUME NEW a \in B, NEW b \in B
      PROVE  /\ a \in Nat /\ R(a) \in Nat /\ (a < b <=> R(a) < R(b)) /\ (a <= b <=> R(a) <= R(b))
             /\ (a = b <=> R(a) = R(b))
  <2>1. /\ a \in Nat /\ b \in Nat /\ n \in Nat /\ n < M /\ q < n /\ a /= q /\ b /= q
    BY <1>1, <1>2
  <2>2. a = n \/ a < q \/ n < a
    BY <1>1, <1>2, <2>1
  <2>3. b = n \/ b < q \/ n < b
    BY <1>1, <1>2, <2>1
  <2>4. R(a) = IF a = n THEN q ELSE a
    BY DEF Called
  <2>5. R(b) = IF b = n THEN q ELSE b
    BY DEF Called
  <2> QED
    BY <1>1, <2>1, <2>2, <2>3, <2>4, <2>5
<1>4. /\ R(0) = 0 /\ R(M) = M /\ R(Nil) = Nil
      /\ \A x \in S : R(x) \in U /\ R(x) \in Values
      /\ \A y \in U : \E x \in S : y = R(x)
  <2>1. n /= 0 /\ n /= M /\ Nil = 0
    BY <1>1, <1>2, NilIsNone
  <2>2. R(0) = 0 /\ R(M) = M /\ R(Nil) = Nil
    BY <2>1 DEF Called
  <2>3. ASSUME NEW x \in S
        PROVE  R(x) \in U /\ R(x) \in Values
    BY <1>1 DEF Called
  <2>4. ASSUME NEW y \in U
        PROVE  \E x \in S : y = R(x)
    <3>1. CASE y = q
      <4>1. R(n) = y
        BY <3>1 DEF Called
      <4> QED
        BY <4>1
    <3>2. CASE y /= q
      <4>1. y \in S /\ R(y) = y
        BY <3>2 DEF Called
      <4> QED
        BY <4>1
    <3> QED
      BY <3>1, <3>2
  <2> QED
    BY <2>2, <2>3, <2>4
<1>5. ASSUME NEW x \in S
      PROVE  low[R(x)] = R(lo[x]) /\ high[R(x)] = R(hi[x])
  <2>1. CASE x = n
    <3>1. R(x) = q
      BY <2>1 DEF Called
    <3> QED
      BY <2>1, <3>1
  <2>2. CASE x /= n
    <3>1. R(x) = x /\ x /= q /\ x \in Values
      BY <1>1, <2>2 DEF Called
    <3> QED
      BY <3>1
  <2> QED
    BY <2>1, <2>2
<1>6. low \in [Values -> Nat] /\ high \in [Values -> Nat]
  <2>1. ASSUME NEW y \in Values
        PROVE  R(lo[y]) \in Nat /\ R(hi[y]) \in Nat /\ R(lo[n]) \in Nat /\ R(hi[n]) \in Nat
    BY <1>1 DEF Called
  <2> QED
    BY <2>1
<1> HIDE DEF low, high
<1>7. /\ IsTree(u) /\ u.root = R(t.root)
      /\ \A x \in S : /\ u.left[R(x)] = R(t.left[x])
                      /\ u.right[R(x)] = R(t.right[x])
                      /\ u.up[R(x)] = R(t.up[x])
      /\ \A x \in Values : x \notin U => u.left[x] = Nil /\ u.right[x] = Nil /\ u.up[x] = Nil
  BY DEF Renamed
<1>8. ASSUME NEW x \in S
      PROVE  /\ t.left[x] \in S \cup {Nil} /\ t.right[x] \in S \cup {Nil}
             /\ t.left[x] /= Nil => t.up[t.left[x]] = x /\ lo[t.left[x]] = lo[x] /\ hi[t.left[x]] = x
             /\ t.right[x] /= Nil => t.up[t.right[x]] = x /\ lo[t.right[x]] = x /\ hi[t.right[x]] = hi[x]
  BY DEF Searched, Linked, Bounded
<1>9. t.root \in S /\ t.root /= Nil /\ t.up[t.root] = Nil /\ lo[t.root] = 0 /\ hi[t.root] = M
  BY <1>1 DEF Searched, Linked, Bounded
<1> HIDE DEF R, U
<1>10. ASSUME NEW x \in S
       PROVE  /\ R(x) /= Nil /\ (t.left[x] = Nil <=> u.left[R(x)] = Nil)
              /\ (t.right[x] = Nil <=> u.right[R(x)] = Nil)
  <2>1. /\ t.left[x] \in B /\ t.right[x] \in B /\ x \in B /\ Nil \in B /\ Nil = 0
        /\ x /= Nil
    BY <1>2, <1>8, NilIsNone
  <2> HIDE DEF B
  <2>2. /\ R(x) /= R(Nil) /\ (t.left[x] = Nil <=> R(t.left[x]) = R(Nil))
        /\ (t.right[x] = Nil <=> R(t.right[x]) = R(Nil))
    BY <1>3, <2>1
  <2> QED
    BY <1>4, <1>7, <2>2
<1>11. Linked(u, U)
  <2>1. U \in SUBSET Values
    BY <1>1 DEF U
  <2>2. /\ u.root \in U \cup {Nil} /\ u.root /= Nil /\ u.up[u.root] = Nil
    BY <1>4, <1>7, <1>9, <1>10
  <2>3. ASSUME NEW y \in U, u.left[y] /= Nil
        PROVE  u.left[y] \in U /\ u.up[u.left[y]] = y
    <3>1. PICK x \in S : y = R(x)
      BY <1>4
    <3>2. t.left[x] \in S /\ t.up[t.left[x]] = x
      BY <1>8, <1>10, <2>3, <3>1
    <3> QED
      BY <1>4, <1>7, <3>1, <3>2
  <2>4. ASSUME NEW y \in U, u.right[y] /= Nil
        PROVE  u.right[y] \in U /\ u.up[u.right[y]] = y
    <3>1. PICK x \in S : y = R(x)
      BY <1>4
    <3>2. t.right[x] \in S /\ t.up[t.right[x]] = x
      BY <1>8, <1>10, <2>4, <3>1
    <3> QED
      BY <1>4, <1>7, <3>1, <3>2
  <2>5. ASSUME NEW y \in U, y /= u.root
        PROVE  u.up[y] \in U /\ (u.left[u.up[y]] = y \/ u.right[u.up[y]] = y)
    <3>1. PICK x \in S : y = R(x)
      BY <1>4
    <3>2. x /= t.root
      BY <1>7, <2>5, <3>1
    <3>3. t.up[x] \in S /\ (t.left[t.up[x]] = x \/ t.right[t.up[x]] = x)
      BY <3>2 DEF Searched, Linked
    <3> QED
      BY <1>4, <1>7, <3>1, <3>3
  <2> QED
    BY <1>7, <2>1, <2>2, <2>3, <2>4, <2>5 DEF Linked
<1>12. Bounded(u, U, low, high, M)
  <2>1. ASSUME NEW y \in U
        PROVE  low[y] < y /\ y < high[y] /\ high[y] <= M
    <3>1. PICK x \in S : y = R(x)
      BY <1>4
    <3>2. x \in B /\ M \in B /\ lo[x] \in B /\ hi[x] \in B /\ lo[x] < x /\ x < hi[x] /\ hi[x] <= M
      BY <1>2
    <3> HIDE DEF B
    <3>3. R(lo[x]) < R(x) /\ R(x) < R(hi[x]) /\ R(hi[x]) <= R(M)
      BY <1>3, <3>2
    <3> QED
      BY <1>4, <1>5, <3>1, <3>3
  <2>2. low[u.root] = 0 /\ high[u.root] = M
    BY <1>4, <1>5, <1>7, <1>9
  <2>3. ASSUME NEW y \in U, u.left[y] /= Nil
        PROVE  low[u.left[y]] = low[y] /\ high[u.left[y]] = y
    <3>1. PICK x \in S : y = R(x)
      BY <1>4
    <3>2. t.left[x] \in S /\ lo[t.left[x]] = lo[x] /\ hi[t.left[x]] = x
      BY <1>8, <1>10, <2>3, <3>1
    <3> QED
      BY <1>5, <1>7, <3>1, <3>2
  <2>4. ASSUME NEW y \in U, u.right[y] /= Nil
        PROVE  low[u.right[y]] = y /\ high[u.right[y]] = high[y]
    <3>1. PICK x \in S : y = R(x)
      BY <1>4
    <3>2. t.right[x] \in S /\ lo[t.right[x]] = x /\ hi[t.right[x]] = hi[x]
      BY <1>8, <1>10, <2>4, <3>1
    <3> QED
      BY <1>5, <1>7, <3>1, <3>2
  <2> QED
    BY <1>1, <1>6, <2>1, <2>2, <2>3, <2>4 DEF Bounded
<1>13. Filled(u, U, low, high)
  <2>1. ASSUME NEW y \in U, u.left[y] = Nil, NEW m \in U
        PROVE  ~(low[y] < m /\ m < y)
    <3>1. PICK x \in S : y = R(x)
      BY <1>4
    <3>2. PICK k \in S : m = R(k)
      BY <1>4
    <3>3. ~(lo[x] < k /\ k < x)
      BY <1>10, <2>1, <3>1 DEF Searched, Filled
    <3>4. x \in B /\ k \in B /\ lo[x] \in B
      BY <1>2
    <3> HIDE DEF B
    <3>5. ~(R(lo[x]) < R(k) /\ R(k) < R(x))
      BY <1>3, <3>3, <3>4
    <3> QED
      BY <1>5, <3>1, <3>2, <3>5
  <2>2. ASSUME NEW y \in U, u.right[y] = Nil, NEW m \in U
        PROVE  ~(y < m /\ m < high[y])
    <3>1. PICK x \in S : y = R(x)
      BY <1>4
    <3>2. PICK k \in S : m = R(k)
      BY <1>4
    <3>3. ~(x < k /\ k < hi[x])
      BY <1>10, <2>2, <3>1 DEF Searched, Filled
    <3>4. x \in B /\ k \in B /\ hi[x] \in B
      BY <1>2
    <3> HIDE DEF B
    <3>5. ~(R(x) < R(k) /\ R(k) < R(hi[x]))
      BY <1>3, <3>3, <3>4
    <3> QED
      BY <1>5, <3>1, <3>2, <3>5
  <2> QED
    BY <2>1, <2>2 DEF Filled
<1>14. Nested(U, low, high, M)
  <2>1. ASSUME NEW y \in U
        PROVE  low[y] = 0 \/ (low[y] \in U /\ y < high[low[y]])
    <3>1. PICK x \in S : y = R(x)
      BY <1>4
    <3>2. CASE lo[x] = 0
      BY <1>4, <1>5, <3>1, <3>2
    <3>3. CASE lo[x] /= 0
      <4>1. lo[x] \in S /\ x < hi[lo[x]]
        BY <3>3 DEF Searched, Nested
      <4>2. x \in B /\ hi[lo[x]] \in B
        BY <1>2, <4>1
      <4> HIDE DEF B
      <4>3. R(x) < R(hi[lo[x]])
        BY <1>3, <4>1, <4>2
      <4> QED
        BY <1>4, <1>5, <3>1, <4>1, <4>3
    <3> QED
      BY <3>2, <3>3
  <2>2. ASSUME NEW y \in U
        PROVE  high[y] = M \/ (high[y] \in U /\ low[high[y]] < y)
    <3>1. PICK x \in S : y = R(x)
      BY <1>4
    <3>2. CASE hi[x] = M
      BY <1>4, <1>5, <3>1, <3>2
    <3>3. CASE hi[x] /= M
      <4>1. hi[x] \in S /\ lo[hi[x]] < x
        BY <3>3 DEF Searched, Nested
      <4>2. x \in B /\ lo[hi[x]] \in B
        BY <1>2, <4>1
      <4> HIDE DEF B
      <4>3. R(lo[hi[x]]) < R(x)
        BY <1>3, <4>1, <4>2
      <4> QED
        BY <1>4, <1>5, <3>1, <4>1, <4>3
    <3> QED
      BY <3>2, <3>3
  <2>3. ASSUME NEW y \in U, NEW m \in U
        PROVE  /\ low[y] < m /\ m < y => low[y] <= low[m] /\ high[m] <= y
               /\ y < m /\ m < high[y] => y <= low[m] /\ high[m] <= high[y]
    <3>1. PICK x \in S : y = R(x)
      BY <1>4
    <3>2. PICK k \in S : m = R(k)
      BY <1>4
    <3>3. /\ x \in B /\ k \in B /\ lo[x] \in B /\ lo[k] \in B /\ hi[x] \in B /\ hi[k] \in B
      BY <1>2
    <3>4. /\ lo[x] < k /\ k < x => lo[x] <= lo[k] /\ hi[k] <= x
          /\ x < k /\ k < hi[x] => x <= lo[k] /\ hi[k] <= hi[x]
      BY DEF Searched, Nested
    <3> HIDE DEF B
    <3>5. /\ (lo[x] < k <=> R(lo[x]) < R(k)) /\ (k < x <=> R(k) < R(x))
          /\ (x < k <=> R(x) < R(k)) /\ (k < hi[x] <=> R(k) < R(hi[x]))
      BY <1>3, <3>3
    <3>6. /\ (lo[x] <= lo[k] <=> R(lo[x]) <= R(lo[k])) /\ (hi[k] <= x <=> R(hi[k]) <= R(x))
          /\ (x <= lo[k] <=> R(x) <= R(lo[k])) /\ (hi[k] <= hi[x] <=> R(hi[k]) <= R(hi[x]))
      BY <1>3, <3>3
    <3> QED
      BY <1>5, <3>1, <3>2, <3>4, <3>5, <3>6
  <2> QED
    BY <2>1, <2>2, <2>3 DEF Nested
<1>15. Searched(u, U, low, high, M)
  BY <1>11, <1>12, <1>13, <1>14 DEF Searched
<1> QED
  BY <1>15 DEF IsSearchTree, U

\* A node takes the place of another: up to freeing that one.
Moved(t, n, q) ==
  LET hung == Hang(t, n, q)
      moved == [hung EXCEPT !.left[q] = hung.left[n], !.right[q] = hung.right[n],
                            !.up[q] = hung.up[n]]
  IN Adopt(Adopt(moved, moved.left[n], q), moved.right[n], q)

\* The tree t is v but for the pointers of q, which v does not hold.
LEMMA MovedIs ==
  ASSUME NEW v, NEW S, NEW lo, NEW hi, NEW M, Searched(v, S, lo, hi, M),
         NEW n \in S, NEW q \in Values, q \notin S, NEW t, IsTree(t), t.root = v.root,
         \A x \in Values : x /= q => t.left[x] = v.left[x] /\ t.right[x] = v.right[x]
                                     /\ t.up[x] = v.up[x]
  PROVE  Renamed(v, Free(Moved(t, n, q), n), S, n, q)
<1> DEFINE X == Values \ {q}
           h == Hang(t, n, q)
           m == Pointed(h, q, h.left[n], h.right[n], h.up[n])
           a == Adopt(m, m.left[n], q)
           b == Adopt(a, m.right[n], q)
           w == Free(b, n)
           U == (S \ {n}) \cup {q}
<1>1. /\ S \subseteq Values /\ n \in Values /\ n /= q /\ n /= Nil /\ q /= Nil /\ n \in X
  BY NilIsNone DEF Searched, Linked
<1>2. /\ Placed(v, n, Values) /\ v.up[n] \in S \cup {Nil}
  BY PlacedIs
<1>3. Placed(t, n, X)
  <2>1. t.up[n] = v.up[n]
    BY <1>1
  <2>2. ASSUME NEW x \in X
        PROVE  x \in Values /\ t.left[x] = v.left[x] /\ t.right[x] = v.right[x]
    OBVIOUS
  <2>3. v.up[n] /= Nil => v.up[n] \in X
    BY <1>1, <1>2
  <2> HIDE DEF X
  <2>4. CASE v.up[n] = Nil
    <3>1. v.root = n /\ \A x \in Values : v.left[x] /= n /\ v.right[x] /= n
      BY <1>2, <2>4 DEF Placed
    <3> QED
      BY <2>1, <2>2, <2>4, <3>1 DEF Placed
  <2>5. CASE v.up[n] /= Nil
    <3>1. /\ v.root /= n
          /\ \A x \in Values : x /= v.up[n] => v.left[x] /= n /\ v.right[x] /= n
          /\ \/ v.left[v.up[n]] = n /\ v.right[v.up[n]] /= n
             \/ v.left[v.up[n]] /= n /\ v.right[v.up[n]] = n
      BY <1>2, <2>5 DEF Placed
    <3> QED
      BY <2>1, <2>2, <2>3, <2>5, <3>1 DEF Placed
  <2> QED
    BY <2>4, <2>5
<1>4. /\ IsTree(h) /\ h.up = t.up
      /\ h.root = IF t.root = n THEN q ELSE t.root
      /\ \A x \in X : /\ h.left[x] = IF t.left[x] = n THEN q ELSE t.left[x]
                      /\ h.right[x] = IF t.right[x] = n THEN q ELSE t.right[x]
  <2>1. h = Hang(t, n, q)
    OBVIOUS
  <2>2. X \in SUBSET Values
    OBVIOUS
  <2> HIDE DEF h, X
  <2> QED
    <3>1. IsHung(t, h, X, n, q)
      BY <1>1, <1>3, <2>1, <2>2, HangIs
    <3> QED
      BY <3>1 DEF IsHung
<1>5. /\ v.left[n] /= n /\ v.right[n] /= n /\ v.left[n] \in S \cup {Nil}
      /\ v.right[n] \in S \cup {Nil}
      /\ v.left[n] /= Nil => v.up[v.left[n]] = n
      /\ v.right[n] /= Nil => v.up[v.right[n]] = n
  BY ChildrenDiffer
<1>6. /\ h.left[n] = v.left[n] /\ h.right[n] = v.right[n] /\ h.up[n] = v.up[n]
  BY <1>1, <1>4, <1>5
<1>7. /\ v.left[n] \in Values \cup {Nil} /\ v.right[n] \in Values \cup {Nil}
      /\ v.up[n] \in Values \cup {Nil}
  BY <1>1, <1>2, <1>5
<1> HIDE DEF h, X
<1>8. /\ IsTree(m) /\ m.root = h.root
      /\ \A x \in Values : /\ m.left[x] = IF x = q THEN v.left[n] ELSE h.left[x]
                           /\ m.right[x] = IF x = q THEN v.right[n] ELSE h.right[x]
                           /\ m.up[x] = IF x = q THEN v.up[n] ELSE h.up[x]
  <2>1. m = Pointed(h, q, v.left[n], v.right[n], v.up[n])
    BY <1>6
  <2> HIDE DEF m
  <2> QED
    <3>1. IsPointed(h, m, q, v.left[n], v.right[n], v.up[n])
      BY <1>4, <1>7, <2>1, PointedIs
    <3> QED
      BY <3>1 DEF IsPointed
<1> HIDE DEF m
<1>9. m.left[n] = v.left[n] /\ m.right[n] = v.right[n]
  BY <1>1, <1>6, <1>8
<1>10. /\ IsTree(a) /\ a.root = m.root /\ a.left = m.left /\ a.right = m.right
       /\ \A x \in Values : a.up[x] = IF x = v.left[n] THEN q ELSE m.up[x]
  <2>1. a = Adopt(m, v.left[n], q)
    BY <1>9
  <2> HIDE DEF a
  <2> QED
    <3>1. IsAdopted(m, a, v.left[n], q)
      BY <1>7, <1>8, <2>1, AdoptIs
    <3> QED
      BY <3>1 DEF IsAdopted
<1> HIDE DEF a
<1>11. /\ IsTree(b) /\ b.root = a.root /\ b.left = a.left /\ b.right = a.right
       /\ \A x \in Values : b.up[x] = IF x = v.right[n] THEN q ELSE a.up[x]
  <2>1. b = Adopt(a, v.right[n], q)
    BY <1>9
  <2> HIDE DEF b
  <2> QED
    <3>1. IsAdopted(a, b, v.right[n], q)
      BY <1>7, <1>10, <2>1, AdoptIs
    <3> QED
      BY <3>1 DEF IsAdopted
<1> HIDE DEF b
<1>12. w = Pointed(b, n, Nil, Nil, Nil)
  BY DEF Free, Pointed
<1>14. w = Free(Moved(t, n, q), n)
  BY DEF Moved, Pointed, b, a, m, h
<1> HIDE DEF w
<1>13. /\ IsTree(w) /\ w.root = b.root
       /\ \A x \in Values : /\ w.left[x] = IF x = n THEN Nil ELSE b.left[x]
                            /\ w.right[x] = IF x = n THEN Nil ELSE b.right[x]
                            /\ w.up[x] = IF x = n THEN Nil ELSE b.up[x]
  <2>1. IsPointed(b, w, n, Nil, Nil, Nil)
    BY <1>1, <1>11, <1>12, PointedIs
  <2> QED
    BY <2>1 DEF IsPointed
<1>15. IsTree(w) /\ w.root = Called(n, q, v.root)
  BY <1>4, <1>8, <1>10, <1>11, <1>13 DEF Called
<1>16. ASSUME NEW x \in Values, x /= n, x /= q
       PROVE  /\ w.left[x] = Called(n, q, v.left[x]) /\ w.right[x] = Called(n, q, v.right[x])
              /\ w.up[x] = IF x = v.left[n] \/ x = v.right[n] THEN q ELSE v.up[x]
  <2>1. x \in X
    BY <1>16 DEF X
  <2>2. h.left[x] = Called(n, q, v.left[x]) /\ h.right[x] = Called(n, q, v.right[x])
        /\ h.up[x] = v.up[x]
    BY <1>4, <1>16, <2>1 DEF Called
  <2> QED
    BY <1>8, <1>10, <1>11, <1>13, <1>16, <2>2
<1>17. w.left[q] = v.left[n] /\ w.right[q] = v.right[n] /\ w.up[q] = v.up[n]
  <2>1. v.left[n] /= q /\ v.right[n] /= q
    BY <1>1, <1>5
  <2> QED
    BY <1>1, <1>8, <1>10, <1>11, <1>13, <2>1
<1>18. ASSUME NEW x \in S, x /= n
       PROVE  w.up[x] = Called(n, q, v.up[x])
  <2>1. v.up[x] = n => x = v.left[n] \/ x = v.right[n]
    <3>1. CASE x = v.root
      BY <1>1, <3>1, <1>18 DEF Searched, Linked
    <3>2. CASE x /= v.root
      BY <3>2 DEF Searched, Linked
    <3> QED
      BY <3>1, <3>2
  <2>2. x /= Nil /\ x \in Values /\ x /= q
    BY <1>1, NilIsNone
  <2>3. x = v.left[n] \/ x = v.right[n] => v.up[x] = n
    BY <1>5, <2>2
  <2> QED
    BY <1>16, <1>18, <2>1, <2>2, <2>3 DEF Called
<1>19. v.up[n] /= n
  <2>1. CASE v.up[n] = Nil
    BY <1>1, <2>1
  <2>2. CASE v.up[n] /= Nil
    <3>1. v.left[v.up[n]] = n \/ v.right[v.up[n]] = n
      BY <1>2, <2>2 DEF Placed
    <3> QED
      BY <1>5, <3>1
  <2> QED
    BY <2>1, <2>2
<1>20. ASSUME NEW x \in S
       PROVE  /\ w.left[Called(n, q, x)] = Called(n, q, v.left[x])
              /\ w.right[Called(n, q, x)] = Called(n, q, v.right[x])
              /\ w.up[Called(n, q, x)] = Called(n, q, v.up[x])
  <2>1. CASE x = n
    <3>1. /\ Called(n, q, x) = q /\ Called(n, q, v.left[n]) = v.left[n]
          /\ Called(n, q, v.right[n]) = v.right[n] /\ Called(n, q, v.up[n]) = v.up[n]
      BY <1>5, <1>19, <2>1 DEF Called
    <3> QED
      BY <1>17, <2>1, <3>1
  <2>2. CASE x /= n
    <3>1. Called(n, q, x) = x /\ x \in Values /\ x /= q
      BY <1>1, <2>2 DEF Called
    <3> QED
      BY <1>16, <1>18, <2>2, <3>1
  <2> QED
    BY <2>1, <2>2
<1>21. ASSUME NEW x \in Values, x \notin U
       PROVE  w.left[x] = Nil /\ w.right[x] = Nil /\ w.up[x] = Nil
  <2>1. CASE x = n
    BY <1>13, <2>1
  <2>2. CASE x /= n
    <3>1. x \notin S /\ x /= q
      BY <1>21, <2>2
    <3>2. v.left[x] = Nil /\ v.right[x] = Nil /\ v.up[x] = Nil
      BY <3>1 DEF Searched, Linked
    <3>3. x /= v.left[n] /\ x /= v.right[n]
      BY <1>5, <3>1, NilIsNone
    <3>4. Called(n, q, Nil) = Nil
      BY <1>1 DEF Called
    <3> QED
      BY <1>16, <2>2, <3>1, <3>2, <3>3, <3>4
  <2> QED
    BY <2>1, <2>2
<1> QED
  BY <1>14, <1>15, <1>20, <1>21 DEF Renamed

LEMMA ReplacedIsSearched ==
  ASSUME NEW t, NEW S, NEW lo, NEW hi, NEW M, Searched(t, S, lo, hi, M),
         NEW n \in S, t.left[n] /= Nil
  PROVE  IsSearchTree(Free(Replaced(t, n), n), S \ {n})
<1> DEFINE l == t.left[n]
           q == Rightmost(t, l)
           c == t.left[q]
           r == Unlinked(t, q, c)
           v == Free(r, q)
           V == S \ {q}
<1>1. S \subseteq Values /\ n \in Values
  BY DEF Searched, Linked
<1>2. l \in S /\ lo[l] = lo[n] /\ hi[l] = n
  BY DEF Searched, Linked, Bounded
<1>3. q \in S /\ hi[q] = n /\ t.right[q] = Nil
  <2> HIDE DEF l
  <2> QED
    BY <1>2, RightmostIs
<1>4. Replaced(t, n) = Moved(r, n, q)
  BY DEF Replaced, Moved, Unlinked
<1> HIDE DEF l, q
<1>5. q < n /\ \A m \in S : ~(q < m /\ m < n)
  BY <1>3 DEF Searched, Bounded, Filled
<1>6. n /= q
  BY <1>1, <1>5, NilIsNone
<1>7. OnlyChild(t, q, c)
  BY <1>3 DEF OnlyChild
<1>8. IsSearchTree(v, V)
  BY <1>3, <1>7, DroppedIsSearched
<1>9. /\ IsTree(r) /\ v.root = r.root
      /\ \A x \in Values : x /= q => /\ v.left[x] = r.left[x] /\ v.right[x] = r.right[x]
                                     /\ v.up[x] = r.up[x]
  BY <1>3, <1>7, UnlinkedIs
<1> HIDE DEF r, v
<1>10. PICK L, H, K : Searched(v, V, L, H, K)
  BY <1>8 DEF IsSearchTree
<1>11. n \in V /\ q \notin V /\ q \in Values
  BY <1>1, <1>3, <1>6
<1>12. \A x \in Values : x /= q => /\ r.left[x] = v.left[x] /\ r.right[x] = v.right[x]
                                   /\ r.up[x] = v.up[x]
  BY <1>9
<1>13. \A m \in V : ~(q < m /\ m < n)
  BY <1>5
<1>14. (V \ {n}) \cup {q} = S \ {n}
  BY <1>3, <1>6
<1> HIDE DEF V
<1>15. Renamed(v, Free(Moved(r, n, q), n), V, n, q)
  BY <1>9, <1>10, <1>11, <1>12, MovedIs
<1>16. IsSearchTree(Free(Moved(r, n, q), n), (V \ {n}) \cup {q})
  BY <1>5, <1>10, <1>11, <1>13, <1>15, RenamedIsSearched
<1> QED
  BY <1>4, <1>14, <1>16

\* Whatever is removed, a search tree of the others remains.
LEMMA WithoutIsSearched ==
  ASSUME NEW t, NEW S, IsSearchTree(t, S), NEW n \in Values
  PROVE  IsSearchTree(Without(t, n), S \ {n})
<1>1. CASE n \notin S
  <2>1. Without(t, n) = t
    BY <1>1, HoldsIs DEF Without
  <2>2. S \ {n} = S
    BY <1>1
  <2> QED
    BY <2>1, <2>2
<1>2. CASE n \in S
  <2>1. Without(t, n) = RemoveNode(t, n)
    BY <1>2, HoldsIs DEF Without
  <2>2. PICK M, lo, hi : Searched(t, S, lo, hi, M)
    BY DEF IsSearchTree
  <2>3. CASE t.left[n] /= Nil /\ t.right[n] /= Nil
    <3>1. RemoveNode(t, n) = Free(Replaced(t, n), n)
      BY <2>3 DEF RemoveNode
    <3> QED
      BY <1>2, <2>1, <2>2, <2>3, <3>1, ReplacedIsSearched
  <2>4. CASE t.left[n] = Nil
    <3>1. RemoveNode(t, n) = Free(Unlinked(t, n, t.right[n]), n)
      BY <2>4 DEF RemoveNode, Unlinked
    <3>2. OnlyChild(t, n, t.right[n])
      BY <2>4 DEF OnlyChild
    <3> QED
      BY <1>2, <2>1, <2>2, <3>1, <3>2, DroppedIsSearched
  <2>5. CASE t.left[n] /= Nil /\ t.right[n] = Nil
    <3>1. RemoveNode(t, n) = Free(Unlinked(t, n, t.left[n]), n)
      BY <2>5 DEF RemoveNode, Unlinked
    <3>2. OnlyChild(t, n, t.left[n])
      BY <2>5 DEF OnlyChild
    <3> QED
      BY <1>2, <2>1, <2>2, <3>1, <3>2, DroppedIsSearched
  <2> QED
    BY <2>3, <2>4, <2>5
<1> QED
  BY <1>1, <1>2

-----------------------------------------------------------------------------
(* Listeners.                                                                *)

LEMMA AppendedTo ==
  ASSUME NEW a, NEW b
  PROVE  Append(<<>>, a) = <<a>> /\ Append(<<a>>, b) = <<a, b>>
<1>1. Append(<<>>, a) = <<a>>
  OBVIOUS
<1>2. Append(<<a>>, b) = <<a, b>>
  <2> DEFINE S == {a, b}
             p == Append(<<a>>, b)
             q == <<a, b>>
  <2>1. <<a>> \in Seq(S) /\ b \in S /\ Len(<<a>>) = 1 /\ <<a>>[1] = a
    OBVIOUS
  <2> HIDE DEF S
  <2>2. p \in Seq(S) /\ Len(p) = 2 /\ p[1] = a /\ p[2] = b
    BY <2>1
  <2>3. q = [i \in 1..2 |-> IF i = 1 THEN a ELSE b]
    OBVIOUS
  <2> HIDE DEF p, q
  <2>4. p = [i \in 1..2 |-> p[i]]
    BY <2>2
  <2>5. \A i \in 1..2 : p[i] = IF i = 1 THEN a ELSE b
    BY <2>2
  <2>6. p = q
    BY <2>3, <2>4, <2>5
  <2> QED
    BY <2>6, Zenon DEF p, q
<1> QED
  BY <1>1, <1>2

LEMMA SecondRemoved ==
  ASSUME NEW a, NEW b
  PROVE  RemoveAt(<<a, b>>, 2) = <<a>>
<1> DEFINE S == {a, b}
           s == <<a, b>>
           m == RemoveAt(s, 2)
<1>1. s \in Seq(S) /\ Len(s) = 2 /\ s[1] = a
  OBVIOUS
<1> HIDE DEF S, s
<1>2. m \in Seq(S) /\ Len(m) = 1 /\ m[1] = s[1]
  <2>1. 2 \in 1..Len(s)
    BY <1>1
  <2>2. /\ m \in Seq(S) /\ Len(m) = Len(s) - 1
        /\ \A j \in 1..(Len(s) - 1) : m[j] = IF j < 2 THEN s[j] ELSE s[j + 1]
    BY <1>1, <2>1, RemovedAt
  <2> QED
    BY <1>1, <2>2
<1> HIDE DEF m
<1>3. m = <<m[1]>>
  BY <1>2
<1> QED
  BY <1>1, <1>2, <1>3 DEF m, s

LEMMA OnlyRemoved ==
  ASSUME NEW a
  PROVE  RemoveAt(<<a>>, 1) = <<>>
<1> DEFINE S == {a}
           s == <<a>>
           m == RemoveAt(s, 1)
<1>1. s \in Seq(S) /\ Len(s) = 1
  OBVIOUS
<1> HIDE DEF S, s
<1>2. m \in Seq(S) /\ Len(m) = 0
  <2>1. 1 \in 1..Len(s)
    BY <1>1
  <2>2. m \in Seq(S) /\ Len(m) = Len(s) - 1
    BY <1>1, <2>1, RemovedAt
  <2> QED
    BY <1>1, <2>2
<1> HIDE DEF m
<1>3. m = <<>>
  BY <1>2
<1> QED
  BY <1>3 DEF m, s

LEMMA MinOfOne ==
  ASSUME NEW i \in Nat
  PROVE  Min({i}) = i
BY DEF Min

\* The first b is removed, where there is one.
LEMMA FirstRemoved ==
  ASSUME NEW a, NEW b, a /= b
  PROVE  /\ RemoveFirst(<<>>, b) = <<>> /\ RemoveFirst(<<a>>, b) = <<a>>
         /\ RemoveFirst(<<b>>, b) = <<>> /\ RemoveFirst(<<a, b>>, b) = <<a>>
<1>1. RemoveFirst(<<>>, b) = <<>>
  BY DEF RemoveFirst
<1>2. RemoveFirst(<<a>>, b) = <<a>>
  <2>1. ~\E i \in 1..Len(<<a>>) : <<a>>[i] = b
    OBVIOUS
  <2> QED
    BY <2>1 DEF RemoveFirst
<1>3. RemoveFirst(<<b>>, b) = <<>>
  <2>1. {i \in 1..Len(<<b>>) : <<b>>[i] = b} = {1}
    OBVIOUS
  <2>2. SelectInSeq(<<b>>, LAMBDA v : v = b) = 1
    BY <2>1, MinOfOne DEF SelectInSeq
  <2>3. \E i \in 1..Len(<<b>>) : <<b>>[i] = b
    OBVIOUS
  <2>4. RemoveFirst(<<b>>, b) = RemoveAt(<<b>>, 1)
    BY <2>2, <2>3 DEF RemoveFirst
  <2> QED
    BY <2>4, OnlyRemoved
<1>4. RemoveFirst(<<a, b>>, b) = <<a>>
  <2>1. {i \in 1..Len(<<a, b>>) : <<a, b>>[i] = b} = {2}
    OBVIOUS
  <2>2. SelectInSeq(<<a, b>>, LAMBDA v : v = b) = 2
    BY <2>1, MinOfOne DEF SelectInSeq
  <2>3. \E i \in 1..Len(<<a, b>>) : <<a, b>>[i] = b
    OBVIOUS
  <2>4. RemoveFirst(<<a, b>>, b) = RemoveAt(<<a, b>>, 2)
    BY <2>2, <2>3 DEF RemoveFirst
  <2> QED
    BY <2>4, SecondRemoved
<1> QED
  BY <1>1, <1>2, <1>3, <1>4

\* One listener, and two.
Sole(a, P) == <<[who |-> a, pattern |-> P]>>
Pair(a, P, b, Q) == <<[who |-> a, pattern |-> P], [who |-> b, pattern |-> Q]>>

LEMMA SoleMatches ==
  ASSUME NEW d, NEW a, NEW P, d.listeners = Sole(a, P), NEW k
  PROVE  Matching(d, k) = IF k \in P THEN <<a>> ELSE <<>>
<1> DEFINE ls == d.listeners
           places == {i \in DOMAIN ls : k \in ls[i].pattern}
<1>1. Matching(d, k) = [i \in DOMAIN Chosen(ls, places) |-> Chosen(ls, places)[i].who]
  BY DEF Matching
<1>2. DOMAIN ls = {1} /\ ls[1] = [who |-> a, pattern |-> P]
  BY DEF Sole
<1>3. ls[1].who = a /\ ls[1].pattern = P
  BY <1>2
<1> HIDE DEF ls
<1>4. CASE k \in P
  <2>1. places = {1}
    BY <1>2, <1>3, <1>4
  <2>2. Chosen(ls, places) = <<ls[1]>>
    BY <2>1, ChosenOne
  <2> QED
    BY <1>1, <1>3, <1>4, <2>2
<1>5. CASE k \notin P
  <2>1. places = {}
    BY <1>2, <1>3, <1>5
  <2>2. Chosen(ls, places) = <<>>
    BY <2>1, ChosenNone
  <2> QED
    BY <1>1, <1>5, <2>2
<1> QED
  BY <1>4, <1>5

LEMMA PairMatches ==
  ASSUME NEW d, NEW a, NEW P, NEW b, NEW Q, d.listeners = Pair(a, P, b, Q), NEW k
  PROVE  Matching(d, k) = IF k \in P THEN IF k \in Q THEN <<a, b>> ELSE <<a>>
                          ELSE IF k \in Q THEN <<b>> ELSE <<>>
<1> DEFINE ls == d.listeners
           places == {i \in DOMAIN ls : k \in ls[i].pattern}
<1>1. Matching(d, k) = [i \in DOMAIN Chosen(ls, places) |-> Chosen(ls, places)[i].who]
  BY DEF Matching
<1>2. /\ DOMAIN ls = 1..2 /\ ls[1] = [who |-> a, pattern |-> P]
      /\ ls[2] = [who |-> b, pattern |-> Q]
  BY DEF Pair
<1>3. ls[1].who = a /\ ls[1].pattern = P /\ ls[2].who = b /\ ls[2].pattern = Q
  BY <1>2
<1>4. DOMAIN ls = {1, 2}
  BY <1>2
<1> HIDE DEF ls
<1>5. CASE k \in P /\ k \in Q
  <2>1. places = {1, 2}
    BY <1>3, <1>4, <1>5
  <2>2. Chosen(ls, places) = <<ls[1], ls[2]>>
    BY <2>1, ChosenBoth
  <2> QED
    BY <1>1, <1>3, <1>5, <2>2
<1>6. CASE k \in P /\ k \notin Q
  <2>1. places = {1}
    BY <1>3, <1>4, <1>6
  <2>2. Chosen(ls, places) = <<ls[1]>>
    BY <2>1, ChosenOne
  <2> QED
    BY <1>1, <1>3, <1>6, <2>2
<1>7. CASE k \notin P /\ k \in Q
  <2>1. places = {2}
    BY <1>3, <1>4, <1>7
  <2>2. Chosen(ls, places) = <<ls[2]>>
    BY <2>1, ChosenOne
  <2> QED
    BY <1>1, <1>3, <1>7, <2>2
<1>8. CASE k \notin P /\ k \notin Q
  <2>1. places = {}
    BY <1>3, <1>4, <1>8
  <2>2. Chosen(ls, places) = <<>>
    BY <2>1, ChosenNone
  <2> QED
    BY <1>1, <1>8, <2>2
<1> QED
  BY <1>5, <1>6, <1>7, <1>8


-----------------------------------------------------------------------------
(* Dictionaries.                                                             *)

\* The keys that have a value.
KeptBy(d) == {k \in Values : d.vals[k] /= NoValue}

IsPdict(d) ==
  /\ d = [ents |-> d.ents, vals |-> d.vals, hears |-> d.hears, listeners |-> d.listeners]
  /\ d.vals = [k \in Values |-> d.vals[k]] /\ d.hears = [k \in Values |-> d.hears[k]]

\* A dictionary of which the tree is a search tree of what has a value.
Upright(d) ==
  /\ IsPdict(d) /\ IsSearchTree(d.ents, KeptBy(d))
  /\ \A k \in Values : d.hears[k] = IF k \in KeptBy(d) THEN Matching(d, k) ELSE <<>>

LEMMA UprightHas ==
  ASSUME NEW d, Upright(d), NEW k \in Values
  PROVE  Has(d, k) <=> k \in KeptBy(d)
<1>1. IsSearchTree(d.ents, KeptBy(d))
  BY DEF Upright
<1> QED
  BY <1>1, HoldsIs DEF Has

LEMMA UprightIsSound ==
  ASSUME NEW d, Upright(d)
  PROVE  Sound(d) /\ IsTree(d.ents)
<1>1. IsTree(d.ents) /\ Verified(d.ents, KeptBy(d))
  BY SearchTreeIsVerified DEF Upright
<1>2. \A k \in Values : Has(d, k) <=> k \in KeptBy(d)
  BY UprightHas
<1>3. \A k \in Values : d.hears[k] = IF k \in KeptBy(d) THEN Matching(d, k) ELSE <<>>
  BY DEF Upright
<1>4. KeptBy(d) = {k \in Values : d.vals[k] /= NoValue}
  BY DEF KeptBy
<1> QED
  BY <1>1, <1>2, <1>3, <1>4, Zenon DEF Sound

\* Who matches a key depends on the listeners alone.
LEMMA SameMatching ==
  ASSUME NEW d, NEW e, d.listeners = e.listeners, NEW k
  PROVE  Matching(d, k) = Matching(e, k)
BY DEF Matching

\* A function of the values with another value for one.
LEMMA ValueIsSet ==
  ASSUME NEW f, f = [n \in Values |-> f[n]], NEW k \in Values, NEW v,
         NEW g, g = [f EXCEPT ![k] = v]
  PROVE  /\ g = [n \in Values |-> g[n]]
         /\ \A n \in Values : g[n] = IF n = k THEN v ELSE f[n]
<1>1. g = [n \in Values |-> IF n = k THEN v ELSE f[n]]
  <2>1. DOMAIN f = Values
    OBVIOUS
  <2> QED
    BY <2>1
<1> QED
  BY <1>1

LEMMA AddedIsUpright ==
  ASSUME NEW d, Upright(d), NEW k \in Values, NEW v, v /= NoValue,
         NEW e, e = PdictAdd(d, k, v)
  PROVE  /\ Upright(e) /\ e.listeners = d.listeners /\ e.vals = [d.vals EXCEPT ![k] = v]
         /\ KeptBy(e) = KeptBy(d) \cup {k}
<1>1. IsPdict(d)
  BY DEF Upright
<1>2. \A n \in Values : d.hears[n] = IF n \in KeptBy(d) THEN Matching(d, n) ELSE <<>>
  BY DEF Upright
<1>3. IsSearchTree(d.ents, KeptBy(d))
  BY DEF Upright
<1>4. CASE Has(d, k)
  <2>1. e = [ents |-> d.ents, vals |-> [d.vals EXCEPT ![k] = v], hears |-> d.hears,
             listeners |-> d.listeners]
    BY <1>1, <1>4 DEF PdictAdd, IsPdict
  <2>2. /\ e.ents = d.ents /\ e.vals = [d.vals EXCEPT ![k] = v] /\ e.hears = d.hears
        /\ e.listeners = d.listeners
    BY <2>1
  <2>7. /\ e.vals = [n \in Values |-> e.vals[n]]
        /\ \A n \in Values : e.vals[n] = IF n = k THEN v ELSE d.vals[n]
    BY <1>1, <2>2, ValueIsSet DEF IsPdict
  <2>9. e = [ents |-> e.ents, vals |-> e.vals, hears |-> e.hears, listeners |-> e.listeners]
    <3> DEFINE tr == d.ents
               vs == [d.vals EXCEPT ![k] = v]
               hs == d.hears
               ls == d.listeners
    <3>1. e = [ents |-> tr, vals |-> vs, hears |-> hs, listeners |-> ls]
      BY <2>1
    <3> HIDE DEF tr, vs, hs, ls
    <3> QED
      BY <3>1
  <2>10. d.hears = [n \in Values |-> d.hears[n]]
    BY <1>1 DEF IsPdict
  <2>11. e.hears = [n \in Values |-> e.hears[n]]
    BY <2>2, <2>10
  <2>3. IsPdict(e)
    BY <2>7, <2>9, <2>11, Zenon DEF IsPdict
  <2>8. k \in KeptBy(d)
    BY <1>4, UprightHas
  <2>4. KeptBy(e) = KeptBy(d) \cup {k} /\ k \in KeptBy(d)
    BY <2>7, <2>8 DEF KeptBy
  <2>5. KeptBy(e) = KeptBy(d)
    BY <2>4
  <2>6. \A n \in Values : e.hears[n] = IF n \in KeptBy(e) THEN Matching(e, n) ELSE <<>>
    <3>1. ASSUME NEW n \in Values
          PROVE  Matching(e, n) = Matching(d, n)
      BY <2>2, SameMatching
    <3> QED
      BY <1>2, <2>2, <2>5, <3>1, Zenon
  <2> QED
    BY <1>3, <2>2, <2>3, <2>4, <2>5, <2>6 DEF Upright
<1>5. CASE ~Has(d, k)
  <2>1. e = [ents |-> With(d.ents, k), vals |-> [d.vals EXCEPT ![k] = v],
             hears |-> [d.hears EXCEPT ![k] = Matching(d, k)], listeners |-> d.listeners]
    BY <1>1, <1>5 DEF PdictAdd, IsPdict
  <2>2. /\ e.ents = With(d.ents, k) /\ e.vals = [d.vals EXCEPT ![k] = v]
        /\ e.hears = [d.hears EXCEPT ![k] = Matching(d, k)]
        /\ e.listeners = d.listeners
    BY <2>1
  <2>7. /\ e.vals = [n \in Values |-> e.vals[n]]
        /\ \A n \in Values : e.vals[n] = IF n = k THEN v ELSE d.vals[n]
    BY <1>1, <2>2, ValueIsSet DEF IsPdict
  <2>8. /\ e.hears = [n \in Values |-> e.hears[n]]
        /\ \A n \in Values : e.hears[n] = IF n = k THEN Matching(d, k) ELSE d.hears[n]
    BY <1>1, <2>2, ValueIsSet DEF IsPdict
  <2>9. e = [ents |-> e.ents, vals |-> e.vals, hears |-> e.hears, listeners |-> e.listeners]
    <3> DEFINE tr == With(d.ents, k)
               vs == [d.vals EXCEPT ![k] = v]
               hs == [d.hears EXCEPT ![k] = Matching(d, k)]
               ls == d.listeners
    <3>1. e = [ents |-> tr, vals |-> vs, hears |-> hs, listeners |-> ls]
      BY <2>1
    <3> HIDE DEF tr, vs, hs, ls
    <3> QED
      BY <3>1
  <2>3. IsPdict(e)
    BY <2>7, <2>8, <2>9, Zenon DEF IsPdict
  <2>4. KeptBy(e) = KeptBy(d) \cup {k}
    BY <2>7 DEF KeptBy
  <2>5. IsSearchTree(e.ents, KeptBy(e))
    <3>1. k \notin KeptBy(d)
      BY <1>5, UprightHas
    <3> QED
      BY <1>3, <2>2, <2>4, <3>1, WithIsSearched
  <2>6. \A n \in Values : e.hears[n] = IF n \in KeptBy(e) THEN Matching(e, n) ELSE <<>>
    <3>1. ASSUME NEW n \in Values
          PROVE  Matching(e, n) = Matching(d, n)
      BY <2>2, SameMatching
    <3> QED
      BY <1>2, <2>4, <2>8, <3>1
  <2> QED
    BY <2>2, <2>3, <2>4, <2>5, <2>6 DEF Upright
<1> QED
  BY <1>4, <1>5

LEMMA RemovedIsUpright ==
  ASSUME NEW d, Upright(d), NEW k \in Values, NEW e, e = PdictRemove(d, k)
  PROVE  /\ Upright(e) /\ e.listeners = d.listeners
         /\ e.vals = [d.vals EXCEPT ![k] = NoValue]
         /\ KeptBy(e) = KeptBy(d) \ {k}
<1>1. IsPdict(d)
  BY DEF Upright
<1>2. \A n \in Values : d.hears[n] = IF n \in KeptBy(d) THEN Matching(d, n) ELSE <<>>
  BY DEF Upright
<1>3. IsSearchTree(d.ents, KeptBy(d))
  BY DEF Upright
<1>4. e = [ents |-> Without(d.ents, k), vals |-> [d.vals EXCEPT ![k] = NoValue],
           hears |-> [d.hears EXCEPT ![k] = <<>>], listeners |-> d.listeners]
  BY <1>1 DEF PdictRemove, IsPdict
<1>5. /\ e.ents = Without(d.ents, k) /\ e.vals = [d.vals EXCEPT ![k] = NoValue]
      /\ e.hears = [d.hears EXCEPT ![k] = <<>>] /\ e.listeners = d.listeners
  BY <1>4
<1>10. /\ e.vals = [n \in Values |-> e.vals[n]]
       /\ \A n \in Values : e.vals[n] = IF n = k THEN NoValue ELSE d.vals[n]
  BY <1>1, <1>5, ValueIsSet DEF IsPdict
<1>11. /\ e.hears = [n \in Values |-> e.hears[n]]
       /\ \A n \in Values : e.hears[n] = IF n = k THEN <<>> ELSE d.hears[n]
  BY <1>1, <1>5, ValueIsSet DEF IsPdict
<1>6. IsPdict(e)
  BY <1>4, <1>5, <1>10, <1>11, Zenon DEF IsPdict
<1>7. KeptBy(e) = KeptBy(d) \ {k}
  BY <1>10 DEF KeptBy
<1>8. IsSearchTree(e.ents, KeptBy(e))
  BY <1>3, <1>5, <1>7, WithoutIsSearched
<1>9. \A n \in Values : e.hears[n] = IF n \in KeptBy(e) THEN Matching(e, n) ELSE <<>>
  <2>1. ASSUME NEW n \in Values
        PROVE  Matching(e, n) = Matching(d, n)
    BY <1>5, SameMatching
  <2> QED
    BY <1>2, <1>7, <1>11, <2>1
<1> QED
  BY <1>5, <1>6, <1>7, <1>8, <1>9 DEF Upright

LEMMA FirstListener ==
  ASSUME NEW a, NEW P, NEW e, e = PdictListen(EmptyPdict, a, P)
  PROVE  /\ Upright(e) /\ e.listeners = Sole(a, P) /\ e.vals = [k \in Values |-> NoValue]
         /\ KeptBy(e) = {}
<1> DEFINE none == [k \in Values |-> <<>>]
           d == EmptyPdict
<1>1. d = [ents |-> EmptyTree, vals |-> [k \in Values |-> NoValue], hears |-> none,
           listeners |-> <<>>]
  BY DEF EmptyPdict
<1>2. /\ d.ents = EmptyTree /\ d.vals = [k \in Values |-> NoValue] /\ d.hears = none
      /\ d.listeners = <<>>
  BY <1>1
<1>3. \A k \in Values : ~Has(d, k)
  <2>1. \A k \in Values : ~Holds(EmptyTree, k)
    BY HoldsIs, EmptyIsSearchTree
  <2> HIDE DEF d
  <2> QED
    BY <1>2, <2>1 DEF Has
<1>4. e = [ents |-> d.ents, vals |-> d.vals,
           hears |-> [k \in Values |-> IF Has(d, k) /\ k \in P THEN Append(d.hears[k], a)
                                       ELSE d.hears[k]],
           listeners |-> Append(d.listeners, [who |-> a, pattern |-> P])]
  BY <1>1 DEF PdictListen
<1> HIDE DEF d
<1>5. /\ e.ents = EmptyTree /\ e.vals = [k \in Values |-> NoValue]
      /\ e.hears = [k \in Values |-> IF Has(d, k) /\ k \in P THEN Append(d.hears[k], a)
                                     ELSE d.hears[k]]
      /\ e.listeners = Append(<<>>, [who |-> a, pattern |-> P])
  BY <1>2, <1>4
<1>6. e.listeners = Sole(a, P)
  BY <1>5, AppendedTo DEF Sole
<1>7. KeptBy(e) = {}
  BY <1>5 DEF KeptBy
<1>8. IsPdict(e)
  BY <1>4, <1>5 DEF IsPdict
<1>9. \A k \in Values : e.hears[k] = <<>>
  BY <1>2, <1>3, <1>5
<1> QED
  BY <1>5, <1>6, <1>7, <1>8, <1>9, EmptyIsSearchTree DEF Upright

LEMMA ListenedIsUpright ==
  ASSUME NEW d, Upright(d), NEW a, NEW P, d.listeners = Sole(a, P), NEW b, NEW Q,
         NEW e, e = PdictListen(d, b, Q)
  PROVE  Upright(e) /\ e.listeners = Pair(a, P, b, Q) /\ e.vals = d.vals
<1>1. IsPdict(d)
  BY DEF Upright
<1>2. ASSUME NEW k \in Values
      PROVE  d.hears[k] = IF k \in KeptBy(d) /\ k \in P THEN <<a>> ELSE <<>>
  <2>1. d.hears[k] = IF k \in KeptBy(d) THEN Matching(d, k) ELSE <<>>
    BY DEF Upright
  <2>2. Matching(d, k) = IF k \in P THEN <<a>> ELSE <<>>
    BY SoleMatches
  <2> QED
    BY <2>1, <2>2
<1>3. IsSearchTree(d.ents, KeptBy(d))
  BY DEF Upright
<1> DEFINE hs == [k \in Values |-> IF Has(d, k) /\ k \in Q THEN Append(d.hears[k], b)
                                   ELSE d.hears[k]]
<1>4. e = [ents |-> d.ents, vals |-> d.vals, hears |-> hs,
           listeners |-> Append(d.listeners, [who |-> b, pattern |-> Q])]
  BY <1>1 DEF PdictListen, IsPdict
<1>5. /\ e.ents = d.ents /\ e.vals = d.vals /\ e.hears = hs
      /\ e.listeners = Append(d.listeners, [who |-> b, pattern |-> Q])
  BY <1>4
<1>6. e.listeners = Pair(a, P, b, Q)
  BY <1>5, AppendedTo DEF Sole, Pair
<1>7. KeptBy(e) = KeptBy(d)
  BY <1>5 DEF KeptBy
<1>8. IsPdict(e)
  BY <1>1, <1>4, <1>5 DEF IsPdict
<1>9. ASSUME NEW k \in Values
      PROVE  e.hears[k] = IF k \in KeptBy(e) THEN Matching(e, k) ELSE <<>>
  <2>1. e.hears[k] = IF k \in KeptBy(d) /\ k \in Q THEN Append(d.hears[k], b) ELSE d.hears[k]
    BY <1>5, UprightHas
  <2>2. Matching(e, k) = (IF k \in P THEN IF k \in Q THEN <<a, b>> ELSE <<a>>
                          ELSE IF k \in Q THEN <<b>> ELSE <<>>)
    BY <1>6, PairMatches
  <2>3. Append(<<>>, b) = <<b>> /\ Append(<<a>>, b) = <<a, b>>
    BY AppendedTo
  <2> HIDE DEF hs
  <2>4. CASE k \in KeptBy(d) /\ k \in P /\ k \in Q
    BY <1>2, <1>7, <2>1, <2>2, <2>3, <2>4
  <2>5. CASE k \in KeptBy(d) /\ k \in P /\ k \notin Q
    BY <1>2, <1>7, <2>1, <2>2, <2>3, <2>5
  <2>6. CASE k \in KeptBy(d) /\ k \notin P /\ k \in Q
    BY <1>2, <1>7, <2>1, <2>2, <2>3, <2>6
  <2>7. CASE k \in KeptBy(d) /\ k \notin P /\ k \notin Q
    BY <1>2, <1>7, <2>1, <2>2, <2>3, <2>7
  <2>8. CASE k \notin KeptBy(d)
    BY <1>2, <1>7, <2>1, <2>8
  <2> QED
    BY <2>4, <2>5, <2>6, <2>7, <2>8
<1> QED
  BY <1>3, <1>5, <1>6, <1>7, <1>8, <1>9 DEF Upright

LEMMA IgnoredIsUpright ==
  ASSUME NEW d, Upright(d), NEW a, NEW P, NEW b, NEW Q, a /= b,
         d.listeners = Pair(a, P, b, Q), NEW e, e = PdictIgnore(d, b)
  PROVE  Upright(e) /\ e.listeners = Sole(a, P) /\ e.vals = d.vals
<1>1. IsPdict(d)
  BY DEF Upright
<1>2. ASSUME NEW k \in Values
      PROVE  d.hears[k] = IF k \notin KeptBy(d) THEN <<>>
                          ELSE IF k \in P THEN IF k \in Q THEN <<a, b>> ELSE <<a>>
                          ELSE IF k \in Q THEN <<b>> ELSE <<>>
  <2>1. d.hears[k] = IF k \in KeptBy(d) THEN Matching(d, k) ELSE <<>>
    BY DEF Upright
  <2>2. Matching(d, k) = (IF k \in P THEN IF k \in Q THEN <<a, b>> ELSE <<a>>
                          ELSE IF k \in Q THEN <<b>> ELSE <<>>)
    BY PairMatches
  <2> QED
    BY <2>1, <2>2
<1>3. IsSearchTree(d.ents, KeptBy(d))
  BY DEF Upright
<1> DEFINE hs == [k \in Values |-> RemoveFirst(d.hears[k], b)]
           ls == RemoveFirstMatch(d.listeners, LAMBDA l : l.who = b)
<1>4. e = [ents |-> d.ents, vals |-> d.vals, hears |-> hs, listeners |-> ls]
  BY <1>1 DEF PdictIgnore, IsPdict
<1>5. e.ents = d.ents /\ e.vals = d.vals /\ e.hears = hs /\ e.listeners = ls
  BY <1>4
<1>6. ls = Sole(a, P)
  <2> DEFINE x == [who |-> a, pattern |-> P]
             y == [who |-> b, pattern |-> Q]
             p == <<x, y>>
  <2>1. x.who = a /\ y.who = b
    OBVIOUS
  <2>2. d.listeners = p
    BY DEF Pair
  <2> HIDE DEF x, y
  <2>3. Len(p) = 2 /\ p[1] = x /\ p[2] = y
    OBVIOUS
  <2> HIDE DEF p
  <2>4. {i \in 1..Len(p) : p[i].who = b} = {2}
    BY <2>1, <2>3
  <2>5. SelectInSeq(p, LAMBDA l : l.who = b) = 2
    BY <2>4, MinOfOne DEF SelectInSeq
  <2>6. RemoveFirstMatch(p, LAMBDA l : l.who = b) = RemoveAt(p, 2)
    BY <2>1, <2>3, <2>5 DEF RemoveFirstMatch
  <2>7. RemoveAt(p, 2) = <<x>>
    BY SecondRemoved DEF p
  <2> QED
    BY <2>2, <2>6, <2>7 DEF Sole, x
<1> HIDE DEF ls
<1>7. KeptBy(e) = KeptBy(d)
  BY <1>5 DEF KeptBy
<1>8. IsPdict(e)
  BY <1>1, <1>4, <1>5 DEF IsPdict
<1>9. ASSUME NEW k \in Values
      PROVE  e.hears[k] = IF k \in KeptBy(e) THEN Matching(e, k) ELSE <<>>
  <2>1. e.hears[k] = RemoveFirst(d.hears[k], b)
    BY <1>5
  <2>2. Matching(e, k) = IF k \in P THEN <<a>> ELSE <<>>
    BY <1>5, <1>6, SoleMatches
  <2>3. /\ RemoveFirst(<<>>, b) = <<>> /\ RemoveFirst(<<a>>, b) = <<a>>
        /\ RemoveFirst(<<b>>, b) = <<>> /\ RemoveFirst(<<a, b>>, b) = <<a>>
    BY FirstRemoved
  <2> HIDE DEF hs
  <2>4. CASE k \in KeptBy(d) /\ k \in P /\ k \in Q
    BY <1>2, <1>7, <2>1, <2>2, <2>3, <2>4
  <2>5. CASE k \in KeptBy(d) /\ k \in P /\ k \notin Q
    BY <1>2, <1>7, <2>1, <2>2, <2>3, <2>5
  <2>6. CASE k \in KeptBy(d) /\ k \notin P /\ k \in Q
    BY <1>2, <1>7, <2>1, <2>2, <2>3, <2>6
  <2>7. CASE k \in KeptBy(d) /\ k \notin P /\ k \notin Q
    BY <1>2, <1>7, <2>1, <2>2, <2>3, <2>7
  <2>8. CASE k \notin KeptBy(d)
    BY <1>2, <1>7, <2>1, <2>3, <2>8
  <2> QED
    BY <2>4, <2>5, <2>6, <2>7, <2>8
<1> QED
  BY <1>3, <1>5, <1>6, <1>7, <1>8, <1>9 DEF Upright
=============================================================================
