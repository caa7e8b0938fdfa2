---------------------------- MODULE TimelineProofs ----------------------------
(***************************************************************************)
(* Proofs about Timeline: which log a scan finds, and what the model is    *)
(* told of where the aircraft was.                                         *)
(***************************************************************************)
EXTENDS Timeline, FiniteSetTheorems, SequenceTheorems, WellFoundedInduction, TLAPS

-----------------------------------------------------------------------------
(* Folds.  FoldLeft chooses a function that satisfies the equation of its   *)
(* recursion; that there is one is proved from below.                       *)

\* What holds of 0 and of the next number if of one holds of all.
LEMMA Climb ==
  ASSUME NEW n \in Nat, NEW S, 0 \in S, \A j \in 0 .. (n - 1) : j \in S => j + 1 \in S
  PROVE  0 .. n \subseteq S
<1> DEFINE missed == (0 .. n) \ S
<1> SUFFICES ASSUME missed # {} PROVE FALSE
  OBVIOUS
<1>1. missed \subseteq Nat
  OBVIOUS
<1>2. PICK k \in missed : \A y \in missed : ~(<<y, k>> \in OpToRel(<, Nat))
  BY <1>1, WFMin, NatLessThanWellFounded
<1>3. k \in 0 .. n /\ k \notin S /\ k # 0
  OBVIOUS
<1>4. k - 1 \in missed
  BY <1>3
<1>5. ~(k - 1 < k)
  BY <1>1, <1>2, <1>4 DEF OpToRel
<1> QED  BY <1>3, <1>5

LEMMA GreatestUpTo ==
  ASSUME NEW k \in Nat
  PROVE  Max(1 .. (k + 1)) = k + 1 /\ (1 .. (k + 1)) \ {k + 1} = 1 .. k
<1>1. k + 1 \in 1 .. (k + 1) /\ \A y \in 1 .. (k + 1) : k + 1 >= y
  OBVIOUS
<1>2. \A x \in 1 .. (k + 1) : (\A y \in 1 .. (k + 1) : x >= y) => x = k + 1
  OBVIOUS
<1>3. Max(1 .. (k + 1)) = k + 1
  BY <1>1, <1>2 DEF Max
<1> QED  BY <1>3

LEMMA GreatestWith ==
  ASSUME NEW k \in Nat, NEW s \in SUBSET (1 .. (k + 1)), k + 1 \in s
  PROVE  Max(s) = k + 1 /\ s \ {Max(s)} \in SUBSET (1 .. k)
<1>1. \A y \in s : k + 1 >= y
  OBVIOUS
<1>2. \A x \in s : (\A y \in s : x >= y) => x = k + 1
  OBVIOUS
<1>3. Max(s) = k + 1
  BY <1>1, <1>2 DEF Max
<1> QED  BY <1>3

LEMMA MaxIn ==
  ASSUME NEW n \in Nat, NEW s \in SUBSET (1 .. n), s # {}
  PROVE  Max(s) \in s
<1> DEFINE T == {n - k : k \in s}
<1>0. \A k \in s : n - k \in Nat /\ k \in Nat
  OBVIOUS
<1>1. T \subseteq Nat /\ T # {}
  <2>1. T \subseteq Nat
    BY <1>0
  <2>2. T # {}
    OBVIOUS
  <2> QED  BY <2>1, <2>2
<1>2. PICK x \in T : \A y \in T : ~(<<y, x>> \in OpToRel(<, Nat))
  <2> HIDE DEF T
  <2> QED  BY <1>1, WFMin, NatLessThanWellFounded
<1>3. PICK k \in s : x = n - k
  OBVIOUS
<1>4. ASSUME NEW j \in s PROVE k >= j
  <2>1. n - j \in T /\ n - j \in Nat /\ x \in Nat
    OBVIOUS
  <2>2. ~(n - j < x)
    BY <1>1, <1>2, <2>1 DEF OpToRel
  <2> QED  BY <1>3, <2>1, <2>2
<1> QED  BY <1>4 DEF Max

Folded(f, G, base, n) ==
  \A s \in SUBSET (1 .. n) : f[s] = IF s = {} THEN base ELSE G[Max(s)][f[s \ {Max(s)}]]

LEMMA FoldExists ==
  ASSUME NEW D, NEW base \in D, NEW n \in Nat, NEW G \in [1 .. n -> [D -> D]]
  PROVE  \E f \in [SUBSET (1 .. n) -> D] : Folded(f, G, base, n)
<1> DEFINE Exists(k) == \E f \in [SUBSET (1 .. k) -> D] : Folded(f, G, base, k)
           reached == {k \in 0 .. n : Exists(k)}
<1>1. Exists(0)
  <2>1. \A s \in SUBSET (1 .. 0) : s = {}
    OBVIOUS
  <2>2. [s \in SUBSET (1 .. 0) |-> base] \in [SUBSET (1 .. 0) -> D]
    OBVIOUS
  <2>3. Folded([s \in SUBSET (1 .. 0) |-> base], G, base, 0)
    BY <2>1 DEF Folded
  <2> QED  BY <2>2, <2>3
<1>2. ASSUME NEW j \in 0 .. (n - 1), Exists(j) PROVE Exists(j + 1)
  <2>1. PICK f \in [SUBSET (1 .. j) -> D] : Folded(f, G, base, j)
    BY <1>2
  <2>2. j \in Nat /\ j + 1 \in 1 .. n
    OBVIOUS
  <2> DEFINE k == j + 1
             g == [s \in SUBSET (1 .. k) |-> IF k \in s THEN G[k][f[s \ {k}]] ELSE f[s]]
  <2>4. ASSUME NEW s \in SUBSET (1 .. k), k \in s
        PROVE  Max(s) = k /\ s \ {k} \in SUBSET (1 .. j)
    BY <2>2, <2>4, GreatestWith
  <2>5. ASSUME NEW s \in SUBSET (1 .. k), k \notin s PROVE s \in SUBSET (1 .. j)
    BY <2>2, <2>5
  <2>6. k \in 1 .. n
    BY <2>2
  <2> HIDE DEF k
  <2>7. g \in [SUBSET (1 .. k) -> D]
    BY <2>4, <2>5, <2>6
  <2>8. ASSUME NEW s \in SUBSET (1 .. k)
        PROVE  g[s] = IF s = {} THEN base ELSE G[Max(s)][g[s \ {Max(s)}]]
    <3>1. CASE k \in s
      <4>1. s \ {k} \in SUBSET (1 .. k) /\ k \notin s \ {k}
        OBVIOUS
      <4>2. g[s \ {k}] = f[s \ {k}]
        BY <4>1
      <4> QED  BY <2>4, <3>1, <4>2
    <3>2. CASE k \notin s
      <4>1. s \in SUBSET (1 .. j) /\ g[s] = f[s]
        BY <2>5, <3>2
      <4>2. CASE s = {}
        BY <2>1, <4>1, <4>2 DEF Folded
      <4>3. CASE s # {}
        <5>1. f[s] = G[Max(s)][f[s \ {Max(s)}]]
          BY <2>1, <4>1, <4>3 DEF Folded
        <5>2. s \ {Max(s)} \in SUBSET (1 .. k) /\ k \notin s \ {Max(s)}
          BY <3>2
        <5>3. g[s \ {Max(s)}] = f[s \ {Max(s)}]
          BY <5>2
        <5> QED  BY <4>1, <4>3, <5>1, <5>3
      <4> QED  BY <4>2, <4>3
    <3> QED  BY <3>1, <3>2
  <2>9. Folded(g, G, base, k)
    BY <2>8 DEF Folded
  <2> HIDE DEF g
  <2> QED  BY <2>7, <2>9 DEF k
<1> HIDE DEF Exists
<1>3. 0 \in reached /\ \A j \in 0 .. (n - 1) : j \in reached => j + 1 \in reached
  <2>1. \A j \in 0 .. (n - 1) : j + 1 \in 0 .. n
    OBVIOUS
  <2> QED  BY <1>1, <1>2, <2>1
<1>4. 0 .. n \subseteq reached
  <2> HIDE DEF reached
  <2> QED  BY <1>3, Climb
<1>5. Exists(n)
  BY <1>4
<1> QED  BY <1>5 DEF Exists

\* From one prefix to the next.
LEMMA FoldedPrefixes ==
  ASSUME NEW n \in Nat, NEW f
  PROVE  /\ {} \in SUBSET (1 .. n) /\ 1 .. 0 = {}
         /\ \A k \in 0 .. (n - 1) :
              /\ 1 .. (k + 1) \in SUBSET (1 .. n) /\ 1 .. (k + 1) # {}
              /\ Max(1 .. (k + 1)) = k + 1
              /\ (1 .. (k + 1)) \ {Max(1 .. (k + 1))} = 1 .. k
<1>1. {} \in SUBSET (1 .. n) /\ 1 .. 0 = {}
  OBVIOUS
<1>2. ASSUME NEW k \in 0 .. (n - 1)
      PROVE  /\ 1 .. (k + 1) \in SUBSET (1 .. n) /\ 1 .. (k + 1) # {}
             /\ Max(1 .. (k + 1)) = k + 1
             /\ (1 .. (k + 1)) \ {Max(1 .. (k + 1))} = 1 .. k
  <2>1. k \in Nat /\ k + 1 =< n /\ k + 1 \in 1 .. (k + 1)
    OBVIOUS
  <2>2. Max(1 .. (k + 1)) = k + 1 /\ (1 .. (k + 1)) \ {k + 1} = 1 .. k
    BY <2>1, GreatestUpTo
  <2>3. 1 .. (k + 1) \in SUBSET (1 .. n)
    BY <2>1
  <2> QED  BY <2>1, <2>2, <2>3
<1> QED  BY <1>1, <1>2

-----------------------------------------------------------------------------
(* The nearest point.                                                      *)

\* What nearest() keeps of the best point so far and the next.
Better(b, t, ts) == IF b = <<>> \/ Distance(t, ts) < Distance(b[1], ts) THEN <<t>> ELSE b

LEMMA NearestRuns ==
  ASSUME NEW track \in Seq(Int), NEW ts \in Int
  PROVE  \E v : /\ v[0] = <<>> /\ v[Len(track)] = Nearest(track, ts)
                /\ \A k \in 0 .. (Len(track) - 1) : v[k + 1] = Better(v[k], track[k + 1], ts)
<1> DEFINE n == Len(track)
           Next1(iter) == [s \in SUBSET (DOMAIN track) |->
                      IF s = {} THEN <<>> ELSE Better(iter[s \ {Max(s)}], track[Max(s)], ts)]
           iter == CHOOSE iter : iter = Next1(iter)
<1>1. n \in Nat /\ DOMAIN track = 1 .. n /\ \A i \in 1 .. n : track[i] \in Int
  OBVIOUS
<1>2. Nearest(track, ts) = iter[DOMAIN track]
  BY DEF Nearest, FoldLeft, MapThenFoldSet, Better
<1>3. \E f : f = Next1(f)
  <2> DEFINE G == [i \in 1 .. n |-> [b \in Seq(Int) |-> Better(b, track[i], ts)]]
  <2>1. G \in [1 .. n -> [Seq(Int) -> Seq(Int)]]
    BY <1>1 DEF Better
  <2>2. <<>> \in Seq(Int)
    OBVIOUS
  <2>3. PICK f \in [SUBSET (1 .. n) -> Seq(Int)] : Folded(f, G, <<>>, n)
    <3> HIDE DEF G, n
    <3> QED  BY <1>1, <2>1, <2>2, FoldExists
  <2>4. ASSUME NEW s \in SUBSET (1 .. n), s # {}
        PROVE  f[s] = Better(f[s \ {Max(s)}], track[Max(s)], ts)
    <3>1. Max(s) \in 1 .. n
      BY <1>1, <2>4, MaxIn
    <3>2. f[s \ {Max(s)}] \in Seq(Int)
      OBVIOUS
    <3>3. f[s] = G[Max(s)][f[s \ {Max(s)}]]
      BY <2>3, <2>4 DEF Folded
    <3> HIDE DEF Better
    <3> QED  BY <3>1, <3>2, <3>3
  <2>5. \A s \in SUBSET (1 .. n) :
          f[s] = IF s = {} THEN <<>> ELSE Better(f[s \ {Max(s)}], track[Max(s)], ts)
    BY <2>3, <2>4 DEF Folded
  <2> HIDE DEF G, n
  <2>6. f = Next1(f)
    BY <1>1, <2>5
  <2> QED  BY <2>6
<1>4. iter = Next1(iter)
  BY <1>3
<1> HIDE DEF iter
<1> DEFINE v == [k \in 0 .. n |-> iter[1 .. k]]
<1>5. v[0] = <<>> /\ v[n] = Nearest(track, ts)
  <2>1. iter[{}] = <<>>
    BY <1>1, <1>4
  <2>2. v[0] = iter[1 .. 0] /\ v[n] = iter[1 .. n]
    BY <1>1
  <2> QED  BY <1>1, <1>2, <2>1, <2>2, FoldedPrefixes
<1>6. ASSUME NEW k \in 0 .. (n - 1) PROVE v[k + 1] = Better(v[k], track[k + 1], ts)
  <2>1. v[k] = iter[1 .. k] /\ v[k + 1] = iter[1 .. (k + 1)]
    BY <1>1
  <2>2. /\ 1 .. (k + 1) \in SUBSET (1 .. n) /\ 1 .. (k + 1) # {}
        /\ Max(1 .. (k + 1)) = k + 1
        /\ (1 .. (k + 1)) \ {Max(1 .. (k + 1))} = 1 .. k
    BY <1>1, FoldedPrefixes
  <2>3. \A s \in SUBSET (1 .. n) : s # {} =>
          iter[s] = Better(iter[s \ {Max(s)}], track[Max(s)], ts)
    BY <1>1, <1>4
  <2>4. iter[1 .. (k + 1)] = Better(iter[1 .. k], track[k + 1], ts)
    <3> HIDE DEF Better
    <3> QED  BY <2>2, <2>3
  <2> QED  BY <2>1, <2>4
<1> HIDE DEF v
<1> QED  BY <1>5, <1>6

\* What nearest() returns: the first of the points at the least distance, as it
\* replaces the best only by one that is nearer.
FirstNearest(track, ts, j, k) ==
  /\ j \in 1 .. k
  /\ \A i \in 1 .. k : /\ Distance(track[j], ts) <= Distance(track[i], ts)
                       /\ i < j => Distance(track[j], ts) < Distance(track[i], ts)

LEMMA DistanceIsNat ==
  ASSUME NEW a \in Int, NEW b \in Int
  PROVE  Distance(a, b) \in Nat
BY DEF Distance

LEMMA NearestIs ==
  ASSUME NEW track \in Seq(Int), NEW ts \in Int
  PROVE  IF track = <<>> THEN Nearest(track, ts) = <<>>
         ELSE \E j \in DOMAIN track : /\ FirstNearest(track, ts, j, Len(track))
                                      /\ Nearest(track, ts) = <<track[j]>>
<1> DEFINE n == Len(track)
<1>1. n \in Nat /\ DOMAIN track = 1 .. n /\ \A i \in 1 .. n : track[i] \in Int
  OBVIOUS
<1>2. PICK v : /\ v[0] = <<>> /\ v[n] = Nearest(track, ts)
               /\ \A k \in 0 .. (n - 1) : v[k + 1] = Better(v[k], track[k + 1], ts)
  BY NearestRuns
<1> DEFINE d == [i \in 1 .. n |-> Distance(track[i], ts)]
           First(j, k) == /\ j \in 1 .. k
                          /\ \A i \in 1 .. k : d[j] <= d[i] /\ (i < j => d[j] < d[i])
           Found(k) == IF k = 0 THEN v[k] = <<>> ELSE \E j \in 1 .. k : First(j, k) /\ v[k] = <<track[j]>>
           S == {k \in 0 .. n : Found(k)}
<1>3. \A i \in 1 .. n : d[i] = Distance(track[i], ts) /\ d[i] \in Nat
  BY <1>1, DistanceIsNat
<1>4. 0 \in S
  BY <1>1, <1>2
<1>5. ASSUME NEW k \in 0 .. (n - 1), k \in S PROVE k + 1 \in S
  <2>1. k \in Nat /\ k + 1 \in 1 .. n /\ k + 1 \in 0 .. n /\ 1 .. k \subseteq 1 .. n
    BY <1>1
  <2>2. v[k + 1] = Better(v[k], track[k + 1], ts)
    BY <1>2
  <2>3. CASE k = 0
    <3>1. v[k + 1] = <<track[k + 1]>>
      BY <1>5, <2>2, <2>3 DEF Better
    <3>2. First(k + 1, k + 1)
      <4>1. \A i \in 1 .. (k + 1) : i = k + 1
        BY <2>3
      <4>2. k + 1 \in 1 .. (k + 1) /\ d[k + 1] \in Nat
        BY <2>1, <1>3
      <4> HIDE DEF d
      <4> QED  BY <2>1, <4>1, <4>2
    <3> HIDE DEF First, d
    <3> QED  BY <2>1, <3>1, <3>2
  <2>4. CASE k # 0
    <3>1. PICK j \in 1 .. k : First(j, k) /\ v[k] = <<track[j]>>
      <4> HIDE DEF First
      <4> QED  BY <1>5, <2>4
    <3>2. j \in 1 .. n /\ j \in 1 .. (k + 1) /\ k + 1 \in 1 .. (k + 1)
      BY <2>1
    <3>3. v[k + 1] = IF d[k + 1] < d[j] THEN <<track[k + 1]>> ELSE <<track[j]>>
      <4>1. v[k] # <<>> /\ v[k][1] = track[j]
        BY <3>1
      <4> HIDE DEF d
      <4> QED  BY <1>3, <2>1, <2>2, <3>1, <3>2, <4>1 DEF Better
    <3> HIDE DEF d
    <3>4. \A i \in 1 .. (k + 1) : i \in 1 .. k \/ i = k + 1
      BY <2>1
    <3>5. \A i \in 1 .. (k + 1) : i \in Nat /\ d[i] \in Nat
      BY <1>3, <2>1
    <3>6. CASE d[k + 1] < d[j]
      <4>1. ASSUME NEW i \in 1 .. (k + 1) PROVE d[k + 1] <= d[i] /\ (i < k + 1 => d[k + 1] < d[i])
        <5>1. CASE i \in 1 .. k
          <6>1. d[j] <= d[i] /\ d[j] \in Nat /\ d[i] \in Nat /\ d[k + 1] \in Nat
            BY <3>1, <3>2, <3>5, <5>1
          <6> QED  BY <3>6, <6>1
        <5>2. CASE i = k + 1
          BY <3>5, <5>2
        <5> QED  BY <3>4, <5>1, <5>2
      <4>2. First(k + 1, k + 1)
        BY <3>2, <4>1
      <4> HIDE DEF First
      <4> QED  BY <2>1, <3>2, <3>3, <3>6, <4>2
    <3>7. CASE ~(d[k + 1] < d[j])
      <4>1. ASSUME NEW i \in 1 .. (k + 1) PROVE d[j] <= d[i] /\ (i < j => d[j] < d[i])
        <5>1. CASE i \in 1 .. k
          BY <3>1, <5>1
        <5>2. CASE i = k + 1
          <6>1. d[j] \in Nat /\ d[i] \in Nat
            BY <3>2, <3>5
          <6>2. ~(i < j)
            BY <2>1, <5>2
          <6> QED  BY <3>7, <5>2, <6>1, <6>2
        <5> QED  BY <3>4, <5>1, <5>2
      <4>2. First(j, k + 1)
        BY <3>2, <4>1
      <4> HIDE DEF First
      <4> QED  BY <2>1, <3>2, <3>3, <3>7, <4>2
    <3> QED  BY <3>6, <3>7
  <2> QED  BY <2>3, <2>4
<1>6. n \in S
  <2>1. 0 .. n \subseteq S
    <3> HIDE DEF S, n
    <3> QED  BY <1>1, <1>4, <1>5, Climb
  <2>2. n \in 0 .. n
    BY <1>1
  <2> HIDE DEF S, n
  <2> QED  BY <2>1, <2>2
<1>7. CASE n = 0
  <2>1. v[0] = <<>> /\ track = <<>>
    BY <1>2, <1>7
  <2> QED  BY <1>2, <1>7, <2>1
<1>8. CASE n # 0
  <2>1. PICK j \in 1 .. n : First(j, n) /\ v[n] = <<track[j]>>
    <3> HIDE DEF First
    <3> QED  BY <1>6, <1>8
  <2>2. \A i \in 1 .. n : d[j] = Distance(track[j], ts) /\ d[i] = Distance(track[i], ts)
    BY <1>3, <2>1
  <2>3. FirstNearest(track, ts, j, n)
    <3> HIDE DEF d, n
    <3> QED  BY <2>1, <2>2 DEF FirstNearest
  <2>4. track # <<>>
    BY <1>8
  <2> HIDE DEF d
  <2> QED  BY <1>1, <1>2, <2>1, <2>3, <2>4
<1> QED  BY <1>7, <1>8

-----------------------------------------------------------------------------
(* The logs, read.                                                         *)

\* What Objects makes of what it has so far and the next member.
Kept(found, m) == IF m = Junk THEN found ELSE Append(found, m)

\* Nothing is made up where members are passed over.
LEMMA ObjectsIn ==
  ASSUME NEW R, NEW s \in Seq(R)
  PROVE  Objects(s) \in Seq(R \ {Junk})
<1> DEFINE n == Len(s)
           D == Seq(R \ {Junk})
           Next1(iter) == [T \in SUBSET (DOMAIN s) |->
                      IF T = {} THEN <<>> ELSE Kept(iter[T \ {Max(T)}], s[Max(T)])]
           iter == CHOOSE iter : iter = Next1(iter)
<1>1. n \in Nat /\ DOMAIN s = 1 .. n /\ \A i \in 1 .. n : s[i] \in R
  OBVIOUS
<1>2. Objects(s) = iter[DOMAIN s]
  BY DEF Objects, FoldLeft, MapThenFoldSet, Kept
<1>a. \A i \in 1 .. n : \A found \in D : Kept(found, s[i]) \in D
  BY <1>1 DEF Kept
<1>b. <<>> \in D
  OBVIOUS
<1> HIDE DEF D
<1>3. \E f : f = Next1(f)
  <2> DEFINE G == [i \in 1 .. n |-> [found \in D |-> Kept(found, s[i])]]
  <2>1. G \in [1 .. n -> [D -> D]]
    <3> HIDE DEF Kept, n
    <3> QED  BY <1>a
  <2>3. PICK f \in [SUBSET (1 .. n) -> D] : Folded(f, G, <<>>, n)
    <3> HIDE DEF G, n
    <3> QED  BY <1>1, <1>b, <2>1, FoldExists
  <2>4. ASSUME NEW T \in SUBSET (1 .. n), T # {}
        PROVE  f[T] = Kept(f[T \ {Max(T)}], s[Max(T)])
    <3>1. Max(T) \in 1 .. n
      BY <1>1, <2>4, MaxIn
    <3>2. f[T \ {Max(T)}] \in D
      OBVIOUS
    <3>3. f[T] = G[Max(T)][f[T \ {Max(T)}]]
      BY <2>3, <2>4 DEF Folded
    <3> HIDE DEF Kept
    <3> QED  BY <3>1, <3>2, <3>3
  <2>5. \A T \in SUBSET (1 .. n) :
          f[T] = IF T = {} THEN <<>> ELSE Kept(f[T \ {Max(T)}], s[Max(T)])
    BY <2>3, <2>4 DEF Folded
  <2> HIDE DEF G, n
  <2>6. f = Next1(f)
    BY <1>1, <2>5
  <2> QED  BY <2>6
<1>4. iter = Next1(iter)
  BY <1>3
<1> HIDE DEF iter
<1> DEFINE S == {k \in 0 .. n : iter[1 .. k] \in D}
<1>5. 0 \in S
  <2>1. iter[{}] = <<>>
    BY <1>1, <1>4
  <2>2. 1 .. 0 = {} /\ 0 \in 0 .. n
    BY <1>1
  <2> QED  BY <1>b, <2>1, <2>2
<1>6. ASSUME NEW k \in 0 .. (n - 1), k \in S PROVE k + 1 \in S
  <2>1. /\ 1 .. (k + 1) \in SUBSET (1 .. n) /\ 1 .. (k + 1) # {}
        /\ Max(1 .. (k + 1)) = k + 1
        /\ (1 .. (k + 1)) \ {Max(1 .. (k + 1))} = 1 .. k
    BY <1>1, FoldedPrefixes
  <2>2. \A T \in SUBSET (1 .. n) : T # {} => iter[T] = Kept(iter[T \ {Max(T)}], s[Max(T)])
    BY <1>1, <1>4
  <2>3. iter[1 .. (k + 1)] = Kept(iter[1 .. k], s[k + 1])
    <3> HIDE DEF Kept
    <3> QED  BY <2>1, <2>2
  <2>4. k + 1 \in 1 .. n /\ k + 1 \in 0 .. n
    BY <1>1
  <2>5. iter[1 .. (k + 1)] \in D
    <3> HIDE DEF Kept, n
    <3> QED  BY <1>a, <1>6, <2>3, <2>4
  <2> QED  BY <2>4, <2>5
<1>7. 0 .. n \subseteq S
  <2> HIDE DEF S, n
  <2> QED  BY <1>1, <1>5, <1>6, Climb
<1>8. n \in 0 .. n
  BY <1>1
<1> QED  BY <1>1, <1>2, <1>7, <1>8 DEF D

\* What is joined are sequences of times.
LEMMA CallsAreTimes ==
  ASSUME NEW doc \in AtcDocs, AtcReadable(doc)
  PROVE  Objects(doc.transmissions) \in Seq(Int)
<1> DEFINE s == doc.transmissions
<1>1. s \in Seq({Junk, Missing} \cup Int) /\ Missing \notin Range(s)
  BY TimelineAssumption DEF AtcReadable
<1> HIDE DEF s
<1>2. s \in Seq({Junk} \cup Int)
  <2>1. \A i \in 1 .. Len(s) : s[i] \in {Junk} \cup Int
    BY <1>1 DEF Range
  <2> QED  BY <1>1, <2>1
<1>3. Objects(s) \in Seq(({Junk} \cup Int) \ {Junk})
  BY <1>2, ObjectsIn
<1>4. Objects(s) \in Seq(Int)
  BY <1>3
<1> QED  BY <1>4 DEF s

LEMMA TrackIsTimes ==
  ASSUME NEW doc \in FlightDocs, doc # Broken
  PROVE  ParseFlightLog(doc).track \in Seq(Int)
<1> DEFINE s == Objects(doc.track)
<1>1. s \in Seq(({Junk, Missing} \cup Int) \ {Junk})
  BY TimelineAssumption, ObjectsIn
<1> HIDE DEF s
<1>2. Timed(s) \in Seq(Int)
  <2>1. Len(s) \in Nat /\ DOMAIN s = 1 .. Len(s) /\ \A i \in 1 .. Len(s) : s[i] = Missing \/ s[i] \in Int
    BY <1>1
  <2>2. Timed(s) \in [1 .. Len(s) -> Int]
    BY <2>1 DEF Timed
  <2> QED  BY <2>1, <2>2
<1> QED  BY <1>2 DEF s, ParseFlightLog

-----------------------------------------------------------------------------
(* Where the aircraft was.                                                 *)

\* The prompt is that of two logs that could be read.
PromptInv ==
  outcome.shows = "evaluation" =>
    /\ outcome.doc \in AtcDocs /\ AtcReadable(outcome.doc)
    /\ outcome.flightDoc \in FlightDocs /\ outcome.flightDoc # Broken
    /\ outcome.prompt = Correlate(ParseAtcLog(outcome.doc), ParseFlightLog(outcome.flightDoc),
                                  TrackTolerance)

LEMMA PromptInvariant == Spec => []PromptInv
<1>1. Init => PromptInv
  BY DEF Init, PromptInv
<1>2. PromptInv /\ [Next]_vars => PromptInv'
  <2> SUFFICES ASSUME PromptInv, [Next]_vars PROVE PromptInv'
    OBVIOUS
  <2>1. CASE Press
    BY <2>1 DEF Press, PromptInv
  <2>2. CASE Finish
    <3>1. CASE outcome' = [shows |-> "no log"]
      BY <3>1 DEF PromptInv
    <3>2. CASE UNCHANGED outcome
      BY <3>2 DEF PromptInv
    <3> QED  BY <2>2, <3>1, <3>2 DEF Finish
  <2>3. CASE Reads
    <3>1. PICK doc \in AtcDocs, flightDoc \in FlightDocs : outcome' = Evaluates(doc, flightDoc)
      BY <2>3 DEF Reads
    <3> QED  BY <3>1 DEF Evaluates, BuildPrompt, PromptInv
  <2>4. CASE UNCHANGED outcome
    BY <2>4 DEF PromptInv
  <2> QED  BY <2>1, <2>2, <2>3, <2>4 DEF Next, vars, Opens, Visit, Changes
<1> QED  BY <1>1, <1>2, PTL DEF Spec

\* The first nearest point of a track within the tolerance, as PositionsNearest
\* says it, is what correlate() attaches.
LEMMA FirstOfNearest ==
  ASSUME NEW track \in Seq(Int), NEW ts \in Int
  PROVE  LET Near == {j \in DOMAIN track :
                        /\ Distance(track[j], ts) <= TrackTolerance
                        /\ \A i \in DOMAIN track : Distance(track[j], ts) <= Distance(track[i], ts)}
             p == Nearest(track, ts)
         IN (IF p # <<>> /\ Distance(p[1], ts) <= TrackTolerance THEN p ELSE <<>>)
              = IF Near = {} THEN <<>> ELSE <<track[Min(Near)]>>
<1> DEFINE d(i) == Distance(track[i], ts)
           Near == {j \in DOMAIN track : d(j) <= TrackTolerance /\ \A i \in DOMAIN track : d(j) <= d(i)}
           p == Nearest(track, ts)
<1> SUFFICES (IF p # <<>> /\ Distance(p[1], ts) <= TrackTolerance THEN p ELSE <<>>)
               = IF Near = {} THEN <<>> ELSE <<track[Min(Near)]>>
  OBVIOUS
<1>1. DOMAIN track = 1 .. Len(track) /\ Len(track) \in Nat
  OBVIOUS
<1>2. \A i \in DOMAIN track : d(i) \in Nat /\ i \in Nat
  <2>1. \A i \in DOMAIN track : track[i] \in Int /\ i \in Nat
    OBVIOUS
  <2> QED  BY <2>1, DistanceIsNat
<1>3. CASE track = <<>>
  <2>1. p = <<>>
    BY <1>3, NearestIs
  <2>2. Near = {}
    BY <1>3
  <2> QED  BY <2>1, <2>2
<1>4. CASE track # <<>>
  <2>1. PICK j \in DOMAIN track : FirstNearest(track, ts, j, Len(track)) /\ p = <<track[j]>>
    BY <1>4, NearestIs
  <2> HIDE DEF p
  <2>2. \A i \in DOMAIN track : d(j) <= d(i) /\ (i < j => d(j) < d(i))
    BY <1>1, <2>1 DEF FirstNearest
  <2>3. p # <<>> /\ Distance(p[1], ts) = d(j)
    BY <2>1
  <2> HIDE DEF d
  <2>4. CASE d(j) <= TrackTolerance
    <3>1. j \in Near
      BY <2>1, <2>2, <2>4
    <3>2. \A i \in Near : j =< i
      <4> SUFFICES ASSUME NEW i \in Near, ~(j =< i) PROVE FALSE
        OBVIOUS
      <4>1. i \in DOMAIN track /\ d(i) <= d(j) /\ i \in Nat /\ j \in Nat /\ d(i) \in Nat /\ d(j) \in Nat
        BY <1>2, <2>1
      <4>2. d(j) < d(i)
        BY <2>2, <4>1
      <4> QED  BY <4>1, <4>2
    <3>3. \A x \in Near : x \in Nat
      BY <1>2
    <3> HIDE DEF Near
    <3>4. Min(Near) = j
      <4>1. \A x \in Near : (\A y \in Near : x =< y) => x = j
        BY <3>1, <3>2, <3>3
      <4> QED  BY <3>1, <3>2, <4>1 DEF Min
    <3> QED  BY <2>1, <2>3, <2>4, <3>1, <3>4
  <2>5. CASE ~(d(j) <= TrackTolerance)
    <3>1. Near = {}
      <4> SUFFICES ASSUME NEW i \in Near PROVE FALSE
        OBVIOUS
      <4>1. d(j) <= d(i) /\ d(i) <= TrackTolerance /\ d(i) \in Nat /\ d(j) \in Nat
        BY <1>2, <2>1, <2>2
      <4>2. TrackTolerance \in Nat
        BY TimelineAssumption
      <4> HIDE DEF Near
      <4> QED  BY <2>5, <4>1, <4>2
    <3> HIDE DEF Near
    <3> QED  BY <2>3, <2>5, <3>1
  <2> QED  BY <2>4, <2>5
<1> QED  BY <1>3, <1>4

\* build_prompt() and correlate(): whatever the two logs hold that the parsers let
\* through, the model is told of every transmission in its order, and of each
\* where the aircraft was at the first of the nearest points of the track.
THEOREM NearestTold == Spec => []PositionsNearest
<1>1. PromptInv => PositionsNearest
  <2> SUFFICES ASSUME PromptInv, outcome.shows = "evaluation" PROVE PositionsNearest
    BY DEF PositionsNearest
  <2> DEFINE said == Objects(outcome.doc.transmissions)
             track == ParseFlightLog(outcome.flightDoc).track
             Near(ts) == {j \in DOMAIN track :
                       /\ Distance(track[j], ts) <= TrackTolerance
                       /\ \A i \in DOMAIN track : Distance(track[j], ts) <= Distance(track[i], ts)}
             atc == ParseAtcLog(outcome.doc)
             line(k) == [ts |-> said[k],
                         position |-> IF Nearest(track, said[k]) # <<>>
                                         /\ Distance(Nearest(track, said[k])[1], said[k]) <= TrackTolerance
                                      THEN Nearest(track, said[k]) ELSE <<>>]
  <2>1. said \in Seq(Int) /\ track \in Seq(Int)
    BY CallsAreTimes, TrackIsTimes DEF PromptInv
  <2>2. outcome.prompt = [k \in DOMAIN said |-> line(k)]
    BY DEF PromptInv, Correlate, ParseAtcLog
  <2> HIDE DEF said, track
  <2>3. Len(outcome.prompt) = Len(said)
    BY <2>1, <2>2
  <2>4. ASSUME NEW k \in DOMAIN said
        PROVE  /\ outcome.prompt[k].ts = said[k]
               /\ outcome.prompt[k].position = IF Near(said[k]) = {} THEN <<>>
                                               ELSE <<track[Min(Near(said[k]))]>>
    <3>1. outcome.prompt[k] = line(k) /\ said[k] \in Int
      BY <2>1, <2>2
    <3>2. line(k).position = IF Near(said[k]) = {} THEN <<>> ELSE <<track[Min(Near(said[k]))]>>
      BY <2>1, <3>1, FirstOfNearest
    <3> QED  BY <3>1, <3>2
  <2> QED  BY <2>3, <2>4 DEF PositionsNearest, said, track
<1> QED  BY <1>1, PromptInvariant, PTL

-----------------------------------------------------------------------------
(* The newest log.                                                         *)

ScanTypes ==
  /\ dir \in Dir
  /\ listing \in Seq(Files)
  /\ best \subseteq Times /\ \A a, b \in best : a = b

\* What is left alone is yet to be visited, or no newer than what was found.
NoneNewer ==
  phase = "scanning" =>
    \A n \in (Present \cap JsonFiles) \ touched :
      n \in Range(listing) \/ \E found \in best : dir[n] <= found

ScanInv == ScanTypes /\ NoneNewer

LEMMA InTail ==
  ASSUME NEW s \in Seq(Files), s # <<>>, NEW n \in Range(s), n # Head(s)
  PROVE  n \in Range(Tail(s))
<1>1. PICK k \in 1 .. Len(s) : n = s[k]
  BY DEF Range
<1>2. k # 1 /\ k \in Nat /\ Len(s) \in Nat
  BY <1>1
<1>3. k - 1 \in 1 .. Len(Tail(s)) /\ Tail(s)[k - 1] = s[k]
  BY <1>1, <1>2
<1>4. DOMAIN Tail(s) = 1 .. Len(Tail(s))
  OBVIOUS
<1> QED  BY <1>1, <1>3, <1>4 DEF Range

LEMMA InLonger ==
  ASSUME NEW s \in Seq(Files), NEW n, NEW m \in Range(s)
  PROVE  m \in Range(Append(s, n))
<1>1. PICK k \in 1 .. Len(s) : m = s[k]
  BY DEF Range
<1>2. k \in 1 .. Len(Append(s, n)) /\ Append(s, n)[k] = s[k]
  BY <1>1
<1> QED  BY <1>1, <1>2 DEF Range

\* The iterator comes to every file there is.
LEMMA AllListed ==
  ASSUME NEW S \in SUBSET Files, NEW s \in SetToSeqs(S)
  PROVE  s \in Seq(Files) /\ S \subseteq Range(s)
<1> DEFINE c == Cardinality(S)
<1>1. IsFiniteSet(S) /\ c \in Nat
  BY TimelineAssumption, FS_Subset, FS_CardinalityType
<1>2. s \in [1 .. c -> S] /\ \A i, j \in 1 .. c : i # j => s[i] # s[j]
  BY DEF SetToSeqs
<1>3. s \in Injection(1 .. c, S)
  <2> HIDE DEF c
  <2> QED  BY <1>2 DEF Injection, IsInjective
<1>4. Cardinality(1 .. c) = c
  <2>1. Cardinality(1 .. c) = IF 1 > c THEN 0 ELSE c - 1 + 1
    BY <1>1, FS_Interval
  <2> QED  BY <1>1, <2>1
<1>5. s \in Surjection(1 .. c, S)
  BY <1>1, <1>3, <1>4, FS_Injection
<1>6. S \subseteq Range(s)
  BY <1>2, <1>5 DEF Surjection, Range
<1>7. s \in [1 .. c -> Files]
  BY <1>2
<1> HIDE DEF c
<1> QED  BY <1>1, <1>6, <1>7

LEMMA DirTimes ==
  ASSUME ScanTypes
  PROVE  \A n \in Files : dir[n] \in Nat /\ (dir[n] # Gone => dir[n] \in Times)
<1>1. \A n \in Files : dir[n] \in Times \cup {0}
  BY DEF ScanTypes, Dir, Entry, Gone
<1>2. \A time \in Times : time \in Nat
  BY TimelineAssumption
<1>3. ASSUME NEW n \in Files PROVE dir[n] \in Nat /\ (dir[n] # Gone => dir[n] \in Times)
  <2>1. CASE dir[n] \in Times
    BY <1>2, <2>1
  <2>2. CASE dir[n] = 0
    BY <2>2 DEF Gone
  <2> QED  BY <1>1, <2>1, <2>2
<1> QED  BY <1>3

LEMMA VisitKeeps ==
  ASSUME ScanInv, Visit
  PROVE  ScanInv'
<1> DEFINE n == Head(listing)
<1>1. listing \in Seq(Files) /\ listing # <<>> /\ n \in Files /\ listing' = Tail(listing)
  BY DEF ScanInv, ScanTypes, Visit
<1>2. best' = IF n \in JsonFiles /\ dir[n] # Gone /\ IsNewer(dir[n]) THEN {dir[n]} ELSE best
  BY DEF Visit
<1>3. phase = "scanning" /\ UNCHANGED <<phase, dir, touched>>
  BY DEF Visit
<1>4. \A m \in Files : dir[m] \in Nat /\ (dir[m] # Gone => dir[m] \in Times)
  BY DirTimes DEF ScanInv
<1>5. best \subseteq Times /\ (\A a, b \in best : a = b) /\ Times \subseteq Nat /\ JsonFiles \subseteq Files
  BY TimelineAssumption DEF ScanInv, ScanTypes
<1> HIDE DEF n
<1>6. ScanTypes'
  <2>1. listing' \in Seq(Files)
    BY <1>1
  <2>2. best' \subseteq Times /\ \A a, b \in best' : a = b
    BY <1>1, <1>2, <1>4, <1>5
  <2>3. dir' \in Dir
    BY <1>3 DEF ScanInv, ScanTypes
  <2> QED  BY <2>1, <2>2, <2>3 DEF ScanTypes, Dir, Entry
<1>7. ASSUME NEW m \in (Present \cap JsonFiles) \ touched
      PROVE  m \in Range(listing') \/ \E found \in best' : dir[m] <= found
  <2>0. m \in Files /\ m \in JsonFiles /\ dir[m] # Gone /\ dir[m] \in Nat
    BY <1>4 DEF Present
  <2>1. CASE m \in Range(listing) /\ m # n
    BY <1>1, <2>1, InTail DEF n
  <2>2. CASE m = n
    <3>1. CASE IsNewer(dir[m])
      <4>1. best' = {dir[m]}
        BY <1>2, <2>0, <2>2, <3>1
      <4> QED  BY <2>0, <4>1
    <3>2. CASE ~IsNewer(dir[m])
      <4>1. PICK found \in best : ~(dir[m] > found)
        BY <3>2 DEF IsNewer
      <4>2. found \in Nat /\ best' = best
        BY <1>2, <1>5, <2>2, <3>2
      <4> QED  BY <2>0, <4>1, <4>2
    <3> QED  BY <3>1, <3>2
  <2>3. CASE m \notin Range(listing)
    <3>1. PICK found \in best : dir[m] <= found
      BY <1>3, <2>3 DEF ScanInv, NoneNewer
    <3>2. found \in Nat
      BY <1>5
    <3>3. CASE best' = best
      BY <3>1, <3>3
    <3>4. CASE best' = {dir[n]} /\ IsNewer(dir[n])
      <4>1. dir[n] > found /\ dir[n] \in Nat
        BY <1>1, <1>4, <3>4 DEF IsNewer
      <4> QED  BY <2>0, <3>1, <3>2, <3>4, <4>1
    <3> QED  BY <1>2, <3>3, <3>4
  <2> QED  BY <2>1, <2>2, <2>3
<1>8. NoneNewer'
  BY <1>3, <1>7 DEF NoneNewer, Present
<1> QED  BY <1>6, <1>8 DEF ScanInv

LEMMA ChangesKeeps ==
  ASSUME ScanInv, NEW n \in Files, Changes(n)
  PROVE  ScanInv'
<1>1. PICK time \in Entry \ {dir[n]} : dir' = [dir EXCEPT ![n] = time]
  BY DEF Changes
<1>2. dir \in [Files -> Entry] /\ listing \in Seq(Files)
  BY DEF ScanInv, ScanTypes, Dir
<1>3. listing' = listing \/ listing' = Append(listing, n)
  BY DEF Changes
<1>4. phase = "scanning" /\ UNCHANGED <<phase, best>> /\ touched' = touched \cup {n}
  BY DEF Changes
<1>5. ScanTypes'
  <2>1. dir' \in [Files -> Entry]
    BY <1>1, <1>2
  <2>2. listing' \in Seq(Files)
    BY <1>2, <1>3
  <2>3. best' \subseteq Times /\ \A a, b \in best' : a = b
    BY <1>4 DEF ScanInv, ScanTypes
  <2> QED  BY <2>1, <2>2, <2>3 DEF ScanTypes, Dir, Entry
<1>6. ASSUME NEW m \in (Present' \cap JsonFiles) \ touched'
      PROVE  m \in Range(listing') \/ \E found \in best' : dir'[m] <= found
  <2>1. m # n /\ m \in Files /\ m \notin touched
    BY <1>4 DEF Present
  <2>2. dir'[m] = dir[m]
    BY <1>1, <1>2, <2>1
  <2>3. m \in (Present \cap JsonFiles) \ touched
    BY <2>1, <2>2 DEF Present
  <2>4. CASE m \in Range(listing)
    BY <1>2, <1>3, <2>4, InLonger
  <2>5. CASE \E found \in best : dir[m] <= found
    BY <1>4, <2>2, <2>5
  <2> QED  BY <1>4, <2>3, <2>4, <2>5 DEF ScanInv, NoneNewer
<1> QED  BY <1>4, <1>5, <1>6 DEF ScanInv, NoneNewer

LEMMA ScanInvariant == Spec => []ScanInv
<1>1. Init => ScanInv
  BY TimelineAssumption DEF Init, ScanInv, ScanTypes, NoneNewer, Dir, Entry
<1>2. ScanInv /\ [Next]_vars => ScanInv'
  <2> SUFFICES ASSUME ScanInv, [Next]_vars PROVE ScanInv'
    OBVIOUS
  <2>1. CASE Press
    BY <2>1 DEF Press, ScanInv, ScanTypes, NoneNewer, Dir, Entry
  <2>2. CASE Opens
    <3>1. dir' \in Dir /\ listing' \in SetToSeqs(Present') /\ best' = best
      BY <2>2 DEF Opens
    <3>2. Present' \in SUBSET Files
      BY DEF Present
    <3>3. listing' \in Seq(Files) /\ Present' \subseteq Range(listing')
      BY <3>1, <3>2, AllListed
    <3>4. ScanTypes'
      BY <3>1, <3>3 DEF ScanInv, ScanTypes, Dir, Entry
    <3>5. NoneNewer'
      BY <3>3 DEF NoneNewer
    <3> QED  BY <3>4, <3>5 DEF ScanInv
  <2>3. CASE Visit
    BY <2>3, VisitKeeps
  <2>4. CASE Finish
    <3>1. dir' \in Dir
      BY <2>4 DEF Finish, Dir, Entry
    <3>2. listing' = <<>> /\ best' = {} /\ phase' # "scanning"
      BY <2>4 DEF Finish
    <3> QED  BY <3>1, <3>2 DEF ScanInv, ScanTypes, NoneNewer, Dir, Entry
  <2>5. CASE Reads
    BY <2>5 DEF Reads, ScanInv, ScanTypes, NoneNewer, Dir, Entry
  <2>6. CASE \E n \in Files : Changes(n)
    BY <2>6, ChangesKeeps
  <2>7. CASE UNCHANGED vars
    BY <2>7 DEF vars, ScanInv, ScanTypes, NoneNewer, Present, Dir, Entry
  <2> QED  BY <2>1, <2>2, <2>3, <2>4, <2>5, <2>6, <2>7 DEF Next
<1> QED  BY <1>1, <1>2, PTL DEF Spec

\* newest_json(): unless an error cut the scan short before its last name, no log
\* that was left alone meanwhile is newer than the one found, whatever the others
\* were made into while the iterator was on its way.
THEOREM ScanFindsNewest == Spec => NewestFound
<1>1. ScanInv /\ [Next]_vars =>
        [phase = "scanning" /\ phase' # "scanning" /\ ~(ec /\ listing # <<>>) =>
           \A n \in (Present \cap JsonFiles) \ touched :
             \E found \in best : dir[n] <= found]_vars
  <2> SUFFICES ASSUME ScanInv, [Next]_vars,
                      phase = "scanning", phase' # "scanning", ~(ec /\ listing # <<>>),
                      NEW n \in (Present \cap JsonFiles) \ touched
               PROVE  \E found \in best : dir[n] <= found
    BY DEF vars
  <2>1. Finish
    BY DEF Next, vars, Press, Opens, Visit, Reads, Changes
  <2>2. listing = <<>>
    BY <2>1 DEF Finish
  <2>3. n \notin Range(listing)
    BY <2>2 DEF Range
  <2> QED  BY <2>3 DEF ScanInv, NoneNewer
<1> QED  BY <1>1, ScanInvariant, PTL DEF Spec, NewestFound
=============================================================================
