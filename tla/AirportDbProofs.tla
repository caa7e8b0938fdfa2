---------------------------- MODULE AirportDbProofs ----------------------------
(***************************************************************************)
(* Theorems about AirportDb for every set of files: no frame sees the      *)
(* airports move, no loader thread outlives the stop, and what is loaded   *)
(* is what the file says: the parser, row by row, and the airports of a    *)
(* file, section by section, are the same.                                 *)
(***************************************************************************)
EXTENDS AirportDb, WellFoundedInduction, TLAPS

\* The thread is somewhere in load_worker(), in the order of its statements.
WorkerInv == worker \in {<<>>, <<"flag">>, <<"publish", "flag">>, LoadWorker}

\* The flag is the last thing the thread does, and only a started load and not a
\* stopped plugin has it.
ReadyInv == ready => worker = <<>> /\ started

\* A frame uses the airports only once ready() was true, and stop() is called
\* after a start.
MainInv == /\ main \in {"idle", "frame", "stop"}
           /\ main = "frame" => ready
           /\ main = "stop" => started

Inv == WorkerInv /\ ReadyInv /\ MainInv /\ QuietWhenStopped

\* Before the plugin starts there is nothing.
LEMMA Initially == Init => Inv
BY DEF Init, Inv, WorkerInv, ReadyInv, MainInv, QuietWhenStopped

\* The first start_load() makes a thread with all of its statements before it.
LEMMA StartLoadKeeps == Inv /\ StartLoad => Inv'
BY DEF Inv, WorkerInv, ReadyInv, MainInv, QuietWhenStopped, StartLoad

\* Each step of the thread leaves the rest of its statements; raising the flag
\* leaves none.
LEMMA WorkerKeeps == Inv /\ Worker => Inv'
<1> SUFFICES ASSUME Inv, Worker PROVE Inv'
  OBVIOUS
<1>1. started /\ worker \in {<<"flag">>, <<"publish", "flag">>, LoadWorker}
  BY DEF Inv, WorkerInv, QuietWhenStopped, Worker, ParseFile, Publish, SetReady, At
<1>2. ~ready /\ main # "frame"
  BY <1>1 DEF Inv, ReadyInv, MainInv, LoadWorker
<1>3. CASE ParseFile
  <2>1. worker = LoadWorker
    BY <1>1, <1>3 DEF ParseFile, At
  <2>2. worker' = <<"publish", "flag">>
    BY <1>3, <2>1 DEF ParseFile, At, LoadWorker
  <2> QED
    BY <1>1, <1>2, <1>3, <2>2 DEF ParseFile, Inv, WorkerInv, ReadyInv, MainInv, QuietWhenStopped
<1>4. CASE Publish
  <2>1. worker = <<"publish", "flag">>
    BY <1>1, <1>4 DEF Publish, At, LoadWorker
  <2>2. worker' = <<"flag">>
    BY <1>4, <2>1 DEF Publish, At
  <2> QED
    BY <1>1, <1>2, <1>4, <2>2 DEF Publish, Inv, WorkerInv, ReadyInv, MainInv, QuietWhenStopped
<1>5. CASE SetReady
  <2>1. worker = <<"flag">>
    BY <1>1, <1>5 DEF SetReady, At, LoadWorker
  <2>2. worker' = <<>>
    BY <1>5, <2>1 DEF SetReady, At
  <2> QED
    BY <1>1, <1>2, <1>5, <2>2 DEF SetReady, Inv, WorkerInv, ReadyInv, MainInv, QuietWhenStopped
<1> QED
  BY <1>3, <1>4, <1>5 DEF Worker

\* The main thread starts a frame only when ready, and stop() waits for the thread.
LEMMA MainKeeps == Inv /\ (FrameBegins \/ FrameEnds \/ StopBegins \/ Stops) => Inv'
BY DEF Inv, WorkerInv, ReadyInv, MainInv, QuietWhenStopped,
       FrameBegins, FrameEnds, StopBegins, Stops, Joined

\* Every step of the database preserves the invariant.
LEMMA StepKeeps == Inv /\ [Next]_vars => Inv'
<1>1. Inv /\ UNCHANGED vars => Inv'
  BY DEF Inv, WorkerInv, ReadyInv, MainInv, QuietWhenStopped, vars
<1> QED
  BY <1>1, StartLoadKeeps, WorkerKeeps, MainKeeps DEF Next

\* The invariant holds throughout.
LEMMA Invariance == Spec => []Inv
BY Initially, StepKeeps, PTL DEF Spec

\* "Join the worker thread and release the data": before a load and after a stop
\* there is no thread, no airport and no flag.
THEOREM NoThreadOutlivesStop == Spec => []QuietWhenStopped
<1>1. Inv => QuietWhenStopped
  BY DEF Inv
<1> QED
  BY <1>1, Invariance, PTL

\* Only the thread before it raises the flag, and stop() between frames, write to
\* the airports, and a frame that uses them is in neither's way.
LEMMA FrameStep == Inv /\ [Next]_vars => (main = "frame" => UNCHANGED airports)
<1> SUFFICES ASSUME Inv, [Next]_vars, main = "frame" PROVE airports' = airports
  OBVIOUS
<1>1. worker = <<>>
  BY DEF Inv, ReadyInv, MainInv
<1>2. ~Worker
  BY <1>1 DEF Worker, ParseFile, Publish, SetReady, At
<1> QED
  BY <1>2 DEF Next, StartLoad, FrameBegins, FrameEnds, StopBegins, Stops, vars

\* "Readers only touch the vector once ready() is true, so the reference is
\* stable": the reference of a frame to the airports, read without the mutex.
THEOREM FramesAreUndisturbed == Spec => FrameUndisturbed
<1>1. Inv /\ [Next]_vars => [main = "frame" => UNCHANGED airports]_vars
  BY FrameStep
<1> QED
  BY <1>1, Invariance, PTL DEF Spec, FrameUndisturbed

-----------------------------------------------------------------------------
(* Induction over the rows of a file.                                      *)

\* What holds of 0 and of the next number if of one holds of all.
LEMMA Climb ==
  ASSUME NEW n \in Nat, NEW S, 0 \in S, \A j \in 0 .. (n - 1) : j \in S => j + 1 \in S
  PROVE  0 .. n \subseteq S
<1> DEFINE missed == (0 .. n) \ S
<1> SUFFICES ASSUME missed # {} PROVE FALSE
  OBVIOUS
<1>1. missed \subseteq Nat
  OBVIOUS
<1>2. PICK k \in missed : \A y \in missed : ~(<<y, k>> \in OpToRel(<, Nat))
  BY <1>1, WFMin, NatLessThanWellFounded
<1>3. k \in 0 .. n /\ k \notin S /\ k # 0
  OBVIOUS
<1>4. k - 1 \in missed
  BY <1>3
<1>5. ~(k - 1 < k)
  BY <1>1, <1>2, <1>4 DEF OpToRel
<1> QED  BY <1>3, <1>5

\* The parser after so many rows, and the places in order, are defined by functions
\* whose equations have a solution.
After(rows, after) ==
  after = [k \in 0 .. Len(rows) |-> IF k = 0 THEN Between(<<>>) ELSE NextRow(after[k - 1], rows[k])]

LEMMA RowAfterRow ==
  ASSUME NEW rows, Len(rows) \in Nat
  PROVE  \E after : After(rows, after) /\ Parse(rows) = Flush(after[Len(rows)]).result
<1> DEFINE n == Len(rows)
           First(k, f) == f = [j \in 0 .. k |-> IF j = 0 THEN Between(<<>>) ELSE NextRow(f[j - 1], rows[j])]
           S == {k \in 0 .. n : \E f : First(k, f)}
<1> USE DEF After
<1>1. 0 \in S
  <2> DEFINE f == [j \in 0 .. 0 |-> Between(<<>>)]
  <2>1. First(0, f)
    <3> HIDE DEF n
    <3> QED OBVIOUS
  <2> HIDE DEF f, First
  <2> QED  BY <2>1
<1>2. ASSUME NEW k \in 0 .. (n - 1), k \in S PROVE k + 1 \in S
  <2>1. PICK f : First(k, f)
    BY <1>2
  <2> DEFINE g == [j \in 0 .. (k + 1) |-> IF j = k + 1 THEN NextRow(f[k], rows[k + 1]) ELSE f[j]]
  <2>2. k \in Nat /\ k + 1 \in 0 .. n
    OBVIOUS
  <2>3. ASSUME NEW j \in 0 .. (k + 1)
        PROVE  g[j] = IF j = 0 THEN Between(<<>>) ELSE NextRow(g[j - 1], rows[j])
    <3>1. CASE j = k + 1
      <4>1. g[j - 1] = f[k] /\ j # 0
        BY <2>2, <3>1
      <4> QED  BY <3>1, <4>1
    <3>2. CASE j # k + 1
      <4>1. j \in 0 .. k /\ g[j] = f[j]
        BY <2>2, <3>2
      <4>2. j # 0 => g[j - 1] = f[j - 1]
        BY <2>2, <4>1
      <4>3. f[j] = IF j = 0 THEN Between(<<>>) ELSE NextRow(f[j - 1], rows[j])
        BY <2>1, <4>1
      <4> HIDE DEF g
      <4> QED  BY <4>1, <4>2, <4>3
    <3> QED  BY <3>1, <3>2
  <2>4. DOMAIN g = 0 .. (k + 1) /\ g = [j \in DOMAIN g |-> g[j]]
    OBVIOUS
  <2> HIDE DEF g
  <2>5. First(k + 1, g)
    BY <2>3, <2>4
  <2> HIDE DEF First
  <2> QED  BY <2>2, <2>5
<1>3. n \in S
  <2>1. 0 .. n \subseteq S
    <3> HIDE DEF S, n
    <3> QED  BY <1>1, <1>2, Climb DEF n
  <2> QED  BY <2>1
<1> DEFINE after == CHOOSE f : After(rows, f)
<1>4. After(rows, after)
  BY <1>3
<1>5. Parse(rows) = CHOOSE result \in {Flush(p).result : p \in {after[n]}} : TRUE
  BY DEF Parse
<1> HIDE DEF after
<1>6. {Flush(p).result : p \in {after[n]}} = {Flush(after[n]).result}
  OBVIOUS
<1>7. Parse(rows) = Flush(after[n]).result
  BY <1>5, <1>6
<1> QED  BY <1>4, <1>7

\* Sets of places have a last and a first one.
LEMMA MaxIn ==
  ASSUME NEW n \in Nat, NEW s \in SUBSET (1 .. n), s # {}
  PROVE  Max(s) \in s
<1> DEFINE T == {n - k : k \in s}
<1>0. \A k \in s : n - k \in Nat /\ k \in Nat
  OBVIOUS
<1>1. T \subseteq Nat /\ T # {}
  <2>1. T \subseteq Nat
    BY <1>0
  <2>2. T # {}
    OBVIOUS
  <2> QED  BY <2>1, <2>2
<1>2. PICK x \in T : \A y \in T : ~(<<y, x>> \in OpToRel(<, Nat))
  <2> HIDE DEF T
  <2> QED  BY <1>1, WFMin, NatLessThanWellFounded
<1>3. PICK k \in s : x = n - k
  OBVIOUS
<1>4. ASSUME NEW j \in s PROVE k >= j
  <2>1. n - j \in T /\ n - j \in Nat /\ x \in Nat
    OBVIOUS
  <2>2. ~(n - j < x)
    BY <1>1, <1>2, <2>1 DEF OpToRel
  <2> QED  BY <1>3, <2>1, <2>2
<1> QED  BY <1>4 DEF Max

LEMMA MinIn ==
  ASSUME NEW s \in SUBSET Nat, s # {}
  PROVE  Min(s) \in s
<1>1. PICK x \in s : \A y \in s : ~(<<y, x>> \in OpToRel(<, Nat))
  BY WFMin, NatLessThanWellFounded
<1>2. ASSUME NEW y \in s PROVE x =< y
  <2>1. x \in Nat /\ y \in Nat
    OBVIOUS
  <2>2. ~(y < x)
    BY <1>1, <2>1 DEF OpToRel
  <2> QED  BY <2>1, <2>2
<1> QED  BY <1>2 DEF Min

LEMMA LastOne ==
  ASSUME NEW m, NEW s, m \in s, s \subseteq Nat, \A i \in s : i <= m
  PROVE  Max(s) = m
<1>1. \A x \in s : (\A y \in s : x >= y) => x = m
  OBVIOUS
<1> QED  BY <1>1 DEF Max

Listed(n, f) ==
  f = [s \in SUBSET (1 .. n) |-> IF s = {} THEN <<>> ELSE Append(f[s \ {Max(s)}], Max(s))]

LEMMA OrderListed ==
  ASSUME NEW n \in Nat
  PROVE  \E f : Listed(n, f) /\ \A s \in SUBSET (1 .. n) : InOrder(s, n) = f[s]
<1> DEFINE S == {k \in 0 .. n : \E f : Listed(k, f)}
<1>1. 0 \in S
  <2> DEFINE f == [s \in SUBSET (1 .. 0) |-> <<>>]
  <2>1. \A s \in SUBSET (1 .. 0) : s = {}
    OBVIOUS
  <2>2. Listed(0, f)
    BY <2>1 DEF Listed
  <2> HIDE DEF f
  <2> QED  BY <2>2
<1>2. ASSUME NEW j \in 0 .. (n - 1), j \in S PROVE j + 1 \in S
  <2>1. PICK f : Listed(j, f)
    BY <1>2
  <2>2. j \in Nat /\ j + 1 \in 0 .. n
    OBVIOUS
  <2> DEFINE k == j + 1
             g == [s \in SUBSET (1 .. k) |-> IF k \in s THEN Append(f[s \ {k}], k) ELSE f[s]]
  <2>3. ASSUME NEW s \in SUBSET (1 .. k), k \in s PROVE Max(s) = k
    <3>1. s \subseteq Nat /\ \A i \in s : i <= k
      OBVIOUS
    <3> QED  BY <2>3, <3>1, LastOne
  <2>4. ASSUME NEW s \in SUBSET (1 .. k), k \notin s PROVE s \in SUBSET (1 .. j)
    BY <2>2, <2>4
  <2>5. 1 .. j \subseteq 1 .. k
    BY <2>2
  <2> HIDE DEF k
  <2>6. ASSUME NEW s \in SUBSET (1 .. k)
        PROVE  g[s] = IF s = {} THEN <<>> ELSE Append(g[s \ {Max(s)}], Max(s))
    <3>1. CASE k \in s
      <4>1. s \ {k} \in SUBSET (1 .. k) /\ k \notin s \ {k}
        OBVIOUS
      <4>2. g[s \ {k}] = f[s \ {k}]
        BY <4>1
      <4> QED  BY <2>3, <3>1, <4>2
    <3>2. CASE k \notin s
      <4>1. s \in SUBSET (1 .. j) /\ g[s] = f[s]
        BY <2>4, <3>2
      <4>2. f[s] = IF s = {} THEN <<>> ELSE Append(f[s \ {Max(s)}], Max(s))
        BY <2>1, <4>1 DEF Listed
      <4>3. s \ {Max(s)} \in SUBSET (1 .. k) /\ k \notin s \ {Max(s)}
        BY <3>2
      <4>4. g[s \ {Max(s)}] = f[s \ {Max(s)}]
        BY <4>3
      <4> HIDE DEF g
      <4> QED  BY <4>1, <4>2, <4>4
    <3> QED  BY <3>1, <3>2
  <2>7. Listed(k, g)
    <3>1. DOMAIN g = SUBSET (1 .. k) /\ g = [s \in DOMAIN g |-> g[s]]
      OBVIOUS
    <3> HIDE DEF g
    <3> QED  BY <2>6, <3>1 DEF Listed
  <2> HIDE DEF g
  <2> QED  BY <2>2, <2>7 DEF k
<1>3. n \in S
  <2>1. 0 .. n \subseteq S
    <3> HIDE DEF S
    <3> QED  BY <1>1, <1>2, Climb
  <2> QED  BY <2>1
<1> DEFINE f == CHOOSE f : Listed(n, f)
<1>4. Listed(n, f)
  BY <1>3
<1>5. ASSUME NEW s \in SUBSET (1 .. n) PROVE InOrder(s, n) = f[s]
  BY DEF InOrder, Listed
<1> HIDE DEF f
<1> QED  BY <1>4, <1>5

\* No places, and one more behind all others.
LEMMA OrderNext ==
  ASSUME NEW n \in Nat
  PROVE  /\ InOrder({}, n) = <<>>
         /\ \A m \in 1 .. n : \A s \in SUBSET (1 .. (m - 1)) :
              InOrder(s \cup {m}, n) = Append(InOrder(s, n), m)
<1>1. PICK f : Listed(n, f) /\ \A s \in SUBSET (1 .. n) : InOrder(s, n) = f[s]
  BY OrderListed
<1>2. \A s \in SUBSET (1 .. n) : f[s] = IF s = {} THEN <<>> ELSE Append(f[s \ {Max(s)}], Max(s))
  BY <1>1 DEF Listed
<1>3. InOrder({}, n) = <<>>
  BY <1>1, <1>2
<1>4. ASSUME NEW m \in 1 .. n, NEW s \in SUBSET (1 .. (m - 1))
      PROVE  InOrder(s \cup {m}, n) = Append(InOrder(s, n), m)
  <2>1. s \cup {m} \subseteq Nat /\ \A i \in s \cup {m} : i <= m
    OBVIOUS
  <2>2. Max(s \cup {m}) = m
    BY <2>1, LastOne
  <2>3. (s \cup {m}) \ {m} = s /\ s \cup {m} \in SUBSET (1 .. n) /\ s \in SUBSET (1 .. n)
    OBVIOUS
  <2>4. f[s \cup {m}] = Append(f[s], m)
    BY <1>2, <2>2, <2>3
  <2> QED  BY <1>1, <2>3, <2>4
<1> QED  BY <1>3, <1>4

\* The places are those listed.
LEMMA OrderIn ==
  ASSUME NEW n \in Nat, NEW s \in SUBSET (1 .. n)
  PROVE  InOrder(s, n) \in Seq(s) /\ Range(InOrder(s, n)) = s
<1> DEFINE Good(t) == InOrder(t, n) \in Seq(t) /\ Range(InOrder(t, n)) = t
           S == {k \in 0 .. n : \A t \in SUBSET (1 .. k) : Good(t)}
<1>1. 0 \in S
  <2>1. \A t \in SUBSET (1 .. 0) : t = {}
    OBVIOUS
  <2>2. Good({})
    <3>1. InOrder({}, n) = <<>>
      BY OrderNext
    <3>2. <<>> \in Seq({}) /\ Range(<<>>) = {}
      BY DEF Range
    <3> QED  BY <3>1, <3>2
  <2>3. 0 \in 0 .. n
    OBVIOUS
  <2> HIDE DEF Good
  <2> QED  BY <2>1, <2>2, <2>3
<1>2. ASSUME NEW j \in 0 .. (n - 1), j \in S PROVE j + 1 \in S
  <2>1. j \in Nat /\ j + 1 \in 1 .. n /\ j + 1 \in 0 .. n /\ (j + 1) - 1 = j
    OBVIOUS
  <2>2. ASSUME NEW t \in SUBSET (1 .. (j + 1)) PROVE Good(t)
    <3>1. CASE j + 1 \in t
      <4> DEFINE r == t \ {j + 1}
                 q == InOrder(r, n)
      <4>1. r \in SUBSET (1 .. j) /\ t = r \cup {j + 1}
        BY <2>1, <3>1
      <4>2. q \in Seq(r) /\ Range(q) = r
        BY <1>2, <4>1
      <4> HIDE DEF r
      <4>3. InOrder(t, n) = Append(q, j + 1)
        BY <2>1, <4>1, OrderNext
      <4> HIDE DEF q
      <4>4. q \in Seq(t) /\ j + 1 \in t
        BY <4>1, <4>2
      <4>5. Append(q, j + 1) \in Seq(t)
        BY <4>4
      <4>6. Range(Append(q, j + 1)) = Range(q) \cup {j + 1}
        <5>1. DOMAIN Append(q, j + 1) = 1 .. (Len(q) + 1) /\ Len(q) \in Nat /\ DOMAIN q = 1 .. Len(q)
          BY <4>2
        <5>2. \A i \in 1 .. (Len(q) + 1) :
                Append(q, j + 1)[i] = IF i = Len(q) + 1 THEN j + 1 ELSE q[i]
          BY <4>2
        <5>3. \A i \in 1 .. (Len(q) + 1) : i = Len(q) + 1 \/ i \in 1 .. Len(q)
          BY <5>1
        <5>4. Len(q) + 1 \in 1 .. (Len(q) + 1) /\ \A i \in 1 .. Len(q) : i \in 1 .. (Len(q) + 1) /\ i # Len(q) + 1
          BY <5>1
        <5>5. Range(Append(q, j + 1)) \subseteq Range(q) \cup {j + 1}
          BY <5>1, <5>2, <5>3 DEF Range
        <5>6. Range(q) \cup {j + 1} \subseteq Range(Append(q, j + 1))
          BY <5>1, <5>2, <5>4 DEF Range
        <5> QED  BY <5>5, <5>6
      <4> QED  BY <4>1, <4>2, <4>3, <4>5, <4>6
    <3>2. CASE j + 1 \notin t
      <4>1. t \in SUBSET (1 .. j)
        BY <2>1, <3>2
      <4> QED  BY <1>2, <4>1
    <3> QED  BY <3>1, <3>2
  <2> HIDE DEF Good
  <2> QED  BY <2>1, <2>2
<1>3. n \in S
  <2>1. 0 .. n \subseteq S
    <3> HIDE DEF S
    <3> QED  BY <1>1, <1>2, Climb
  <2>2. n \in 0 .. n
    OBVIOUS
  <2> HIDE DEF S
  <2> QED  BY <2>1, <2>2
<1> QED  BY <1>3

LEMMA SeqWider ==
  ASSUME NEW T, NEW S \in SUBSET T, NEW q \in Seq(S)
  PROVE  q \in Seq(T) /\ \A j \in DOMAIN q : q[j] \in S
<1>1. Len(q) \in Nat /\ DOMAIN q = 1 .. Len(q) /\ \A j \in 1 .. Len(q) : q[j] \in S
  OBVIOUS
<1> QED  BY <1>1

\* What is told of places in order, with one more place.
Told(F, places, n) == [j \in DOMAIN InOrder(places, n) |-> F[InOrder(places, n)[j]]]

LEMMA MapNext ==
  ASSUME NEW n \in Nat, NEW m \in 1 .. n, NEW s \in SUBSET (1 .. (m - 1)), NEW F
  PROVE  Told(F, s \cup {m}, n) = Append(Told(F, s, n), F[m])
<1> DEFINE q == InOrder(s, n)
           V == {F[i] : i \in 1 .. n}
<1>1. s \in SUBSET (1 .. n) /\ s \cup {m} \in SUBSET (1 .. n)
  OBVIOUS
<1>2. q \in Seq(1 .. n)
  <2>1. q \in Seq(s)
    BY <1>1, OrderIn
  <2> HIDE DEF q
  <2> QED  BY <1>1, <2>1, SeqWider
<1>3. InOrder(s \cup {m}, n) = Append(q, m)
  BY OrderNext
<1> HIDE DEF q
<1>4. /\ DOMAIN q = 1 .. Len(q) /\ Len(q) \in Nat /\ \A j \in 1 .. Len(q) : q[j] \in 1 .. n
      /\ DOMAIN Append(q, m) = 1 .. (Len(q) + 1)
      /\ \A j \in 1 .. (Len(q) + 1) : Append(q, m)[j] = IF j = Len(q) + 1 THEN m ELSE q[j]
  BY <1>2
<1> DEFINE a == [j \in 1 .. Len(q) |-> F[q[j]]]
<1>5. Told(F, s, n) = a
  BY <1>4 DEF q, Told
<1>6. Told(F, s \cup {m}, n) = [j \in 1 .. (Len(q) + 1) |-> F[Append(q, m)[j]]]
  BY <1>3, <1>4 DEF Told
<1>7. a \in Seq(V) /\ Len(a) = Len(q) /\ F[m] \in V
  <2>1. \A j \in 1 .. Len(q) : F[q[j]] \in V
    BY <1>4
  <2>2. F[m] \in V
    OBVIOUS
  <2> HIDE DEF V
  <2> QED  BY <1>4, <2>1, <2>2
<1>8. /\ DOMAIN Append(a, F[m]) = 1 .. (Len(q) + 1)
      /\ Append(a, F[m]) = [j \in 1 .. (Len(q) + 1) |-> IF j = Len(q) + 1 THEN F[m] ELSE a[j]]
  <2> HIDE DEF a, V
  <2> QED  BY <1>4, <1>7
<1>9. \A j \in 1 .. (Len(q) + 1) : F[Append(q, m)[j]] = IF j = Len(q) + 1 THEN F[m] ELSE a[j]
  <2>1. \A j \in 1 .. (Len(q) + 1) : j # Len(q) + 1 => j \in 1 .. Len(q) /\ a[j] = F[q[j]]
    BY <1>4
  <2> HIDE DEF a
  <2> QED  BY <1>4, <2>1
<1> HIDE DEF a
<1> QED  BY <1>5, <1>6, <1>8, <1>9

-----------------------------------------------------------------------------
(* The parser.                                                             *)

GoodRows(rows) == rows \in Seq(Range(rows)) /\ \A i \in DOMAIN rows : IsRow(rows[i])

\* The types of the frequencies at some places.
Types(rows, places) ==
  LET order == InOrder(places, Len(rows)) IN [k \in DOMAIN order |-> TypeOf(rows[order[k]])]

LEMMA ValuesNext ==
  ASSUME NEW rows, GoodRows(rows), NEW m \in 1 .. Len(rows), NEW s \in SUBSET (1 .. (m - 1))
  PROVE  /\ Values(rows, {}) = <<>> /\ Types(rows, {}) = <<>>
         /\ Values(rows, s \cup {m}) = Append(Values(rows, s), rows[m].value)
         /\ Types(rows, s \cup {m}) = Append(Types(rows, s), TypeOf(rows[m]))
<1> DEFINE n == Len(rows)
           F == [i \in 1 .. n |-> rows[i].value]
           G == [i \in 1 .. n |-> TypeOf(rows[i])]
<1>1. n \in Nat /\ F[m] = rows[m].value /\ G[m] = TypeOf(rows[m])
  BY DEF GoodRows
<1>2. ASSUME NEW t \in SUBSET (1 .. n)
      PROVE  Values(rows, t) = Told(F, t, n) /\ Types(rows, t) = Told(G, t, n)
  <2>1. InOrder(t, n) \in Seq(t)
    BY <1>1, OrderIn
  <2>2. \A j \in DOMAIN InOrder(t, n) : InOrder(t, n)[j] \in 1 .. n
    BY <2>1, SeqWider
  <2>3. \A j \in DOMAIN InOrder(t, n) :
          /\ F[InOrder(t, n)[j]] = rows[InOrder(t, n)[j]].value
          /\ G[InOrder(t, n)[j]] = TypeOf(rows[InOrder(t, n)[j]])
    BY <2>2
  <2>4. /\ Told(F, t, n) = [j \in DOMAIN InOrder(t, n) |-> F[InOrder(t, n)[j]]]
        /\ Told(G, t, n) = [j \in DOMAIN InOrder(t, n) |-> G[InOrder(t, n)[j]]]
    BY DEF Told
  <2>5. /\ Values(rows, t) = [j \in DOMAIN InOrder(t, n) |-> rows[InOrder(t, n)[j]].value]
        /\ Types(rows, t) = [j \in DOMAIN InOrder(t, n) |-> TypeOf(rows[InOrder(t, n)[j]])]
    BY DEF Values, Types
  <2> HIDE DEF F, G, n
  <2> QED  BY <2>3, <2>4, <2>5
<1>3. /\ Told(F, s \cup {m}, n) = Append(Told(F, s, n), F[m])
      /\ Told(G, s \cup {m}, n) = Append(Told(G, s, n), G[m])
  <2> HIDE DEF F, G, n
  <2>1. m \in 1 .. n
    BY DEF n
  <2> QED  BY <1>1, <2>1, MapNext
<1>4. s \in SUBSET (1 .. n) /\ s \cup {m} \in SUBSET (1 .. n)
  BY <1>1
<1>5. Values(rows, {}) = <<>> /\ Types(rows, {}) = <<>>
  <2>1. InOrder({}, n) = <<>>
    BY <1>1, OrderNext
  <2> QED  BY <2>1 DEF Values, Types
<1> HIDE DEF F, G, n
<1> QED  BY <1>1, <1>2, <1>3, <1>4, <1>5

\* The parser in the section of header h, by the places of its rows that count.
Shaped(p) ==
  /\ DOMAIN p = {"result", "building", "header", "current", "datum", "mid"}
  /\ DOMAIN p.current = {"icao", "lat", "lon", "freqs", "runways"}

Under(p, rows, h, result) ==
  /\ Shaped(p) /\ p.building /\ p.result = result
  /\ p.header = [code |-> rows[h].code, id |-> rows[h].id, closed |-> rows[h].closed]

Assembled(p, rows, codes, lats, lons, freqs, strips) ==
  /\ p.current.icao = IF codes = {} THEN NoCode ELSE rows[Max(codes)].id
  /\ p.current.lat = IF lats = {} THEN 0 ELSE rows[Max(lats)].value
  /\ p.current.lon = IF lons = {} THEN 0 ELSE rows[Max(lons)].value
  /\ p.current.freqs = Types(rows, freqs)
  /\ p.current.runways = Values(rows, strips)
  /\ p.datum <=> lats # {} \/ lons # {}
  /\ p.mid = IF strips = {} THEN 0 ELSE rows[Min(strips)].value

\* The same after row k.
Inside(p, rows, h, k, result) ==
  /\ Under(p, rows, h, result)
  /\ Assembled(p, rows, Of(rows, (h + 1) .. k, "icao"),
               Parsed(rows, (h + 1) .. k, "lat"), Parsed(rows, (h + 1) .. k, "lon"),
               Of(rows, (h + 1) .. k, "freq"), Parsed(rows, (h + 1) .. k, "runway"))

\* The last place is the new one, and the first stays.
LEMMA EndsNext ==
  ASSUME NEW m \in Nat, NEW s \in SUBSET (1 .. (m - 1))
  PROVE  /\ Max(s \cup {m}) = m /\ s \cup {m} # {}
         /\ Min(s \cup {m}) = IF s = {} THEN m ELSE Min(s)
<1>1. s \subseteq Nat /\ s \cup {m} \subseteq Nat /\ \A i \in s : i <= m /\ i # m
  OBVIOUS
<1>2. Max(s \cup {m}) = m
  <2>1. m \in s \cup {m} /\ \A i \in s \cup {m} : i <= m
    BY <1>1
  <2> QED  BY <1>1, <2>1, LastOne
<1>3. CASE s = {}
  <2>1. Min({m}) = m
    BY DEF Min
  <2> QED  BY <1>2, <1>3, <2>1
<1>4. CASE s # {}
  <2>1. Min(s) \in s
    BY <1>1, <1>4, MinIn
  <2>2. \E x \in s : \A y \in s : x =< y
    <3>1. PICK x \in s : \A y \in s : ~(<<y, x>> \in OpToRel(<, Nat))
      BY <1>1, <1>4, WFMin, NatLessThanWellFounded
    <3>2. ASSUME NEW y \in s PROVE x =< y
      <4>1. x \in Nat /\ y \in Nat
        OBVIOUS
      <4>2. ~(y < x)
        BY <1>1, <3>1, <4>1 DEF OpToRel
      <4> QED  BY <4>1, <4>2
    <3> QED  BY <3>2
  <2>3. \A y \in s : Min(s) =< y
    BY <2>2 DEF Min
  <2> DEFINE x == Min(s)
  <2> HIDE DEF x
  <2>4. x \in s /\ (\A y \in s : x =< y) /\ \A y \in s \cup {m} : y \in Nat /\ y <= m
    BY <1>1, <2>1, <2>3 DEF x
  <2>5. \A y \in s \cup {m} : x =< y
    BY <2>4
  <2>6. \A z \in s \cup {m} : (\A y \in s \cup {m} : z =< y) => z = x
    BY <2>4, <2>5
  <2>7. Min(s \cup {m}) = x
    BY <2>4, <2>5, <2>6 DEF Min
  <2> QED  BY <1>2, <1>4, <2>7 DEF x
<1> QED  BY <1>3, <1>4

\* A row of a section is taken into the airport under assembly.
LEMMA RowInside ==
  ASSUME NEW rows, GoodRows(rows), NEW h \in Nat, NEW k \in Nat, h <= k,
         k + 1 \in DOMAIN rows, rows[k + 1].kind # "header", NEW result,
         NEW p, Inside(p, rows, h, k, result)
  PROVE  Inside(Row(p, rows[k + 1]), rows, h, k + 1, result)
<1> DEFINE row == rows[k + 1]
           now == (h + 1) .. k
           then == (h + 1) .. (k + 1)
           q == Row(p, row)
           codes == Of(rows, now, "icao")
           lats == Parsed(rows, now, "lat")
           lons == Parsed(rows, now, "lon")
           freqs == Of(rows, now, "freq")
           strips == Parsed(rows, now, "runway")
<1> SUFFICES Inside(q, rows, h, k + 1, result)
  OBVIOUS
<1>0. then = now \cup {k + 1} /\ now \in SUBSET (1 .. ((k + 1) - 1))
  OBVIOUS
<1>1. Under(p, rows, h, result) /\ Assembled(p, rows, codes, lats, lons, freqs, strips)
  BY DEF Inside
<1>2. /\ Of(rows, then, "icao") = IF row.kind = "icao" THEN codes \cup {k + 1} ELSE codes
      /\ Of(rows, then, "freq") = IF row.kind = "freq" THEN freqs \cup {k + 1} ELSE freqs
  <2> HIDE DEF now, then
  <2>1. Of(rows, then, "icao") = IF row.kind = "icao" THEN codes \cup {k + 1} ELSE codes
    BY <1>0 DEF Of
  <2>2. Of(rows, then, "freq") = IF row.kind = "freq" THEN freqs \cup {k + 1} ELSE freqs
    BY <1>0 DEF Of
  <2> QED  BY <2>1, <2>2
<1>3. /\ Parsed(rows, then, "lat")
           = IF row.kind = "lat" /\ row.value # 0 THEN lats \cup {k + 1} ELSE lats
      /\ Parsed(rows, then, "lon")
           = IF row.kind = "lon" /\ row.value # 0 THEN lons \cup {k + 1} ELSE lons
      /\ Parsed(rows, then, "runway")
           = IF row.kind = "runway" /\ row.value # 0 THEN strips \cup {k + 1} ELSE strips
  <2> HIDE DEF now, then
  <2>1. Parsed(rows, then, "lat")
          = IF row.kind = "lat" /\ row.value # 0 THEN lats \cup {k + 1} ELSE lats
    BY <1>0 DEF Of, Parsed
  <2>2. Parsed(rows, then, "lon")
          = IF row.kind = "lon" /\ row.value # 0 THEN lons \cup {k + 1} ELSE lons
    BY <1>0 DEF Of, Parsed
  <2>3. Parsed(rows, then, "runway")
          = IF row.kind = "runway" /\ row.value # 0 THEN strips \cup {k + 1} ELSE strips
    BY <1>0 DEF Of, Parsed
  <2> QED  BY <2>1, <2>2, <2>3
<1>4. /\ codes \in SUBSET (1 .. ((k + 1) - 1)) /\ lats \in SUBSET (1 .. ((k + 1) - 1))
      /\ lons \in SUBSET (1 .. ((k + 1) - 1)) /\ freqs \in SUBSET (1 .. ((k + 1) - 1))
      /\ strips \in SUBSET (1 .. ((k + 1) - 1))
  <2> HIDE DEF now
  <2> QED  BY <1>0 DEF Of, Parsed
<1>5. k + 1 \in Nat /\ k + 1 \in 1 .. Len(rows)
  BY DEF GoodRows
<1>6. row.kind \in {"lat", "lon", "icao", "freq", "runway"}
  BY DEF GoodRows, IsRow, Kinds
<1>7. Under(q, rows, h, result) /\ Assembled(q, rows, Of(rows, then, "icao"),
        Parsed(rows, then, "lat"), Parsed(rows, then, "lon"),
        Of(rows, then, "freq"), Parsed(rows, then, "runway"))
      => Inside(q, rows, h, k + 1, result)
  BY DEF Inside
<1>8. strips # {} => rows[Min(strips)].value # 0
  <2>1. strips # {} => Min(strips) \in strips
    <3>1. strips \in SUBSET Nat
      BY <1>4
    <3> HIDE DEF strips
    <3> QED  BY <3>1, MinIn
  <2> QED  BY <2>1 DEF Parsed
<1> HIDE DEF codes, lats, lons, freqs, strips, row, then, now
<1>9. p.building
  BY <1>1 DEF Under
<1>10. CASE row.kind = "icao"
  <2>1. q = [p EXCEPT !.current.icao = row.id]
    BY <1>9, <1>10 DEF Row
  <2>2. Max(codes \cup {k + 1}) = k + 1 /\ codes \cup {k + 1} # {}
    BY <1>4, <1>5, EndsNext
  <2>3. Under(q, rows, h, result)
    BY <1>1, <2>1 DEF Under, Shaped
  <2>4. Assembled(q, rows, codes \cup {k + 1}, lats, lons, freqs, strips)
    <3> HIDE DEF q
    <3> QED  BY <1>1, <2>1, <2>2 DEF Assembled, Under, Shaped, row
  <2> HIDE DEF q
  <2> QED  BY <1>2, <1>3, <1>7, <1>10, <2>3, <2>4
<1>11. CASE row.kind = "lat" /\ row.value # 0
  <2>1. q = [p EXCEPT !.current.lat = row.value, !.datum = TRUE]
    BY <1>9, <1>11 DEF Row
  <2>2. Max(lats \cup {k + 1}) = k + 1 /\ lats \cup {k + 1} # {}
    BY <1>4, <1>5, EndsNext
  <2>3. Under(q, rows, h, result)
    BY <1>1, <2>1 DEF Under, Shaped
  <2>4. Assembled(q, rows, codes, lats \cup {k + 1}, lons, freqs, strips)
    <3> HIDE DEF q
    <3> QED  BY <1>1, <2>1, <2>2 DEF Assembled, Under, Shaped, row
  <2> HIDE DEF q
  <2> QED  BY <1>2, <1>3, <1>7, <1>11, <2>3, <2>4
<1>12. CASE row.kind = "lon" /\ row.value # 0
  <2>1. q = [p EXCEPT !.current.lon = row.value, !.datum = TRUE]
    BY <1>9, <1>12 DEF Row
  <2>2. Max(lons \cup {k + 1}) = k + 1 /\ lons \cup {k + 1} # {}
    BY <1>4, <1>5, EndsNext
  <2>3. Under(q, rows, h, result)
    BY <1>1, <2>1 DEF Under, Shaped
  <2>4. Assembled(q, rows, codes, lats, lons \cup {k + 1}, freqs, strips)
    <3> HIDE DEF q
    <3> QED  BY <1>1, <2>1, <2>2 DEF Assembled, Under, Shaped, row
  <2> HIDE DEF q
  <2> QED  BY <1>2, <1>3, <1>7, <1>12, <2>3, <2>4
<1>13. CASE row.kind = "freq"
  <2>1. q = [p EXCEPT !.current.freqs = Append(@, TypeOf(row))]
    BY <1>9, <1>13 DEF Row
  <2>2. Types(rows, freqs \cup {k + 1}) = Append(Types(rows, freqs), TypeOf(row))
    BY <1>4, <1>5, ValuesNext DEF row
  <2>3. Under(q, rows, h, result)
    BY <1>1, <2>1 DEF Under, Shaped
  <2>4. Assembled(q, rows, codes, lats, lons, freqs \cup {k + 1}, strips)
    <3> HIDE DEF q
    <3> QED  BY <1>1, <2>1, <2>2 DEF Assembled, Under, Shaped
  <2> HIDE DEF q
  <2> QED  BY <1>2, <1>3, <1>7, <1>13, <2>3, <2>4
<1>14. CASE row.kind = "runway" /\ row.value # 0
  <2>1. q = [p EXCEPT !.current.runways = Append(@, row.value),
                      !.mid = IF @ = 0 THEN row.value ELSE @]
    BY <1>9, <1>14 DEF Row
  <2>2. Values(rows, strips \cup {k + 1}) = Append(Values(rows, strips), row.value)
    BY <1>4, <1>5, ValuesNext DEF row
  <2>3. /\ Min(strips \cup {k + 1}) = (IF strips = {} THEN k + 1 ELSE Min(strips))
        /\ strips \cup {k + 1} # {}
    BY <1>4, <1>5, EndsNext
  <2>4. Under(q, rows, h, result)
    BY <1>1, <2>1 DEF Under, Shaped
  <2>5. Assembled(q, rows, codes, lats, lons, freqs, strips \cup {k + 1})
    <3> HIDE DEF q
    <3> QED  BY <1>1, <1>8, <2>1, <2>2, <2>3 DEF Assembled, Under, Shaped, row
  <2> HIDE DEF q
  <2> QED  BY <1>2, <1>3, <1>7, <1>14, <2>4, <2>5
<1>15. CASE row.kind \in {"lat", "lon", "runway"} /\ row.value = 0
  <2>1. q = p
    BY <1>9, <1>15 DEF Row
  <2> HIDE DEF q
  <2> QED  BY <1>1, <1>2, <1>3, <1>7, <1>15, <2>1
<1> QED  BY <1>6, <1>10, <1>11, <1>12, <1>13, <1>14, <1>15

\* What flush() makes of an airport that was assembled is the airport of its section.
LEMMA FlushInside ==
  ASSUME NEW rows, GoodRows(rows), NEW h \in Nat, NEW k \in Nat, h <= k, k <= Len(rows),
         Section(rows, h) = (h + 1) .. k, Candidate(rows[h].id),
         NEW result, NEW p, Inside(p, rows, h, k, result)
  PROVE  Flush(p) = Between(IF Wanted(rows, h) THEN Append(result, AirportOf(rows, h)) ELSE result)
<1> DEFINE section == Section(rows, h)
           codes == Of(rows, section, "icao")
           lats == Parsed(rows, section, "lat")
           lons == Parsed(rows, section, "lon")
           freqs == Of(rows, section, "freq")
           strips == Parsed(rows, section, "runway")
           icao == IF p.current.icao = NoCode THEN p.header.id ELSE p.current.icao
           apt == Finished([p.current EXCEPT !.icao = icao], p.datum, p.mid)
           fallback == IF lats = {} /\ lons = {} /\ strips # {} THEN rows[Min(strips)].value ELSE 0
<1>1. Under(p, rows, h, result) /\ Assembled(p, rows, codes, lats, lons, freqs, strips)
  BY DEF Inside
<1>2. Len(rows) \in Nat /\ section \in SUBSET (1 .. Len(rows))
  BY DEF GoodRows
<1>3. codes # {} => Max(codes) \in codes
  <2>1. codes \in SUBSET (1 .. Len(rows))
    BY <1>2 DEF Of
  <2> HIDE DEF codes
  <2> QED  BY <1>2, <2>1, MaxIn
<1>4. codes # {} => rows[Max(codes)].id # NoCode
  <2>1. \A i \in codes : i \in DOMAIN rows /\ rows[i].kind = "icao"
    BY DEF Of, Section
  <2> HIDE DEF codes
  <2> QED  BY <1>3, <2>1 DEF GoodRows, IsRow
<1>5. strips # {} => rows[Min(strips)].value # 0
  <2>1. strips \in SUBSET Nat
    BY <1>2 DEF Parsed, Of
  <2>2. strips # {} => Min(strips) \in strips
    <3> HIDE DEF strips
    <3> QED  BY <2>1, MinIn
  <2> QED  BY <2>2 DEF Parsed
<1>6. Code(rows, h, section) = IF codes = {} THEN rows[h].id ELSE rows[Max(codes)].id
  BY DEF Code
<1>7. AirportOf(rows, h) =
        [icao |-> Code(rows, h, section), runways |-> Values(rows, strips),
         facility |-> Facility({TypeOf(rows[i]) : i \in freqs}),
         lat |-> IF lats = {} THEN fallback ELSE rows[Max(lats)].value,
         lon |-> IF lons = {} THEN fallback ELSE rows[Max(lons)].value]
  BY DEF AirportOf
<1>8. Range(Types(rows, freqs)) = {TypeOf(rows[i]) : i \in freqs}
  <2>1. freqs \in SUBSET (1 .. Len(rows))
    BY <1>2 DEF Of
  <2> HIDE DEF freqs
  <2>2. Range(InOrder(freqs, Len(rows))) = freqs
    BY <1>2, <2>1, OrderIn
  <2> QED  BY <2>2 DEF Types, Range
<1>9. Flush(p) = Reset(p, IF Kept(p, icao) THEN Append(p.result, apt) ELSE p.result)
  BY DEF Flush
<1> HIDE DEF codes, lats, lons, freqs, strips, section
<1>10. icao = Code(rows, h, section)
  BY <1>1, <1>4, <1>6 DEF Under, Assembled
<1>11. Kept(p, icao) <=> Wanted(rows, h)
  BY <1>1, <1>10 DEF Kept, KeptUnder, Wanted, Under, section
<1>12. apt = AirportOf(rows, h)
  <2> DEFINE c == [p.current EXCEPT !.icao = icao]
  <2> HIDE DEF icao
  <2>1. /\ c.icao = icao /\ c.lat = p.current.lat /\ c.lon = p.current.lon
        /\ c.freqs = p.current.freqs /\ c.runways = p.current.runways
    BY <1>1 DEF Under, Shaped
  <2> HIDE DEF c
  <2>2. Facility(Range(c.freqs)) = Facility({TypeOf(rows[i]) : i \in freqs})
    BY <1>1, <1>8, <2>1 DEF Assembled
  <2>3. (IF ~p.datum /\ p.mid # 0 THEN p.mid ELSE c.lat)
          = IF lats = {} THEN fallback ELSE rows[Max(lats)].value
    BY <1>1, <1>5, <2>1 DEF Assembled
  <2>4. (IF ~p.datum /\ p.mid # 0 THEN p.mid ELSE c.lon)
          = IF lons = {} THEN fallback ELSE rows[Max(lons)].value
    BY <1>1, <1>5, <2>1 DEF Assembled
  <2>5. c.runways = Values(rows, strips)
    BY <1>1, <2>1 DEF Assembled
  <2>6. apt = [icao |-> c.icao, runways |-> c.runways, facility |-> Facility(Range(c.freqs)),
               lat |-> IF ~p.datum /\ p.mid # 0 THEN p.mid ELSE c.lat,
               lon |-> IF ~p.datum /\ p.mid # 0 THEN p.mid ELSE c.lon]
    BY DEF Finished, c
  <2> HIDE DEF apt, fallback
  <2> QED  BY <1>7, <1>10, <2>1, <2>2, <2>3, <2>4, <2>5, <2>6
<1>13. p.result = result
  BY <1>1 DEF Under
<1> HIDE DEF apt, icao
<1> QED  BY <1>9, <1>11, <1>12, <1>13 DEF Reset

\* A header that may be of an airport opens a section in which nothing counts yet.
LEMMA HeaderOpens ==
  ASSUME NEW rows, GoodRows(rows), NEW h \in DOMAIN rows, rows[h].kind = "header",
         NEW p, NEW result, Flush(p) = Between(result)
  PROVE  IF Candidate(rows[h].id) THEN Inside(Row(p, rows[h]), rows, h, h, result)
         ELSE Row(p, rows[h]) = Between(result)
<1> DEFINE row == rows[h]
           header == [code |-> row.code, id |-> row.id, closed |-> row.closed]
           q == [Between(result) EXCEPT !.building = TRUE, !.header = header]
<1>1. Len(rows) \in Nat /\ h \in 1 .. Len(rows)
  BY DEF GoodRows
<1>2. Row(p, row) = IF Candidate(row.id) THEN q ELSE Between(result)
  BY DEF Row
<1>3. /\ Shaped(q) /\ q.building /\ q.result = result /\ q.header = header
      /\ q.current = NoAirport /\ ~q.datum /\ q.mid = 0
  <2> HIDE DEF header
  <2> QED  BY DEF Between, NoAirport, Shaped
<1>4. Values(rows, {}) = <<>> /\ Types(rows, {}) = <<>>
  BY <1>1, ValuesNext
<1>5. \A kind : Of(rows, (h + 1) .. h, kind) = {} /\ Parsed(rows, (h + 1) .. h, kind) = {}
  <2>1. (h + 1) .. h = {}
    BY <1>1
  <2> QED  BY <2>1 DEF Of, Parsed
<1> HIDE DEF q
<1>6. Assembled(q, rows, {}, {}, {}, {}, {})
  BY <1>3, <1>4 DEF Assembled, NoAirport
<1>7. Under(q, rows, h, result)
  BY <1>3 DEF Under
<1>8. Inside(q, rows, h, h, result)
  BY <1>5, <1>6, <1>7 DEF Inside
<1> QED  BY <1>2, <1>8

\* The airports of the sections whose header is before place k.
Before(rows, k) == {g \in Headers(rows) : Wanted(rows, g) /\ g < k}
Done(rows, k) ==
  LET order == InOrder(Before(rows, k), Len(rows)) IN [j \in DOMAIN order |-> AirportOf(rows, order[j])]

LEMMA DoneNext ==
  ASSUME NEW rows, GoodRows(rows), NEW k \in 1 .. (Len(rows) + 1)
  PROVE  /\ (\A i \in 1 .. (k - 1) : rows[i].kind # "header") => Done(rows, k) = <<>>
         /\ \A h \in 1 .. (k - 1) :
              rows[h].kind = "header" /\ (\A i \in (h + 1) .. (k - 1) : rows[i].kind # "header")
              => Done(rows, k) = IF Wanted(rows, h) THEN Append(Done(rows, h), AirportOf(rows, h))
                                 ELSE Done(rows, h)
<1> DEFINE n == Len(rows)
           F == [g \in 1 .. n |-> AirportOf(rows, g)]
<1>1. n \in Nat /\ DOMAIN rows = 1 .. n
  BY DEF GoodRows
<1>2. Headers(rows) = {i \in 1 .. n : rows[i].kind = "header"}
  BY <1>1 DEF Headers
<1>3. ASSUME NEW j PROVE Done(rows, j) = Told(F, Before(rows, j), n)
  <2> DEFINE order == InOrder(Before(rows, j), n)
  <2>1. Before(rows, j) \in SUBSET (1 .. n)
    BY <1>2 DEF Before
  <2>2. order \in Seq(Before(rows, j))
    <3> HIDE DEF n
    <3> QED  BY <1>1, <2>1, OrderIn
  <2>3. \A i \in DOMAIN order : order[i] \in 1 .. n
    <3> HIDE DEF order, n
    <3> QED  BY <2>1, <2>2, SeqWider
  <2>4. \A i \in DOMAIN order : F[order[i]] = AirportOf(rows, order[i])
    <3> HIDE DEF order
    <3> QED  BY <2>3
  <2>5. Done(rows, j) = [i \in DOMAIN order |-> AirportOf(rows, order[i])]
    BY DEF Done
  <2>6. Told(F, Before(rows, j), n) = [i \in DOMAIN order |-> F[order[i]]]
    BY DEF Told
  <2> HIDE DEF order, F, n
  <2> QED  BY <2>4, <2>5, <2>6
<1>4. ASSUME \A i \in 1 .. (k - 1) : rows[i].kind # "header"
      PROVE  Done(rows, k) = <<>>
  <2>1. Before(rows, k) = {}
    BY <1>1, <1>2, <1>4 DEF Before
  <2>2. InOrder({}, Len(rows)) = <<>>
    BY <1>1, OrderNext
  <2> QED  BY <2>1, <2>2 DEF Done
<1>5. ASSUME NEW h \in 1 .. (k - 1), rows[h].kind = "header",
             \A i \in (h + 1) .. (k - 1) : rows[i].kind # "header"
      PROVE  Done(rows, k) = IF Wanted(rows, h) THEN Append(Done(rows, h), AirportOf(rows, h))
                             ELSE Done(rows, h)
  <2>1. h \in 1 .. n /\ h \in Nat /\ F[h] = AirportOf(rows, h)
    BY <1>1
  <2>2. \A g \in Headers(rows) : g < k <=> g < h \/ g = h
    <3>1. \A g \in Headers(rows) : g \in Nat /\ g < k /\ ~(g < h) /\ g # h => g \in (h + 1) .. (k - 1)
      BY <1>1, <1>2
    <3>2. \A g \in Headers(rows) : g \in Nat /\ rows[g].kind = "header"
      BY <1>2
    <3>3. \A g \in Nat : g < h \/ g = h => g < k
      BY <1>1
    <3> QED  BY <1>5, <3>1, <3>2, <3>3
  <2>3. h \in Headers(rows) /\ \A g \in Headers(rows) : g < h => g \in 1 .. (h - 1)
    BY <1>2, <1>5, <2>1
  <2>4. Before(rows, k) = (IF Wanted(rows, h) THEN Before(rows, h) \cup {h} ELSE Before(rows, h))
    BY <2>2, <2>3 DEF Before
  <2>5. Before(rows, h) \in SUBSET (1 .. (h - 1))
    BY <2>3 DEF Before
  <2>6. Told(F, Before(rows, h) \cup {h}, n) = Append(Told(F, Before(rows, h), n), F[h])
    <3> HIDE DEF F, n
    <3> QED  BY <1>1, <2>1, <2>5, MapNext
  <2> HIDE DEF F, n
  <2> QED  BY <1>3, <2>1, <2>4, <2>6
<1> QED  BY <1>4, <1>5

\* Where the parser is after row k.
Taken(p, rows, k) ==
  \/ (\A i \in 1 .. k : rows[i].kind # "header") /\ p = Between(<<>>)
  \/ \E h \in 1 .. k :
       /\ rows[h].kind = "header" /\ \A i \in (h + 1) .. k : rows[i].kind # "header"
       /\ IF Candidate(rows[h].id) THEN Inside(p, rows, h, k, Done(rows, h))
          ELSE p = Between(Done(rows, h))

LEMMA FlushBetween == ASSUME NEW result PROVE Flush(Between(result)) = Between(result)
<1>1. ~Between(result).building /\ Between(result).result = result
  BY DEF Between
<1> QED  BY <1>1 DEF Flush, Reset, Kept, KeptUnder

\* A section goes on to the next header or the end of the file.
LEMMA SectionEnds ==
  ASSUME NEW rows, NEW n \in Nat, DOMAIN rows = 1 .. n, NEW k \in 1 .. n, NEW h \in 1 .. k,
         \A i \in (h + 1) .. k : rows[i].kind # "header",
         k < n => rows[k + 1].kind = "header"
  PROVE  Section(rows, h) = (h + 1) .. k
<1>1. Section(rows, h) = {i \in 1 .. n : h < i /\ \A g \in Headers(rows) : h < g => i < g}
  BY DEF Section
<1>2. \A g \in Headers(rows) : g \in 1 .. n /\ rows[g].kind = "header"
  BY DEF Headers
<1>3. \A g \in Headers(rows) : h < g => k < g
  <2>1. \A g \in 1 .. n : h < g /\ ~(k < g) => g \in (h + 1) .. k
    OBVIOUS
  <2> QED  BY <1>2, <2>1
<1>4. ASSUME NEW i \in (h + 1) .. k PROVE i \in Section(rows, h)
  <2>1. i \in 1 .. n /\ h < i
    OBVIOUS
  <2>2. \A g \in 1 .. n : k < g => i < g
    OBVIOUS
  <2> QED  BY <1>1, <1>2, <1>3, <2>1, <2>2
<1>5. ASSUME NEW i \in Section(rows, h) PROVE i \in (h + 1) .. k
  <2>1. i \in 1 .. n /\ h < i /\ \A g \in Headers(rows) : h < g => i < g
    BY <1>1
  <2>2. k < n => k + 1 \in Headers(rows)
    BY DEF Headers
  <2>3. k < n => i < k + 1
    <3>1. h < k + 1
      OBVIOUS
    <3> QED  BY <2>1, <2>2, <3>1
  <2> QED  BY <2>1, <2>3
<1> QED  BY <1>4, <1>5

\* Where a section ends, flush() leaves the airports so far.
LEMMA FlushTaken ==
  ASSUME NEW rows, GoodRows(rows), NEW n \in Nat, n = Len(rows), NEW k \in 0 .. n,
         NEW p, Taken(p, rows, k), k < n => rows[k + 1].kind = "header"
  PROVE  Flush(p) = Between(Done(rows, k + 1))
<1>1. DOMAIN rows = 1 .. n
  BY DEF GoodRows
<1>2. k + 1 \in 1 .. (n + 1) /\ (k + 1) - 1 = k
  OBVIOUS
<1>3. CASE (\A i \in 1 .. k : rows[i].kind # "header") /\ p = Between(<<>>)
  <2>1. Done(rows, k + 1) = <<>>
    BY <1>2, <1>3, DoneNext
  <2> QED  BY <1>3, <2>1, FlushBetween
<1>4. ASSUME NEW h \in 1 .. k, rows[h].kind = "header",
             \A i \in (h + 1) .. k : rows[i].kind # "header",
             IF Candidate(rows[h].id) THEN Inside(p, rows, h, k, Done(rows, h))
             ELSE p = Between(Done(rows, h))
      PROVE  Flush(p) = Between(Done(rows, k + 1))
  <2>1. Done(rows, k + 1) = IF Wanted(rows, h) THEN Append(Done(rows, h), AirportOf(rows, h))
                            ELSE Done(rows, h)
    BY <1>2, <1>4, DoneNext
  <2>2. h \in Nat /\ k \in Nat /\ h <= k /\ k <= n /\ k \in 1 .. n
    OBVIOUS
  <2>3. Section(rows, h) = (h + 1) .. k
    BY <1>1, <1>4, <2>2, SectionEnds
  <2>4. CASE Candidate(rows[h].id)
    <3>1. Inside(p, rows, h, k, Done(rows, h))
      BY <1>4, <2>4
    <3>2. Flush(p) = Between(IF Wanted(rows, h) THEN Append(Done(rows, h), AirportOf(rows, h))
                             ELSE Done(rows, h))
      BY <2>2, <2>3, <2>4, <3>1, FlushInside
    <3> QED  BY <2>1, <3>2
  <2>5. CASE ~Candidate(rows[h].id)
    <3>1. ~Wanted(rows, h) /\ p = Between(Done(rows, h))
      BY <1>4, <2>5 DEF Wanted
    <3> QED  BY <2>1, <3>1, FlushBetween
  <2> QED  BY <2>4, <2>5
<1> QED  BY <1>3, <1>4 DEF Taken

\* A row more.
LEMMA RowTaken ==
  ASSUME NEW rows, GoodRows(rows), NEW k \in 0 .. (Len(rows) - 1), NEW p, Taken(p, rows, k)
  PROVE  Taken(Row(p, rows[k + 1]), rows, k + 1)
<1> DEFINE m == k + 1
           q == Row(p, rows[m])
<1>1. /\ Len(rows) \in Nat /\ m \in DOMAIN rows /\ k \in 0 .. Len(rows) /\ k \in Nat
      /\ m \in 1 .. m /\ (m + 1) .. m = {}
  BY DEF GoodRows
<1>2. CASE rows[m].kind = "header"
  <2>1. Flush(p) = Between(Done(rows, m))
    BY <1>1, <1>2, FlushTaken
  <2>2. IF Candidate(rows[m].id) THEN Inside(q, rows, m, m, Done(rows, m))
        ELSE q = Between(Done(rows, m))
    <3> HIDE DEF m
    <3> QED  BY <1>1, <1>2, <2>1, HeaderOpens
  <2>3. Taken(q, rows, m)
    <3> HIDE DEF m, q
    <3> QED  BY <1>1, <1>2, <2>2 DEF Taken
  <2> QED  BY <2>3
<1>3. CASE rows[m].kind # "header"
  <2>1. \A r : Row(Between(r), rows[m]) = Between(r)
    <3>1. \A r : ~Between(r).building
      BY DEF Between
    <3> HIDE DEF m
    <3> QED  BY <1>3, <3>1 DEF Row
  <2>2. CASE (\A i \in 1 .. k : rows[i].kind # "header") /\ p = Between(<<>>)
    <3>1. \A i \in 1 .. m : i = m \/ i \in 1 .. k
      BY <1>1
    <3>2. \A i \in 1 .. m : rows[i].kind # "header"
      BY <1>3, <2>2, <3>1
    <3>3. q = Between(<<>>)
      BY <2>1, <2>2
    <3> HIDE DEF m, q
    <3>4. Taken(q, rows, m)
      BY <3>2, <3>3 DEF Taken
    <3> QED  BY <3>4 DEF m, q
  <2>3. ASSUME NEW h \in 1 .. k, rows[h].kind = "header",
               \A i \in (h + 1) .. k : rows[i].kind # "header",
               IF Candidate(rows[h].id) THEN Inside(p, rows, h, k, Done(rows, h))
               ELSE p = Between(Done(rows, h))
        PROVE  Taken(q, rows, m)
    <3>1. h \in Nat /\ h <= k /\ h \in 1 .. m /\ \A i \in (h + 1) .. m : i = m \/ i \in (h + 1) .. k
      BY <1>1
    <3>2. \A i \in (h + 1) .. m : rows[i].kind # "header"
      BY <1>3, <2>3, <3>1
    <3>3. Candidate(rows[h].id) => Inside(q, rows, h, m, Done(rows, h))
      BY <1>1, <1>3, <2>3, <3>1, RowInside
    <3>4. ~Candidate(rows[h].id) => q = Between(Done(rows, h))
      BY <2>1, <2>3
    <3> HIDE DEF m, q
    <3> QED  BY <2>3, <3>1, <3>2, <3>3, <3>4 DEF Taken
  <2> QED  BY <2>2, <2>3 DEF Taken
<1> QED  BY <1>2, <1>3

\* parse_apt_dat() returns what the file says, airport by airport.
LEMMA ParsedRight ==
  ASSUME NEW rows, GoodRows(rows)
  PROVE  Parse(rows) = AirportsOf(rows)
<1> DEFINE n == Len(rows)
<1>1. n \in Nat
  BY DEF GoodRows
<1>2. PICK after : After(rows, after) /\ Parse(rows) = Flush(after[n]).result
  BY <1>1, RowAfterRow
<1>3. \A k \in 0 .. n : after[k] = IF k = 0 THEN Between(<<>>) ELSE NextRow(after[k - 1], rows[k])
  BY <1>2 DEF After
<1> DEFINE S == {k \in 0 .. n : Taken(after[k], rows, k)}
<1>4. 0 \in S
  <2>1. after[0] = Between(<<>>) /\ 0 \in 0 .. n /\ 1 .. 0 = {}
    BY <1>1, <1>3
  <2> QED  BY <2>1 DEF Taken
<1>5. ASSUME NEW k \in 0 .. (n - 1), k \in S PROVE k + 1 \in S
  <2>1. k + 1 \in 0 .. n /\ k + 1 # 0 /\ (k + 1) - 1 = k
    BY <1>1
  <2>2. after[k + 1] = NextRow(after[k], rows[k + 1])
    BY <1>3, <2>1
  <2>3. after[k + 1] = Row(after[k], rows[k + 1])
    BY <2>2 DEF NextRow
  <2>4. Taken(Row(after[k], rows[k + 1]), rows, k + 1)
    BY <1>5, RowTaken
  <2> QED  BY <2>1, <2>3, <2>4
<1>6. 0 .. n \subseteq S
  <2> HIDE DEF S, n
  <2> QED  BY <1>1, <1>4, <1>5, Climb
<1>7. n \in 0 .. n /\ Taken(after[n], rows, n)
  <2>1. n \in 0 .. n
    BY <1>1
  <2> QED  BY <1>6, <2>1
<1>8. Flush(after[n]) = Between(Done(rows, n + 1))
  BY <1>7, FlushTaken
<1>9. Parse(rows) = Done(rows, n + 1)
  BY <1>2, <1>8 DEF Between
<1>10. Before(rows, n + 1) = {h \in Headers(rows) : Wanted(rows, h)}
  <2>1. \A h \in Headers(rows) : h < n + 1
    BY <1>1 DEF Headers, GoodRows
  <2> QED  BY <2>1 DEF Before
<1> QED  BY <1>9, <1>10 DEF Done, AirportsOf
-----------------------------------------------------------------------------
(* What is loaded.                                                         *)

\* The airports of a file are airports.
LEMMA AirportsTyped ==
  ASSUME NEW rows, GoodRows(rows)
  PROVE  AirportsOf(rows) \in Seq(Airport)
<1> DEFINE n == Len(rows)
           wanted == {h \in Headers(rows) : Wanted(rows, h)}
           order == InOrder(wanted, n)
<1>1. n \in Nat /\ DOMAIN rows = 1 .. n
  BY DEF GoodRows
<1>2. \A i \in 1 .. n : IsRow(rows[i])
  BY <1>1 DEF GoodRows
<1>3. ASSUME NEW h \in wanted PROVE AirportOf(rows, h) \in Airport
  <2> DEFINE section == Section(rows, h)
             lats == Parsed(rows, section, "lat")
             lons == Parsed(rows, section, "lon")
             strips == Parsed(rows, section, "runway")
             freqs == Of(rows, section, "freq")
             fallback == IF lats = {} /\ lons = {} /\ strips # {} THEN rows[Min(strips)].value ELSE 0
             order2 == InOrder(strips, n)
  <2>1. section \subseteq 1 .. n
    BY <1>1 DEF Section
  <2>2. \A kind \in {"lat", "lon", "runway"} :
          /\ Parsed(rows, section, kind) \in SUBSET (1 .. n)
          /\ \A i \in Parsed(rows, section, kind) : rows[i].value \in Nat
    <3>1. \A kind : \A i \in Parsed(rows, section, kind) : i \in 1 .. n /\ rows[i].kind = kind
      BY <2>1 DEF Parsed, Of
    <3>2. \A i \in 1 .. n : rows[i].kind \in {"lat", "lon", "runway"} => rows[i].value \in Nat
      BY <1>2 DEF IsRow
    <3> QED  BY <3>1, <3>2
  <2>3. \A s \in SUBSET (1 .. n) : s # {} => Max(s) \in s /\ Min(s) \in s
    <3> HIDE DEF n
    <3>1. \A s \in SUBSET (1 .. n) : s \in SUBSET Nat
      BY <1>1
    <3> QED  BY <1>1, <3>1, MaxIn, MinIn
  <2>4. lats # {} => rows[Max(lats)].value \in Nat
    BY <2>2, <2>3
  <2>5. lons # {} => rows[Max(lons)].value \in Nat
    BY <2>2, <2>3
  <2>6. strips # {} => rows[Min(strips)].value \in Nat
    BY <2>2, <2>3
  <2>7. Values(rows, strips) \in Seq(Nat)
    <3>1. strips \in SUBSET (1 .. n) /\ \A i \in strips : rows[i].value \in Nat
      BY <2>2
    <3> HIDE DEF strips
    <3>2. order2 \in Seq(strips)
      <4> HIDE DEF n
      <4> QED  BY <1>1, <3>1, OrderIn
    <3>3. Len(order2) \in Nat /\ DOMAIN order2 = 1 .. Len(order2)
          /\ \A j \in DOMAIN order2 : order2[j] \in strips
      <4> HIDE DEF order2
      <4> QED  BY <3>2
    <3>4. Values(rows, strips) = [j \in DOMAIN order2 |-> rows[order2[j]].value]
      BY DEF Values
    <3> HIDE DEF order2
    <3>5. \A j \in 1 .. Len(order2) : rows[order2[j]].value \in Nat
      BY <3>1, <3>3
    <3>6. Values(rows, strips) = [j \in 1 .. Len(order2) |-> rows[order2[j]].value]
      BY <3>3, <3>4
    <3> QED  BY <3>3, <3>5, <3>6
  <2>8. Code(rows, h, section) \in Accepted
    BY DEF Wanted
  <2>9. \A types : Facility(types) \in {"UNKNOWN", "UNCONTROLLED", "TOWERED", "AFIS"}
    BY DEF Facility
  <2>10. AirportOf(rows, h) =
           [icao |-> Code(rows, h, section), runways |-> Values(rows, strips),
            facility |-> Facility({TypeOf(rows[i]) : i \in freqs}),
            lat |-> IF lats = {} THEN fallback ELSE rows[Max(lats)].value,
            lon |-> IF lons = {} THEN fallback ELSE rows[Max(lons)].value]
    BY DEF AirportOf
  <2>11. fallback \in Nat
    BY <2>6
  <2> HIDE DEF fallback, lats, lons, strips, freqs, section
  <2> QED  BY <2>4, <2>5, <2>7, <2>8, <2>9, <2>10, <2>11 DEF Airport
<1>4. wanted \in SUBSET (1 .. n)
  BY <1>1 DEF Headers
<1>5. order \in Seq(wanted)
  <2> HIDE DEF wanted, n
  <2> QED  BY <1>1, <1>4, OrderIn
<1>6. Len(order) \in Nat /\ DOMAIN order = 1 .. Len(order)
      /\ \A j \in DOMAIN order : order[j] \in wanted
  <2> HIDE DEF order, wanted
  <2> QED  BY <1>5
<1>7. AirportsOf(rows) = [k \in DOMAIN order |-> AirportOf(rows, order[k])]
  BY DEF AirportsOf
<1> HIDE DEF order, wanted
<1> QED  BY <1>3, <1>6, <1>7

\* What the thread reads from apt.dat.
Read == IF file.opens THEN AirportsOf(file.rows) ELSE <<>>

\* The file is one of those there may be while there is a load, the airports on
\* their way are those of the file, and so are the published ones before the flag.
FileInv == file = Missing \/ \E rows \in Contents : file = Holding(rows)
LoadInv == /\ worker = <<"publish", "flag">> => parsed = Read
           /\ worker = <<"flag">> => airports = Read
           /\ ready => airports = Read
ListsInv == /\ parsed \in Seq(Airport) /\ airports \in Seq(Airport)
            /\ ready \in BOOLEAN /\ started \in BOOLEAN

DataInv == FileInv /\ LoadInv /\ ListsInv

\* What the parser makes of the file is what the file says.
LEMMA ReadIs ==
  ASSUME FileInv
  PROVE  /\ (IF file.opens THEN Parse(file.rows) ELSE <<>>) = Read
         /\ Read \in Seq(Airport)
<1>1. CASE file = Missing
  BY <1>1 DEF Missing, Read
<1>2. ASSUME NEW rows \in Contents, file = Holding(rows)
      PROVE  Parse(file.rows) = AirportsOf(file.rows) /\ AirportsOf(file.rows) \in Seq(Airport)
  <2>1. GoodRows(rows) /\ file.rows = rows
    BY <1>2, ContentsAssumption DEF GoodRows, Holding
  <2> QED  BY <2>1, ParsedRight, AirportsTyped
<1>3. CASE \E rows \in Contents : file = Holding(rows)
  <2>1. file.opens
    BY <1>3 DEF Holding
  <2> QED  BY <1>2, <1>3, <2>1 DEF Read
<1> QED  BY <1>1, <1>3 DEF FileInv

LEMMA DataInitially == Init => DataInv
<1> SUFFICES ASSUME Init PROVE DataInv
  OBVIOUS
<1>1. <<>> \in Seq(Airport)
  OBVIOUS
<1> QED  BY <1>1 DEF Init, DataInv, FileInv, LoadInv, ListsInv, Read, Missing

\* A load starts with no thread before it; the thread hands on what it read; a stop
\* comes after the thread and takes the flag away.
LEMMA DataKept == Inv /\ DataInv /\ [Next]_vars => DataInv'
<1> SUFFICES ASSUME Inv, DataInv, [Next]_vars PROVE DataInv'
  OBVIOUS
<1>1. worker \in {<<>>, <<"flag">>, <<"publish", "flag">>, <<"parse", "publish", "flag">>}
  BY DEF Inv, WorkerInv, LoadWorker
<1>2. <<>> \in Seq(Airport)
  OBVIOUS
<1>3. file' = file => Read' = Read
  BY DEF Read
<1>4. CASE StartLoad
  <2>1. ~ready
    BY <1>4 DEF StartLoad, Inv, QuietWhenStopped
  <2> QED  BY <1>4, <2>1 DEF StartLoad, LoadWorker, DataInv, FileInv, LoadInv, ListsInv
<1>5. CASE ParseFile
  <2>0. worker = <<"parse", "publish", "flag">>
    BY <1>1, <1>5 DEF ParseFile, At
  <2>1. worker' = <<"publish", "flag">> /\ ~ready /\ file' = file
    BY <1>5, <2>0 DEF ParseFile, At, Inv, ReadyInv
  <2>2. parsed' = Read /\ Read \in Seq(Airport)
    BY <1>5, ReadIs DEF ParseFile, DataInv
  <2> QED  BY <1>3, <1>5, <2>1, <2>2 DEF ParseFile, DataInv, FileInv, LoadInv, ListsInv
<1>6. CASE Publish
  <2>0. worker = <<"publish", "flag">>
    BY <1>1, <1>6 DEF Publish, At
  <2>1. worker' = <<"flag">> /\ ~ready /\ file' = file
    BY <1>6, <2>0 DEF Publish, At, Inv, ReadyInv
  <2> QED  BY <1>2, <1>3, <1>6, <2>0, <2>1 DEF Publish, DataInv, FileInv, LoadInv, ListsInv
<1>7. CASE SetReady
  <2>1. worker = <<"flag">> /\ worker' = <<>> /\ file' = file
    BY <1>1, <1>7 DEF SetReady, At
  <2> QED  BY <1>3, <1>7, <2>1 DEF SetReady, DataInv, FileInv, LoadInv, ListsInv
<1>8. CASE Stops
  <2>1. worker' = <<>> /\ ~ready'
    BY <1>8 DEF Stops, Joined
  <2>2. FileInv' /\ LoadInv'
    BY <1>8, <2>1 DEF Stops, FileInv, LoadInv
  <2>3. ListsInv'
    BY <1>2, <1>8 DEF Stops, DataInv, ListsInv
  <2> QED  BY <2>2, <2>3 DEF DataInv
<1>9. CASE FrameBegins \/ FrameEnds \/ StopBegins \/ UNCHANGED vars
  BY <1>3, <1>9 DEF FrameBegins, FrameEnds, StopBegins, vars, DataInv, FileInv, LoadInv, ListsInv
<1> QED  BY <1>4, <1>5, <1>6, <1>7, <1>8, <1>9 DEF Next, Worker

LEMMA DataInvariance == Spec => [](Inv /\ DataInv)
<1>1. Init => Inv /\ DataInv
  BY Initially, DataInitially
<1>2. Inv /\ DataInv /\ [Next]_vars => (Inv /\ DataInv)'
  BY StepKeeps, DataKept
<1> QED  BY <1>1, <1>2, PTL DEF Spec

\* Once load_worker() has raised the flag, airports() is what apt.dat says: one
\* airport for each open section under an accepted code, in the order of the file,
\* with the code, position, runways and facility of its own rows.
THEOREM LoadedAsWritten == Spec => []LoadedIsWhatFileSays
<1>1. DataInv => LoadedIsWhatFileSays
  BY DEF DataInv, LoadInv, LoadedIsWhatFileSays, Read
<1> QED  BY <1>1, DataInvariance, PTL

\* Every variable has its type: what the parser hands over are airports with an
\* accepted code, numbers for a position and a facility.
THEOREM TypeCorrect == Spec => []TypeOK
<1>1. ASSUME Inv, DataInv PROVE TypeOK
  <2>1. file.opens \in BOOLEAN /\ \A i \in DOMAIN file.rows : file.rows[i].kind \in Kinds
    <3>1. CASE file = Missing
      BY <3>1 DEF Missing
    <3>2. ASSUME NEW rows \in Contents, file = Holding(rows)
          PROVE  file.opens \in BOOLEAN /\ \A i \in DOMAIN file.rows : file.rows[i].kind \in Kinds
      BY <3>2, ContentsAssumption DEF Holding, IsRow
    <3> QED  BY <1>1, <3>1, <3>2 DEF DataInv, FileInv
  <2>2. worker \in Seq({"parse", "publish", "flag"})
    <3>1. /\ <<>> \in Seq({"parse", "publish", "flag"})
          /\ <<"flag">> \in Seq({"parse", "publish", "flag"})
          /\ <<"publish", "flag">> \in Seq({"parse", "publish", "flag"})
          /\ <<"parse", "publish", "flag">> \in Seq({"parse", "publish", "flag"})
      OBVIOUS
    <3> QED  BY <1>1, <3>1 DEF Inv, WorkerInv, LoadWorker
  <2>3. ready \in BOOLEAN /\ started \in BOOLEAN
    BY <1>1 DEF DataInv, ListsInv
  <2>4. main \in {"idle", "frame", "stop"}
    BY <1>1 DEF Inv, MainInv
  <2> QED  BY <1>1, <2>1, <2>2, <2>3, <2>4 DEF TypeOK, DataInv, ListsInv
<1> QED  BY <1>1, DataInvariance, PTL
=============================================================================
