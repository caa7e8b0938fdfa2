-------------------------- MODULE AirportScorerProofs --------------------------
(***************************************************************************)
(* Theorems about AirportScorer for any airports, batch size, prompts and  *)
(* replies: one call is out at a time, and pending is exactly what is      *)
(* queued or asked for.                                                    *)
(***************************************************************************)
EXTENDS AirportScorer, SequenceTheorems, FiniteSetTheorems, WellFoundedInduction, TLAPS

\* The airports of the calls that are out.
Asked(C) == UNION {Range(c.batch) : c \in C}

NoRepeat(s) == \A j, k \in DOMAIN s : s[j] = s[k] => j = k

\* What pending, queue and calls must have been for PumpFrom to go on from.
Apart(p, q, C) ==
  /\ p = Range(q) \cup Asked(C)
  /\ NoRepeat(q)
  /\ \A c \in C : Range(c.batch) \cap Range(q) = {}

TypeInv == /\ queue \in Seq(Icao) /\ pending \subseteq Icao
           /\ inFlight \in BOOLEAN
           /\ calls \subseteq Call
           /\ wanted \subseteq Icao

\* Inductive: with more than one call out, the callback of one would release
\* airports of another.
QueueInv == TypeInv /\ OneCallAtATime /\ PendingExact

\* PendingExact in terms of Apart.
LEMMA PendingIsApart == PendingExact <=> Apart(pending, queue, calls)
BY DEF PendingExact, Apart, Asked, NoRepeat

-----------------------------------------------------------------------------
(* Sequences.                                                              *)

\* A queue cut in two has the airports of both parts, none of them twice.
LEMMA Cut ==
  ASSUME NEW q \in Seq(Icao), NoRepeat(q), NEW n \in Nat, n <= Len(q)
  PROVE  LET front == SubSeq(q, 1, n)
             rest == SubSeq(q, n + 1, Len(q))
         IN /\ front \in Seq(Icao) /\ rest \in Seq(Icao)
            /\ Range(q) = Range(front) \cup Range(rest)
            /\ Range(front) \cap Range(rest) = {}
            /\ NoRepeat(rest)
<1> DEFINE front == SubSeq(q, 1, n)
           rest == SubSeq(q, n + 1, Len(q))
<1>1. /\ DOMAIN q = 1 .. Len(q) /\ Len(q) \in Nat
      /\ \A i \in 1 .. Len(q) : q[i] \in Icao
  BY ElementOfSeq, LenProperties
<1>2. /\ front \in Seq(Icao) /\ Len(front) = n
      /\ \A i \in 1 .. n : front[i] = q[i]
  <2>1. \A i \in 1 .. n : q[i] \in Icao
    BY <1>1
  <2>2. /\ front \in Seq(Icao)
        /\ Len(front) = IF 1 <= n THEN n - 1 + 1 ELSE 0
        /\ \A i \in 1 .. n - 1 + 1 : front[i] = q[1 + i - 1]
    BY <2>1, SubSeqProperties
  <2> QED  BY <2>2
<1>3. /\ rest \in Seq(Icao) /\ Len(rest) = Len(q) - n
      /\ \A i \in 1 .. Len(q) - n : rest[i] = q[n + i]
  <2>1. \A i \in n + 1 .. Len(q) : q[i] \in Icao
    BY <1>1
  <2>2. n + 1 \in Int /\ Len(q) \in Int
    BY <1>1
  <2>3. /\ rest \in Seq(Icao)
        /\ Len(rest) = IF n + 1 <= Len(q) THEN Len(q) - (n + 1) + 1 ELSE 0
        /\ \A i \in 1 .. Len(q) - (n + 1) + 1 : rest[i] = q[n + 1 + i - 1]
    BY <2>1, <2>2, SubSeqProperties
  <2> HIDE DEF rest
  <2>4. Len(rest) = Len(q) - n
    <3>1. Len(q) \in Nat /\ Len(rest) = IF n + 1 <= Len(q) THEN Len(q) - (n + 1) + 1 ELSE 0
      BY <1>1, <2>3
    <3>2. CASE n + 1 <= Len(q)
      BY <3>1, <3>2
    <3>3. CASE n = Len(q)
      BY <3>1, <3>3
    <3> QED  BY <3>1, <3>2, <3>3
  <2>5. ASSUME NEW i \in 1 .. Len(q) - n PROVE rest[i] = q[n + i]
    <3>1. i \in 1 .. Len(q) - (n + 1) + 1 /\ n + 1 + i - 1 = n + i
      BY <1>1
    <3> QED  BY <2>3, <3>1
  <2> QED  BY <2>3, <2>4, <2>5
<1> HIDE DEF front, rest
<1>4. DOMAIN front = 1 .. n /\ DOMAIN rest = 1 .. Len(q) - n
  BY <1>2, <1>3, LenProperties
<1>5. Range(q) = Range(front) \cup Range(rest)
  <2>1. ASSUME NEW i \in 1 .. Len(q) PROVE q[i] \in Range(front) \cup Range(rest)
    <3>1. CASE i <= n
      BY <1>1, <1>2, <1>4, <3>1 DEF Range
    <3>2. CASE n < i
      <4>1. i - n \in 1 .. Len(q) - n /\ rest[i - n] = q[i]
        BY <1>1, <1>3, <3>2
      <4> QED  BY <4>1, <1>4 DEF Range
    <3> QED  BY <1>1, <3>1, <3>2
  <2>2. ASSUME NEW i \in 1 .. n PROVE front[i] \in Range(q)
    BY <1>1, <1>2 DEF Range
  <2>3. ASSUME NEW i \in 1 .. Len(q) - n PROVE rest[i] \in Range(q)
    <3>1. n + i \in DOMAIN q /\ rest[i] = q[n + i]
      BY <1>1, <1>3
    <3> QED  BY <3>1 DEF Range
  <2> QED  BY <1>1, <1>4, <2>1, <2>2, <2>3 DEF Range
<1>6. Range(front) \cap Range(rest) = {}
  <2> SUFFICES ASSUME NEW i \in 1 .. n, NEW j \in 1 .. Len(q) - n PROVE front[i] # rest[j]
    BY <1>4 DEF Range
  <2>1. front[i] = q[i] /\ rest[j] = q[n + j] /\ i # n + j
    BY <1>2, <1>3
  <2>2. i \in DOMAIN q /\ n + j \in DOMAIN q
    BY <1>1
  <2> QED  BY <2>1, <2>2 DEF NoRepeat
<1>7. NoRepeat(rest)
  <2> SUFFICES ASSUME NEW i \in 1 .. Len(q) - n, NEW j \in 1 .. Len(q) - n, rest[i] = rest[j]
               PROVE i = j
    BY <1>4 DEF NoRepeat
  <2>1. n + i \in DOMAIN q /\ n + j \in DOMAIN q /\ q[n + i] = q[n + j]
    BY <1>1, <1>3
  <2>2. n + i = n + j
    BY <2>1 DEF NoRepeat
  <2> QED  BY <2>2
<1> QED  BY <1>2, <1>3, <1>5, <1>6, <1>7 DEF front, rest

\* Two sequences without repetition and without a common member, one behind the
\* other.
LEMMA Joined ==
  ASSUME NEW q \in Seq(Icao), NEW s \in Seq(Icao), NoRepeat(q), NoRepeat(s),
         Range(q) \cap Range(s) = {}
  PROVE  NoRepeat(q \o s)
<1> DEFINE t == q \o s
<1>1. /\ DOMAIN q = 1 .. Len(q) /\ DOMAIN s = 1 .. Len(s)
      /\ Len(q) \in Nat /\ Len(s) \in Nat
  BY LenProperties
<1>2. /\ t \in Seq(Icao) /\ Len(t) = Len(q) + Len(s)
      /\ \A i \in 1 .. Len(q) + Len(s) : t[i] = IF i <= Len(q) THEN q[i] ELSE s[i - Len(q)]
  BY ConcatProperties
<1>3. DOMAIN t = 1 .. Len(q) + Len(s)
  BY <1>2, LenProperties
<1> HIDE DEF t
<1> SUFFICES ASSUME NEW j \in 1 .. Len(q) + Len(s), NEW k \in 1 .. Len(q) + Len(s), t[j] = t[k]
             PROVE j = k
  BY <1>3 DEF NoRepeat, t
<1>4. CASE j <= Len(q) /\ k <= Len(q)
  <2>1. j \in DOMAIN q /\ k \in DOMAIN q /\ q[j] = q[k]
    BY <1>1, <1>2, <1>4
  <2> QED  BY <2>1 DEF NoRepeat
<1>5. CASE ~(j <= Len(q)) /\ ~(k <= Len(q))
  <2>1. j - Len(q) \in DOMAIN s /\ k - Len(q) \in DOMAIN s /\ s[j - Len(q)] = s[k - Len(q)]
    BY <1>1, <1>2, <1>5
  <2>2. j - Len(q) = k - Len(q)
    BY <2>1 DEF NoRepeat
  <2> QED  BY <1>1, <2>2
<1>6. CASE j <= Len(q) /\ ~(k <= Len(q))
  <2>1. j \in DOMAIN q /\ k - Len(q) \in DOMAIN s /\ q[j] = s[k - Len(q)]
    BY <1>1, <1>2, <1>6
  <2> QED  BY <2>1 DEF Range
<1>7. CASE ~(j <= Len(q)) /\ k <= Len(q)
  <2>1. k \in DOMAIN q /\ j - Len(q) \in DOMAIN s /\ q[k] = s[j - Len(q)]
    BY <1>1, <1>2, <1>7
  <2> QED  BY <2>1 DEF Range
<1> QED  BY <1>4, <1>5, <1>6, <1>7

\* As many places as members: each member has one.
LEMMA Listing ==
  ASSUME NEW S, IsFiniteSet(S), NEW s \in [1 .. Cardinality(S) -> S], Range(s) = S
  PROVE  s \in Seq(S) /\ NoRepeat(s)
<1>1. Cardinality(S) \in Nat
  BY FS_CardinalityType
<1>2. IsFiniteSet(1 .. Cardinality(S)) /\ Cardinality(1 .. Cardinality(S)) = Cardinality(S)
  BY <1>1, FS_Interval
<1>3. s \in Surjection(1 .. Cardinality(S), S)
  BY DEF Surjection, Range
<1>4. s \in Injection(1 .. Cardinality(S), S)
  BY <1>2, <1>3, FS_SurjSameCardinalityImpliesInj
<1>5. s \in Seq(S)
  BY <1>1, SeqDef
<1> QED  BY <1>4, <1>5 DEF Injection, IsInjective, NoRepeat

-----------------------------------------------------------------------------
(* Steps.                                                                  *)

\* pump() moves the front of the queue into a call, if there is none.
LEMMA PumpKeeps ==
  ASSUME NEW p, NEW flying \in BOOLEAN, NEW others \in SUBSET Call,
         \A c, d \in others : c = d, flying <=> others # {},
         queue \in Seq(Icao), Apart(p, queue, others), PumpFrom(flying, others)
  PROVE  /\ queue' \in Seq(Icao) /\ inFlight' \in BOOLEAN /\ calls' \subseteq Call
         /\ OneCallAtATime'
         /\ Apart(p, queue', calls')
<1>1. CASE Blocked(flying) /\ inFlight' = flying /\ calls' = others /\ UNCHANGED queue
  BY <1>1 DEF OneCallAtATime
<1>2. CASE ~Blocked(flying)
  <2> DEFINE n == IF Len(queue) < BatchSize THEN Len(queue) ELSE BatchSize
             front == SubSeq(queue, 1, n)
  <2>1. others = {} /\ Len(queue) \in Nat
    BY <1>2, LenProperties DEF Blocked
  <2>2. n \in Nat /\ n <= Len(queue)
    BY <2>1, ScorerAssumption
  <2>3. /\ queue' = SubSeq(queue, n + 1, Len(queue)) /\ inFlight' = TRUE
        /\ \E phase \in Phases : calls' = {[batch |-> front, phase |-> phase]}
    BY <1>2, <2>1 DEF PumpFrom, Phases
  <2>4. PICK phase \in Phases : calls' = {[batch |-> front, phase |-> phase]}
    BY <2>3
  <2>5. p = Range(queue) /\ NoRepeat(queue)
    BY <2>1 DEF Apart, Asked
  <2>6. /\ front \in Seq(Icao) /\ queue' \in Seq(Icao)
        /\ Range(queue) = Range(front) \cup Range(queue')
        /\ Range(front) \cap Range(queue') = {}
        /\ NoRepeat(queue')
    BY <2>2, <2>3, <2>5, Cut
  <2>7. Asked(calls') = Range(front)
    <3> DEFINE call == [batch |-> front, phase |-> phase]
    <3>1. call.batch = front /\ calls' = {call}
      BY <2>4
    <3> HIDE DEF call, front
    <3> QED  BY <3>1 DEF Asked
  <2>8. calls' \subseteq Call /\ OneCallAtATime'
    BY <2>3, <2>4, <2>6 DEF Call, OneCallAtATime
  <2> QED  BY <2>3, <2>4, <2>5, <2>6, <2>7, <2>8 DEF Apart
<1> QED  BY <1>1, <1>2 DEF PumpFrom

\* What enqueue_if_missing() appends is not pending yet and has no repetition.
LEMMA DrawKeeps == QueueInv /\ DrawSearch => QueueInv'
<1> SUFFICES ASSUME QueueInv, DrawSearch PROVE QueueInv'
  OBVIOUS
<1> USE DEF QueueInv, TypeInv
<1>1. PICK s \in [1 .. Cardinality(Missing) -> Missing] :
             Range(s) = Missing /\ queue' = queue \o s
  BY DEF DrawSearch
<1>2. /\ pending' = pending \cup Missing
      /\ inFlight' = inFlight /\ calls' = calls /\ wanted' = wanted
  BY DEF DrawSearch
<1>3. Apart(pending, queue, calls)
  BY PendingIsApart
<1>4. /\ Missing \cap pending = {} /\ Missing \subseteq Icao
      /\ Range(queue) \subseteq pending
  BY <1>3 DEF Missing, Apart
<1>5. IsFiniteSet(Missing)
  BY <1>4, ScorerAssumption, FS_Subset
<1>6. s \in Seq(Missing) /\ NoRepeat(s)
  BY <1>1, <1>5, Listing
<1>7. s \in Seq(Icao)
  BY <1>4, <1>6, SeqMonotonic
<1>8. NoRepeat(queue')
  BY <1>1, <1>3, <1>4, <1>6, <1>7, Joined DEF Apart
<1>9. queue' \in Seq(Icao) /\ Range(queue') = Range(queue) \cup Missing
  BY <1>1, <1>7, ConcatProperties, RangeConcatenation
<1>10. Apart(pending', queue', calls')
  <2>1. pending' = Range(queue') \cup Asked(calls')
    BY <1>2, <1>3, <1>9 DEF Apart
  <2>2. ASSUME NEW c \in calls PROVE Range(c.batch) \cap Range(queue') = {}
    <3>1. Range(c.batch) \subseteq pending
      BY <1>3 DEF Apart, Asked
    <3> QED  BY <1>3, <1>4, <1>9, <3>1 DEF Apart
  <2> QED  BY <1>2, <1>8, <2>1, <2>2 DEF Apart
<1>11. OneCallAtATime'
  BY <1>2 DEF OneCallAtATime
<1>12. PendingExact'
  BY <1>10 DEF PendingExact, Apart, Asked, NoRepeat
<1> QED  BY <1>2, <1>4, <1>9, <1>11, <1>12

\* pump() from the flight loop.
LEMMA PumpStepKeeps == QueueInv /\ Pump => QueueInv'
<1> SUFFICES ASSUME QueueInv, Pump PROVE QueueInv'
  OBVIOUS
<1> USE DEF QueueInv, TypeInv
<1>1. PumpFrom(inFlight, calls) /\ pending' = pending /\ wanted' = wanted
  BY DEF Pump
<1>2. Apart(pending, queue, calls)
  BY PendingIsApart
<1>3. (\A c, d \in calls : c = d) /\ (inFlight <=> calls # {})
  BY DEF OneCallAtATime
<1>4. /\ queue' \in Seq(Icao) /\ inFlight' \in BOOLEAN /\ calls' \subseteq Call
      /\ OneCallAtATime' /\ Apart(pending, queue', calls')
  BY <1>1, <1>2, <1>3, PumpKeeps
<1>5. PendingExact'
  BY <1>1, <1>4 DEF PendingExact, Apart, Asked, NoRepeat
<1> QED  BY <1>1, <1>4, <1>5

\* The worker changes the phase of the one call there is.
LEMMA WorkerKeeps ==
  ASSUME QueueInv, NEW c \in calls, WorkerCalls(c)
  PROVE  QueueInv'
<1> USE DEF QueueInv, TypeInv
<1>1. calls = {c}
  BY DEF OneCallAtATime
<1>2. PICK phase \in Phases : calls' = {[c EXCEPT !.phase = phase]}
  BY <1>1 DEF WorkerCalls, Phases
<1>3. UNCHANGED <<queue, pending, inFlight, wanted>>
  BY DEF WorkerCalls
<1>4. c \in Call
  OBVIOUS
<1>5. [c EXCEPT !.phase = phase] \in Call /\ [c EXCEPT !.phase = phase].batch = c.batch
  BY <1>4 DEF Call
<1>6. calls' \subseteq Call /\ OneCallAtATime'
  BY <1>1, <1>2, <1>3, <1>5 DEF OneCallAtATime
<1>7. Apart(pending, queue, calls)
  BY PendingIsApart
<1>8. Asked(calls') = Asked(calls)
  BY <1>1, <1>2, <1>5 DEF Asked
<1>9. Apart(pending, queue, calls')
  BY <1>1, <1>2, <1>5, <1>7, <1>8 DEF Apart
<1>10. PendingExact'
  BY <1>3, <1>9 DEF PendingExact, Apart, Asked, NoRepeat
<1> QED  BY <1>3, <1>6, <1>10

\* The callback releases its batch, and no other call is out.
LEMMA CallbackKeeps ==
  ASSUME QueueInv, NEW c \in calls, Callback(c)
  PROVE  QueueInv'
<1> USE DEF QueueInv, TypeInv
<1>1. calls = {c}
  BY DEF OneCallAtATime
<1>2. pending' = pending \ Range(c.batch) /\ PumpFrom(FALSE, {}) /\ wanted' = wanted
  <2>1. calls \ {c} = {}
    BY <1>1
  <2> QED  BY <2>1 DEF Callback, Released
<1>3. Apart(pending, queue, calls)
  BY PendingIsApart
<1>4. Apart(pending', queue, {})
  <2>1. pending = Range(queue) \cup Range(c.batch)
    BY <1>1, <1>3 DEF Apart, Asked
  <2>2. pending' = Range(queue) \cup Asked({})
    BY <1>2, <1>3, <2>1 DEF Apart, Asked
  <2> QED  BY <1>3, <2>2 DEF Apart
<1>5. /\ queue' \in Seq(Icao) /\ inFlight' \in BOOLEAN /\ calls' \subseteq Call
      /\ OneCallAtATime' /\ Apart(pending', queue', calls')
  BY <1>2, <1>4, PumpKeeps
<1>6. PendingExact'
  BY <1>5 DEF PendingExact, Apart, Asked, NoRepeat
<1> QED  BY <1>2, <1>5, <1>6

\* stop() empties everything.
LEMMA StopKeeps == QueueInv /\ ScorerStops => QueueInv'
<1> SUFFICES ASSUME QueueInv, ScorerStops PROVE QueueInv'
  OBVIOUS
<1>1. /\ queue' = <<>> /\ pending' = {} /\ inFlight' = FALSE /\ calls' = {}
      /\ wanted' = wanted
  BY DEF ScorerStops
<1>2. DOMAIN queue' = {} /\ queue' \in Seq(Icao)
  BY <1>1
<1>3. Range(queue') = {}
  BY <1>2 DEF Range
<1> QED  BY <1>1, <1>2, <1>3 DEF QueueInv, TypeInv, OneCallAtATime, PendingExact

\* Before XPluginStart there is nothing queued, pending or asked.
LEMMA InitHolds == Init => QueueInv
<1> SUFFICES ASSUME Init PROVE QueueInv
  OBVIOUS
<1>1. /\ queue = <<>> /\ pending = {} /\ inFlight = FALSE /\ calls = {}
      /\ wanted = {}
  BY DEF Init
<1>2. DOMAIN queue = {} /\ queue \in Seq(Icao)
  BY <1>1
<1>3. Range(queue) = {}
  BY <1>2 DEF Range
<1> QED  BY <1>1, <1>2, <1>3 DEF QueueInv, TypeInv, OneCallAtATime, PendingExact

\* Only the queue, the pending set, the flag and the calls matter.
LEMMA OthersKeep == QueueInv /\ UNCHANGED queueVars /\ wanted' \subseteq Icao => QueueInv'
BY DEF QueueInv, TypeInv, OneCallAtATime, PendingExact, queueVars

\* Each step of the scorer keeps the invariant.
LEMMA StepKeeps == QueueInv /\ [Next]_vars => QueueInv'
<1> SUFFICES ASSUME QueueInv, [Next]_vars PROVE QueueInv'
  OBVIOUS
<1>1. CASE DrawSearch
  BY <1>1, DrawKeeps
<1>2. CASE Pump
  BY <1>2, PumpStepKeeps
<1>3. CASE \E c \in calls : WorkerCalls(c) \/ Callback(c)
  BY <1>3, WorkerKeeps, CallbackKeeps
<1>4. CASE \E S \in SUBSET Icao : Search(S)
  <2>1. PICK S \in SUBSET Icao : Search(S)
    BY <1>4
  <2> QED  BY <2>1, OthersKeep DEF Search
<1>5. CASE \E b \in BOOLEAN : Configure(b)
  <2>1. UNCHANGED queueVars /\ wanted' = wanted
    BY <1>5 DEF Configure
  <2> QED  BY <2>1, OthersKeep DEF QueueInv, TypeInv
<1>6. CASE PluginStops \/ Crash
  BY <1>6, StopKeeps DEF PluginStops, Crash
<1>7. CASE PluginStarts
  BY <1>7, OthersKeep DEF PluginStarts
<1>8. CASE UNCHANGED vars
  <2>1. UNCHANGED queueVars /\ wanted' = wanted
    BY <1>8 DEF vars, queueVars
  <2> QED  BY <2>1, OthersKeep DEF QueueInv, TypeInv
<1> QED  BY <1>1, <1>2, <1>3, <1>4, <1>5, <1>6, <1>7, <1>8 DEF Next

-----------------------------------------------------------------------------
(* The score cache.                                                        *)

File == [layout : {v.file : v \in Versions}, scores : Cache]

SessionInv == /\ facts \in [Icao -> Facts] /\ version \in Versions
              /\ backend \in BOOLEAN /\ running \in BOOLEAN

\* Inductive with QueueInv.  A save drops no entry but those that load() passed over
\* and nothing scored since: what else the file has is also in memory.
CacheInv == /\ SessionInv
            /\ store \in Cache /\ disk \in File /\ unread \subseteq Icao
            /\ running => \A i \in Icao : disk.scores[i] # NoEntry /\ i \notin unread
                                           => store[i] # NoEntry

\* A non-empty set of places has a last one.
LEMMA LastOfSome ==
  ASSUME NEW n \in Nat, NEW S \in SUBSET (1 .. n), S # {}
  PROVE  Max(S) \in S
<1> DEFINE R == OpToRel(<, Nat)
           T == {n - k : k \in S}
<1>1. T \subseteq Nat /\ T # {}
  <2>1. \A k \in S : n - k \in Nat
    OBVIOUS
  <2> QED  BY <2>1
<1>2. IsWellFoundedOn(R, Nat)
  BY NatLessThanWellFounded
<1> HIDE DEF T
<1>3. PICK x \in T : \A y \in T : ~(<<y, x>> \in R)
  <2> HIDE DEF R
  <2> QED  BY <1>1, <1>2, WFMin
<1>4. \A y \in T : ~(y < x)
  BY <1>1, <1>3 DEF OpToRel
<1>5. PICK k \in S : x = n - k
  BY DEF T
<1> HIDE DEF R
<1>6. ASSUME NEW j \in S PROVE k >= j
  <2>1. n - j \in T
    BY DEF T
  <2> QED  BY <1>4, <1>5, <2>1
<1> QED  BY <1>6 DEF Max

\* An entry is told from none by its members.
LEMMA EntryIsSome == \A e \in Entry : e # NoEntry
<1> SUFFICES ASSUME NEW e \in Entry PROVE e # NoEntry
  OBVIOUS
<1>1. "version" \in DOMAIN e
  BY DEF Entry
<1>2. "version" \notin DOMAIN NoEntry
  BY DEF NoEntry
<1> QED  BY <1>1, <1>2

\* Whatever the model answers.
LEMMA Clamped ==
  ASSUME NEW raw \in Nat
  PROVE  Clamp(raw) \in MinScore .. MaxScore
BY ScorerAssumption DEF Clamp

\* What the cache holds for an airport after a reply: what it held, or a score on
\* the scale for the data and the prompt of now, and then it was asked for.
LEMMA ScoredEntry ==
  ASSUME NEW c, NEW n \in Nat, NEW items \in [1 .. n -> Item], SessionInv, NEW i \in Icao
  PROVE  \/ Scored(c, items)[i] = store[i]
         \/ /\ Scored(c, items)[i] \in Entry
            /\ Scored(c, items)[i].version = version.prompt
            /\ Scored(c, items)[i].sig = InputSig(facts[i])
            /\ Scored(c, items)[i].from = facts[i]
            /\ i \in Range(c.batch)
<1> DEFINE hits == {k \in DOMAIN items : items[k].icao = i /\ Takes(c, items[k])}
           new == [score |-> Clamp(items[Max(hits)].raw), version |-> version.prompt,
                   sig |-> InputSig(facts[i]), from |-> facts[i]]
<1>1. Scored(c, items)[i] = IF hits = {} THEN store[i] ELSE new
  BY DEF Scored
<1>2. CASE hits # {}
  <2>1. Max(hits) \in hits
    BY <1>2, LastOfSome
  <2>2. items[Max(hits)] \in Item /\ i \in Range(c.batch)
    BY <2>1 DEF Takes
  <2>3. Clamp(items[Max(hits)].raw) \in MinScore .. MaxScore
    <3>1. items[Max(hits)].raw \in Nat
      BY <2>2, ScorerAssumption DEF Item
    <3> QED  BY <3>1, Clamped
  <2>4. facts[i] \in Facts /\ version.prompt \in {v.prompt : v \in Versions}
    BY DEF SessionInv
  <2>5. new \in Entry
    BY <2>3, <2>4 DEF Entry
  <2> QED  BY <1>1, <1>2, <2>2, <2>5
<1> QED  BY <1>1, <1>2

\* The same of any callback.
LEMMA CallbackScores ==
  ASSUME NEW c \in calls, Callback(c), SessionInv, store \in Cache, NEW i \in Icao
  PROVE  \/ store'[i] = store[i]
         \/ /\ store'[i] \in Entry
            /\ store'[i].version = version.prompt /\ store'[i].sig = InputSig(facts[i])
            /\ store'[i].from = facts[i]
            /\ c.phase = "replied" /\ i \in Range(c.batch)
<1>1. CASE UNCHANGED cacheVars
  BY <1>1 DEF cacheVars
<1>2. CASE Succeeds(c)
  <2>1. PICK reply \in Reply : store' = Scored(c, reply.items)
    BY <1>2 DEF Succeeds
  <2>2. PICK n \in 0 .. MaxItems : reply.items \in [1 .. n -> Item]
    BY <2>1 DEF Reply
  <2>3. n \in Nat
    BY <2>2, ScorerAssumption
  <2>4. \/ Scored(c, reply.items)[i] = store[i]
        \/ /\ Scored(c, reply.items)[i] \in Entry
           /\ Scored(c, reply.items)[i].version = version.prompt
           /\ Scored(c, reply.items)[i].sig = InputSig(facts[i])
           /\ Scored(c, reply.items)[i].from = facts[i]
           /\ i \in Range(c.batch)
    BY <2>2, <2>3, ScoredEntry
  <2>5. c.phase = "replied"
    BY <1>2 DEF Succeeds
  <2> QED  BY <2>1, <2>4, <2>5
<1> QED  BY <1>1, <1>2 DEF Callback

\* save() writes a file of this release.
LEMMA FileIsFile ==
  ASSUME NEW cache \in Cache, SessionInv
  PROVE  FileOf(cache) \in File /\ FileOf(cache).scores = cache
<1>1. version.file \in {v.file : v \in Versions}
  BY DEF SessionInv
<1> QED  BY <1>1 DEF FileOf, File

\* The callback saves what is in memory or nothing.
LEMMA CallbackSaves ==
  ASSUME CacheInv, NEW c \in calls, Callback(c)
  PROVE  /\ store' \in Cache /\ disk' \in File /\ unread' = unread
         /\ disk' \in {disk, FileOf(store')}
         /\ \A i \in Icao : store[i] # NoEntry => store'[i] # NoEntry
<1>1. disk' \in {disk, FileOf(store')} /\ unread' = unread
  BY DEF Callback, Succeeds, SavedFiles, cacheVars
<1>2. DOMAIN store' = Icao /\ store' = [i \in DOMAIN store' |-> store'[i]]
  <2>1. CASE UNCHANGED cacheVars
    BY <2>1 DEF cacheVars, CacheInv, Cache
  <2>2. CASE Succeeds(c)
    BY <2>2 DEF Succeeds, Scored
  <2> QED  BY <2>1, <2>2 DEF Callback
<1>3. ASSUME NEW i \in Icao
      PROVE  /\ store'[i] \in Entry \cup {NoEntry}
             /\ store[i] # NoEntry => store'[i] # NoEntry
  <2>1. store[i] \in Entry \cup {NoEntry} /\ SessionInv /\ store \in Cache
    BY DEF CacheInv, Cache
  <2> QED  BY <2>1, CallbackScores, EntryIsSome
<1>4. store' \in Cache
  BY <1>2, <1>3 DEF Cache
<1>5. disk' \in File
  BY <1>1, <1>4, FileIsFile DEF CacheInv
<1> QED  BY <1>1, <1>3, <1>4, <1>5 DEF CacheInv

\* What a step must leave of the file.
Survive == \A i \in Icao : /\ disk.scores[i] # NoEntry
                           /\ i \in unread => store'[i] # NoEntry
                           => disk'.scores[i] # NoEntry

\* Each step keeps the cache, and what its file has.
LEMMA CacheStep ==
  ASSUME CacheInv, [Next]_vars
  PROVE  CacheInv' /\ Survive
<1>1. ASSUME UNCHANGED cacheVars, UNCHANGED sessionVars, backend' \in BOOLEAN
      PROVE  CacheInv' /\ Survive
  BY <1>1 DEF CacheInv, SessionInv, cacheVars, sessionVars, Survive
<1>2. CASE DrawSearch \/ Pump \/ \E S \in SUBSET Icao : Search(S)
  BY <1>1, <1>2 DEF DrawSearch, Pump, Search, CacheInv, SessionInv
<1>3. CASE \E b \in BOOLEAN : Configure(b)
  BY <1>1, <1>3 DEF Configure
<1>4. ASSUME NEW c \in calls, WorkerCalls(c)
      PROVE  CacheInv' /\ Survive
  <2>1. UNCHANGED <<cacheVars, sessionVars, backend>>
    BY <1>4 DEF WorkerCalls
  <2> QED  BY <1>1, <2>1 DEF CacheInv, SessionInv
<1>5. ASSUME NEW c \in calls, Callback(c)
      PROVE  CacheInv' /\ Survive
  <2>1. running /\ UNCHANGED <<sessionVars, backend>>
    BY <1>5 DEF Callback
  <2>2. SessionInv /\ SessionInv'
    BY <2>1 DEF CacheInv, SessionInv, sessionVars
  <2>3. /\ store' \in Cache /\ disk' \in File /\ unread' = unread
        /\ disk' \in {disk, FileOf(store')}
        /\ \A i \in Icao : store[i] # NoEntry => store'[i] # NoEntry
    BY <1>5, CallbackSaves
  <2>4. \A i \in Icao : disk.scores[i] # NoEntry /\ i \notin unread => store[i] # NoEntry
    BY <2>1 DEF CacheInv
  <2>5. disk' = disk \/ disk'.scores = store'
    BY <2>2, <2>3, FileIsFile
  <2>6. Survive
    BY <2>3, <2>4, <2>5 DEF Survive
  <2>7. \A i \in Icao : disk'.scores[i] # NoEntry /\ i \notin unread' => store'[i] # NoEntry
    BY <2>3, <2>4, <2>5
  <2> QED  BY <2>2, <2>3, <2>6, <2>7 DEF CacheInv
<1>6. CASE PluginStops \/ Crash
  <2>1. running /\ ~running' /\ backend' = FALSE /\ UNCHANGED <<facts, version, store>>
        /\ unread' = {}
    BY <1>6 DEF PluginStops, Crash, ScorerStops
  <2>2. disk' \in {disk, FileOf(store)}
    BY <1>6 DEF PluginStops, Crash, SavedFiles
  <2>3. SessionInv'
    <3>1. running' = FALSE
      BY <1>6 DEF PluginStops, Crash, ScorerStops
    <3> QED  BY <2>1, <3>1 DEF CacheInv, SessionInv
  <2>4. \A i \in Icao : disk.scores[i] # NoEntry /\ i \notin unread => store[i] # NoEntry
    BY <2>1 DEF CacheInv
  <2>5. FileOf(store) \in File /\ FileOf(store).scores = store
    BY FileIsFile DEF CacheInv
  <2>6. disk' \in File /\ (disk' = disk \/ disk'.scores = store)
    BY <2>2, <2>5 DEF CacheInv
  <2>7. Survive
    BY <2>1, <2>4, <2>6 DEF Survive
  <2> QED  BY <2>1, <2>3, <2>6, <2>7 DEF CacheInv
<1>7. CASE PluginStarts
  <2>1. /\ disk' = disk /\ backend' = backend /\ running' = TRUE
        /\ facts' \in [Icao -> Facts] /\ version' \in Versions
    BY <1>7 DEF PluginStarts
  <2>2. PICK read \in SUBSET Icao :
          /\ store' = [i \in Icao |-> IF disk.layout = version'.file /\ i \in read
                                      THEN disk.scores[i] ELSE NoEntry]
          /\ unread' = {i \in Icao : /\ disk.scores[i] # NoEntry
                                     /\ ~(disk.layout = version'.file /\ i \in read)}
    <3>1. CacheLoads
      BY <1>7 DEF PluginStarts
    <3>2. (IF ReadsMayFail THEN SUBSET Icao ELSE {Icao}) \subseteq SUBSET Icao
      OBVIOUS
    <3> QED  BY <3>1, <3>2 DEF CacheLoads
  <2>3. disk.scores \in Cache
    BY DEF CacheInv, File
  <2>4. store' \in Cache /\ unread' \subseteq Icao
    BY <2>2, <2>3 DEF Cache
  <2>5. \A i \in Icao : disk'.scores[i] # NoEntry /\ i \notin unread' => store'[i] # NoEntry
    BY <2>1, <2>2
  <2>6. SessionInv'
    BY <2>1 DEF CacheInv, SessionInv
  <2>7. Survive
    BY <2>1 DEF Survive
  <2> QED  BY <2>1, <2>4, <2>5, <2>6, <2>7 DEF CacheInv
<1>8. CASE UNCHANGED vars
  BY <1>1, <1>8 DEF vars, cacheVars, sessionVars, CacheInv, SessionInv
<1> QED  BY <1>2, <1>3, <1>4, <1>5, <1>6, <1>7, <1>8 DEF Next

\* Before the first XPluginStart there is no score.
LEMMA CacheInit == Init => CacheInv
<1> SUFFICES ASSUME Init PROVE CacheInv
  OBVIOUS
<1>1. SessionInv
  BY DEF Init, SessionInv
<1>2. Empty \in Cache
  BY DEF Empty, Cache
<1>3. FileOf(Empty) \in File
  BY <1>1, <1>2, FileIsFile
<1> QED  BY <1>1, <1>2, <1>3 DEF Init, CacheInv

-----------------------------------------------------------------------------
(* Theorems.                                                               *)

\* The pending set is what is queued or asked for, each airport in one place, and
\* in_flight tells whether there is a call (pump(), enqueue_if_missing(), stop()).
THEOREM QueueInvariance == Spec => []QueueInv
BY InitHolds, StepKeeps, PTL DEF Spec

\* No airport is asked for twice at a time, and none is taken for queued that is not:
\* enqueue_if_missing(), pump() with its callback, and stop() agree on pending.
THEOREM PendingIsExact == Spec => []PendingExact
<1>1. QueueInv => PendingExact
  BY DEF QueueInv
<1> QED  BY <1>1, QueueInvariance, PTL

\* One call is out at a time, and in_flight says so, also where pump() is called from
\* the callback of the last.
THEOREM CallsOneAtATime == Spec => []OneCallAtATime
<1>1. QueueInv => OneCallAtATime
  BY DEF QueueInv
<1> QED  BY <1>1, QueueInvariance, PTL
\* The file and the memory hold scores on the scale only, whatever was answered.
THEOREM CacheInvariance == Spec => []CacheInv
<1>1. CacheInv /\ [Next]_vars => CacheInv'
  BY CacheStep
<1> QED  BY <1>1, CacheInit, PTL DEF Spec

\* Type correctness, with the range of the scores.
THEOREM TypeCorrect == Spec => []TypeOK
<1>1. QueueInv /\ CacheInv => TypeOK
  BY DEF QueueInv, TypeInv, CacheInv, SessionInv, File, TypeOK
<1> QED  BY <1>1, QueueInvariance, CacheInvariance, PTL

\* No failed save, crash or change of the prompt drops an airport from
\* airport_scores.json, and a restart only one that its load() found unreadable or
\* of another version and that was not scored again (save(), load()).
THEOREM SavedStay == Spec => SavedScoresSurvive
<1>1. CacheInv /\ [Next]_vars =>
        [\A i \in Icao : /\ disk.scores[i] # NoEntry
                         /\ i \in unread => store'[i] # NoEntry
                         => disk'.scores[i] # NoEntry]_vars
  BY CacheStep DEF Survive
<1> QED  BY <1>1, CacheInvariance, PTL DEF Spec, SavedScoresSurvive

\* A reply changes the scores of its batch only (find_in_batch()).
THEOREM AskedOnly == Spec => OnlyAskedScored
<1> DEFINE A == running /\ running' =>
                  \A i \in Icao : store'[i] # store[i] =>
                    \E c \in calls : c.phase = "replied" /\ i \in Range(c.batch)
<1>1. ASSUME CacheInv, [Next]_vars, ~UNCHANGED vars PROVE A
  <2>1. CASE \E c \in calls : Callback(c)
    BY <1>1, <2>1, CallbackScores DEF CacheInv
  <2>2. CASE PluginStops \/ Crash \/ PluginStarts
    BY <2>2 DEF PluginStops, Crash, PluginStarts, ScorerStops
  <2>3. CASE DrawSearch \/ Pump \/ \E S \in SUBSET Icao : Search(S)
    BY <2>3 DEF DrawSearch, Pump, Search, cacheVars
  <2>4. CASE \E c \in calls : WorkerCalls(c)
    <3>1. UNCHANGED cacheVars
      BY <2>4 DEF WorkerCalls
    <3> QED  BY <3>1 DEF cacheVars
  <2>5. CASE \E b \in BOOLEAN : Configure(b)
    BY <2>5 DEF Configure, cacheVars
  <2> QED  BY <1>1, <2>1, <2>2, <2>3, <2>4, <2>5 DEF Next
<1>2. CacheInv /\ [Next]_vars => [A]_vars
  BY <1>1
<1> QED  BY <1>2, CacheInvariance, PTL DEF Spec, OnlyAskedScored

\* A current score is kept for the session and not asked for again
\* (enqueue_if_missing(), lookup()).
THEOREM AskedOnce == Spec => ScoredOnce
<1> DEFINE Keeps(i) == Cached(i) => Cached(i)' /\ (i \in pending' => i \in pending)
           A == running /\ running' => \A i \in Icao : Keeps(i)
<1>1. ASSUME UNCHANGED cacheVars, UNCHANGED sessionVars, pending' = pending, NEW i \in Icao
      PROVE  Keeps(i)
  BY <1>1 DEF Cached, cacheVars, sessionVars
<1>2. ASSUME CacheInv, [Next]_vars, ~UNCHANGED vars PROVE A
  <2>1. CASE DrawSearch
    BY <2>1 DEF DrawSearch, Missing, Cached, cacheVars, sessionVars
  <2>2. CASE Pump \/ (\E S \in SUBSET Icao : Search(S)) \/ (\E b \in BOOLEAN : Configure(b))
    BY <1>1, <2>2 DEF Pump, Search, Configure, queueVars
  <2>3. ASSUME NEW c \in calls, WorkerCalls(c) PROVE A
    <3>1. UNCHANGED <<cacheVars, sessionVars, pending>>
      BY <2>3 DEF WorkerCalls
    <3> QED  BY <1>1, <3>1
  <2>4. ASSUME NEW c \in calls, Callback(c), NEW i \in Icao PROVE Keeps(i)
    <3>1. UNCHANGED sessionVars /\ pending' \subseteq pending
      BY <2>4 DEF Callback, Released
    <3>2. \/ store'[i] = store[i]
          \/ /\ store'[i] # NoEntry
             /\ store'[i].version = version.prompt /\ store'[i].sig = InputSig(facts[i])
            /\ store'[i].from = facts[i]
      BY <1>2, <2>4, CallbackScores, EntryIsSome DEF CacheInv
    <3> QED  BY <3>1, <3>2 DEF Cached, sessionVars
  <2>5. CASE PluginStops \/ Crash \/ PluginStarts
    BY <2>5 DEF PluginStops, Crash, PluginStarts, ScorerStops
  <2> QED  BY <1>2, <2>1, <2>2, <2>3, <2>4, <2>5 DEF Next
<1>3. CacheInv /\ [Next]_vars => [A]_vars
  BY <1>2
<1> QED  BY <1>3, CacheInvariance, PTL DEF Spec, ScoredOnce

-----------------------------------------------------------------------------
(* Signatures.                                                             *)

\* Two sequences with each value as often are equally long: places of one value
\* are paired with the places of that value.
LEMMA SortedTellsLength ==
  ASSUME NEW V, NEW s \in Seq(V), NEW t \in Seq(V), Sorted(s) = Sorted(t)
  PROVE  Len(s) = Len(t)
<1> DEFINE P(q, v) == {k \in DOMAIN q : q[k] = v}
           b == [v \in Range(s) |-> CHOOSE f : f \in Bijection(P(s, v), P(t, v))]
           g == [k \in DOMAIN s |-> b[s[k]][k]]
<1>1. Range(s) = Range(t)
  <2>1. DOMAIN Sorted(s) = Range(s) /\ DOMAIN Sorted(t) = Range(t)
    BY DEF Sorted
  <2> QED  BY <2>1
<1>2. /\ DOMAIN s = 1 .. Len(s) /\ DOMAIN t = 1 .. Len(t) /\ Len(s) \in Nat /\ Len(t) \in Nat
      /\ \A k \in DOMAIN s : s[k] \in Range(s)
      /\ \A k \in DOMAIN t : t[k] \in Range(s)
  <2>1. (\A k \in DOMAIN s : s[k] \in Range(s)) /\ \A k \in DOMAIN t : t[k] \in Range(t)
    BY DEF Range
  <2> HIDE DEF P, b, g
  <2> QED  BY <1>1, <2>1
<1>3. IsFiniteSet(1 .. Len(s)) /\ IsFiniteSet(1 .. Len(t))
  BY <1>2, FS_Interval
<1>4. ASSUME NEW v \in Range(s) PROVE b[v] \in Bijection(P(s, v), P(t, v))
  <2>1. IsFiniteSet(P(s, v)) /\ IsFiniteSet(P(t, v))
    BY <1>2, <1>3, FS_Subset
  <2>2. Cardinality(P(s, v)) = Cardinality(P(t, v))
    <3>1. Sorted(s)[v] = Cardinality(P(s, v)) /\ Sorted(t)[v] = Cardinality(P(t, v))
      BY <1>1 DEF Sorted
    <3> QED  BY <3>1
  <2>3. \E f : f \in Bijection(P(s, v), P(t, v))
    <3> HIDE DEF P
    <3> QED  BY <2>1, <2>2, FS_SameCardinalityBij DEF ExistsBijection
  <2> HIDE DEF P
  <2> QED  BY <2>3
<1> HIDE DEF b
<1>5. ASSUME NEW v \in Range(s)
      PROVE  /\ \A k \in P(s, v) : b[v][k] \in P(t, v)
             /\ \A j, k \in P(s, v) : b[v][j] = b[v][k] => j = k
             /\ \A m \in P(t, v) : \E k \in P(s, v) : b[v][k] = m
  <2>1. b[v] \in Bijection(P(s, v), P(t, v))
    BY <1>4
  <2> HIDE DEF P
  <2> QED  BY <2>1 DEF Bijection, Injection, Surjection, IsInjective
<1>6. ASSUME NEW k \in DOMAIN s PROVE g[k] \in DOMAIN t /\ t[g[k]] = s[k] /\ g[k] = b[s[k]][k]
  <2>1. s[k] \in Range(s) /\ k \in P(s, s[k]) /\ g[k] = b[s[k]][k]
    BY <1>2
  <2>2. g[k] \in P(t, s[k])
    <3> HIDE DEF P, g
    <3> QED  BY <1>5, <2>1
  <2> QED  BY <2>1, <2>2
<1>7. g \in [DOMAIN s -> DOMAIN t]
  BY <1>6
<1> HIDE DEF g
<1>8. ASSUME NEW j \in DOMAIN s, NEW k \in DOMAIN s, g[j] = g[k] PROVE j = k
  <2>1. s[j] = s[k]
    BY <1>6, <1>8
  <2>2. j \in P(s, s[k]) /\ k \in P(s, s[k]) /\ s[k] \in Range(s)
    BY <1>2, <2>1
  <2>3. b[s[k]][j] = b[s[k]][k]
    BY <1>6, <1>8, <2>1
  <2> HIDE DEF P
  <2> QED  BY <1>5, <2>2, <2>3
<1>9. ASSUME NEW m \in DOMAIN t PROVE \E k \in DOMAIN s : g[k] = m
  <2>1. t[m] \in Range(s) /\ m \in P(t, t[m])
    BY <1>2
  <2>2. PICK k \in P(s, t[m]) : b[t[m]][k] = m
    <3> HIDE DEF P
    <3> QED  BY <1>5, <2>1
  <2>3. k \in DOMAIN s /\ s[k] = t[m]
    OBVIOUS
  <2> QED  BY <1>6, <2>2, <2>3
<1>10. g \in Bijection(1 .. Len(s), 1 .. Len(t))
  BY <1>2, <1>7, <1>8, <1>9 DEF Bijection, Injection, Surjection, IsInjective
<1>11. Cardinality(1 .. Len(s)) = Cardinality(1 .. Len(t))
  BY <1>3, <1>10, FS_Bijection DEF ExistsBijection
<1>12. Cardinality(1 .. Len(s)) = Len(s) /\ Cardinality(1 .. Len(t)) = Len(t)
  <2>1. ASSUME NEW n \in Nat PROVE Cardinality(1 .. n) = n
    <3>1. Cardinality(1 .. n) = IF 1 > n THEN 0 ELSE n - 1 + 1
      BY FS_Interval
    <3> QED  BY <3>1
  <2> QED  BY <1>2, <2>1
<1> QED  BY <1>11, <1>12

\* What airports of one signature have in common.
LEMMA SigTells ==
  ASSUME NEW f \in Facts, NEW g \in Facts, InputSig(f) = InputSig(g)
  PROVE  /\ f.facility = g.facility /\ f.elevation = g.elevation
         /\ Len(f.runways) = Len(g.runways) /\ Len(f.frequencies) = Len(g.frequencies)
<1>1. f \in AirportFacts /\ g \in AirportFacts
  BY ScorerAssumption DEF ScorerFacts
<1>2. f.frequencies \in Seq(FrequencyType) /\ g.frequencies \in Seq(FrequencyType)
  BY <1>1 DEF AirportFacts
<1>3. /\ InputSig(f).facility = f.facility /\ InputSig(g).facility = g.facility
      /\ InputSig(f).elevation = f.elevation /\ InputSig(g).elevation = g.elevation
      /\ InputSig(f).count = Len(f.runways) /\ InputSig(g).count = Len(g.runways)
      /\ InputSig(f).types = Sorted(f.frequencies) /\ InputSig(g).types = Sorted(g.frequencies)
  BY DEF InputSig
<1>4. Sorted(f.frequencies) = Sorted(g.frequencies)
  BY <1>3
<1>5. Len(f.frequencies) = Len(g.frequencies)
  BY <1>2, <1>4, SortedTellsLength
<1> QED  BY <1>3, <1>5

\* Every entry is under the signature of the data it was asked for with, in memory
\* and, as the next session loads it, in the file.
Labelled(cache) == \A i \in Icao : cache[i] # NoEntry => cache[i].sig = InputSig(cache[i].from)
LabelInv == Labelled(store) /\ Labelled(disk.scores)

LEMMA LabelStep == CacheInv /\ LabelInv /\ [Next]_vars => LabelInv'
<1> SUFFICES ASSUME CacheInv, LabelInv, [Next]_vars PROVE LabelInv'
  OBVIOUS
<1>1. CASE store' = store /\ disk' = disk
  BY <1>1 DEF LabelInv, Labelled
<1> SessionInv /\ store \in Cache
  BY DEF CacheInv
<1>2. ASSUME NEW c \in calls, Callback(c) PROVE LabelInv'
  <2>1. SessionInv /\ store \in Cache
    BY DEF CacheInv
  <2>2. disk' = disk \/ disk'.scores = store'
    BY <1>2, CallbackSaves, FileIsFile
  <2>3. ASSUME NEW i \in Icao, store'[i] # NoEntry
        PROVE  store'[i].sig = InputSig(store'[i].from)
    <3>1. CASE store'[i] = store[i]
      BY <2>3, <3>1 DEF LabelInv, Labelled
    <3>2. CASE store'[i].sig = InputSig(facts[i]) /\ store'[i].from = facts[i]
      BY <3>2
    <3> QED  BY <1>2, <2>1, <3>1, <3>2, CallbackScores
  <2> QED  BY <2>2, <2>3 DEF LabelInv, Labelled
<1>3. CASE PluginStops \/ Crash
  <2>1. store' = store /\ (disk' = disk \/ disk'.scores = store)
    BY <1>3, FileIsFile DEF PluginStops, Crash, ScorerStops, SavedFiles
  <2> QED  BY <2>1 DEF LabelInv, Labelled
<1>4. CASE PluginStarts
  <2>1. /\ disk' = disk
        /\ \A i \in Icao : store'[i] = disk.scores[i] \/ store'[i] = NoEntry
    BY <1>4 DEF PluginStarts, CacheLoads
  <2> QED  BY <2>1 DEF LabelInv, Labelled
<1>5. CASE DrawSearch \/ Pump \/ \E S \in SUBSET Icao : Search(S)
  BY <1>1, <1>5 DEF DrawSearch, Pump, Search, cacheVars
<1>6. CASE \E b \in BOOLEAN : Configure(b)
  BY <1>1, <1>6 DEF Configure, cacheVars
<1>7. ASSUME NEW c \in calls, WorkerCalls(c) PROVE LabelInv'
  BY <1>1, <1>7 DEF WorkerCalls, cacheVars
<1>8. CASE UNCHANGED vars
  BY <1>1, <1>8 DEF vars
<1> QED  BY <1>2, <1>3, <1>4, <1>5, <1>6, <1>7, <1>8 DEF Next

\* lookup() with input_sig(): a score that is shown was given to an airport of the
\* facility and the elevation it has now, with as many runways and frequencies,
\* through any crashes, releases and changes of the airport data.
THEOREM ScoresFit == Spec => []ScoreFitsAirport
<1>1. Init => LabelInv
  BY DEF Init, Empty, FileOf, LabelInv, Labelled
<1>2. Spec => []LabelInv
  BY <1>1, LabelStep, CacheInvariance, PTL DEF Spec
<1>3. CacheInv /\ LabelInv => ScoreFitsAirport
  <2> SUFFICES ASSUME CacheInv, LabelInv, NEW i \in Icao, Cached(i)
               PROVE  /\ store[i].from.facility = facts[i].facility
                      /\ store[i].from.elevation = facts[i].elevation
                      /\ Len(store[i].from.runways) = Len(facts[i].runways)
                      /\ Len(store[i].from.frequencies) = Len(facts[i].frequencies)
    BY DEF ScoreFitsAirport
  <2>1. store[i] \in Entry
    BY DEF Cached, CacheInv, Cache
  <2>2. store[i].from \in Facts /\ facts[i] \in Facts
    BY <2>1 DEF Entry, CacheInv, SessionInv
  <2>3. InputSig(store[i].from) = InputSig(facts[i])
    BY DEF LabelInv, Labelled, Cached
  <2> QED  BY <2>2, <2>3, SigTells
<1> QED  BY <1>2, <1>3, CacheInvariance, PTL
=============================================================================
