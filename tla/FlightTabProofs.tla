---------------------------- MODULE FlightTabProofs ----------------------------
(***************************************************************************)
(* Proofs about FlightTab: what the results are, that a selection and its  *)
(* popup last, and what becomes of the pilot's flight plan.                *)
(***************************************************************************)
EXTENDS FlightTab, FiniteSetTheorems, WellFoundedInduction, TLAPS

-----------------------------------------------------------------------------
(* The k-th of some places.                                                *)

UpTo(places, i) == {j \in places : j <= i}
Rank(places, i) == Cardinality(UpTo(places, i))

\* The greatest of some numbers below a bound.
LEMMA GreatestOf ==
  ASSUME NEW n \in Nat, NEW S \in SUBSET (0 .. n), S # {}
  PROVE  \E x \in S : \A y \in S : y <= x
<1> DEFINE T == {n - k : k \in S}
<1>1. \A k \in S : n - k \in Nat /\ k \in Nat
  OBVIOUS
<1>2. T \subseteq Nat /\ T # {}
  BY <1>1
<1>3. PICK x \in T : \A y \in T : ~(<<y, x>> \in OpToRel(<, Nat))
  BY <1>2, WFMin, NatLessThanWellFounded
<1>4. PICK k \in S : x = n - k
  OBVIOUS
<1>5. ASSUME NEW j \in S PROVE j <= k
  <2>1. n - j \in T /\ ~(n - j < x)
    BY <1>1, <1>2, <1>3 DEF OpToRel
  <2> QED  BY <1>1, <1>4, <2>1
<1> QED  BY <1>5

\* Of two places the later one has the higher rank, all have one, and the last one
\* in the list has the last rank.
LEMMA Ranks ==
  ASSUME NEW n \in Nat, NEW places \in SUBSET (1 .. n)
  PROVE  /\ IsFiniteSet(places) /\ Cardinality(places) \in Nat /\ Cardinality(places) <= n
         /\ \A i \in places : Rank(places, i) \in 1 .. Cardinality(places)
         /\ \A i, j \in places : i < j => Rank(places, i) < Rank(places, j)
<1>1. IsFiniteSet(places) /\ Cardinality(places) \in Nat /\ Cardinality(places) <= n
  <2>1. IsFiniteSet(1 .. n) /\ Cardinality(1 .. n) = n
    BY FS_Interval
  <2> QED  BY <2>1, FS_Subset, FS_CardinalityType
<1>2. ASSUME NEW i \in places PROVE Rank(places, i) \in 1 .. Cardinality(places)
  <2>1. UpTo(places, i) \in SUBSET places /\ i \in UpTo(places, i)
    BY DEF UpTo
  <2>2. IsFiniteSet(UpTo(places, i)) /\ Cardinality(UpTo(places, i)) <= Cardinality(places)
    BY <1>1, <2>1, FS_Subset
  <2>3. Cardinality(UpTo(places, i)) \in Nat /\ Cardinality(UpTo(places, i)) # 0
    BY <2>1, <2>2, FS_CardinalityType, FS_EmptySet
  <2> QED  BY <1>1, <2>2, <2>3 DEF Rank
<1>3. ASSUME NEW i \in places, NEW j \in places, i < j
      PROVE  Rank(places, i) < Rank(places, j)
  <2>1. UpTo(places, i) \in SUBSET UpTo(places, j) /\ UpTo(places, j) \in SUBSET places
    <3>1. \A x \in places : x \in Nat
      OBVIOUS
    <3>2. ASSUME NEW x \in places, x <= i PROVE x <= j
      BY <1>3, <3>1, <3>2
    <3> QED  BY <3>2 DEF UpTo
  <2>2. j \in UpTo(places, j) /\ j \notin UpTo(places, i)
    BY <1>3 DEF UpTo
  <2>3. IsFiniteSet(UpTo(places, j))
    BY <1>1, <2>1, FS_Subset
  <2>4. /\ Rank(places, i) <= Rank(places, j)
        /\ Rank(places, i) # Rank(places, j)
    BY <2>1, <2>2, <2>3, FS_Subset DEF Rank
  <2> QED  BY <1>2, <2>4
<1> QED  BY <1>1, <1>2, <1>3

\* No rank is left out: below the place of the next one is the place of this one.
LEMMA RankReached ==
  ASSUME NEW n \in Nat, NEW places \in SUBSET (1 .. n), NEW k \in 1 .. Cardinality(places)
  PROVE  \E i \in places : Rank(places, i) = k
<1>r. /\ IsFiniteSet(places) /\ Cardinality(places) \in Nat /\ Cardinality(places) <= n
      /\ \A i \in places : Rank(places, i) \in 1 .. Cardinality(places)
      /\ \A i, j \in places : i < j => Rank(places, i) < Rank(places, j)
  BY Ranks
<1> DEFINE missed == {m \in 1 .. Cardinality(places) : \A i \in places : Rank(places, i) # m}
<1>1. SUFFICES ASSUME missed # {} PROVE FALSE
  BY DEF missed
<1>2. PICK m \in missed : \A y \in missed : y <= m
  <2>1. missed \in SUBSET (0 .. n)
    BY <1>r
  <2> QED  BY <1>1, <2>1, GreatestOf
<1>3. CASE m = Cardinality(places)
  <2>1. places # {}
    BY <1>3, <1>r, FS_EmptySet
  <2>2. PICK i \in places : \A j \in places : j <= i
    <3>1. places \in SUBSET (0 .. n)
      OBVIOUS
    <3> QED  BY <2>1, <3>1, GreatestOf
  <2>3. UpTo(places, i) = places
    BY <2>2 DEF UpTo
  <2> QED  BY <1>2, <1>3, <2>3 DEF Rank
<1>4. CASE m # Cardinality(places)
  <2>1. m + 1 \in 1 .. Cardinality(places) /\ m + 1 \notin missed /\ m \in Nat /\ m >= 1
    BY <1>2, <1>4, <1>r
  <2>2. PICK i \in places : Rank(places, i) = m + 1
    BY <2>1
  <2> DEFINE below == UpTo(places, i) \ {i}
  <2>3. IsFiniteSet(below) /\ Cardinality(below) = m
    <3>1. IsFiniteSet(UpTo(places, i)) /\ i \in UpTo(places, i)
      BY <1>r, FS_Subset DEF UpTo
    <3> QED  BY <3>1, <2>1, <2>2, FS_RemoveElement DEF Rank
  <2>4. below # {} /\ below \in SUBSET (0 .. n)
    <3>1. below \in SUBSET places
      BY DEF UpTo
    <3>2. Cardinality(below) # 0
      BY <2>1, <2>3
    <3>3. below # {}
      BY <3>2, FS_EmptySet
    <3>4. \A x \in places : x \in 0 .. n
      OBVIOUS
    <3> HIDE DEF below
    <3> QED  BY <3>1, <3>3, <3>4
  <2>5. PICK j \in below : \A y \in below : y <= j
    BY <2>4, GreatestOf
  <2>6. UpTo(places, j) = below
    <3>1. \A x \in places : x \in Nat
      OBVIOUS
    <3>2. j \in places /\ j <= i /\ j # i
      BY <2>5 DEF UpTo
    <3>3. ASSUME NEW x \in below PROVE x \in UpTo(places, j)
      BY <2>5 DEF UpTo
    <3>4. ASSUME NEW x \in UpTo(places, j) PROVE x \in below
      <4>1. x \in places /\ x <= j
        BY DEF UpTo
      <4>2. x <= i /\ x # i
        BY <3>1, <3>2, <4>1
      <4> QED  BY <4>1, <4>2 DEF UpTo
    <3> QED  BY <3>3, <3>4
  <2> QED  BY <1>2, <2>3, <2>5, <2>6 DEF Rank, UpTo
<1> QED  BY <1>3, <1>4

\* The k-th place is one of them with k up to it, and each is one of these.
LEMMA NthPlace ==
  ASSUME NEW n \in Nat, NEW places \in SUBSET (1 .. n)
  PROVE  /\ \A k \in 1 .. Cardinality(places) :
              Nth(places, k) \in places /\ Rank(places, Nth(places, k)) = k
         /\ \A i \in places : Nth(places, Rank(places, i)) = i
<1>1. ASSUME NEW k \in 1 .. Cardinality(places)
      PROVE  Nth(places, k) \in places /\ Rank(places, Nth(places, k)) = k
  <2>1. \E i \in places : Cardinality({j \in places : j <= i}) = k
    BY RankReached DEF Rank, UpTo
  <2> QED  BY <2>1 DEF Nth, Rank, UpTo
<1>2. ASSUME NEW i \in places PROVE Nth(places, Rank(places, i)) = i
  <2>0. Cardinality(places) \in Nat /\ \A a \in places : Rank(places, a) \in 1 .. Cardinality(places)
    BY Ranks
  <2>1. /\ Rank(places, i) \in 1 .. Cardinality(places)
        /\ \A a, b \in places : a < b => Rank(places, a) < Rank(places, b)
        /\ \A a \in places : Rank(places, a) \in Nat
    <3>1. \A a, b \in places : a < b => Rank(places, a) < Rank(places, b)
      BY Ranks
    <3> QED  BY <2>0, <3>1
  <2>2. Nth(places, Rank(places, i)) \in places
        /\ Rank(places, Nth(places, Rank(places, i))) = Rank(places, i)
    BY <1>1, <2>1
  <2> DEFINE j == Nth(places, Rank(places, i))
  <2>3. j \in places /\ Rank(places, j) = Rank(places, i)
    BY <2>2
  <2> HIDE DEF j
  <2>n. i \in Nat /\ j \in Nat
    BY <2>3
  <2>4. ~(i < j) /\ ~(j < i)
    BY <2>1, <2>3
  <2>5. i = j
    BY <2>n, <2>4
  <2> QED  BY <2>5 DEF j
<1> QED  BY <1>1, <1>2

-----------------------------------------------------------------------------
(* The results: some places of the candidates, as many as there is room for. *)

AtMost(m, places) == IF Cardinality(places) > m THEN m ELSE Cardinality(places)
Picked(s, places, m) == [k \in 1 .. AtMost(m, places) |-> s[Nth(places, k)]]

LEMMA PickedAre ==
  ASSUME NEW T, NEW s \in Seq(T), NEW places \in SUBSET (1 .. Len(s)), NEW m \in Nat
  PROVE  /\ Picked(s, places, m) \in Seq(T)
         /\ Len(Picked(s, places, m)) = AtMost(m, places)
         /\ AtMost(m, places) \in 0 .. m
         /\ \A k \in 1 .. AtMost(m, places) :
              /\ Nth(places, k) \in places
              /\ Picked(s, places, m)[k] = s[Nth(places, k)]
<1>1. Len(s) \in Nat /\ \A i \in 1 .. Len(s) : s[i] \in T
  OBVIOUS
<1>2. Cardinality(places) \in Nat
  BY <1>1, Ranks
<1>3. AtMost(m, places) \in 0 .. m /\ AtMost(m, places) <= Cardinality(places)
  BY <1>2 DEF AtMost
<1>4. ASSUME NEW k \in 1 .. AtMost(m, places)
      PROVE  Nth(places, k) \in places /\ s[Nth(places, k)] \in T
  <2>1. k \in 1 .. Cardinality(places)
    BY <1>2, <1>3
  <2>2. Nth(places, k) \in places
    BY <1>1, <2>1, NthPlace
  <2> QED  BY <1>1, <2>2
<1>5. Picked(s, places, m) \in [1 .. AtMost(m, places) -> T]
  BY <1>4 DEF Picked
<1>6. /\ Picked(s, places, m) \in Seq(T)
      /\ Len(Picked(s, places, m)) = AtMost(m, places)
  BY <1>3, <1>5
<1> QED  BY <1>3, <1>4, <1>6 DEF Picked

\* With more places there are not fewer results, and what is pushed out makes room
\* for entries before it.
LEMMA MorePlaces ==
  ASSUME NEW T, NEW s \in Seq(T), NEW m \in Nat,
         NEW more \in SUBSET (1 .. Len(s)), NEW places \in SUBSET more
  PROVE  /\ AtMost(m, places) <= AtMost(m, more)
         /\ \A k \in 1 .. AtMost(m, places) :
              \/ \E l \in 1 .. AtMost(m, more) : Nth(more, l) = Nth(places, k)
              \/ /\ AtMost(m, more) = m
                 /\ \A l \in 1 .. AtMost(m, more) : Nth(more, l) < Nth(places, k)
<1>1. Len(s) \in Nat /\ places \in SUBSET (1 .. Len(s))
  OBVIOUS
<1>2. /\ IsFiniteSet(more) /\ Cardinality(more) \in Nat /\ Cardinality(places) \in Nat
      /\ Cardinality(places) <= Cardinality(more)
  BY <1>1, Ranks, FS_Subset
<1>n. \A x \in more : x \in Nat
  BY <1>1
<1>3. AtMost(m, places) <= AtMost(m, more) /\ AtMost(m, more) \in Nat
  BY <1>2 DEF AtMost
<1>4. ASSUME NEW k \in 1 .. AtMost(m, places),
             \A l \in 1 .. AtMost(m, more) : Nth(more, l) # Nth(places, k)
      PROVE  /\ AtMost(m, more) = m
             /\ \A l \in 1 .. AtMost(m, more) : Nth(more, l) < Nth(places, k)
  <2> DEFINE i == Nth(places, k)
  <2>1. i \in more
    BY <1>1, PickedAre
  <2>2. Rank(more, i) \in 1 .. Cardinality(more) /\ Nth(more, Rank(more, i)) = i
    BY <1>1, <2>1, Ranks, NthPlace
  <2>3. Rank(more, i) \notin 1 .. AtMost(m, more)
    BY <1>4, <2>2
  <2>4. AtMost(m, more) = m /\ Rank(more, i) > m
    BY <1>2, <2>2, <2>3 DEF AtMost
  <2>5. ASSUME NEW l \in 1 .. AtMost(m, more) PROVE Nth(more, l) < i
    <3>1. l \in 1 .. Cardinality(more)
      BY <1>2, <2>4 DEF AtMost
    <3>2. Nth(more, l) \in more /\ Rank(more, Nth(more, l)) = l
      BY <1>1, <3>1, NthPlace
    <3> DEFINE j == Nth(more, l)
    <3>3. j \in more /\ Rank(more, j) = l /\ l \in Nat
      BY <3>2
    <3>4. l < Rank(more, i) /\ Rank(more, i) \in Nat
      BY <1>2, <2>2, <2>4, <3>3
    <3> HIDE DEF i, j
    <3>5. i # j /\ ~(i < j)
      <4>1. \A a, b \in more : a < b => Rank(more, a) < Rank(more, b)
        BY <1>1, Ranks
      <4>2. i < j => Rank(more, i) < l
        BY <2>1, <3>3, <4>1
      <4>3. ~(Rank(more, i) < l) /\ Rank(more, i) # l
        BY <3>3, <3>4
      <4> QED  BY <3>3, <4>2, <4>3
    <3>6. j < i
      <4>1. i \in Nat /\ j \in Nat
        BY <1>n, <2>1, <3>3
      <4> QED  BY <3>5, <4>1
    <3> QED  BY <3>6 DEF j
  <2> QED  BY <2>4, <2>5
<1> QED  BY <1>3, <1>4

LEMMA EntriesOf ==
  ASSUME NEW T, NEW s \in Seq(T)
  PROVE  Len(s) \in Nat /\ DOMAIN s = 1 .. Len(s) /\ \A i \in 1 .. Len(s) : s[i] \in T
OBVIOUS

\* The candidates of a search are destinations.
LEMMA CandidatesAre ==
  ASSUME NEW dep \in Departures, NEW query \in Queries
  PROVE  CandidatesFor[dep][query] \in Seq(Destinations)
<1> DEFINE list == Ranking[dep]
           near == {i \in DOMAIN list : InRange(Facts[list[i].icao], list[i].km, query)}
<1>1. list \in Seq([icao : Database, km : Nat])
  BY FlightTabAssumption
<1>2. Len(list) \in Nat /\ DOMAIN list = 1 .. Len(list)
      /\ \A i \in 1 .. Len(list) : list[i].icao \in Database
  <2> HIDE DEF list
  <2>1. Len(list) \in Nat /\ DOMAIN list = 1 .. Len(list)
        /\ \A i \in 1 .. Len(list) : list[i] \in [icao : Database, km : Nat]
    BY <1>1, EntriesOf
  <2>2. \A c \in [icao : Database, km : Nat] : c.icao \in Database
    OBVIOUS
  <2> QED  BY <2>1, <2>2
<1>3. near \in SUBSET (1 .. Len(list))
  BY <1>2
<1>4. CandidatesFor[dep][query] =
        [k \in 1 .. Cardinality(near) |-> list[Nth(near, k)].icao]
  BY DEF CandidatesFor
<1>5. ASSUME NEW k \in 1 .. Cardinality(near)
      PROVE  list[Nth(near, k)].icao \in Destinations
  <2>1. Nth(near, k) \in near
    BY <1>2, <1>3, NthPlace
  <2>2. \A i \in near : list[i].icao \in Database /\ GaSuitable(Facts[list[i].icao])
    BY <1>2 DEF InRange
  <2> QED  BY <2>1, <2>2 DEF Destinations
<1>6. Cardinality(near) \in Nat
  BY <1>2, <1>3, Ranks
<1> HIDE DEF near, list
<1>7. CandidatesFor[dep][query] \in [1 .. Cardinality(near) -> Destinations]
  BY <1>4, <1>5
<1> QED  BY <1>6, <1>7

\* What the tab shows of them.
Passing(cands, Ok) == {i \in DOMAIN cands : cands[i] \in Ok}
Shown(cands, Ok) == Picked(cands, Passing(cands, Ok), MaxResults)
Matching == {a \in Destinations : Matches(a)}

LEMMA CandidatesTyped ==
  ASSUME searched \in Criteria
  PROVE  /\ Candidates \in Seq(Destinations)
         /\ searched.dep # NoAirport =>
              /\ searched.dep \in Departures /\ searched.query \in Queries
              /\ Candidates = CandidatesFor[searched.dep][searched.query]
<1>1. searched.query \in Queries /\ searched.dep \in Departures \cup {NoAirport}
  BY DEF Criteria
<1>2. <<>> \in Seq(Destinations)
  OBVIOUS
<1>3. CASE searched.dep = NoAirport
  BY <1>2, <1>3 DEF Candidates
<1>4. CASE searched.dep # NoAirport
  BY <1>1, <1>4, CandidatesAre DEF Candidates
<1> QED  BY <1>3, <1>4

LEMMA ResultsShown ==
  ASSUME Candidates \in Seq(Destinations)
  PROVE  Results = Shown(Candidates, Matching)
<1>1. \A i \in DOMAIN Candidates : Candidates[i] \in Destinations
  OBVIOUS
<1>2. Passing(Candidates, Matching) = {i \in DOMAIN Candidates : Matches(Candidates[i])}
  BY <1>1 DEF Passing, Matching
<1> QED  BY <1>2 DEF Results, Shown, Picked, AtMost

LEMMA ShownAre ==
  ASSUME NEW cands \in Seq(Destinations), NEW Ok
  PROVE  /\ Shown(cands, Ok) \in Seq(Destinations)
         /\ Len(Shown(cands, Ok)) \in 0 .. MaxResults
         /\ \A k \in 1 .. Len(Shown(cands, Ok)) :
              Shown(cands, Ok)[k] \in Range(cands) \cap Destinations
<1>1. Passing(cands, Ok) \in SUBSET (1 .. Len(cands))
  BY DEF Passing
<1>2. MaxResults \in Nat
  BY FlightTabAssumption
<1>3. ASSUME NEW k \in 1 .. AtMost(MaxResults, Passing(cands, Ok))
      PROVE  Shown(cands, Ok)[k] \in Range(cands) \cap Destinations
  <2>1. PICK i \in 1 .. Len(cands) : Shown(cands, Ok)[k] = cands[i]
    BY <1>1, <1>2, PickedAre DEF Shown
  <2> QED  BY <2>1 DEF Range
<1>4. /\ Shown(cands, Ok) \in Seq(Destinations)
      /\ Len(Shown(cands, Ok)) = AtMost(MaxResults, Passing(cands, Ok))
      /\ AtMost(MaxResults, Passing(cands, Ok)) \in 0 .. MaxResults
  BY <1>1, <1>2, PickedAre DEF Shown
<1> QED  BY <1>3, <1>4

-----------------------------------------------------------------------------
(* The invariant.                                                          *)

\* The selection is within the results.
TabInv == TypeOK /\ selected <= Len(Results)

\* The results in a state of the tab.
LEMMA ResultsTyped ==
  ASSUME searched \in Criteria
  PROVE  /\ Results = Shown(Candidates, Matching)
         /\ Results \in Seq(Destinations) /\ Len(Results) \in 0 .. MaxResults
         /\ \A k \in 1 .. Len(Results) : Results[k] \in Range(Candidates) \cap Destinations
         /\ Range(Candidates) \subseteq Destinations
<1>1. Candidates \in Seq(Destinations)
  BY CandidatesTyped
<1>2. Range(Candidates) \subseteq Destinations
  BY <1>1 DEF Range
<1> QED  BY <1>1, <1>2, ResultsShown, ShownAre

\* They depend on the search and the scores only.
LEMMA ResultsStay ==
  ASSUME UNCHANGED <<searched, score>>
  PROVE  Candidates' = Candidates /\ Matching' = Matching /\ Results' = Results
<1>1. Candidates' = Candidates
  BY DEF Candidates
<1>2. \A a : Matches(a)' <=> Matches(a)
  BY DEF Matches, ScoreOf, Trusted
<1>3. Matching' = Matching
  BY <1>2 DEF Matching
<1>4. Results' = Results
  BY <1>1, <1>2 DEF Results
<1> QED  BY <1>1, <1>3, <1>4

\* A score that arrives takes no destination out of a bucket.
LEMMA ScoresAdd ==
  ASSUME TypeOK, NEW a \in Destinations, Scored(a)
  PROVE  Candidates' = Candidates /\ Matching \subseteq Matching'
<1>1. searched' = searched
  BY DEF Scored, tab
<1>2. ASSUME NEW d \in Destinations, Matches(d) PROVE Matches(d)'
  <2>1. CASE searched.query.difficulty = "ANY"
    BY <1>1, <2>1 DEF Matches
  <2>2. CASE searched.query.difficulty # "ANY"
    <3>1. score[d] # Unscored
      BY <1>2, <2>2 DEF Matches, Trusted, ScoreOf
    <3>2. score[a] = Unscored
      BY DEF Scored, TypeOK
    <3>3. score'[d] = score[d]
      BY <3>1, <3>2 DEF Scored, TypeOK
    <3>4. ScoreOf(d)' = ScoreOf(d)
      BY <3>3 DEF ScoreOf
    <3> QED  BY <1>1, <1>2, <3>4 DEF Matches, Trusted
  <2> QED  BY <2>1, <2>2
<1>3. Candidates' = Candidates
  BY <1>1 DEF Candidates
<1> QED  BY <1>2, <1>3 DEF Matching

LEMMA MoreShown ==
  ASSUME NEW cands \in Seq(Destinations), NEW Now, NEW Ok \in SUBSET Now
  PROVE  /\ Len(Shown(cands, Ok)) <= Len(Shown(cands, Now))
         /\ \A a \in Range(Shown(cands, Ok)) :
              \/ a \in Range(Shown(cands, Now))
              \/ /\ Len(Shown(cands, Now)) = MaxResults
                 /\ \A b \in Range(Shown(cands, Now)) :
                      \E i \in DOMAIN cands : \E j \in 1..(i - 1) : cands[i] = a /\ cands[j] = b
<1> DEFINE places == Passing(cands, Ok)
           more == Passing(cands, Now)
           few == AtMost(MaxResults, places)
           many == AtMost(MaxResults, more)
<1>1. /\ more \in SUBSET (1 .. Len(cands)) /\ places \in SUBSET more
      /\ places \in SUBSET (1 .. Len(cands)) /\ MaxResults \in Nat
  BY FlightTabAssumption DEF Passing
<1>2. /\ Len(Shown(cands, Ok)) = few /\ few \in Nat
      /\ Shown(cands, Ok) \in Seq(Destinations)
      /\ \A k \in 1 .. few : /\ Nth(places, k) \in places
                             /\ Shown(cands, Ok)[k] = cands[Nth(places, k)]
  <2>1. places \in SUBSET (1 .. Len(cands)) /\ MaxResults \in Nat
    BY <1>1
  <2>2. Shown(cands, Ok) = Picked(cands, places, MaxResults)
    BY DEF Shown
  <2> HIDE DEF places
  <2> QED  BY <2>1, <2>2, PickedAre
<1>3. /\ Len(Shown(cands, Now)) = many /\ many \in Nat
      /\ Shown(cands, Now) \in Seq(Destinations)
      /\ \A k \in 1 .. many : /\ Nth(more, k) \in more
                              /\ Shown(cands, Now)[k] = cands[Nth(more, k)]
  BY <1>1, PickedAre DEF Shown
<1>4. /\ few <= many
      /\ \A k \in 1 .. few :
           \/ \E l \in 1 .. many : Nth(more, l) = Nth(places, k)
           \/ many = MaxResults /\ \A l \in 1 .. many : Nth(more, l) < Nth(places, k)
  BY <1>1, MorePlaces
<1> HIDE DEF places, more, few, many
<1>5. ASSUME NEW a \in Range(Shown(cands, Ok)), a \notin Range(Shown(cands, Now))
      PROVE  /\ many = MaxResults
             /\ \A b \in Range(Shown(cands, Now)) :
                  \E i \in DOMAIN cands : \E j \in 1..(i - 1) : cands[i] = a /\ cands[j] = b
  <2>1. PICK k \in 1 .. few : a = cands[Nth(places, k)]
    BY <1>2 DEF Range
  <2>2. Nth(places, k) \in 1 .. Len(cands)
    BY <1>1, <1>2
  <2>3. \A l \in 1 .. many : cands[Nth(more, l)] \in Range(Shown(cands, Now))
    BY <1>3 DEF Range
  <2>4. many = MaxResults /\ \A l \in 1 .. many : Nth(more, l) < Nth(places, k)
    BY <1>4, <1>5, <2>1, <2>3
  <2>5. ASSUME NEW b \in Range(Shown(cands, Now))
        PROVE  \E i \in DOMAIN cands : \E j \in 1..(i - 1) : cands[i] = a /\ cands[j] = b
    <3>1. PICK l \in 1 .. many : b = cands[Nth(more, l)]
      BY <1>3 DEF Range
    <3>2. Nth(more, l) \in 1 .. Len(cands) /\ Nth(more, l) < Nth(places, k)
      BY <1>1, <1>3, <2>4
    <3>3. Nth(more, l) \in 1 .. (Nth(places, k) - 1)
      BY <2>2, <3>2
    <3>4. Nth(places, k) \in DOMAIN cands
      BY <2>2
    <3> QED  BY <2>1, <3>1, <3>3, <3>4
  <2> QED  BY <2>4, <2>5
<1> QED  BY <1>2, <1>3, <1>4, <1>5

\* A score adds to the results and only pushes out.
LEMMA ScoredShown ==
  ASSUME TypeOK, NEW a \in Destinations, Scored(a)
  PROVE  /\ Candidates \in Seq(Destinations) /\ Matching \in SUBSET Matching'
         /\ Results = Shown(Candidates, Matching) /\ Results' = Shown(Candidates, Matching')
         /\ Len(Results) <= Len(Results') /\ Len(Results') \in Nat
<1>1. Candidates' = Candidates /\ Matching \subseteq Matching' /\ Candidates \in Seq(Destinations)
  BY ScoresAdd, CandidatesTyped DEF TypeOK
<1>2. Results = Shown(Candidates, Matching) /\ Results' = Shown(Candidates, Matching')
  <2>1. \A k \in DOMAIN Candidates : Candidates[k] \in Destinations
    BY <1>1
  <2>2. Passing(Candidates, Matching') = {k \in DOMAIN Candidates' : Matches(Candidates[k])'}
    BY <1>1, <2>1 DEF Passing, Matching
  <2>3. Results' = Shown(Candidates, Matching')
    BY <1>1, <2>2 DEF Results, Shown, Picked, AtMost
  <2> QED  BY <1>1, <2>3, ResultsShown
<1>3. Len(Results) <= Len(Results') /\ Len(Results') \in Nat
  BY <1>1, <1>2, MoreShown, ShownAre
<1> QED  BY <1>1, <1>2, <1>3

\* The candidates of the next frame.
LEMMA CandidatesAfter ==
  ASSUME searched' \in Criteria
  PROVE  Candidates' \in Seq(Destinations)
<1>1. searched'.query \in Queries /\ searched'.dep \in Departures \cup {NoAirport}
  BY DEF Criteria
<1>2. <<>> \in Seq(Destinations)
  OBVIOUS
<1>3. CASE searched'.dep = NoAirport
  BY <1>2, <1>3 DEF Candidates
<1>4. CASE searched'.dep # NoAirport
  BY <1>1, <1>4, CandidatesAre DEF Candidates
<1> QED  BY <1>3, <1>4

\* What is queued has no score yet.
LEMMA QueuesTyped ==
  ASSUME TypeOK, Queues, searched' \in Criteria, UNCHANGED score
  PROVE  pending' \subseteq {a \in Destinations : score'[a] = Unscored}
<1>1. Candidates' \in Seq(Destinations)
  BY CandidatesAfter
<1>2. Range(Candidates)' \subseteq Destinations
  BY <1>1 DEF Range
<1> QED  BY <1>2 DEF Queues, TypeOK

\* The selection is in the table.
LEMMA Selected ==
  ASSUME TabInv
  PROVE  InTable = selected /\ (selected # 0 => selected \in 1 .. Len(Results))
<1>1. selected \in Nat /\ Len(Results) \in Nat
  BY ResultsTyped DEF TabInv, TypeOK
<1> QED  BY <1>1 DEF TabInv, InTable

\* load_selected_into_fms() changes the plan as a whole or not.
LEMMA LoadPlan ==
  ASSUME TabInv, selected # 0, Load
  PROVE  \/ plan' = plan /\ result' \in {"loaded", "failed"}
         \/ /\ plan' = <<searched.dep, Results[selected]>> /\ result' = "loaded"
            /\ plan' \in Routes
            /\ searched.dep \in Departures
            /\ Results[selected] \in Range(CandidatesFor[searched.dep][searched.query])
            /\ searched.query \in Queries
<1>1. Results[selected] \in Range(Candidates) \cap Destinations
  BY Selected, ResultsTyped DEF TabInv, TypeOK
<1>2. CASE Departure \in Database /\ {Departure, Results[selected]} \subseteq Nav
  <2>1. searched.dep # NoAirport
    BY <1>2, FlightTabAssumption DEF Departure
  <2>2. /\ searched.dep \in Departures /\ searched.query \in Queries
        /\ Candidates = CandidatesFor[searched.dep][searched.query]
    BY <2>1, CandidatesTyped DEF TabInv, TypeOK
  <2>3. plan' = <<searched.dep, Results[selected]>> /\ result' = "loaded"
    BY <1>2 DEF Load, InjectDirectPlan, Departure
  <2>4. plan' \in Routes
    BY <1>1, <2>2, <2>3 DEF Routes
  <2> QED  BY <1>1, <2>2, <2>3, <2>4
<1>3. CASE ~(Departure \in Database /\ {Departure, Results[selected]} \subseteq Nav)
  BY <1>3 DEF Load, InjectDirectPlan, Untouched
<1> QED  BY <1>2, <1>3

\* A frame of the tab that changes neither the search nor a score.
LEMMA TabFrame ==
  ASSUME TabInv, UNCHANGED <<searched, score>>, Queues,
         here' \in Departures \cup {NoAirport}, selected' \in 0 .. Len(Results),
         modal' \in BOOLEAN, result' \in {"none", "loaded", "failed"},
         plan' \in PilotPlans \cup Routes
  PROVE  TabInv'
<1>1. Results' = Results /\ Len(Results) \in 0 .. MaxResults /\ MaxResults \in Nat
  BY ResultsStay, ResultsTyped, FlightTabAssumption DEF TabInv, TypeOK
<1>2. searched' \in Criteria
  BY DEF TabInv, TypeOK
<1>3. pending' \subseteq {a \in Destinations : score'[a] = Unscored}
  BY <1>2, QueuesTyped DEF TabInv
<1>4. selected' \in 0 .. MaxResults /\ selected' <= Len(Results')
  BY <1>1
<1> QED  BY <1>2, <1>3, <1>4 DEF TabInv, TypeOK

LEMMA TabInit == Init => TabInv
<1> SUFFICES ASSUME Init PROVE TabInv
  OBVIOUS
<1>1. NoSearch \in Criteria
  BY FlightTabAssumption DEF NoSearch, Criteria
<1>2. Len(Results) \in 0 .. MaxResults /\ MaxResults \in Nat
  BY <1>1, ResultsTyped, FlightTabAssumption DEF Init
<1>3. selected \in 0 .. MaxResults /\ selected <= Len(Results)
  BY <1>2 DEF Init
<1>4. pending \subseteq {a \in Destinations : score[a] = Unscored}
  BY DEF Init
<1> QED  BY <1>1, <1>3, <1>4 DEF Init, TabInv, TypeOK

LEMMA TabStep == TabInv /\ [Next]_vars => TabInv'
<1> SUFFICES ASSUME TabInv, [Next]_vars PROVE TabInv'
  OBVIOUS
<1>t. TypeOK /\ InTable = selected /\ selected \in 0 .. Len(Results)
      /\ Len(Results) \in 0 .. MaxResults /\ MaxResults \in Nat
  BY Selected, ResultsTyped, FlightTabAssumption DEF TabInv, TypeOK
<1>1. CASE Draw
  BY <1>1, <1>t, TabFrame DEF Draw, TypeOK
<1>2. ASSUME NEW query \in Queries, Search(query) PROVE TabInv'
  <2>1. searched' \in Criteria
    BY <1>2, <1>t DEF Search, Criteria, TypeOK
  <2>2. pending' \subseteq {a \in Destinations : score'[a] = Unscored}
    BY <1>2, <1>t, <2>1, QueuesTyped DEF Search
  <2>3. Results' \in Seq(Destinations)
    <3>1. Candidates' \in Seq(Destinations)
      BY <2>1, CandidatesAfter
    <3>2. Results' = Shown(Candidates', Matching')
      <4>1. \A k \in DOMAIN Candidates' : Candidates'[k] \in Destinations
        BY <3>1
      <4>2. Passing(Candidates', Matching') = {k \in DOMAIN Candidates' : Matches(Candidates[k])'}
        BY <4>1 DEF Passing, Matching
      <4> QED  BY <4>2 DEF Results, Shown, Picked, AtMost
    <3> QED  BY <3>1, <3>2, ShownAre
  <2>4. Len(Results') \in Nat
    BY <2>3
  <2>5. selected' = 0 /\ result' = "none" /\ UNCHANGED <<here, modal, plan, score>>
    BY <1>2 DEF Search
  <2> QED  BY <1>t, <2>1, <2>2, <2>4, <2>5 DEF TabInv, TypeOK
<1>3. ASSUME NEW row \in 1 .. MaxResults, Click(row) PROVE TabInv'
  BY <1>3, <1>t, TabFrame DEF Click, TypeOK
<1>4. CASE PressLoad
  <2>1. selected # 0
    BY <1>4, <1>t DEF PressLoad
  <2>2. plan' \in PilotPlans \cup Routes
        /\ result' \in {"none", "loaded", "failed"} /\ modal' \in BOOLEAN
    BY <1>4, <1>t, <2>1, LoadPlan DEF PressLoad, TypeOK
  <2> QED  BY <1>4, <1>t, <2>2, TabFrame DEF PressLoad, TypeOK
<1>5. CASE Replace
  <2>1. selected # 0
    BY <1>5, <1>t DEF Replace
  <2>2. plan' \in PilotPlans \cup Routes
        /\ result' \in {"none", "loaded", "failed"} /\ modal' \in BOOLEAN
    BY <1>5, <1>t, <2>1, LoadPlan DEF Replace, TypeOK
  <2> QED  BY <1>5, <1>t, <2>2, TabFrame DEF Replace, TypeOK
<1>6. CASE Cancel
  BY <1>6, <1>t, TabFrame DEF Cancel, TypeOK
<1>7. CASE Moves
  BY <1>7, ResultsStay DEF Moves, TabInv, TypeOK
<1>8. CASE PilotEdits
  BY <1>8, ResultsStay DEF PilotEdits, tab, TabInv, TypeOK
<1>9. ASSUME NEW a \in Destinations, Scored(a) PROVE TabInv'
  <2>3. Len(Results) <= Len(Results') /\ Len(Results') \in Nat
    BY <1>9, <1>t, ScoredShown
  <2>4. UNCHANGED tab /\ selected' <= Len(Results')
    BY <1>9, <1>t, <2>3 DEF Scored, tab
  <2>5. /\ score' \in [Destinations -> Scores \cup {Unscored}]
        /\ pending' \subseteq {d \in Destinations : score'[d] = Unscored}
    BY <1>9, <1>t DEF Scored, TypeOK
  <2> QED  BY <1>9, <1>t, <2>4, <2>5 DEF Scored, tab, TabInv, TypeOK
<1>a. ASSUME NEW a \in Destinations, NotScored(a) PROVE TabInv'
  BY <1>a, ResultsStay DEF NotScored, tab, TabInv, TypeOK
<1>b. CASE UNCHANGED vars
  BY <1>b, ResultsStay DEF vars, TabInv, TypeOK
<1> QED
  BY <1>1, <1>2, <1>3, <1>4, <1>5, <1>6, <1>7, <1>8, <1>9, <1>a, <1>b DEF Next, Searches

\* In every reachable state the selection is a row of the results, or none.
THEOREM TabInvariance == Spec => []TabInv
BY TabInit, TabStep, PTL DEF Spec

\* Type correctness: a plan is the pilot's or a route from a departure to a
\* destination, and what is queued has no score.
THEOREM TypeCorrect == Spec => []TypeOK
<1>1. TabInv => TypeOK
  BY DEF TabInv
<1> QED  BY <1>1, TabInvariance, PTL

\* Only a search takes a selection away, so a popup does not vanish below one.
THEOREM SelectionStays == Spec => SelectionLasts
<1>1. TabInv /\ [Next]_vars => [selected # 0 /\ selected' \notin 1..Len(Results') => Searches]_vars
  <2> SUFFICES ASSUME TabInv, [Next]_vars, selected # 0, ~Searches
               PROVE  selected' \in 1..Len(Results')
    OBVIOUS
  <2>1. TabInv' /\ Len(Results') \in Nat
    <3>1. TabInv'
      BY TabStep
    <3>2. ASSUME UNCHANGED <<searched, score>> PROVE Len(Results') \in Nat
      <4>1. Results' = Results /\ Len(Results) \in 0 .. MaxResults
        BY <3>2, ResultsStay, ResultsTyped DEF TabInv, TypeOK
      <4> QED  BY <4>1, FlightTabAssumption
    <3>3. ASSUME NEW a \in Destinations, Scored(a) PROVE Len(Results') \in Nat
      BY <3>3, ScoredShown DEF TabInv
    <3> QED  BY <3>1, <3>2, <3>3 DEF Next, Draw, Click, PressLoad, Replace, Cancel, Moves,
                PilotEdits, NotScored, tab, vars
  <2>2. InTable = selected
    BY Selected
  <2>3. selected' # 0
    BY <2>2 DEF Next, Draw, Click, PressLoad, Replace, Cancel, Moves, PilotEdits, Scored,
                NotScored, tab, vars
  <2> QED  BY <2>1, <2>3 DEF TabInv, TypeOK
<1> QED  BY <1>1, TabInvariance, PTL DEF Spec, SelectionLasts

\* While a search lasts, a destination only leaves the results for nearer ones.
THEOREM ShownOnesStay == Spec => ShownStays
<1> DEFINE Stays == \A a \in Range(Results) :
                      \/ a \in Range(Results')
                      \/ Len(Results') = MaxResults /\ \A b \in Range(Results') : Nearer(b, a)
<1>1. TabInv /\ [Next]_vars => [searched' = searched => Stays]_vars
  <2> SUFFICES ASSUME TabInv, [Next]_vars, searched' = searched
               PROVE  Stays
    OBVIOUS
  <2>1. CASE UNCHANGED score
    BY <2>1, ResultsStay DEF Stays
  <2>2. ASSUME NEW a \in Destinations, Scored(a) PROVE Stays
    BY <2>2, ScoredShown, MoreShown DEF TabInv, Stays, Nearer
  <2> QED  BY <2>1, <2>2 DEF Next, Searches, Search, Draw, Click, PressLoad, Replace, Cancel, Moves,
              PilotEdits, NotScored, vars
<1> QED  BY <1>1, TabInvariance, PTL DEF Spec, ShownStays, Stays

\* The pilot's plan is replaced by the pilot or by an answer to the popup.
THEOREM PlanConfirmed == Spec => ReplacedOnlyIfConfirmed
<1>1. [Next]_vars =>
        [plan # <<>> /\ plan' # plan => PilotEdits \/ (modal /\ ~modal')]_vars
  BY DEF Next, Searches, Search, Draw, Click, PressLoad, MustConfirm, Replace, Cancel, Moves, Scored,
         NotScored, tab, vars
<1> QED  BY <1>1, PTL DEF Spec, ReplacedOnlyIfConfirmed

\* A plan is loaded as a whole, from the departure of the search to a destination in
\* its reach.
THEOREM LoadsWhole == Spec => LoadsAllOrNothing
<1> DEFINE Loads == ~PilotEdits /\ plan' # plan =>
              /\ result' = "loaded"
              /\ plan'[1] = searched.dep
              /\ plan'[2] \in Range(CandidatesFor[searched.dep][searched.query])
<1>1. TabInv /\ [Next]_vars => [Loads]_vars
  <2> SUFFICES ASSUME TabInv, [Next]_vars, ~PilotEdits, plan' # plan
               PROVE  Loads
    BY DEF Loads
  <2>1. selected # 0 /\ Load
    BY Selected DEF Next, Searches, Search, Draw, Click, PressLoad, Replace, Cancel, Moves, Scored,
                    NotScored, tab, vars
  <2>2. /\ plan' = <<searched.dep, Results[selected]>> /\ result' = "loaded"
        /\ Results[selected] \in Range(CandidatesFor[searched.dep][searched.query])
    BY <2>1, LoadPlan
  <2>3. plan'[1] = searched.dep /\ plan'[2] = Results[selected]
    BY <2>2
  <2> QED  BY <2>2, <2>3 DEF Loads
<1> QED  BY <1>1, TabInvariance, PTL DEF Spec, LoadsAllOrNothing, Loads
=============================================================================
