--------------------------- MODULE TrainerProofs ---------------------------
(***************************************************************************)
(* The composition Trainer implements both of its components: whatever a   *)
(* theorem says of every behaviour of AirportScorer or PostFlight holds of *)
(* the scorer and the evaluator inside the plugin, as PendingExact does.   *)
(* Below the first two theorems: what the two believe of the service is so.*)
(***************************************************************************)
EXTENDS Trainer, SequenceTheorems, FiniteSetTheorems, TLAPS

\* Before XPluginStart the plugin is where the scorer starts.
LEMMA ScorerInit == Init => Scorer!Init
BY DEF Init

\* Every step of the plugin is one of the scorer's or leaves it alone.
LEMMA ScorerStep == [Next]_vars => [Scorer!Next]_(Scorer!vars)
<1> SUFFICES ASSUME [Next]_vars PROVE Scorer!Next \/ UNCHANGED Scorer!vars
  OBVIOUS
<1>1. ASSUME UNCHANGED <<scorer, plugin>> PROVE UNCHANGED Scorer!vars
  BY <1>1 DEF scorer, plugin, Scorer!vars
<1>2. CASE EntersForScorer
  BY <1>2 DEF EntersForScorer, Scorer!Next
<1>3. CASE EntersForEvaluator \/ Leaves
  BY <1>1, <1>3 DEF EntersForEvaluator, Leaves
<1>4. CASE DrainBegins \/ RunsEvaluator
  BY <1>1, <1>4 DEF DrainBegins, RunsEvaluator
<1>5. CASE RunsScorer
  BY <1>5 DEF RunsScorer, Scorer!Next
<1>6. CASE LoopEnds
  <2>1. Scorer!Pump \/ UNCHANGED <<scorer, backend, running>>
    BY <1>6 DEF LoopEnds
  <2>2. ASSUME UNCHANGED <<scorer, backend, running>> PROVE UNCHANGED Scorer!vars
    BY <2>2 DEF scorer, Scorer!vars
  <2> QED  BY <2>1, <2>2 DEF Scorer!Next
<1>7. CASE FlightTab
  BY <1>7 DEF FlightTab, Scorer!Next
<1>8. CASE PostFlightTab
  BY <1>1, <1>8 DEF PostFlightTab
<1>9. CASE SettingsTab
  BY <1>9 DEF SettingsTab, Scorer!Next
<1>10. CASE Enable \/ Disable
  <2>1. \E b \in BOOLEAN : Scorer!Configure(b)
    BY <1>10 DEF Enable, Disable
  <2> QED  BY <2>1 DEF Scorer!Next
<1>11. CASE PluginStops \/ Crash \/ PluginStarts
  BY <1>11 DEF PluginStops, Crash, PluginStarts, Scorer!Next
<1>12. CASE UNCHANGED vars
  BY <1>1, <1>12 DEF vars
<1> QED  BY <1>2, <1>3, <1>4, <1>5, <1>6, <1>7, <1>8, <1>9, <1>10, <1>11, <1>12
         DEF Next, FlightLoop

\* Flight loop, tabs, workers, stops and crashes do nothing to the scorer that
\* AirportScorer does not allow.
THEOREM ImplementsScorer == Spec => Scorer!Spec
BY ScorerInit, ScorerStep, PTL DEF Spec, Scorer!Spec

\* Likewise the evaluator.
LEMMA EvaluatorInit == Init => Evaluator!Init
BY DEF Init

\* Every step of the plugin is one of the evaluator's or leaves it alone.
LEMMA EvaluatorStep == [Next]_vars => [Evaluator!Next]_(Evaluator!vars)
<1> SUFFICES ASSUME [Next]_vars PROVE Evaluator!Next \/ UNCHANGED Evaluator!vars
  OBVIOUS
<1>1. ASSUME UNCHANGED evaluator, running' = running PROVE UNCHANGED Evaluator!vars
  BY <1>1 DEF evaluator, Evaluator!vars
<1>2. CASE EntersForScorer
  BY <1>1, <1>2 DEF EntersForScorer, Scorer!WorkerCalls, Scorer!sessionVars
<1>3. CASE EntersForEvaluator \/ Leaves
  BY <1>1, <1>3 DEF EntersForEvaluator, Leaves, plugin
<1>4. CASE DrainBegins
  BY <1>1, <1>4 DEF DrainBegins, plugin
<1>5. CASE RunsScorer
  BY <1>1, <1>5 DEF RunsScorer, Scorer!Callback, Scorer!sessionVars
<1>6. CASE RunsEvaluator
  BY <1>6 DEF RunsEvaluator, Evaluator!Next
<1>7. CASE LoopEnds
  BY <1>1, <1>7 DEF LoopEnds, Scorer!Pump, Scorer!sessionVars
<1>8. CASE FlightTab
  BY <1>1, <1>8 DEF FlightTab, Scorer!DrawSearch, Scorer!Search, Scorer!sessionVars
<1>9. CASE PostFlightTab
  BY <1>9 DEF PostFlightTab, Evaluator!Next
<1>10. CASE SettingsTab \/ Enable \/ Disable
  BY <1>1, <1>10 DEF SettingsTab, Enable, Disable, Scorer!Configure, Scorer!sessionVars
<1>11. CASE PluginStops \/ Crash \/ PluginStarts
  BY <1>11 DEF PluginStops, Crash, PluginStarts, Evaluator!Next
<1>12. CASE UNCHANGED vars
  BY <1>1, <1>12 DEF vars, plugin
<1> QED  BY <1>2, <1>3, <1>4, <1>5, <1>6, <1>7, <1>8, <1>9, <1>10, <1>11, <1>12
         DEF Next, FlightLoop

\* Nor to the evaluator that PostFlight does not allow.
THEOREM ImplementsEvaluator == Spec => Evaluator!Spec
BY EvaluatorInit, EvaluatorStep, PTL DEF Spec, Evaluator!Spec

\* Another instance of the scorer, which has its theorems.
ScorerProofs == INSTANCE AirportScorerProofs

\* Its constants are as that instance assumes.
LEMMA ScorerAssumes == ScorerProofs!ScorerAssumption
BY TrainerAssumption
DEF Scorer!ScorerAssumption, ScorerProofs!ScorerAssumption, Scorer!ScorerFacts,
     ScorerProofs!ScorerFacts, Scorer!IsFiniteSet, ScorerProofs!IsFiniteSet,
     Scorer!AirportFacts, ScorerProofs!AirportFacts, Scorer!GaSuitable,
     ScorerProofs!GaSuitable, Scorer!Runway, ScorerProofs!Runway, Scorer!FrequencyType,
     ScorerProofs!FrequencyType, Scorer!IsEndpoint, ScorerProofs!IsEndpoint, Scorer!Range,
     ScorerProofs!Range, Scorer!MinRunway, ScorerProofs!MinRunway

\* It behaves like the scorer the plugin is built of.
LEMMA SameScorer == Scorer!Spec <=> ScorerProofs!Spec
BY DEF Scorer!Spec, ScorerProofs!Spec, Scorer!Init, ScorerProofs!Init, Scorer!Next,
     ScorerProofs!Next, Scorer!vars, ScorerProofs!vars, Scorer!DrawSearch,
     ScorerProofs!DrawSearch, Scorer!Pump, ScorerProofs!Pump, Scorer!WorkerCalls,
     ScorerProofs!WorkerCalls, Scorer!Callback, ScorerProofs!Callback, Scorer!Search,
     ScorerProofs!Search, Scorer!Configure, ScorerProofs!Configure, Scorer!PluginStops,
     ScorerProofs!PluginStops, Scorer!Crash, ScorerProofs!Crash, Scorer!PluginStarts,
     ScorerProofs!PluginStarts, Scorer!Missing, ScorerProofs!Missing, Scorer!Cached,
     ScorerProofs!Cached, Scorer!InputSig, ScorerProofs!InputSig, Scorer!Sorted,
     ScorerProofs!Sorted, Scorer!Lengths, ScorerProofs!Lengths, Scorer!Longest,
     ScorerProofs!Longest, Scorer!Range, ScorerProofs!Range, Scorer!Max, ScorerProofs!Max,
     Scorer!Cardinality, ScorerProofs!Cardinality, Scorer!PumpFrom, ScorerProofs!PumpFrom,
     Scorer!Blocked, ScorerProofs!Blocked, Scorer!Released, ScorerProofs!Released,
     Scorer!Succeeds, ScorerProofs!Succeeds, Scorer!Reply, ScorerProofs!Reply,
     Scorer!Item, ScorerProofs!Item, Scorer!Scored, ScorerProofs!Scored, Scorer!Takes,
     ScorerProofs!Takes, Scorer!Clamp, ScorerProofs!Clamp, Scorer!NoEntry,
     ScorerProofs!NoEntry, Scorer!SavedFiles, ScorerProofs!SavedFiles, Scorer!CacheLoads,
     ScorerProofs!CacheLoads, Scorer!FileOf, ScorerProofs!FileOf, Scorer!Empty,
     ScorerProofs!Empty, Scorer!ScorerStops, ScorerProofs!ScorerStops,
     Scorer!cacheVars, ScorerProofs!cacheVars, Scorer!queueVars, ScorerProofs!queueVars,
     Scorer!sessionVars, ScorerProofs!sessionVars

\* pending of the scorer is what is queued or asked for, in the whole plugin.
THEOREM PendingIsExact == Spec => []PendingExact
<1>1. ScorerProofs!Spec => []ScorerProofs!PendingExact
  BY ScorerAssumes, ScorerProofs!PendingIsExact, PTL
<1>2. Scorer!PendingExact <=> ScorerProofs!PendingExact
  BY DEF Scorer!PendingExact, ScorerProofs!PendingExact, Scorer!Range, ScorerProofs!Range
<1> QED  BY <1>1, <1>2, SameScorer, ImplementsScorer, PTL DEF PendingExact

\* Every score is of the airport the model was told about, in the whole plugin too
\* (input_sig(), lookup()).
THEOREM ScoresFit == Spec => []Scorer!ScoreFitsAirport
<1>1. ScorerProofs!Spec => []ScorerProofs!ScoreFitsAirport
  BY ScorerAssumes, ScorerProofs!ScoresFit, PTL
<1>2. Scorer!ScoreFitsAirport <=> ScorerProofs!ScoreFitsAirport
  <2>1. \A i : Scorer!Cached(i) <=> ScorerProofs!Cached(i)
    BY DEF Scorer!Cached, ScorerProofs!Cached, Scorer!InputSig, ScorerProofs!InputSig,
           Scorer!Sorted, ScorerProofs!Sorted, Scorer!Lengths, ScorerProofs!Lengths,
           Scorer!Longest, ScorerProofs!Longest, Scorer!Range, ScorerProofs!Range,
           Scorer!Max, ScorerProofs!Max, Scorer!Cardinality, ScorerProofs!Cardinality,
           Scorer!NoEntry, ScorerProofs!NoEntry
  <2> QED  BY <2>1 DEF Scorer!ScoreFitsAirport, ScorerProofs!ScoreFitsAirport
<1> QED  BY <1>1, <1>2, SameScorer, ImplementsScorer, PTL

\* In the whole plugin, too, a saved score is dropped only by a save of a session whose
\* load() could not take it over (load(), put(), save()).
THEOREM SavedStay == Spec => Scorer!SavedScoresSurvive
<1>1. ScorerProofs!Spec => ScorerProofs!SavedScoresSurvive
  BY ScorerAssumes, ScorerProofs!SavedStay
<1>2. Scorer!SavedScoresSurvive <=> ScorerProofs!SavedScoresSurvive
  BY DEF Scorer!SavedScoresSurvive, ScorerProofs!SavedScoresSurvive, Scorer!NoEntry,
         ScorerProofs!NoEntry, Scorer!vars, ScorerProofs!vars
<1> QED  BY <1>1, <1>2, SameScorer, ImplementsScorer

\* The theorems of the evaluator likewise.
EvaluatorProofs == INSTANCE PostFlightProofs WITH calls <- evals, store <- reports, disk <- files

LEMMA EvaluatorAssumes == EvaluatorProofs!PostFlightAssumption
BY TrainerAssumption DEF Evaluator!PostFlightAssumption, EvaluatorProofs!PostFlightAssumption

LEMMA SameEvaluator == Evaluator!Spec <=> EvaluatorProofs!Spec
BY DEF Evaluator!Spec, EvaluatorProofs!Spec, Evaluator!Init, EvaluatorProofs!Init,
     Evaluator!Next, EvaluatorProofs!Next, Evaluator!vars, EvaluatorProofs!vars,
     Evaluator!Evaluate, EvaluatorProofs!Evaluate, Evaluator!EvaluateAsync,
     EvaluatorProofs!EvaluateAsync, Evaluator!Free, EvaluatorProofs!Free,
     Evaluator!Callback, EvaluatorProofs!Callback, Evaluator!Succeeds,
     EvaluatorProofs!Succeeds, Evaluator!Fails, EvaluatorProofs!Fails,
     Evaluator!PluginStops, EvaluatorProofs!PluginStops, Evaluator!PluginStarts,
     EvaluatorProofs!PluginStarts, Evaluator!StartsReading, EvaluatorProofs!StartsReading,
     Evaluator!Loads, EvaluatorProofs!Loads,
     Evaluator!Saved, EvaluatorProofs!Saved, Evaluator!Unwritten,
     EvaluatorProofs!Unwritten, Evaluator!FileName, EvaluatorProofs!FileName,
     Evaluator!FileNames, EvaluatorProofs!FileNames, Evaluator!Minute,
     EvaluatorProofs!Minute, Evaluator!Key, EvaluatorProofs!Key, Evaluator!NoKey,
     EvaluatorProofs!NoKey, Evaluator!Report, EvaluatorProofs!Report,
     Evaluator!NoReport, EvaluatorProofs!NoReport, Evaluator!NoFile,
     EvaluatorProofs!NoFile, Evaluator!AtcLog, EvaluatorProofs!AtcLog,
     Evaluator!FlightLog, EvaluatorProofs!FlightLog, Evaluator!SameFlight,
     EvaluatorProofs!SameFlight, Evaluator!Distance, EvaluatorProofs!Distance

\* "Done" is said of the session whose report the tab shows, whatever becomes of
\* workers, answers and the plugin meanwhile (g_status, g_key).
THEOREM DoneIsShown == Spec => []Evaluator!DoneShowsReport
<1>1. EvaluatorProofs!Spec => []EvaluatorProofs!DoneShowsReport
  BY EvaluatorAssumes, EvaluatorProofs!DoneIsShown, PTL
<1>2. Evaluator!DoneShowsReport <=> EvaluatorProofs!DoneShowsReport
  BY DEF Evaluator!DoneShowsReport, EvaluatorProofs!DoneShowsReport, Evaluator!Shows,
         EvaluatorProofs!Shows, Evaluator!Latest, EvaluatorProofs!Latest, Evaluator!Key,
         EvaluatorProofs!Key, Evaluator!NoReport, EvaluatorProofs!NoReport
<1> QED  BY <1>1, <1>2, SameEvaluator, ImplementsEvaluator, PTL

\* A report file is lost to a namesake only (report_filename(), save()).
THEOREM LostToNamesake == Spec => Evaluator!LostOnlyByClash
<1>1. EvaluatorProofs!Spec => EvaluatorProofs!LostOnlyByClash
  BY EvaluatorAssumes, EvaluatorProofs!LostToNamesake
<1>2. Evaluator!LostOnlyByClash <=> EvaluatorProofs!LostOnlyByClash
  BY DEF Evaluator!LostOnlyByClash, EvaluatorProofs!LostOnlyByClash, Evaluator!OnDisk,
         EvaluatorProofs!OnDisk, Evaluator!Key, EvaluatorProofs!Key, Evaluator!FileNames,
         EvaluatorProofs!FileNames, Evaluator!NoFile, EvaluatorProofs!NoFile,
         Evaluator!NoReport, EvaluatorProofs!NoReport, Evaluator!Minute,
         EvaluatorProofs!Minute, Evaluator!vars, EvaluatorProofs!vars
<1> QED  BY <1>1, <1>2, SameEvaluator, ImplementsEvaluator

\* A restart has the reports of the last session again, but for namesakes, and a
\* replaced one only if it had another arrival, where a rename replaces the file.
THEOREM RestartsKeep == RenameReplaces => (Spec => Evaluator!RestartKeepsReports)
<1>1. RenameReplaces => (EvaluatorProofs!Spec => EvaluatorProofs!RestartKeepsReports)
  BY EvaluatorAssumes, EvaluatorProofs!RestartsKeep
<1>2. Evaluator!RestartKeepsReports <=> EvaluatorProofs!RestartKeepsReports
  BY DEF Evaluator!RestartKeepsReports, EvaluatorProofs!RestartKeepsReports,
         Evaluator!StartsReading, EvaluatorProofs!StartsReading, Evaluator!Loads,
         EvaluatorProofs!Loads, Evaluator!Key, EvaluatorProofs!Key, Evaluator!NoReport,
         EvaluatorProofs!NoReport, Evaluator!NoFile, EvaluatorProofs!NoFile,
         Evaluator!FileName, EvaluatorProofs!FileName, Evaluator!FileNames,
         EvaluatorProofs!FileNames, Evaluator!Minute, EvaluatorProofs!Minute,
         Evaluator!vars, EvaluatorProofs!vars
<1> QED  BY <1>1, <1>2, SameEvaluator, ImplementsEvaluator

-----------------------------------------------------------------------------
(* The service.                                                            *)

Clients == {"scorer", "evaluator"}
Answer == [client : Clients, ok : BOOLEAN]

One(b) == IF b THEN 1 ELSE 0

\* The workers and answers of a client, without cardinalities of the first two.
Tally(w, in, q, b, k) ==
  One(k \in w) + One(\E a \in in : a.client = k) + Number(q, k) + Number(b, k)

\* What AirportScorer's theorems say of its call.
ScorerCalls == /\ \A c, d \in calls : c = d
               /\ inFlight <=> calls # {}
               /\ \A c \in calls : \E b, p : c = [batch |-> b, phase |-> p]

\* Inductive with ScorerCalls.  The answer of an old call would add to the tally of
\* a client that has none, and a stale local queue would be run again.
ServiceInv ==
  /\ waiting \in SUBSET Clients
  /\ inside = {} \/ \E a \in Answer : inside = {a}
  /\ answers \in Seq(Answer) /\ batch \in Seq(Answer)
  /\ inLoop \in BOOLEAN /\ backend \in BOOLEAN
  /\ ~inLoop => batch = <<>>
  /\ Evaluator!OneEvaluation
  /\ Tally(waiting, inside, answers, batch, "scorer")
       = One(\E c \in calls : c.phase # "never")
  /\ Tally(waiting, inside, answers, batch, "evaluator")
       <= One(\E c \in evals : c.phase = "asked")

\* A set with one member at most, and those of it that have a property.
LEMMA CountOne ==
  ASSUME NEW S, \A x, y \in S : x = y, NEW T \in SUBSET S
  PROVE  Cardinality(T) = One(T # {})
<1>1. CASE T = {}
  BY <1>1, FS_EmptySet DEF One
<1>2. CASE T # {}
  <2>1. PICK x : T = {x}
    BY <1>2
  <2> QED  BY <1>2, <2>1, FS_Singleton DEF One
<1> QED  BY <1>1, <1>2

\* The places of a sequence that hold an answer of k.
LEMMA NumberIsNat ==
  ASSUME NEW s \in Seq(Answer), NEW k
  PROVE  /\ Number(s, k) \in Nat
         /\ IsFiniteSet({j \in DOMAIN s : s[j].client = k})
<1>1. DOMAIN s = 1 .. Len(s) /\ Len(s) \in Nat
  BY LenProperties
<1>2. IsFiniteSet(DOMAIN s)
  BY <1>1, FS_Interval
<1>3. IsFiniteSet({j \in DOMAIN s : s[j].client = k})
  BY <1>2, FS_Subset
<1> QED  BY <1>3, FS_CardinalityType DEF Number

\* An empty queue has no answers.
LEMMA NumberEmpty ==
  ASSUME NEW k
  PROVE  <<>> \in Seq(Answer) /\ Number(<<>>, k) = 0
<1>1. {j \in DOMAIN <<>> : <<>>[j].client = k} = {}
  OBVIOUS
<1> QED  BY <1>1, FS_EmptySet DEF Number

\* An answer is put behind the others.
LEMMA NumberAppend ==
  ASSUME NEW s \in Seq(Answer), NEW a \in Answer, NEW k
  PROVE  /\ Append(s, a) \in Seq(Answer)
         /\ Number(Append(s, a), k) = Number(s, k) + One(a.client = k)
<1> DEFINE t == Append(s, a)
           S == {j \in DOMAIN s : s[j].client = k}
           T == {j \in DOMAIN t : t[j].client = k}
<1>1. DOMAIN s = 1 .. Len(s) /\ Len(s) \in Nat
  BY LenProperties
<1>2. /\ t \in Seq(Answer) /\ Len(t) = Len(s) + 1
      /\ \A i \in 1 .. Len(s) : t[i] = s[i]
      /\ t[Len(s) + 1] = a
  BY AppendProperties
<1> HIDE DEF t
<1>3. DOMAIN t = 1 .. Len(s) + 1
  BY <1>2, LenProperties
<1>4. IsFiniteSet(S) /\ Number(s, k) = Cardinality(S) /\ Cardinality(S) \in Nat
  BY NumberIsNat DEF Number
<1>5. Number(t, k) = Cardinality(T)
  BY DEF Number
<1>6. CASE a.client = k
  <2>1. T = S \cup {Len(s) + 1} /\ Len(s) + 1 \notin S
    BY <1>1, <1>2, <1>3, <1>6
  <2>2. Cardinality(T) = Cardinality(S) + 1
    BY <1>4, <2>1, FS_AddElement
  <2> QED  BY <1>2, <1>4, <1>5, <1>6, <2>2 DEF One, t
<1>7. CASE a.client # k
  <2>1. T = S
    BY <1>1, <1>2, <1>3, <1>7
  <2>2. Number(t, k) = Number(s, k) /\ Number(s, k) \in Nat
    BY <1>4, <1>5, <2>1
  <2>3. One(a.client = k) = 0
    BY <1>7 DEF One
  <2>4. Number(t, k) = Number(s, k) + One(a.client = k)
    BY <2>2, <2>3
  <2> QED  BY <1>2, <2>4 DEF t
<1> QED  BY <1>6, <1>7

\* An answer is taken from the front.
LEMMA NumberTail ==
  ASSUME NEW s \in Seq(Answer), s # <<>>, NEW k
  PROVE  /\ Tail(s) \in Seq(Answer) /\ Head(s) \in Answer
         /\ Number(s, k) = One(Head(s).client = k) + Number(Tail(s), k)
<1> DEFINE t == Tail(s)
           S == {j \in DOMAIN s : s[j].client = k}
           T == {j \in DOMAIN t : t[j].client = k}
           U == S \ {1}
<1>1. DOMAIN s = 1 .. Len(s) /\ Len(s) \in Nat /\ Len(s) # 0
  BY LenProperties, EmptySeq
<1>2. /\ t \in Seq(Answer) /\ Head(s) \in Answer /\ Len(t) = Len(s) - 1
      /\ \A i \in 1 .. Len(t) : t[i] = s[i + 1]
  BY HeadTailProperties
<1>3. Head(s) = s[1]
  BY <1>1
<1> HIDE DEF t
<1>4. DOMAIN t = 1 .. Len(s) - 1
  BY <1>2, LenProperties
<1>5. /\ IsFiniteSet(S) /\ Number(s, k) = Cardinality(S) /\ Cardinality(S) \in Nat
      /\ IsFiniteSet(T) /\ Number(t, k) = Cardinality(T) /\ Cardinality(T) \in Nat
  BY <1>2, NumberIsNat, FS_CardinalityType DEF Number
<1>6. Cardinality(U) = Cardinality(T)
  <2> DEFINE f == [j \in T |-> j + 1]
  <2>1. \A j \in T : j \in 1 .. Len(s) - 1 /\ j + 1 \in U /\ j \in Nat
    BY <1>1, <1>2, <1>4
  <2>2. ASSUME NEW u \in U PROVE u - 1 \in T /\ u - 1 + 1 = u
    <3>1. u \in 2 .. Len(s) /\ s[u].client = k
      BY <1>1
    <3>2. u - 1 \in 1 .. Len(s) - 1 /\ u - 1 + 1 = u
      BY <1>1, <3>1
    <3> QED  BY <1>1, <1>2, <1>4, <3>1, <3>2
  <2>3. f \in Injection(T, U)
    BY <2>1 DEF Injection, IsInjective
  <2>4. f \in Surjection(T, U)
    BY <2>1, <2>2 DEF Surjection
  <2>5. ExistsBijection(T, U)
    BY <2>3, <2>4 DEF ExistsBijection, Bijection
  <2> QED  BY <1>5, <2>5, FS_Bijection
<1>7. 1 \in S <=> Head(s).client = k
  BY <1>1, <1>3
<1>8. Cardinality(U) = IF 1 \in S THEN Cardinality(S) - 1 ELSE Cardinality(S)
  BY <1>5, FS_RemoveElement
<1>9. Number(s, k) = One(Head(s).client = k) + Number(t, k)
  BY <1>5, <1>6, <1>7, <1>8 DEF One
<1> QED  BY <1>2, <1>9 DEF t

\* Places counts what Tally counts.
LEMMA PlacesTallied ==
  ASSUME ServiceInv, NEW k
  PROVE  Places(k) = Tally(waiting, inside, answers, batch, k)
<1>1. Cardinality(waiting \cap {k}) = One(k \in waiting)
  <2>1. Cardinality(waiting \cap {k}) = One(waiting \cap {k} # {})
    BY CountOne
  <2>2. waiting \cap {k} # {} <=> k \in waiting
    OBVIOUS
  <2> QED  BY <2>1, <2>2 DEF One
<1>2. Cardinality({a \in inside : a.client = k}) = One(\E a \in inside : a.client = k)
  <2>1. \A x, y \in inside : x = y
    BY DEF ServiceInv
  <2>2. Cardinality({a \in inside : a.client = k}) = One({a \in inside : a.client = k} # {})
    BY <2>1, CountOne
  <2>3. {a \in inside : a.client = k} # {} <=> \E a \in inside : a.client = k
    OBVIOUS
  <2> QED  BY <2>2, <2>3 DEF One
<1> QED  BY <1>1, <1>2 DEF Places, Tally

\* The invariant says what the property does.
LEMMA Matches == ServiceInv /\ Scorer!OneCallAtATime => ClientsMatchService
<1> SUFFICES ASSUME ServiceInv, Scorer!OneCallAtATime PROVE ClientsMatchService
  OBVIOUS
<1>1. Places("scorer") = Cardinality({c \in calls : c.phase # "never"})
  <2> DEFINE S == {c \in calls : c.phase # "never"}
  <2>1. Cardinality(S) = One(S # {})
    BY CountOne DEF Scorer!OneCallAtATime
  <2>2. S # {} <=> \E c \in calls : c.phase # "never"
    OBVIOUS
  <2> QED  BY <2>1, <2>2, PlacesTallied DEF ServiceInv, One
<1>2. Places("evaluator") <= Cardinality(Awaited)
  <2>1. \A c, d \in evals : c = d
    BY DEF ServiceInv, Evaluator!OneEvaluation
  <2>2. Cardinality(Awaited) = One(Awaited # {})
    BY <2>1, CountOne DEF Awaited
  <2>3. Awaited # {} <=> \E c \in evals : c.phase = "asked"
    BY DEF Awaited
  <2> QED  BY <2>2, <2>3, PlacesTallied DEF ServiceInv, One
<1> QED  BY <1>1, <1>2 DEF ClientsMatchService, ServiceInv
-----------------------------------------------------------------------------
(* Steps.                                                                  *)

\* A step that neither begins an evaluation, ends one or takes its answer away.
EvaluatorKept ==
  /\ evals' = evals
  /\ Tally(waiting', inside', answers', batch', "evaluator")
       = Tally(waiting, inside, answers, batch, "evaluator")

\* Only workers, answers, calls and the status matter.
LEMMA OthersKeep ==
  ASSUME ServiceInv, UNCHANGED <<service, calls, status, evals>>, backend' \in BOOLEAN
  PROVE  ServiceInv' /\ EvaluatorKept
<1>1. /\ waiting' = waiting /\ inside' = inside /\ answers' = answers /\ batch' = batch
      /\ inLoop' = inLoop
  BY DEF service
<1>2. Evaluator!OneEvaluation'
  BY DEF ServiceInv, Evaluator!OneEvaluation
<1>3. ServiceInv'
  BY <1>1, <1>2 DEF ServiceInv
<1> QED  BY <1>1, <1>3 DEF EvaluatorKept

\* A worker of the scorer gets the lock and the answer.
LEMMA EntersForScorerKeeps ==
  ASSUME ServiceInv, ScorerCalls, EntersForScorer
  PROVE  ServiceInv' /\ EvaluatorKept
<1>1. PICK c \in calls : /\ Scorer!WorkerCalls(c)
                         /\ inside' = {[client |-> "scorer",
                                        ok |-> \E d \in calls' : d.phase = "replied"]}
  BY DEF EntersForScorer
<1>2. /\ inside = {} /\ "scorer" \in waiting /\ waiting' = waiting \ {"scorer"}
      /\ answers' = answers /\ batch' = batch /\ inLoop' = inLoop
      /\ status' = status /\ evals' = evals /\ backend' = backend
  BY <1>1 DEF EntersForScorer, evaluator, Scorer!WorkerCalls
<1>3. \E d \in calls' : d.phase # "never"
  <2>1. PICK b, p : c = [batch |-> b, phase |-> p]
    BY DEF ScorerCalls
  <2>2. PICK phase \in {"empty", "replied"} :
          calls' = (calls \ {c}) \cup {[c EXCEPT !.phase = phase]}
    BY <1>1 DEF Scorer!WorkerCalls
  <2>3. [c EXCEPT !.phase = phase] = [batch |-> b, phase |-> phase]
    BY <2>1
  <2> QED  BY <2>2, <2>3
<1>4. c.phase # "never"
  BY <1>1 DEF Scorer!WorkerCalls
<1> DEFINE a == [client |-> "scorer", ok |-> \E d \in calls' : d.phase = "replied"]
<1>5. a \in Answer /\ a.client = "scorer" /\ inside' = {a}
  BY <1>1 DEF Answer, Clients
<1> HIDE DEF a
<1>6. Tally(waiting', inside', answers', batch', "scorer")
        = Tally(waiting, inside, answers, batch, "scorer")
  BY <1>2, <1>5 DEF Tally, One
<1>7. Tally(waiting', inside', answers', batch', "evaluator")
        = Tally(waiting, inside, answers, batch, "evaluator")
  BY <1>2, <1>5 DEF Tally, One
<1>8. Tally(waiting', inside', answers', batch', "scorer")
        = One(\E d \in calls' : d.phase # "never")
  BY <1>3, <1>4, <1>6 DEF ServiceInv, One
<1>9. Evaluator!OneEvaluation'
  BY <1>2 DEF ServiceInv, Evaluator!OneEvaluation
<1>10. ServiceInv'
  BY <1>2, <1>5, <1>7, <1>8, <1>9 DEF ServiceInv
<1> QED  BY <1>2, <1>7, <1>10 DEF EvaluatorKept

\* A worker of the evaluator gets the lock and the answer.
LEMMA EntersForEvaluatorKeeps ==
  ASSUME ServiceInv, EntersForEvaluator
  PROVE  ServiceInv' /\ EvaluatorKept
<1>1. PICK ok \in Replied : inside' = {[client |-> "evaluator", ok |-> ok]}
  BY DEF EntersForEvaluator
<1>2. /\ inside = {} /\ "evaluator" \in waiting /\ waiting' = waiting \ {"evaluator"}
      /\ answers' = answers /\ batch' = batch /\ inLoop' = inLoop
      /\ status' = status /\ evals' = evals /\ backend' = backend /\ calls' = calls
  BY DEF EntersForEvaluator, evaluator, scorer, plugin
<1> DEFINE a == [client |-> "evaluator", ok |-> ok]
<1>3. a \in Answer /\ a.client = "evaluator" /\ inside' = {a}
  BY <1>1 DEF Answer, Clients, Replied, ServiceInv
<1> HIDE DEF a
<1>4. Tally(waiting', inside', answers', batch', "scorer")
        = Tally(waiting, inside, answers, batch, "scorer")
  BY <1>2, <1>3 DEF Tally, One
<1>5. Tally(waiting', inside', answers', batch', "evaluator")
        = Tally(waiting, inside, answers, batch, "evaluator")
  BY <1>2, <1>3 DEF Tally, One
<1>6. Evaluator!OneEvaluation'
  BY <1>2 DEF ServiceInv, Evaluator!OneEvaluation
<1>7. ServiceInv'
  BY <1>2, <1>3, <1>4, <1>5, <1>6 DEF ServiceInv
<1> QED  BY <1>2, <1>5, <1>7 DEF EvaluatorKept

\* An answer moves into the queue.
LEMMA LeavesKeeps ==
  ASSUME ServiceInv, Leaves
  PROVE  ServiceInv' /\ EvaluatorKept
<1>1. PICK a \in inside : answers' = Append(answers, a)
  BY DEF Leaves, Answered
<1>2. /\ inside' = {} /\ waiting' = waiting /\ batch' = batch /\ inLoop' = inLoop
      /\ status' = status /\ evals' = evals /\ backend' = backend /\ calls' = calls
  BY DEF Leaves, evaluator, scorer, plugin
<1>3. a \in Answer /\ inside = {a}
  BY DEF ServiceInv
<1>4. answers' \in Seq(Answer)
  BY <1>1, <1>3, NumberAppend DEF ServiceInv
<1>5. ASSUME NEW k
      PROVE  Tally(waiting', inside', answers', batch', k)
               = Tally(waiting, inside, answers, batch, k)
  <2>1. Number(answers', k) = Number(answers, k) + One(a.client = k)
    BY <1>1, <1>3, NumberAppend DEF ServiceInv
  <2>2. Number(answers, k) \in Nat /\ Number(batch, k) \in Nat
    BY NumberIsNat DEF ServiceInv
  <2>3. (\E b \in inside : b.client = k) <=> a.client = k
    BY <1>3
  <2> QED  BY <1>2, <2>1, <2>2, <2>3 DEF Tally, One
<1>6. Evaluator!OneEvaluation'
  BY <1>2 DEF ServiceInv, Evaluator!OneEvaluation
<1>7. ServiceInv'
  BY <1>2, <1>4, <1>5, <1>6 DEF ServiceInv
<1> QED  BY <1>2, <1>5, <1>7 DEF EvaluatorKept

\* The answers move into the local queue, which is empty between two frames.
LEMMA DrainBeginsKeeps ==
  ASSUME ServiceInv, DrainBegins
  PROVE  ServiceInv' /\ EvaluatorKept
<1>1. /\ batch = <<>> /\ batch' = answers /\ answers' = <<>> /\ inLoop' = TRUE
      /\ waiting' = waiting /\ inside' = inside
      /\ status' = status /\ evals' = evals /\ backend' = backend /\ calls' = calls
  BY DEF DrainBegins, ServiceInv, evaluator, scorer, plugin
<1>2. ASSUME NEW k
      PROVE  Tally(waiting', inside', answers', batch', k)
               = Tally(waiting, inside, answers, batch, k)
  <2>1. Number(answers', k) = 0 /\ Number(batch, k) = 0 /\ Number(answers, k) \in Nat
    BY <1>1, NumberEmpty, NumberIsNat DEF ServiceInv
  <2> QED  BY <1>1, <2>1 DEF Tally, One
<1>3. answers' \in Seq(Answer)
  BY <1>1, NumberEmpty
<1>4. Evaluator!OneEvaluation'
  BY <1>1 DEF ServiceInv, Evaluator!OneEvaluation
<1>5. ServiceInv'
  BY <1>1, <1>2, <1>3, <1>4 DEF ServiceInv
<1> QED  BY <1>1, <1>2, <1>5 DEF EvaluatorKept

\* No call, or one that was just made; and calls that are over or nearly.
NewCall(C) == \/ C = {}
              \/ \E b, phase : /\ C = {[batch |-> b, phase |-> phase]}
                               /\ phase \in {"asked", "never"}
Ended(C) == \A c \in C : c.phase \notin {"asked", "never"}

AloneIn(in) == in = {} \/ \E a \in Answer : in = {a}

\* The batch that pump() sends when no call is out.
LEMMA PumpCalls ==
  ASSUME NEW flying, Scorer!PumpFrom(flying, {})
  PROVE  NewCall(calls')
BY DEF Scorer!PumpFrom, NewCall

\* A call is made where there is none: it has a worker, or its thread did not start.
LEMMA SpawnTallies ==
  ASSUME NEW k \in Clients, NEW before, NEW after, NEW w \in SUBSET Clients,
         NEW in, AloneIn(in),
         NEW q \in Seq(Answer), NEW b \in Seq(Answer),
         Tally(w, in, q, b, k) = 0,
         Ended(before), NewCall(after),
         NEW v, v = IF Starts(before, after) THEN w \cup {k} ELSE w
  PROVE  Tally(v, in, q, b, k) = One(\E c \in after : c.phase # "never")
<1>1. /\ Number(q, k) = 0 /\ Number(b, k) = 0 /\ k \notin w
      /\ ~(\E a \in in : a.client = k)
  <2>1. Number(q, k) \in Nat /\ Number(b, k) \in Nat
    BY NumberIsNat
  <2> QED  BY <2>1 DEF Tally, One
<1>2. CASE after = {}
  BY <1>1, <1>2 DEF Starts, Tally, One
<1>3. ASSUME NEW l, NEW phase \in {"asked", "never"}, after = {[batch |-> l, phase |-> phase]}
      PROVE  Tally(v, in, q, b, k) = One(\E c \in after : c.phase # "never")
  <2> DEFINE new == [batch |-> l, phase |-> phase]
  <2>1. new.phase = phase /\ after = {new} /\ new \notin before
    BY <1>3 DEF Ended
  <2> HIDE DEF new
  <2>2. CASE phase = "asked"
    <3>1. Starts(before, after) /\ \E c \in after : c.phase # "never"
      BY <2>1, <2>2 DEF Starts
    <3> QED  BY <1>1, <3>1 DEF Tally, One
  <2>3. CASE phase = "never"
    <3>1. ~Starts(before, after) /\ ~(\E c \in after : c.phase # "never")
      BY <2>1, <2>3 DEF Starts
    <3> QED  BY <1>1, <3>1 DEF Tally, One
  <2> QED  BY <2>2, <2>3
<1> QED  BY <1>2, <1>3 DEF NewCall

\* The scorer's callback uses its answer up before it asks again, and throws what
\* is left of the local queue away where that fails.
LEMMA RunsScorerKeeps ==
  ASSUME ServiceInv, ScorerCalls, RunsScorer
  PROVE  /\ ServiceInv'
         /\ evals' = evals
         /\ \/ EvaluatorKept
            \/ /\ Fails(calls, calls') /\ Head(batch).client = "scorer"
               /\ Number(Tail(batch), "evaluator") \in Nat
               /\ Tally(waiting', inside', answers', batch', "evaluator")
                    + Number(Tail(batch), "evaluator")
                    = Tally(waiting, inside, answers, batch, "evaluator")
<1>1. PICK c \in calls : Scorer!Callback(c)
  BY DEF RunsScorer
<1>2. /\ batch # <<>> /\ Head(batch).client = "scorer" /\ inLoop
      /\ batch' = LeftAfter(Fails(calls, calls')) /\ inLoop' = ~Fails(calls, calls')
      /\ waiting' = IF Starts(calls, calls') THEN waiting \cup {"scorer"} ELSE waiting
      /\ inside' = inside /\ answers' = answers
      /\ status' = status /\ evals' = evals
  BY DEF RunsScorer, SpawnWorker, evaluator
<1>3. /\ calls = {c} /\ c.phase \in {"replied", "empty"} /\ backend' = backend
      /\ Scorer!PumpFrom(FALSE, {})
  <2>1. calls = {c} /\ calls \ {c} = {}
    BY DEF ScorerCalls
  <2> QED  BY <1>1, <2>1 DEF Scorer!Callback
<1>4. /\ Tail(batch) \in Seq(Answer)
      /\ \A k : Number(batch, k) = One(Head(batch).client = k) + Number(Tail(batch), k)
  BY <1>2, NumberTail DEF ServiceInv
<1>5. /\ batch' \in Seq(Answer)
      /\ \A k : Number(batch', k) \in Nat /\ Number(Tail(batch), k) \in Nat
      /\ \A k : Number(batch', k) <= Number(Tail(batch), k)
  <2>1. batch' = Tail(batch) \/ batch' = <<>>
    BY <1>2 DEF LeftAfter
  <2>2. batch' \in Seq(Answer)
    BY <1>4, <2>1, NumberEmpty
  <2>3. ASSUME NEW k
        PROVE  /\ Number(batch', k) \in Nat /\ Number(Tail(batch), k) \in Nat
               /\ Number(batch', k) <= Number(Tail(batch), k)
    <3>1. Number(batch', k) \in Nat /\ Number(Tail(batch), k) \in Nat
      BY <1>4, <2>2, NumberIsNat
    <3>2. Number(<<>>, k) = 0
      BY NumberEmpty
    <3>3. Number(batch', k) <= Number(Tail(batch), k)
      <4>1. CASE batch' = Tail(batch)
        BY <3>1, <4>1
      <4>2. CASE batch' = <<>>
        BY <3>1, <3>2, <4>2
      <4> QED  BY <2>1, <4>1, <4>2
    <3> QED  BY <3>1, <3>3
  <2> QED  BY <2>2, <2>3
<1>6. \A k : Number(answers, k) \in Nat
  BY NumberIsNat DEF ServiceInv
<1>7. Tally(waiting, inside, answers, batch', "scorer") = 0
  <2>1. Tally(waiting, inside, answers, batch, "scorer") = 1
    BY <1>3 DEF ServiceInv, One
  <2>2. Number(batch, "scorer") = 1 + Number(Tail(batch), "scorer")
    BY <1>2, <1>4 DEF One
  <2> QED  BY <1>5, <1>6, <2>1, <2>2 DEF Tally, One
<1>8. Tally(waiting', inside', answers', batch', "scorer")
        = One(\E d \in calls' : d.phase # "never")
  <2>1. Ended(calls)
    BY <1>3 DEF Ended
  <2>2. NewCall(calls')
    BY <1>3, PumpCalls
  <2>3. /\ waiting \in SUBSET Clients /\ AloneIn(inside)
        /\ answers \in Seq(Answer) /\ "scorer" \in Clients
    BY DEF ServiceInv, Clients, AloneIn
  <2>4. Tally(waiting', inside, answers, batch', "scorer")
          = One(\E d \in calls' : d.phase # "never")
    <3>1. waiting' = IF Starts(calls, calls') THEN waiting \cup {"scorer"} ELSE waiting
      BY <1>2
    <3>2. batch' \in Seq(Answer)
      BY <1>5
    <3> QED  BY <1>7, <2>1, <2>2, <2>3, <3>1, <3>2, SpawnTallies DEF One
  <2> QED  BY <1>2, <2>4
<1>9. Tally(waiting', inside', answers', batch', "evaluator")
        <= One(\E d \in evals' : d.phase = "asked")
  <2>1. Number(batch, "evaluator") = Number(Tail(batch), "evaluator")
    BY <1>2, <1>4, <1>5 DEF One
  <2>2. "evaluator" \in waiting' <=> "evaluator" \in waiting
    BY <1>2
  <2>3. Tally(waiting', inside', answers', batch', "evaluator")
          <= Tally(waiting, inside, answers, batch, "evaluator")
    BY <1>2, <1>5, <1>6, <2>1, <2>2 DEF Tally, One
  <2>4. Tally(waiting', inside', answers', batch', "evaluator") \in Nat
    BY <1>2, <1>5, <1>6 DEF Tally, One
  <2>5. Tally(waiting, inside, answers, batch, "evaluator") \in Nat
    BY <1>5, <1>6, <2>1 DEF Tally, One
  <2>6. Tally(waiting, inside, answers, batch, "evaluator")
          <= One(\E d \in evals : d.phase = "asked")
    BY DEF ServiceInv
  <2> QED  BY <1>2, <2>3, <2>4, <2>5, <2>6 DEF One
<1>10. /\ waiting' \in SUBSET Clients /\ inLoop' \in BOOLEAN
       /\ ~inLoop' => batch' = <<>>
  BY <1>2 DEF ServiceInv, Clients, LeftAfter, Fails
<1>11. Evaluator!OneEvaluation'
  BY <1>2 DEF ServiceInv, Evaluator!OneEvaluation
<1>12. ServiceInv'
  BY <1>2, <1>3, <1>5, <1>8, <1>9, <1>10, <1>11 DEF ServiceInv
<1>13. Number(batch, "evaluator") = Number(Tail(batch), "evaluator")
  BY <1>2, <1>4, <1>5 DEF One
<1>14. "evaluator" \in waiting' <=> "evaluator" \in waiting
  BY <1>2
<1>15. CASE Fails(calls, calls')
  <2>1. batch' = <<>> /\ Number(batch', "evaluator") = 0
    BY <1>2, <1>15, NumberEmpty DEF LeftAfter
  <2>2. Tally(waiting', inside', answers', batch', "evaluator")
          + Number(Tail(batch), "evaluator")
          = Tally(waiting, inside, answers, batch, "evaluator")
    BY <1>2, <1>5, <1>6, <1>13, <1>14, <2>1 DEF Tally, One
  <2> QED  BY <1>2, <1>5, <1>12, <1>15, <2>2
<1>16. CASE ~Fails(calls, calls')
  <2>1. batch' = Tail(batch)
    BY <1>2, <1>16 DEF LeftAfter
  <2>2. Tally(waiting', inside', answers', batch', "evaluator")
          = Tally(waiting, inside, answers, batch, "evaluator")
    BY <1>2, <1>13, <1>14, <2>1 DEF Tally, One
  <2> QED  BY <1>2, <1>12, <2>2 DEF EvaluatorKept
<1> QED  BY <1>15, <1>16

\* The evaluator's callback uses its answer up.
LEMMA RunsEvaluatorKeeps ==
  ASSUME ServiceInv, RunsEvaluator
  PROVE  ServiceInv' /\ Awaited' = {}
<1>1. PICK c \in evals : Evaluator!Callback(c)
  BY DEF RunsEvaluator
<1>2. /\ batch # <<>> /\ Head(batch).client = "evaluator" /\ inLoop
      /\ batch' = Tail(batch) /\ inLoop' = inLoop
      /\ waiting' = waiting /\ inside' = inside /\ answers' = answers
      /\ calls' = calls /\ backend' = backend
  BY DEF RunsEvaluator, scorer, plugin
<1>3. /\ evals = {c} /\ evals' = {} /\ status' \in {"Done", "Error"}
  <2>1. evals = {c}
    BY DEF ServiceInv, Evaluator!OneEvaluation
  <2> QED  BY <1>1, <2>1 DEF Evaluator!Callback, Evaluator!Succeeds, Evaluator!Fails
<1>4. /\ Tail(batch) \in Seq(Answer)
      /\ \A k : Number(batch, k) = One(Head(batch).client = k) + Number(Tail(batch), k)
  BY <1>2, NumberTail DEF ServiceInv
<1>5. \A k : Number(answers, k) \in Nat /\ Number(batch', k) \in Nat
  BY <1>2, <1>4, NumberIsNat DEF ServiceInv
<1>6. Tally(waiting', inside', answers', batch', "scorer")
        = Tally(waiting, inside, answers, batch, "scorer")
  <2>1. Number(batch, "scorer") = Number(batch', "scorer")
    BY <1>2, <1>4, <1>5 DEF One
  <2> QED  BY <1>2, <2>1 DEF Tally
<1>7. Tally(waiting', inside', answers', batch', "evaluator") <= 0
  <2>1. Number(batch, "evaluator") = 1 + Number(batch', "evaluator")
    BY <1>2, <1>4 DEF One
  <2>2. CASE \E d \in evals : d.phase = "asked"
    <3>1. Tally(waiting, inside, answers, batch, "evaluator") <= 1
      BY <2>2 DEF ServiceInv, One
    <3> QED  BY <1>2, <1>5, <2>1, <3>1 DEF Tally, One
  <2>3. CASE ~(\E d \in evals : d.phase = "asked")
    <3>1. Tally(waiting, inside, answers, batch, "evaluator") <= 0
      BY <2>3 DEF ServiceInv, One
    <3> QED  BY <1>2, <1>5, <2>1, <3>1 DEF Tally, One
  <2> QED  BY <2>2, <2>3
<1>8. Evaluator!OneEvaluation'
  BY <1>3 DEF Evaluator!OneEvaluation
<1>9. One(\E d \in evals' : d.phase = "asked") = 0
  BY <1>3 DEF One
<1>10. ServiceInv'
  BY <1>2, <1>4, <1>6, <1>7, <1>8, <1>9 DEF ServiceInv
<1> QED  BY <1>3, <1>10 DEF Awaited

\* pump() asks when nothing is out.
LEMMA LoopEndsKeeps ==
  ASSUME ServiceInv, ScorerCalls, LoopEnds
  PROVE  ServiceInv' /\ EvaluatorKept
<1>1. /\ inLoop' = FALSE /\ batch = <<>> /\ batch' = batch
      /\ waiting' = IF Starts(calls, calls') THEN waiting \cup {"scorer"} ELSE waiting
      /\ inside' = inside /\ answers' = answers
      /\ status' = status /\ evals' = evals
  BY DEF LoopEnds, SpawnWorker, QueuedMeanwhile, evaluator
<1>2. backend' = backend
  BY DEF LoopEnds, Scorer!Pump
<1>3. Tally(waiting', inside', answers', batch', "scorer")
        = One(\E d \in calls' : d.phase # "never")
  <2>1. CASE calls' = calls
    <3>1. waiting' = waiting
      BY <1>1, <2>1 DEF Starts
    <3> QED  BY <1>1, <2>1, <3>1 DEF ServiceInv
  <2>2. CASE Scorer!Pump
    <3>1. calls = {} /\ Scorer!PumpFrom(inFlight, {})
      BY <2>2 DEF Scorer!Pump, Scorer!Blocked, ScorerCalls
    <3>2. Tally(waiting, inside, answers, batch, "scorer") = 0
      BY <3>1 DEF ServiceInv, One
    <3>3. NewCall(calls')
      BY <3>1, PumpCalls
    <3>4. /\ waiting \in SUBSET Clients /\ AloneIn(inside)
          /\ answers \in Seq(Answer) /\ batch \in Seq(Answer) /\ "scorer" \in Clients
      BY DEF ServiceInv, Clients, AloneIn
    <3>5. Ended(calls)
      BY <3>1 DEF Ended
    <3>6. Tally(waiting', inside, answers, batch, "scorer")
            = One(\E d \in calls' : d.phase # "never")
      <4>1. waiting' = IF Starts(calls, calls') THEN waiting \cup {"scorer"} ELSE waiting
        BY <1>1
      <4> QED  BY <3>2, <3>3, <3>4, <3>5, <4>1, SpawnTallies DEF One
    <3> QED  BY <1>1, <3>6
  <2> QED  BY <2>1, <2>2 DEF LoopEnds, scorer
<1>4. Tally(waiting', inside', answers', batch', "evaluator")
        = Tally(waiting, inside, answers, batch, "evaluator")
  <2>1. "evaluator" \in waiting' <=> "evaluator" \in waiting
    BY <1>1
  <2> QED  BY <1>1, <2>1 DEF Tally, One
<1>5. Evaluator!OneEvaluation' /\ waiting' \in SUBSET Clients
  BY <1>1 DEF ServiceInv, Evaluator!OneEvaluation, Clients
<1>6. ServiceInv'
  BY <1>1, <1>2, <1>3, <1>4, <1>5 DEF ServiceInv
<1> QED  BY <1>1, <1>4, <1>6 DEF EvaluatorKept

\* The button only asks when no evaluation is out.
LEMMA PostFlightTabKeeps ==
  ASSUME ServiceInv, PostFlightTab
  PROVE  /\ ServiceInv'
         /\ Awaited' # {} =>
              Tally(waiting', inside', answers', batch', "evaluator") > 0
<1>1. PICK atc \in Evaluator!AtcLog, flight \in Evaluator!FlightLog :
             Evaluator!EvaluateAsync(atc, flight)
  BY DEF PostFlightTab, Evaluator!Evaluate
<1>2. /\ batch' = batch /\ inLoop' = inLoop /\ inside' = inside /\ answers' = answers
      /\ waiting' = IF Starts(evals, evals') THEN waiting \cup {"evaluator"} ELSE waiting
      /\ calls' = calls /\ backend' = backend
  BY DEF PostFlightTab, SpawnWorker, scorer, plugin
<1>3. evals = {}
  BY <1>1 DEF Evaluator!EvaluateAsync, Evaluator!Free, ServiceInv, Evaluator!OneEvaluation
<1>4. \/ status' = "Error" /\ evals' = {}
      \/ /\ status' = "Running"
         /\ \E new : evals' = {new}
  <2>1. CASE status' = "Error" /\ UNCHANGED evals
    BY <1>3, <2>1
  <2>2. CASE /\ status' = "Running"
             /\ \E phase : evals' = evals \cup {[key |-> lastKey', arr |-> flight.arr,
                                                  phase |-> phase]}
    BY <1>3, <2>2
  <2> QED  BY <1>1, <2>1, <2>2 DEF Evaluator!EvaluateAsync
<1>5. Evaluator!OneEvaluation'
  BY <1>4 DEF Evaluator!OneEvaluation
<1>6. Number(answers, "evaluator") \in Nat /\ Number(batch, "evaluator") \in Nat
  BY NumberIsNat DEF ServiceInv
<1>7. Tally(waiting, inside, answers, batch, "evaluator") <= 0
  BY <1>3 DEF ServiceInv, One
<1>8. Tally(waiting', inside', answers', batch', "evaluator")
        <= One(\E d \in evals' : d.phase = "asked")
  <2>1. CASE Starts(evals, evals')
    <3>1. \E d \in evals' : d.phase = "asked"
      BY <2>1 DEF Starts
    <3>2. waiting' = waiting \cup {"evaluator"}
      BY <1>2, <2>1
    <3> QED  BY <1>2, <1>6, <1>7, <3>1, <3>2 DEF Tally, One
  <2>2. CASE ~Starts(evals, evals')
    <3>1. waiting' = waiting
      BY <1>2, <2>2
    <3> QED  BY <1>2, <1>6, <1>7, <3>1 DEF Tally, One
  <2> QED  BY <2>1, <2>2
<1>9. Tally(waiting', inside', answers', batch', "scorer")
        = Tally(waiting, inside, answers, batch, "scorer")
  <2>1. "scorer" \in waiting' <=> "scorer" \in waiting
    BY <1>2
  <2> QED  BY <1>2, <2>1 DEF Tally, One
<1>10. waiting' \in SUBSET Clients
  BY <1>2 DEF ServiceInv, Clients
<1>11. ServiceInv'
  BY <1>2, <1>5, <1>8, <1>9, <1>10 DEF ServiceInv
<1>12. ASSUME Awaited' # {}
       PROVE  Tally(waiting', inside', answers', batch', "evaluator") > 0
  <2>1. Starts(evals, evals')
    BY <1>3, <1>12 DEF Awaited, Starts
  <2>2. "evaluator" \in waiting'
    BY <1>2, <2>1
  <2> QED  BY <1>2, <1>6, <2>2 DEF Tally, One
<1> QED  BY <1>11, <1>12

\* A stop or a crash leaves nothing.
LEMMA StopKeeps ==
  ASSUME PluginStops \/ Crash
  PROVE  ServiceInv' /\ Awaited' = {}
<1>1. /\ waiting' = {} /\ inside' = {} /\ answers' = <<>> /\ batch' = <<>>
      /\ inLoop' = FALSE
  BY DEF PluginStops, Crash, ServiceEnds, AnswersAtStop
<1>2. calls' = {} /\ backend' = FALSE
  BY DEF PluginStops, Crash, Scorer!PluginStops, Scorer!Crash, Scorer!ScorerStops
<1>3. evals' = {} /\ status' = "Idle"
  BY DEF PluginStops, Crash, Evaluator!PluginStops
<1>4. /\ Tally(waiting', inside', answers', batch', "scorer") = 0
      /\ Tally(waiting', inside', answers', batch', "evaluator") = 0
  BY <1>1, NumberEmpty DEF Tally, One
<1>5. /\ One(\E d \in calls' : d.phase # "never") = 0
      /\ One(\E d \in evals' : d.phase = "asked") = 0
  BY <1>2, <1>3 DEF One
<1>6. Evaluator!OneEvaluation'
  BY <1>3 DEF Evaluator!OneEvaluation
<1>7. answers' \in Seq(Answer) /\ batch' \in Seq(Answer)
  BY <1>1, NumberEmpty
<1>8. /\ waiting' \in SUBSET Clients /\ inLoop' \in BOOLEAN /\ backend' \in BOOLEAN
      /\ ~inLoop' => batch' = <<>>
  BY <1>1, <1>2
<1>9. /\ Tally(waiting', inside', answers', batch', "scorer")
            = One(\E d \in calls' : d.phase # "never")
      /\ Tally(waiting', inside', answers', batch', "evaluator")
            <= One(\E d \in evals' : d.phase = "asked")
  BY <1>4, <1>5 DEF One
<1>10. ServiceInv'
  BY <1>1, <1>6, <1>7, <1>8, <1>9 DEF ServiceInv
<1> QED  BY <1>3, <1>10 DEF Awaited

\* Before the first XPluginStart nobody asked anything.
LEMMA ServiceInit == Init => ServiceInv
<1> SUFFICES ASSUME Init PROVE ServiceInv
  OBVIOUS
<1>1. /\ waiting = {} /\ inside = {} /\ answers = <<>> /\ batch = <<>> /\ inLoop = FALSE
  BY DEF Init
<1>2. calls = {} /\ backend = FALSE
  BY DEF Init, Scorer!Init
<1>3. evals = {} /\ status = "Idle"
  BY DEF Init, Evaluator!Init
<1>4. /\ Tally(waiting, inside, answers, batch, "scorer") = 0
      /\ Tally(waiting, inside, answers, batch, "evaluator") = 0
  BY <1>1, NumberEmpty DEF Tally, One
<1>5. /\ One(\E d \in calls : d.phase # "never") = 0
      /\ One(\E d \in evals : d.phase = "asked") = 0
  BY <1>2, <1>3 DEF One
<1>6. Evaluator!OneEvaluation
  BY <1>3 DEF Evaluator!OneEvaluation
<1>7. answers \in Seq(Answer) /\ batch \in Seq(Answer)
  BY <1>1, NumberEmpty
<1>8. /\ waiting \in SUBSET Clients /\ inLoop \in BOOLEAN /\ backend \in BOOLEAN
      /\ ~inLoop => batch = <<>>
  BY <1>1, <1>2
<1>9. /\ Tally(waiting, inside, answers, batch, "scorer")
            = One(\E d \in calls : d.phase # "never")
      /\ Tally(waiting, inside, answers, batch, "evaluator")
            <= One(\E d \in evals : d.phase = "asked")
  BY <1>4, <1>5 DEF One
<1> QED  BY <1>1, <1>6, <1>7, <1>8, <1>9 DEF ServiceInv

\* Each step of the plugin keeps the invariant, and an answer that is awaited stays
\* somewhere or is discarded behind one of the scorer.
LEMMA ServiceStep ==
  ASSUME ServiceInv, ScorerCalls, [Next]_vars
  PROVE  /\ ServiceInv'
         /\ \/ EvaluatorKept
            \/ Awaited' # {} => Tally(waiting', inside', answers', batch', "evaluator") > 0
            \/ /\ evals' = evals
               /\ Fails(calls, calls') /\ Head(batch).client = "scorer"
               /\ Number(Tail(batch), "evaluator") \in Nat
               /\ Tally(waiting', inside', answers', batch', "evaluator")
                    + Number(Tail(batch), "evaluator")
                    = Tally(waiting, inside, answers, batch, "evaluator")
<1>1. CASE EntersForScorer \/ EntersForEvaluator \/ Leaves
  BY <1>1, EntersForScorerKeeps, EntersForEvaluatorKeeps, LeavesKeeps
<1>2. CASE FlightLoop
  <2>1. CASE DrainBegins
    BY <2>1, DrainBeginsKeeps
  <2>2. CASE RunsScorer
    BY <2>2, RunsScorerKeeps
  <2>3. CASE RunsEvaluator
    BY <2>3, RunsEvaluatorKeeps
  <2>4. CASE LoopEnds
    BY <2>4, LoopEndsKeeps
  <2> QED  BY <1>2, <2>1, <2>2, <2>3, <2>4 DEF FlightLoop
<1>3. CASE FlightTab
  <2>1. /\ UNCHANGED <<service, status, evals>>
        /\ Scorer!DrawSearch \/ \E S \in SUBSET Icao : Scorer!Search(S)
    BY <1>3 DEF FlightTab, evaluator
  <2>2. UNCHANGED <<calls, backend>>
    BY <2>1 DEF Scorer!DrawSearch, Scorer!Search, Scorer!queueVars
  <2>3. backend' \in BOOLEAN
    BY <2>2 DEF ServiceInv
  <2> QED  BY <2>1, <2>2, <2>3, OthersKeep
<1>4. CASE PostFlightTab
  BY <1>4, PostFlightTabKeeps
<1>5. CASE SettingsTab \/ Enable \/ Disable
  <2>1. /\ UNCHANGED <<service, status, evals>>
        /\ \E b \in BOOLEAN : Scorer!Configure(b)
    BY <1>5 DEF SettingsTab, Enable, Disable, evaluator
  <2>2. UNCHANGED calls /\ backend' \in BOOLEAN
    BY <2>1 DEF Scorer!Configure, Scorer!queueVars
  <2> QED  BY <2>1, <2>2, OthersKeep
<1>6. CASE PluginStops \/ Crash
  BY <1>6, StopKeeps
<1>7. CASE PluginStarts
  <2>1. UNCHANGED <<service, status, evals, calls, backend>>
    BY <1>7 DEF PluginStarts, Scorer!PluginStarts, Evaluator!PluginStarts,
                   Evaluator!StartsReading, Scorer!queueVars
  <2>2. backend' \in BOOLEAN
    BY <2>1 DEF ServiceInv
  <2> QED  BY <2>1, <2>2, OthersKeep
<1>8. CASE UNCHANGED vars
  <2>1. UNCHANGED <<service, status, evals, calls, backend>>
    BY <1>8 DEF vars, scorer, evaluator, plugin
  <2>2. backend' \in BOOLEAN
    BY <2>1 DEF ServiceInv
  <2> QED  BY <2>1, <2>2, OthersKeep
<1> QED  BY <1>1, <1>2, <1>3, <1>4, <1>5, <1>6, <1>7, <1>8 DEF Next

\* The scorer's calls are as its theorems say, also in the plugin.
LEMMA CallsOfScorer == Spec => []ScorerCalls
<1>1. ScorerProofs!ScorerAssumption
  BY ScorerAssumes
<1>2. ScorerProofs!Spec => []ScorerProofs!QueueInv
  BY <1>1, ScorerProofs!QueueInvariance, PTL
<1>3. ScorerProofs!QueueInv => ScorerCalls
  BY DEF ScorerProofs!QueueInv, ScorerProofs!TypeInv, ScorerProofs!OneCallAtATime,
         ScorerProofs!Call, ScorerCalls
<1> QED  BY <1>2, <1>3, SameScorer, ImplementsScorer, PTL

\* The service holds what its clients wait for.
LEMMA ServiceInvariance == Spec => []ServiceInv
<1>1. ServiceInv /\ ScorerCalls /\ [Next]_vars => ServiceInv'
  BY ServiceStep
<1> QED  BY <1>1, CallsOfScorer, ServiceInit, PTL DEF Spec

\* What the scorer and the evaluator believe of the service is so: one call at a
\* time each, one worker or answer for it, and never an old one (in_flight,
\* g_status, g_callbacks, stop()).
THEOREM ClientsMatch == Spec => []ClientsMatchService
<1>1. ScorerCalls => Scorer!OneCallAtATime
  BY DEF ScorerCalls, Scorer!OneCallAtATime
<1> QED  BY <1>1, CallsOfScorer, ServiceInvariance, Matches, PTL

\* The places of the evaluator are its tally, before and after a step.
Tallied == Places("evaluator") = Tally(waiting, inside, answers, batch, "evaluator")

\* The answer an evaluation waits for is discarded in one way only, by an exception
\* out of the callback of a batch before it (drain_callback_queue(), std::thread).
THEOREM AnswerLost == Spec => LostOnlyBehindBatch
<1>1. ASSUME ServiceInv, ScorerCalls, Tallied, Tallied', [Next]_vars, Lost', ~Lost
      PROVE  /\ Fails(calls, calls')
             /\ Head(batch).client = "scorer" /\ Number(Tail(batch), "evaluator") = 1
  <2> DEFINE before == Tally(waiting, inside, answers, batch, "evaluator")
             after == Tally(waiting', inside', answers', batch', "evaluator")
  <2>1. Places("evaluator") = before /\ Places("evaluator")' = after
    BY <1>1 DEF Tallied
  <2>2. Awaited' # {} /\ after = 0
    BY <1>1, <2>1 DEF Lost
  <2>3. before \in Nat /\ before <= 1
    <3>1. Number(answers, "evaluator") \in Nat /\ Number(batch, "evaluator") \in Nat
      BY <1>1, NumberIsNat DEF ServiceInv
    <3>2. before \in Nat
      BY <3>1 DEF Tally, One
    <3> QED  BY <1>1, <3>2 DEF ServiceInv, One
  <2>4. ~EvaluatorKept
    BY <1>1, <2>1, <2>2 DEF EvaluatorKept, Awaited, Lost
  <2>5. /\ evals' = evals
        /\ Fails(calls, calls') /\ Head(batch).client = "scorer"
        /\ Number(Tail(batch), "evaluator") \in Nat
        /\ after + Number(Tail(batch), "evaluator") = before
    BY <1>1, <2>2, <2>4, ServiceStep
  <2>6. before # 0
    BY <1>1, <2>1, <2>2, <2>5 DEF Lost, Awaited
  <2>7. Number(Tail(batch), "evaluator") = 1
    BY <2>2, <2>3, <2>5, <2>6
  <2> QED  BY <2>5, <2>7
<1>2. ServiceInv /\ ScorerCalls /\ Tallied /\ Tallied' /\ [Next]_vars =>
        [Lost' => \/ Lost
                  \/ /\ Fails(calls, calls')
                     /\ Head(batch).client = "scorer"
                     /\ Number(Tail(batch), "evaluator") = 1]_vars
  BY <1>1
<1>3. ServiceInv => Tallied
  BY PlacesTallied DEF Tallied
<1> QED  BY <1>2, <1>3, ServiceInvariance, CallsOfScorer, PTL DEF Spec, LostOnlyBehindBatch
=============================================================================
