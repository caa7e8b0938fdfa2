---------------------------- MODULE AirportScorer ----------------------------
(***************************************************************************)
(* airports/airport_scorer.cpp on top of airports/airport_score_cache.cpp: *)
(* airports shown as flight suggestions are queued, sent to the language   *)
(* model in batches, one call at a time, and the scores that come back are *)
(* kept in memory and in a file that outlives the process.                 *)
(*                                                                         *)
(* Everything here runs on the main thread except WorkerCalls, the read of *)
(* g_lm by the worker of the outstanding call; what else the service does  *)
(* is LmManager's.  An airport is its ICAO code, its facts are what the    *)
(* prompt tells the model about it, and they only change between sessions, *)
(* when X-Plane's apt.dat does.                                            *)
(***************************************************************************)
EXTENDS Suggester, FiniteSets

CONSTANTS Icao,
          Facts,         \* what apt.dat may say of an airport
          Versions,      \* the releases installed over time
          RawScores,     \* scores the model may answer with, in range or not
          MinScore, MaxScore,
          BatchSize,     \* kBatchSize
          MaxItems,      \* bound: entries of one reply
          SpawnMayFail,  \* the thread of a call may fail to start
          ReadsMayFail   \* the score file may be found unreadable, wholly or in part

\* Only destinations of the Flight tab are scored.
ScorerFacts == {f \in AirportFacts : GaSuitable(f)}

\* prompt is kPromptVersion of a release, file its kFileVersion.
ASSUME ScorerAssumption ==
  /\ IsFiniteSet(Icao)
  /\ Facts \subseteq ScorerFacts
  /\ Versions \subseteq [prompt : Nat, file : Nat]
  /\ RawScores \subseteq Nat
  /\ MinScore \in Nat /\ MaxScore \in Nat /\ MinScore <= MaxScore
  /\ BatchSize \in Nat \ {0}
  /\ MaxItems \in Nat
  /\ SpawnMayFail \in BOOLEAN /\ ReadsMayFail \in BOOLEAN

VARIABLES
  queue,       \* airports awaiting a score
  pending,     \* airports queued or in flight
  inFlight,    \* in_flight
  calls,       \* calls of the scorer that were dispatched and not answered
  store,       \* the score cache in memory, an entry or NoEntry for each code
  disk,        \* airport_scores.json: its version and its scores
  unread,      \* history: saved scores that load() did not take over
  facts,       \* the airport database
  version,     \* the release that runs
  wanted,      \* candidates of the search the Flight tab shows
  backend,     \* g_lm: is a language model registered?
  running      \* between XPluginStart and XPluginStop

cacheVars   == <<store, disk, unread>>
queueVars   == <<queue, pending, inFlight, calls>>
sessionVars == <<facts, version, running>>
vars == <<queue, pending, inFlight, calls, store, disk, unread, facts, version, wanted,
          backend, running>>

-----------------------------------------------------------------------------
(* input_sig(): a hash, taken to be injective, of what it puts together.   *)

\* A list that is sorted first is as good as how often it has each value.
Sorted(s) == [v \in Range(s) |-> Cardinality({k \in DOMAIN s : s[k] = v})]

Lengths(f) == {f.runways[k].length : k \in DOMAIN f.runways}
Longest(f) == IF f.runways = <<>> THEN 0 ELSE Max(Lengths(f))

\* Mutation: the facility is left out.
FacilityLeftOut(f) ==
  [count |-> Len(f.runways), longest |-> Longest(f),
   surfaces |-> Sorted([k \in DOMAIN f.runways |-> f.runways[k].surface]),
   types |-> Sorted(f.frequencies), elevation |-> f.elevation]
InputSig(f) ==
  [facility |-> f.facility, count |-> Len(f.runways), longest |-> Longest(f),
   surfaces |-> Sorted([k \in DOMAIN f.runways |-> f.runways[k].surface]),
   types |-> Sorted(f.frequencies), elevation |-> f.elevation]

\* from is a history: the facts of the prompt that the score answers.
Entry == [score : MinScore .. MaxScore, version : {v.prompt : v \in Versions},
          sig : {InputSig(f) : f \in Facts}, from : Facts]
NoEntry == [score |-> 0]
Cache == [Icao -> Entry \cup {NoEntry}]

\* What save() of this release makes of a cache.  No file is one without scores.
FileOf(cache) == [layout |-> version.file, scores |-> cache]
Empty == [i \in Icao |-> NoEntry]

\* A call is made, its worker finds a model that replies or none, and then the
\* callback runs; for a thread that did not start it never does.
Phases == {"asked", "replied", "empty", "never"}
Call == [batch : Seq(Icao), phase : Phases]

TypeOK ==
  /\ queue \in Seq(Icao)
  /\ pending \subseteq Icao
  /\ inFlight \in BOOLEAN
  /\ calls \subseteq Call
  /\ store \in Cache
  /\ disk \in [layout : {v.file : v \in Versions}, scores : Cache]
  /\ unread \subseteq Icao
  /\ facts \in [Icao -> Facts]
  /\ version \in Versions
  /\ wanted \subseteq Icao
  /\ backend \in BOOLEAN
  /\ running \in BOOLEAN

Init ==
  /\ queue = <<>> /\ pending = {} /\ inFlight = FALSE /\ calls = {}
  /\ facts \in [Icao -> Facts]
  /\ version \in Versions
  /\ store = Empty /\ disk = FileOf(Empty) /\ unread = {}
  /\ wanted = {}
  /\ backend = FALSE
  /\ running = FALSE

-----------------------------------------------------------------------------
(* The score cache.                                                        *)

\* score_cache::lookup() with the running prompt version and signature.
Cached(i) == /\ store[i] # NoEntry
             /\ store[i].version = version.prompt
             /\ store[i].sig = InputSig(facts[i])

\* load(): memory starts empty, and stays so if the file is of another version.
\* read is what can be made of the file: nothing if it cannot be opened, is no JSON
\* or has no object "scores", and no entry that is no object.  The file is left.
CacheLoads ==
  \E read \in IF ReadsMayFail THEN SUBSET Icao ELSE {Icao} :
    LET Taken(i) == disk.layout = version'.file /\ i \in read
    IN /\ store' = [i \in Icao |-> IF Taken(i) THEN disk.scores[i] ELSE NoEntry]
       /\ unread' = {i \in Icao : disk.scores[i] # NoEntry /\ ~Taken(i)}

\* save(): a temporary file renamed over the target.  A failure on the way, or
\* the end of the process, leaves the old file.  Mutation: the file is emptied
\* before it is written.
SavedInPlace(cache) == {disk, FileOf(cache), FileOf(Empty)}
\* Mutation: the file is left half written.
SavedPartly(cache) == {disk, FileOf(cache), [layout |-> version.file]}
SavedFiles(cache) == {disk, FileOf(cache)}

-----------------------------------------------------------------------------
(* The scorer.                                                             *)

\* enqueue_if_missing() for every candidate of the search, as the Flight tab
\* does on every frame it is drawn, in the order of the database.
\* Mutation: the pending set is not consulted.
MissingUnchecked == {i \in wanted : ~Cached(i)}
\* Mutation: the cache is not consulted.
MissingUncached == {i \in wanted : i \notin pending}
Missing == {i \in wanted : ~Cached(i) /\ i \notin pending}

DrawSearch ==
  /\ running /\ Missing # {}
  /\ \E s \in [1 .. Cardinality(Missing) -> Missing] :
       Range(s) = Missing /\ queue' = queue \o s
  /\ pending' = pending \cup Missing
  /\ UNCHANGED <<inFlight, calls, cacheVars, wanted, sessionVars, backend>>

\* The start of the next batch, seen from pump(): flying is in_flight and others
\* the outstanding calls at that point.  in_flight is set before the dispatch,
\* so it stays set when the thread cannot be created and no answer will come.
\* Mutation: pump() does not look at in_flight.
BlockedByQueue(flying) == queue = <<>> \/ ~backend
Blocked(flying) == flying \/ queue = <<>> \/ ~backend

PumpFrom(flying, others) ==
  \/ /\ Blocked(flying)
     /\ inFlight' = flying
     /\ calls' = others
     /\ UNCHANGED queue
  \/ LET n == IF Len(queue) < BatchSize THEN Len(queue) ELSE BatchSize
     IN /\ ~Blocked(flying)
        /\ queue' = SubSeq(queue, n + 1, Len(queue))
        /\ inFlight' = TRUE
        /\ \E phase \in {"asked"} \cup IF SpawnMayFail THEN {"never"} ELSE {} :
             calls' = others \cup {[batch |-> SubSeq(queue, 1, n), phase |-> phase]}

\* pump() from the flight loop.
Pump ==
  /\ running /\ ~Blocked(inFlight)
  /\ PumpFrom(inFlight, calls)
  /\ UNCHANGED <<pending, cacheVars, wanted, sessionVars, backend>>

\* The worker of the call gets to the model registered by now, if any; the reply
\* may be empty all the same.
WorkerCalls(c) ==
  /\ running /\ c.phase = "asked"
  /\ \E phase \in {"empty"} \cup IF backend THEN {"replied"} ELSE {} :
       calls' = (calls \ {c}) \cup {[c EXCEPT !.phase = phase]}
  /\ UNCHANGED <<queue, pending, inFlight, cacheVars, wanted, sessionVars, backend>>

\* A reply is the entries of "scores" that parse; broken says that what follows
\* them, or the reply as a whole, does not.
Item == [icao : Icao, raw : RawScores]
Reply == [items : UNION {[1 .. n -> Item] : n \in 0 .. MaxItems}, broken : BOOLEAN]

\* Mutation: the score is stored as answered.
Unclamped(raw) == raw
Clamp(raw) == IF raw < MinScore THEN MinScore ELSE IF raw > MaxScore THEN MaxScore ELSE raw

\* find_in_batch().  Mutation: every entry of the reply is taken.
TakesAll(c, item) == TRUE
Takes(c, item) == item.icao \in Range(c.batch)

\* The cache after the entries of a reply: of several for an airport the last.
Scored(c, items) ==
  [i \in Icao |->
     LET hits == {k \in DOMAIN items : items[k].icao = i /\ Takes(c, items[k])}
     IN IF hits = {} THEN store[i]
        ELSE [score |-> Clamp(items[Max(hits)].raw), version |-> version.prompt,
               sig |-> InputSig(facts[i]), from |-> facts[i]]]

\* Mutation: the batch stays pending.
KeepPending(c) == pending
Released(c) == pending \ Range(c.batch)

\* The callback of pump(), run by drain_callback_queue().  The entries before a
\* broken one stay in memory, and then the file is not written.
Succeeds(c) ==
  /\ c.phase = "replied"
  /\ \E reply \in Reply :
       LET taken == {k \in DOMAIN reply.items : Takes(c, reply.items[k])}
       IN /\ store' = Scored(c, reply.items)
          /\ IF taken # {} /\ ~reply.broken
             THEN disk' \in SavedFiles(store')
             ELSE UNCHANGED disk
  /\ UNCHANGED unread

Callback(c) ==
  /\ running /\ c.phase \in {"replied", "empty"}
  /\ pending' = Released(c)
  /\ Succeeds(c) \/ UNCHANGED cacheVars
  /\ PumpFrom(FALSE, calls \ {c})
  /\ UNCHANGED <<wanted, sessionVars, backend>>

-----------------------------------------------------------------------------
(* The plugin around the scorer.                                           *)

\* The user searches for flights: the candidates in range change.
Search(S) ==
  /\ running
  /\ wanted' = S
  /\ UNCHANGED <<queueVars, cacheVars, sessionVars, backend>>

\* The Settings tab, XPluginEnable and XPluginDisable.
Configure(b) ==
  /\ running
  /\ backend' = b
  /\ UNCHANGED <<queueVars, cacheVars, wanted, sessionVars>>

\* scorer::stop(); the outstanding call is not answered any more.
ScorerStops == /\ queue' = <<>> /\ pending' = {} /\ inFlight' = FALSE /\ calls' = {}
               /\ running' = FALSE
               /\ backend' = FALSE
               /\ unread' = {}
               /\ UNCHANGED <<facts, version, wanted, store>>

\* XPluginStop saves the cache, a crash of X-Plane does not.
PluginStops == running /\ ScorerStops /\ disk' \in SavedFiles(store)
Crash == running /\ ScorerStops /\ UNCHANGED disk

\* XPluginStart, of any release and with the airport data of that day.
PluginStarts ==
  /\ ~running /\ running' = TRUE
  /\ facts' \in [Icao -> Facts] /\ version' \in Versions
  /\ CacheLoads
  /\ wanted' = {}
  /\ UNCHANGED <<queueVars, disk, backend>>

Next == \/ DrawSearch \/ Pump
        \/ \E c \in calls : WorkerCalls(c) \/ Callback(c)
        \/ \E S \in SUBSET Icao : Search(S)
        \/ \E b \in BOOLEAN : Configure(b)
        \/ PluginStops \/ Crash \/ PluginStarts

Spec == Init /\ [][Next]_vars

-----------------------------------------------------------------------------
(* Properties                                                              *)

\* pending is what it stands for: an airport in it is queued or in the batch of
\* the outstanding call, once, so none is asked twice at a time and none is
\* forgotten by being taken for queued.
PendingExact ==
  /\ pending = Range(queue) \cup UNION {Range(c.batch) : c \in calls}
  /\ \A j, k \in DOMAIN queue : queue[j] = queue[k] => j = k
  /\ \A c \in calls : Range(c.batch) \cap Range(queue) = {}

\* One call of the scorer at a time, and in_flight says whether there is one,
\* also through pump() being called from the callback of the last.
OneCallAtATime == /\ \A c, d \in calls : c = d
                  /\ inFlight <=> calls # {}

\* No score outlives what it was given for: an airport whose facility, elevation
\* or number of runways or frequencies has changed since, in whatever release or
\* session, is an estimate again and not shown with its old score.
ScoreFitsAirport ==
  \A i \in Icao : Cached(i) =>
    LET then == store[i].from
    IN /\ then.facility = facts[i].facility
       /\ then.elevation = facts[i].elevation
       /\ Len(then.runways) = Len(facts[i].runways)
       /\ Len(then.frequencies) = Len(facts[i].frequencies)

\* Only the airports of the answered batch change their score while the plugin
\* runs, however many others the model brings up.
OnlyAskedScored ==
  [][running /\ running' =>
       \A i \in Icao : store'[i] # store[i] =>
         \E c \in calls : c.phase = "replied" /\ i \in Range(c.batch)]_vars

\* A saved score leaves the file in one way only: the session's load() could not
\* take it over, a file of another version or one it could not read, and then a
\* save wrote the file anew before the airport was scored again.  No failed save,
\* no crash, no restart with a readable file and no change of the prompt drops one.
SavedScoresSurvive ==
  [][\A i \in Icao : /\ disk.scores[i] # NoEntry
                     /\ i \in unread => store'[i] # NoEntry
                     => disk'.scores[i] # NoEntry]_vars

\* An airport with a current score keeps one for the session and costs no
\* further call, however often the search is drawn.
ScoredOnce ==
  [][running /\ running' =>
       \A i \in Icao : Cached(i) => Cached(i)' /\ (i \in pending' => i \in pending)]_vars
=============================================================================
