# TLA+ models of xp_wellys_vfr_trainer

The plugin suggests VFR destinations around the aircraft, has a cloud language
model rate how difficult they are, loads a chosen route into the FMS, and after
the flight has the recorded radio calls and track evaluated by the same model.
This directory models the parts of it that keep state across frames, threads,
calls, restarts and releases, checks them with TLC, and proves with TLAPS every
invariant and every action property that is checked, for all values of the
constants, and that the plugin put together implements its parts. Liveness is
checked only.

    tlc -workers 2 -config LmManagerSafety.cfg MCLmManager
    tlapm LmManagerProofs.tla

and likewise `AirportScorerProofs`, `PostFlightProofs`, `TrainerProofs` (a few
minutes), `TimelineProofs`, `FlightTabProofs`, `BackendConfigProofs` and
`AirportDbProofs`.

`PROJECT.json` maps every definition to the lines of the source it stands for
and lists runs, mutants, findings, hazards and theorems.

## The system

| component (under `src/src/`) | state it keeps | operations | talks to |
|---|---|---|---|
| LM service, `backends/manager.cpp` | registered model `g_lm`, the inference lock, the callback queue, the count of active workers | `dispatch` (through `lm::respond*_async`), a detached worker per request, `drain_callback_queue`, `register_lm`, `stop` | called by scorer and evaluator, drained by the flight loop, configured by the loader |
| Cloud models, `backends/openai_lm.cpp`, `mistral_lm.cpp` | none (key and model name) | `respond`, `respond_json`: one HTTP call, 30 s at most, empty on any failure | called by the workers |
| Loader, `backends/loader.cpp` | none | `start`, `stop` | reads settings and keys, calls `register_lm` |
| Airport scorer, `airports/airport_scorer.cpp` | `queue`, `pending`, `in_flight`, provenance tag | `enqueue_if_missing`, `pump` and its callback, `score_of`, `stop` | fed by the Flight tab, pumped by the flight loop, asks the LM service, fills the score cache |
| Score cache, `airports/airport_score_cache.cpp` | entries in memory, `airport_scores.json` | `load`, `lookup`, `put`, `save` | scorer, Flight tab |
| Evaluator, `postflight/evaluator.cpp` | status, error, key of the session under evaluation | `evaluate_async` and its callback, `stop` | Post-Flight tab, LM service, report cache |
| Report cache, `postflight/report_cache.cpp` | reports in memory, one file per report | `load`, `lookup`, `latest`, `put`, `save` | evaluator, Post-Flight tab |
| Discovery, correlation, log readers, `postflight/*` | none | newest log of a directory, do two logs belong together, nearest track point | evaluator, Post-Flight tab |
| Flight tab, `ui/trainer_ui.cpp` | criteria of the last search, results, selected row, popup | search, click, load, replace, cancel; queues airports on every frame | suggester, scorer, FMS writer |
| Suggester, `preflight/flight_suggester.cpp` | none | candidates in range, filter, ranking, truncation | Flight tab |
| FMS writer, `fms/fms_writer.cpp` | X-Plane's flight plan | count entries, replace the plan | Flight tab |
| Settings, key store, `persistence/*` | `settings.json`, the OS key store | getters, setters that save at once | Settings tab, loader |
| Airport database, `airports/airport_db.cpp` | airports, ready and started flags | a loader thread, `stop` joins it | Flight tab, scorer |
| apt.dat parser, `airports/apt_dat_parser.cpp` | the airport under assembly | one line at a time | airport database |
| Plugin lifecycle, `main.cpp` | enabled, flight loop registered | start, enable, disable, stop, one flight loop call per frame | all of them |

There are two kinds of threads besides X-Plane's main thread: one detached
worker per request, and the loader of apt.dat. Everything the modules other than
`LmManager` describe happens on the main thread, in callbacks of the flight loop
or of drawing; what makes it hard is that an answer arrives any number of frames
after its question, and what happened in between.

What is hard here:

* **Interleaving and lifetime** (service): the model may be replaced while a
  worker is inside it; callbacks dispatch again from inside the drain; workers
  run while the plugin is being torn down.
* **Timeouts** (service): `stop()` waits 5 s for calls that may take 30 s each,
  one after the other.
* **State set before a step that may throw** (service, scorer, evaluator): the
  worker count, `in_flight` and `g_status` are all set before `std::thread` is
  constructed, and stay when it throws.
* **Stale state**: a cached score of other airport data or another prompt, a
  report of another rubric, a row index into results that have changed.
* **Crashes and failed writes**: two caches whose content was paid for, written
  as a temporary file and a rename, or (settings) in place.
* **Files of other programs** (logs): written and removed while a directory is
  read.
* **Unreliable answers**: entries missing, repeated, off the scale, of airports
  nobody asked for, or breaking off.
* **Liveness**: requests answered, queues emptied, `XPluginStop` returning.

## Modules

| module | models | notes |
|---|---|---|
| `LmService` | what `backends/manager.hpp` promises its callers | abstract specification: a request is answered once at most, in any order, with success only if a model was there when it was asked |
| `LmManager` | `manager.cpp`, `loader.cpp`, the parts of `main.cpp` that drive them | implements `LmService` through a refinement mapping |
| `LmManagerProofs` | | inductive invariant, safety properties and refinement, proved |
| `AirportScorer` | scorer, score cache, `input_sig`, the Flight tab's queuing | one call of the service is three steps: asked, found a model or none, called back |
| `AirportScorerProofs` | | the queue, the pending set, the outstanding call, the cache and its signatures, proved |
| `PostFlight` | evaluator, report cache, what the tab shows | any two logs may be the newest |
| `PostFlightProofs` | | memory, files and "Done", proved |
| `Trainer` | `main.cpp`, the flight loop frame by frame; the workers, the inference lock and the callback queue of `manager.cpp` between two clients | composes `AirportScorer` and `PostFlight` |
| `TrainerProofs` | | `Trainer` implements both and has their theorems; what it adds, proved |
| `FlightLogs` | `same_flight`, `nearest`, `correlate` | operators only, for `PostFlight` and `Timeline` |
| `Timeline` | `newest_json` step by step, both log parsers, the timeline of the prompt | the directory changes while it is read |
| `TimelineProofs` | | the log that is found and the positions in the prompt, proved |
| `Suggester` | the rules of `flight_suggester.cpp`: suitability, filters, estimate, buckets; what an airport is | operators only, for `FlightTab` and `AirportScorer` |
| `FlightTab` | Flight tab, ranking and truncation, FMS writer | the scorer is an environment that scores pending airports or does not |
| `FlightTabProofs` | | results, selection and flight plan, proved |
| `BackendConfig` | settings, key store, loader, the key panel of the Settings tab | an operation is the list of steps left to do |
| `BackendConfigProofs` | | backend, file, flags and keys, proved |
| `AptDat` | the apt.dat parser, and what a file says by its structure | operators only |
| `AirportDb` | loader thread, ready flag, frames that use the airports, stop | parses with `AptDat` |
| `AirportDbProofs` | | the loader and the frames, and that the parser reads what the file says, proved |
| `MC...` | constants of the model-checking runs | |

### LmManager

State and code: `lm` is `g_lm`; `callMtx` is `g_lm_call_mtx` and names the
worker that holds it; `callbacks` is `g_callbacks` and `batch` the local deque
`drain_callback_queue` swaps it into; `workers` is `g_active_workers`; `pc`,
`ptr` and `reply` are the program counter and the locals of each worker; `main`
is where the main thread is. `g_backend_mtx` and `g_cb_mtx` protect one access
each, so a section under one of them is one step and they need no variable.
Everything between two such accesses that another thread can observe is a step
of its own: the worker copies the raw pointer (`TakePointer`) in one and uses it
in another (`Respond`), and its `fetch_sub` (`CountDown`) is not its end
(`ThreadExits`). The histories `outcome`, `lost` and `timedOut` are read by
properties only.

`SpawnFails` is the `std::thread` constructor throwing after the `fetch_add`:
the request's callback is gone, and so is what is left of `batch` when the
dispatch came out of a callback, because the exception leaves the drain and is
caught by the flight loop or the tab.

### AirportScorer

`DrawSearch` is one drawn frame of the tab (`enqueue_if_missing` of every
candidate), `Pump` the flight loop's call, `Callback` the whole lambda of
`pump()` with the nested `pump()` at its end. A reply is a sequence of entries
that parse followed by nothing or something that does not, which is where the
`try` block ends: entries before it stay in memory, and nothing is saved.
`SavedFiles` is the write of a temporary file and its rename: the old or the new
content, also in a crash. An airport's facts are what the prompt tells of it; they
change only with apt.dat, between sessions, and are those of suitable
destinations, since no others are queued. `InputSig` is the signature the code
computes of them, field by field, with the lists it sorts as bags; the hash over
it is taken to be injective. The history `from` of an entry has the facts a score
was given for, so that `ScoreFitsAirport` can say what the signature is for.

`CacheLoads` clears memory and takes over what it can: nothing from a file that does
not open or parse or has no scores, nothing if the file's version is not the one
of the release that runs (`kFileVersion`), and no entry that is not an object. `read` is what could be
read, all or nothing or a part. The file stays as it is until the next save,
at the latest that of `XPluginStop`, writes memory over it; so such a load costs
the scores it did not take. The history `unread` has these, and
`SavedScoresSurvive` says that a score is lost in this way only. Releases (`Versions`) differ in the
version of the prompt, of the file, or both.

### Trainer

`AirportScorer` and `PostFlight` each take for granted that a call that started
is answered. `Trainer` takes that back. A call has a worker (`waiting`), which
gets the lock and the answer of the model (`inside`) and queues it (`answers`);
`DrainBegins` swaps the queue with the local one (`batch`), whose callbacks run
one after the other; then `pump()` ends the frame. As each client has one call at
a time, workers and answers are known by their client; that this is so is part of
`ClientsMatchService`. An exception of `std::thread`'s constructor out of the
scorer's callback discards the rest of `batch` and skips `pump()`
(`LeftAfter`), out of `pump()` it ends the flight loop, and out of the button it
is shown. The evaluator's callback catches what it throws and sends nothing.

Every action of `AirportScorer` and `PostFlight` appears as a conjunct, so the
guards and effects are theirs; what `Trainer` adds is when they run. `PluginStops`
drops workers and answers, as `stop()` does where it does not give up. What goes
on below the inference lock, and the stop that gives up, is in `LmManager`.

### PostFlight

`Evaluate` is the button with any two logs as the newest; `Callback` the
lambda, with `Succeeds` storing the report and saving all of them, each file
written or not where writes may fail. File names have the minute of the start,
keys have the second; `Loads` reads the directory in any order and keeps the
first file of each key, as `emplace` does; files that do not open or parse, any
set of them where reads may fail, and those of another layout are passed over.
A save afterwards leaves them alone unless a report has their name.
`RestartKeepsReports` compares memory before a restart with memory after it: the files
in between may be several for a session, of which any may be read first, but only one for
each arrival. `RenameReplaces` tells POSIX from
Windows. A crash and a stop are the same here, for nothing is saved at the stop.

### Timeline

`Press`, `Opens`, one `Visit` for each name the directory iterator comes to, and
`Finish` are the scan of `newest_json`; `Changes` is another program that writes or
removes a file meanwhile, of which the iterator may or may not come to a new one.
A file that is gone when its time is read sets the error code that the loop's
condition tests, and the scan ends. A file that is no log is only asked for its
type, which the iterator keeps or has to look up; both are allowed. The second
directory is scanned by the same code, so whether it has a log is a choice of
`Finish`. Both parsers and `correlate` work on documents of a few members, among
them ones that are no objects and ones without a time.

### FlightTab

Every action of the user is one frame and ends with what that frame does anyway:
all candidates in range without a score are queued (`Queues`), and a frame
without a click drops a row beyond the end of the table (`InTable`). The
results are an operator, not a variable, since the code computes them on every
frame before anything uses them. Airports in range come ranked (`Ranking`): the
distance is floating point and given. A loop that leaves entries out is said by
the places it keeps: the k-th entry of the result is the one at the `Nth` of them.
Who is a candidate under which filters, and
what an airport is estimated at, is computed from its facts by `Suggester`. The scorer appears as `Scored` and
`NotScored`, which is what `AirportScorer` does to a pending airport.

### BackendConfig

`cfg`, `file`, `keys` and `lm` are the settings in memory, `settings.json`, the
OS key store and the registered backend. A click of the panel starts an
operation, `op`, whose steps are taken one after the other as in the code:
"Save key" is delete (on macOS), add with the flag, open the file, write it,
reload. Each step may fail where the code has a branch for it or ignores the
result, and X-Plane may crash between any two. Opening the file empties it
(`Truncate`), so a crash before `Write` leaves a file that does not parse, and
the next start writes the defaults over it. A setter saves and the panel saves
again; the second write is the same and is left out. What failures do to the
flags is recorded by the histories `mishap`, `unsaved` and `unread`, and the
properties say what is promised without them. `Init` has the files of older
builds, which lack the members of providers they did not know.

### AptDat and AirportDb

`Row` is the body of the parser's loop for one line, by the kind of the line;
`Flush` the lambda that closes an airport; `Parse` takes one row after the other. On
the other side `AirportsOf` says what the file means without a parser's state:
the places between two headers are a section, whose last code and coordinates
count, or the first runway if there are none. `LoadedIsWhatFileSays` compares the
two. A coordinate is a number that tells rows apart, and a frequency its type.
Lines that the parser passes over are not rows, except coordinates and runways
that do not parse (value 0), because a flag must not be set by them.

`worker` of `AirportDb` is what the thread of `load_worker` has still to do:
parse into the local vector, publish under the mutex, raise the flag. The main
thread may be inside a frame that holds a reference to the airports, or inside
`stop()`, which waits for the thread.

## Runs

Bounds are the constants of the .cfg files; no guard in a module bounds anything
else, except that `Requests` and `Models` bound how many requests and
registrations there are and `MaxItems` how many entries a reply has.

| run | shows | bounds, and why they do |
|---|---|---|
| `LmManagerSafety` | inferences never overlap; no callback runs twice or gets forgotten; a stop that did not give up leaves no worker behind; the service refines `LmService` | three requests: one inside the model, one waiting for the lock, one re-entrant or refused; two models, so one is replaced; symmetry over requests. Proved for all constants below |
| `LmManagerLive` | `stop()` ends even if a call never returns; requests are answered | two requests, threads may fail, calls may never return |
| `LmManagerTeardown` | violated: see findings | |
| `AirportScorerCache` | no score outlives the data its signature covers, only asked airports change, a saved score is lost only after a load that could not take it, a current score costs no second call | two airports in batches of two, asked together or one behind the other; three sets of facts: a field, the same in another order, and the field without its tower; three releases, with another prompt and then another version of the file, so an entry goes stale by data or prompt and a file by its version; a file read wholly, in part or not at all; the score 12 is off the scale; replies of up to two entries, so one airport twice or both. Symmetry over airports |
| `TrainerFrames` | what the clients believe of their calls is so; `pending` is exact; an answer is lost in one way only; evaluations end, queued airports are answered | two airports in batches of one, so that a batch is sent from the callback of another; one flight; threads may fail. One set of facts and one prompt, as staleness is `AirportScorerCache`'s |
| `PostFlightReports` | "Done" shows the evaluated session, reports are lost to name clashes only, a restart has what the session before had | starts at 0 and 1 with two seconds to the minute: a clash of names; sessions of other minutes do not share files and are in the theorems only. Arrival known or not, so a session has two files; three releases, with another prompt and then another layout; any write, read or thread may fail |
| `TimelineNewest` | an undisturbed scan finds the newest of the files left alone; each transmission is in the prompt, at the first nearest point | three logs and another file, two times: equal age, an older and a newer one; up to two transmissions and three points within eight seconds, two seconds tolerance: ties before and behind, points out of reach |
| `PostFlightWindows` | violated: see findings | |
| `FlightTabSearch` | results only make room for nearer ones, a selection and its popup last, a plan is replaced only if confirmed and never partly, filters get the scores they wait for | three destinations, a strip that is too short and room for two: truncation; scores 3 and 4, on both sides of the edge of EASY, estimates 2 and 7; eight searches, each filter among them; one destination the FMS does not know, one departure apt.dat does not have |
| `FlightTabSelection` | violated: see findings | |
| `BackendConfigCrash` | the backend follows provider and key; a restart finds the settings; flags and keys agree; providers are kept apart | two providers, two keys and two models: another one for each of them; a mode edited by hand; every store may fail, macOS key store |
| `AirportDbLoad` | what is loaded is what the file says; frames are undisturbed; nothing outlives the stop; a load ends | every file of three rows of 16 kinds, and of five rows of six kinds: two airports with a row each that could leak, with a skipped header in between |

Every run explores all states there are within its constants.

Each property of a passing run has a mutant: a plausible slip in the code (a
lock not taken, an increment missing, a check dropped, a file written in place,
a filter that believes estimates), for which the same run reports that property.

## Fairness

* `LmManager.MainFairness`: the main thread goes on with what it has begun, and
  the flight loop runs on every frame. Strong fairness of `Drain`, because a
  reload of the backend interrupts it for the length of one step, within a
  frame. `WorkerFairness` (threads are scheduled, a call returns within
  `CURLOPT_TIMEOUT`, 30 s) is a hypothesis of `RequestsAnswered` only;
  `StopCompletes` holds without it.
* `Trainer.Fairness`: the flight loop is called on every frame while the plugin is
  enabled, and a call of the model returns within its time limit. A worker that
  waits for `g_lm_call_mtx` gets it some time if it is free again and again: this
  is strong fairness and more than `std::mutex` promises. With weak fairness
  `EvaluationEnds` fails, because a scorer whose batches fail sends the next one
  in the same frame or the next, and its worker may get the lock every time. Nothing is assumed
  of the answers.
* `AirportScorer` and `PostFlight` have no fairness of their own; their liveness is
  stated of the whole plugin, in `Trainer`.
* `FlightTab`: the tab is drawn, and the model scores a destination it is asked
  for infinitely often. The second is an assumption about the service. A
  destination it never rates stays hidden, by design.
* `AirportDb.FairSpec`: the loader thread is scheduled, a frame ends, and
  `stop()` goes on once the thread has ended. Nothing makes the user start a
  load or stop the plugin.
* `BackendConfig` has no liveness: an operation runs within one frame or is cut
  off by a crash. Nor has `Timeline`: a click is one call on the main thread.

## Proofs

Assumptions are those of the modules on their constants (`ConstantsAssumption` and
so on); each holds of whatever the program can be started with, and TLC evaluates it in
every run. No theorem has a hypothesis of its own but `RenameReplaces`, which `MemoryIsOnDisk` and
`RestartsKeep` have.

### LmManagerProofs

For any finite set of requests and any models, whether or not threads may fail or
calls outlast the cap:

    THEOREM Invariance   Spec => []IInv
    THEOREM TypeCorrect, Serialised, AtMostOneAnswer, NoAnswerForgotten, QuietTeardown
    THEOREM Refinement   Spec => Service!Spec

None of the properties is inductive alone. `AnsweredOnce` needs that a request
with a waiting callback has not been run, that no request is in the two queues
twice or in both, and that only answered requests are in them (`QueueInv`,
`FreshInv`); `StopQuiesces` needs that the counter is the number of workers
between their creation and their `fetch_sub` (`CountInv`), for which the lemmas
about cardinality are; `CallsSerialised` needs that the lock belongs to exactly
the worker inside its scope (`LockInv`). `IInv` is their conjunction. The proof has a lemma per action or group of actions
with one step per conjunct they can disturb. The refinement maps every step of
the manager to a step of the service or a stutter, using `IInv` for the cases
that must not occur (a callback run twice, a refused request reported as a
success).

### AirportScorerProofs

For any finite set of airports, any batch size and any replies:

    THEOREM PendingIsExact    Spec => []PendingExact
    THEOREM CallsOneAtATime   Spec => []OneCallAtATime
    THEOREM TypeCorrect       Spec => []TypeOK
    THEOREM SavedStay         Spec => SavedScoresSurvive
    THEOREM AskedOnly         Spec => OnlyAskedScored
    THEOREM AskedOnce         Spec => ScoredOnce
    THEOREM ScoresFit         Spec => []ScoreFitsAirport

The first two need each other (`QueueInv`): with a second call out, the callback of the
first would release airports the other one asked for. The lemmas are about
sequences: a queue without repetition cut into batch and rest (`Cut`), two
sequences one behind the other (`Joined`), and an enumeration of a finite set
(`Listing`, which needs that there are finitely many airports). The cache has an
invariant of its own (`CacheInv`): every score in memory or in a file is on the
scale, which `Clamp` sees to, and while the plugin runs memory has an entry for
whatever the file has one for, except those in `unread`: without it a save would drop
airports that the session did load. Where a
reply names an airport twice the last entry counts (`LastOfSome`, from the
well-foundedness of the indices).

`ScoresFit` rests on `LabelInv`, that every entry is under the signature of the data
its prompt had, and on what a signature tells: facility, elevation and number of
runways are in it, but the number of frequencies is only there as the length of a
sorted list. Two lists that are equal once sorted are equally long
(`SortedTellsLength`): for each value the places that have it in one list and in the
other are equally many, and the bijections between them make one of all places.

### PostFlightProofs

For any flights, releases and failures:

    THEOREM KeptInvariance   Spec => []KeptInv
    THEOREM TypeCorrect      Spec => []TypeOK
    THEOREM LostToNamesake   Spec => LostOnlyByClash
    THEOREM MemoryIsOnDisk   RenameReplaces => (Spec => []MemoryOnDisk)
    THEOREM RestartsKeep     RenameReplaces => (Spec => RestartKeepsReports)
    THEOREM DoneIsShown      Spec => []DoneShowsReport

`KeptInv` says that a report lies under its own key in memory and in the file of its
own name: without it a save could overwrite the file of a session on another route.
Of several reports that share a name the latest stays, so the proof needs that a
set of start times has a greatest (`GreatestOf`). The hypothesis of
`MemoryIsOnDisk` is what the property is about: where a rename does not replace a
file it is false (`PostFlightWindows`). `RestartsKeep` has the same hypothesis and rests on
the same invariant (`FileInv`): as long as no write failed, the file of a report in
memory has that report or one in memory of the same name, so whatever the next
session finds of the same session and arrival is the report itself. "Done" needs `SessionInv`: the callback that is out
belongs to `g_key` and there is only one of them, an idle plugin says nothing, and the
report under a key that is said to be done is of this release's rubric.

### TrainerProofs

The plugin put together implements its clients, and so has their theorems:

    THEOREM ImplementsScorer      Spec => Scorer!Spec
    THEOREM ImplementsEvaluator   Spec => Evaluator!Spec
    THEOREM PendingIsExact        Spec => []PendingExact
    THEOREM ScoresFit             Spec => []Scorer!ScoreFitsAirport
    THEOREM SavedStay             Spec => Scorer!SavedScoresSurvive
    THEOREM DoneIsShown           Spec => []Evaluator!DoneShowsReport
    THEOREM LostToNamesake        Spec => Evaluator!LostOnlyByClash
    THEOREM RestartsKeep          RenameReplaces => (Spec => Evaluator!RestartKeepsReports)
    THEOREM ClientsMatch          Spec => []ClientsMatchService
    THEOREM AnswerLost            Spec => LostOnlyBehindBatch

Its assumption is that of the two modules. The long lists of definitions
show that two instances of `AirportScorer` (and of `PostFlight`), the one `Trainer` is
built of and the one that has the theorems, have the same formulas.
`ClientsMatch` has an invariant about the service (`ServiceInv`): the workers and
answers of a client are as many as its calls that wait for one, the evaluator's
at most, and between two frames the local queue is empty, so that no old answer
is run again. Its lemmas count the answers of a client in a queue that one is
appended to or taken from (`NumberAppend`, `NumberTail`); that the scorer has one
call is `QueueInv` carried over by the refinement. The evaluator's answers are
"at most" its calls because one may be discarded; `AnswerLost` goes
through the same steps and finds that each keeps the evaluator's number, except the
exception out of a batch's callback with the answer behind it.

### TimelineProofs

For any directory with finitely many files, any writes and removals during the scan,
and any two logs:

    THEOREM ScanFindsNewest   Spec => NewestFound
    THEOREM NearestTold       Spec => []PositionsNearest

`ScanInv`: of the logs nobody touched since the button was pressed each is yet to be visited, or
is no newer than what was found. A finite directory has a listing (`AllListed`).
`nearest()` is a fold, and the operator of the library chooses a function that
satisfies an equation; that there is one is proved from below (`FoldExists`), by
an induction over a set of numbers (`Climb`), because the induction theorems of the
library take operators. Then `NearestIs` tells what the fold returns after any
number of points: the first of the nearest. The assumption says of a document what any JSON array
satisfies: its members are entries that are no objects, lack a time, or have one.

### FlightTabProofs

For any destinations, facts and rankings by distance, any limit on the results, and any searches:

    THEOREM TabInvariance    Spec => []TabInv
    THEOREM TypeCorrect      Spec => []TypeOK
    THEOREM ShownOnesStay    Spec => ShownStays
    THEOREM SelectionStays   Spec => SelectionLasts
    THEOREM PlanConfirmed    Spec => ReplacedOnlyIfConfirmed
    THEOREM LoadsWhole       Spec => LoadsAllOrNothing

`TabInv` adds to the types that the selected row is one of the table. Lemmas tell
what is at the k-th of some places (`Ranks`, `RankReached`, `NthPlace`) and what
becomes of the first `MaxResults` when places are added (`MorePlaces`): each entry moves
back or falls off the end, which is why a result that disappears has made room for nearer ones, and why the
results never get fewer without a search, so that a selection cannot fall off the end.

### BackendConfigProofs

For any providers, keys and models, and any failures and crashes:

    THEOREM PlanInvariance   Spec => []PlanInv
    THEOREM TypeCorrect      Spec => []TypeOK
    THEOREM OnlyThePanel     Spec => ProvidersApart
    THEOREM BackendFollows   Spec => []BackendFollowsChoice
    THEOREM FileIsMemory     Spec => []SettingsOnDisk
    THEOREM FlagsTellKeys    Spec => []FlagTellsKey

The properties speak of the time between two operations, so none is inductive.
`PlanInv` says what may be left to do of an operation, and in which phase; the other
three say for each point of an operation what holds there. `FollowsInv`: unless a
reload is still to come the backend is that of the provider chosen, with its key.
`FileInv`: unless a write is still to come the file is the settings, and a write that
failed is remembered as a mishap. `FlagInv`: while a key is replaced its own flag
waits for it, and a stopped plugin's flags are those in its file, for which the
third needs the second.

### AirportDbProofs

For any files:

    THEOREM NoThreadOutlivesStop   Spec => []QuietWhenStopped
    THEOREM FramesAreUndisturbed   Spec => FrameUndisturbed
    THEOREM LoadedAsWritten        Spec => []LoadedIsWhatFileSays
    THEOREM TypeCorrect            Spec => []TypeOK

The first two follow from the invariant that the thread is at one of its four points,
that the flag is up only when it has ended, and that a frame is only inside where the
flag is up (`Inv`). The other two need that the airports on their way are those of
the file (`DataInv`) and the correctness of the parser:

    LEMMA ParsedRight   GoodRows(rows) => Parse(rows) = AirportsOf(rows)

for files of any length, by an induction over the rows (`Climb`, `RowAfterRow`). `Taken`
is the loop invariant: before the first header there is nothing; after header h, if
it may be of an airport, the parser has the airports of the sections before it and, of
its own section, what the rows so far say (`Inside`); otherwise it is between two
airports. `RowTaken` is a row more, `FlushTaken` the end of a section, where what
was assembled is the airport of the section (`FlushInside`). What a row
adds is known by places: the last code or coordinate is the new one, the first
runway stays, and lists get one longer (`EndsNext`, `ValuesNext`). The assumption on
rows is that an ICAO row has a code and values are numbers.

### Only model-checked

Liveness under fairness (`StopCompletes`, `RequestsAnswered`, `PendingAnswered`,
`EvaluationEnds`, `RangeGetsScored`, `LoadEnds`), which is beyond the prover. And the
runs that expect a violation.

## Findings

Three runs show that the code does something else than what its comments say:

* `LmManagerTeardown`: the comment on `g_lm_call_mtx` says that it serialises the
  calls and the teardown path. `register_lm` and `stop` do not take it, so a
  model is destroyed while a worker is inside it.
* `PostFlightWindows`: the report cache promises an atomic write by rename. On
  Windows `std::rename` does not replace a file, so an evaluation repeated is
  never saved.
* `FlightTabSelection`: the chosen destination drives the FMS button, says the
  comment; the choice is a row number, and a score that arrives moves the rows.
  The code guards against shrinking results only, and those do not shrink
  (`ShownStays`).

Further deviations the models show or leave out, without a run of their own:

* `stop()` gives up after 5 s (`StopGivesUp`), after which a worker may use the
  queue, curl and unloaded code; and also without a timeout a thread is between
  its `fetch_sub` and its end (`CountDown`, `ThreadExits`) when `stop()` returns.
* If `std::thread` throws, `in_flight` stays set and no airport is scored any
  more (the hypothesis of `PendingAnswered` excludes it), or the evaluator stays
  "Running" with its button disabled.
* The evaluator also stays "Running" if its thread did start, its answer lies
  behind a batch's in the same frame, and the thread of the next batch cannot be
  started: the exception discards it. `Lost` is reachable in `TrainerFrames`, and
  `LostOnlyBehindBatch` says that this is the only way.
* Airports a reply left out, or whose call failed, are queued again on the next
  drawn frame, where `airport_scorer.cpp:219` says "on the next search": a backend
  that keeps failing is asked again and again, and each call has the lock that an
  evaluation waits for.
* `input_sig()` has the length of the longest runway where the prompt tells the
  model the length of each (`airport_scorer.cpp:88`);
  `docs/airport_difficulty_prompt.md:76` wants it to mirror the facts the prompt
  consumes. A shortened second runway keeps its old score. `ScoreFitsAirport`
  claims what the signature does cover.
* A reply that breaks off keeps the entries before the break, in memory until the
  next save; `docs/airport_difficulty_prompt.md:33` says that it is discarded.
* `newest_json()` ends its scan at a file that vanished before its time was read,
  and returns an older log than `discovery.hpp:25` promises. `NewestFound` is worded
  for it.
* Two sessions of one minute on one route share a report file, and a session
  evaluated again with another arrival leaves its first file behind, so that
  after a restart the older report may be the one that is read;
  `LostOnlyByClash` and `RestartKeepsReports` are worded for it.
* A score file of another version is discarded, as
  `docs/airport_score_cache.md:56` and `:80` say, and so is one that does not open or
  parse, be it for a moment: the session starts with no scores, and the next save
  overwrites the file. `SavedScoresSurvive` is worded for it.
* `prompt_version` of a report is stored and never compared, whatever
  `evaluator.hpp` says about a re-open; the score cache does compare its own.
* The provenance tag of a score is set when the plugin starts and not when the
  backend is reloaded (`main.cpp:119`, `airport_scorer.hpp:52`).
* `discovery.hpp` says that destinations must match when both are set;
  `same_flight` also refuses when only the ATC log has one.

* `settings.json` is truncated and written in place, where
  `docs/airport_score_cache.md:21` says that the score cache is written like it,
  atomically. After a crash in between the defaults replace the settings, while
  the keys stay in the key store with their flags unset (`mishap`).
* A key that replaces another is deleted before it is added, on macOS: if the
  addition fails neither is left, the flag stays set, and the backend goes on
  with the old key until the next reload (`AddFails`).
* Picking another model does not reload the backend (`PickModel`).
* `has_datum` is set by either coordinate, so an airport that gives one only has
  0 for the other instead of its runway's midpoint; `AirportOf` is worded for it.

## Not modelled

* Geometry and distances (`airports/geo.cpp`): floating point. Where distances matter they
  are given, as in `Ranking`.
* The texts of prompts and reports, JSON syntax, HTTP. So `body.dump()` throwing on
  text that is not UTF-8, in a detached thread, has no property, nor has a cache
  file edited by hand whose members have another type. Files of both caches that do not open or
  parse, or are of another version, are modelled; a directory that fails in the middle of its listing is not.
* A thread that has counted itself down and still runs code of the plugin
  (`manager.cpp:67`): the states are in `LmManager`, but no property would tell a
  good from a bad one, as this holds of every detached thread.
* Drawing, the window, menus and commands, clipboard, logging: SDK calls that keep
  no state the components read. Of `ui/trainer_ui.cpp` about two thirds are drawing.
* The probe of the producer plugins, a look-up without state, and
  `nearest_ga_airport()`, which nothing calls.
* Names, elevations and geometry of runways in `AptDat`; the members of
  `settings.json` that are only displayed or paths, which are one save.

## Plan

Done, in this order: the service and its proofs, since everything asynchronous
rests on it; scorer and score cache; evaluator and reports; Flight tab; settings
and keys; airport database and parser; the logs; the composition of the clients
on the service, with its refinement; the proofs of all safety and action properties,
the parser's correctness last.

Next:

1. The reload of `BackendConfig` as the `Configure` of `Trainer`, so that what a
   request is answered with can be traced to the key panel; and `Timeline`'s newest
   logs in place of the any two of `PostFlight.Evaluate`.
2. `Trainer` on `LmService` instead of its own queue of answers, so that the theorem
   `LmManagerProofs!Refinement` reaches the clients.
