------------------------------ MODULE PostFlight ------------------------------
(***************************************************************************)
(* postflight/evaluator.cpp on top of postflight/report_cache.cpp: the     *)
(* user has the flight described by the newest ATC log and flight log      *)
(* evaluated, one evaluation at a time; the report that comes back is kept *)
(* in memory under the session's key and in a file of its own, which is    *)
(* named after the minute and the route and outlives the process.          *)
(*                                                                         *)
(* All of it runs on the main thread.  A reply is awaited by a callback    *)
(* that captured its session; how it comes about, or gets lost, is         *)
(* Trainer's and LmManager's business.                                     *)
(***************************************************************************)
EXTENDS FlightLogs, FiniteSets

CONSTANTS Airports,
          Epochs,            \* start times of the flights, in seconds
          SecondsPerMinute,  \* 60
          Tolerance,         \* tolerance_s of same_flight()
          Builds,            \* the releases installed over time
          SpawnMayFail,      \* the thread of a call may fail to start
          ReadsMayFail,      \* the directory or a file may be found unreadable
          WritesMayFail,     \* opening, writing or renaming a file may fail
          RenameReplaces     \* std::rename() replaces a file: not on Windows

\* prompt is kPromptVersion of a release, layout its kFileVersion.
ASSUME PostFlightAssumption ==
  /\ NoAirport \notin Airports
  /\ Epochs \subseteq Nat
  /\ SecondsPerMinute \in Nat \ {0}
  /\ Tolerance \in Nat
  /\ Builds \subseteq [prompt : Nat, layout : Nat]
  /\ SpawnMayFail \in BOOLEAN
  /\ ReadsMayFail \in BOOLEAN /\ WritesMayFail \in BOOLEAN
  /\ RenameReplaces \in BOOLEAN

VARIABLES
  status,   \* g_status
  lastKey,  \* g_key
  calls,    \* evaluations dispatched and not answered
  store,    \* the report of each session in memory, or NoReport
  disk,     \* the report files: what each name holds, or NoFile
  build,    \* the release that runs
  running,  \* between XPluginStart and XPluginStop
  failed    \* history: a write failed since the reports were loaded

vars == <<status, lastKey, calls, store, disk, build, running, failed>>

\* make_key(): departure and start time.
Key == [dep : Airports, epoch : Epochs]
NoKey == [dep |-> NoAirport, epoch |-> 0]

\* A report: a session flown to arr, in words that only its rubric matters of.
Report == [key : Key, arr : Airports \cup {NoAirport}, prompt : Nat]
NoReport == [arr |-> NoAirport]

File == [report : Report, layout : Nat]
NoFile == [layout |-> 0]

Status == {"Idle", "Running", "Done", "Error"}
Call == [key : Key, arr : Airports \cup {NoAirport}, phase : {"asked", "never"}]

-----------------------------------------------------------------------------
(* Keys and file names.                                                    *)

\* date_hhmm_utc()
Minute(epoch) == epoch \div SecondsPerMinute

\* report_filename()
FileName(r) == [minute |-> Minute(r.key.epoch), dep |-> r.key.dep, arr |-> r.arr]
FileNames == [minute : {Minute(e) : e \in Epochs}, dep : Airports,
              arr : Airports \cup {NoAirport}]

TypeOK ==
  /\ status \in Status
  /\ lastKey \in Key \cup {NoKey}
  /\ calls \subseteq Call
  /\ store \in [Key -> Report \cup {NoReport}]
  /\ disk \in [FileNames -> File \cup {NoFile}]
  /\ build \in Builds
  /\ running \in BOOLEAN
  /\ failed \in BOOLEAN

Init ==
  /\ status = "Idle" /\ lastKey = NoKey /\ calls = {}
  /\ store = [k \in Key |-> NoReport]
  /\ disk = [n \in FileNames |-> NoFile]
  /\ build \in Builds
  /\ running = FALSE
  /\ failed = FALSE

-----------------------------------------------------------------------------
(* The report cache.                                                       *)

\* load(): the directory is read in any order, and of several files of a session
\* the first is kept.  Files that cannot be opened or parsed are skipped, and those
\* of another layout.
Loads(readable) ==
  LET of(k) == {f \in readable : /\ disk[f] # NoFile
                                 /\ disk[f].layout = build'.layout
                                 /\ disk[f].report.key = k}
      found == {k \in Key : of(k) # {}}
  IN \E first \in [found -> FileNames] :
       /\ \A k \in found : first[k] \in of(k)
       /\ store' = [k \in Key |-> IF k \in found THEN disk[first[k]].report ELSE NoReport]

\* A file that could not be written: a temporary file is renamed over its
\* target, which keeps the old report.  Mutation: the target is truncated first.
Truncated(f) == NoFile
\* Mutation: the target is written in place and left half written.
HalfWritten(f) == [layout |-> build.layout]
Unwritten(f) == disk[f]

\* save() of the reports s in the order of their keys: all of them are written,
\* or those in W where writes may fail.  Of several with the same name the last
\* stays, the first where a file is not replaced.  Mutation: a report that has a
\* file is taken for saved.
SavedIfNew(s, W) ==
  [f \in FileNames |->
     LET named == {k \in W : s[k] # NoReport /\ FileName(s[k]) = f}
     IN IF disk[f] # NoFile \/ named = {} THEN disk[f]
        ELSE [report |-> s[CHOOSE k \in named : \A j \in named : j.epoch <= k.epoch],
              layout |-> build.layout]]
Saved(s, W) ==
  [f \in FileNames |->
     LET named == {k \in Key : s[k] # NoReport /\ FileName(s[k]) = f}
         written == IF RenameReplaces \/ disk[f] = NoFile THEN named \cap W ELSE {}
         Stays(k) == \A j \in written : IF RenameReplaces THEN j.epoch <= k.epoch
                                        ELSE k.epoch <= j.epoch
     IN IF named = {} THEN disk[f]
        ELSE IF written = {} THEN Unwritten(f)
        ELSE [report |-> s[CHOOSE k \in written : Stays(k)], layout |-> build.layout]]

\* latest(): a report of the latest start.
Latest(k) == /\ store[k] # NoReport
             /\ \A j \in Key : store[j] # NoReport => j.epoch <= k.epoch

-----------------------------------------------------------------------------
(* The evaluator and the Post-Flight tab.                                  *)

AtcLog == [dep : Airports, dest : Airports \cup {NoAirport}, started : Epochs]
FlightLog == [dep : Airports, arr : Airports \cup {NoAirport}, start : Epochs]

\* The guard of evaluate_async() and the disabled button.  Mutation: no guard.
AlwaysFree == TRUE
Free == status # "Running"

\* evaluate_async() finds a backend ready or not.  The status is Running before
\* the dispatch, and stays so when the thread cannot be created: the tab only
\* shows the exception.
EvaluateAsync(atc, flight) ==
  /\ Free
  /\ lastKey' = [dep |-> atc.dep, epoch |-> atc.started]
  /\ \/ status' = "Error" /\ UNCHANGED calls
     \/ /\ status' = "Running"
        /\ \E phase \in {"asked"} \cup IF SpawnMayFail THEN {"never"} ELSE {} :
             calls' = calls \cup {[key |-> lastKey', arr |-> flight.arr, phase |-> phase]}

\* The button is pressed with some logs being the newest.
Evaluate(atc, flight) ==
  /\ running /\ SameFlight(atc, flight, Tolerance)
  /\ EvaluateAsync(atc, flight)
  /\ UNCHANGED <<store, disk, build, running, failed>>

\* The callback with a reply that parses: the report is stored and all are
\* saved, whether or not that works.
Succeeds(c) ==
  LET report == [key |-> c.key, arr |-> c.arr, prompt |-> build.prompt]
  IN /\ store' = [store EXCEPT ![c.key] = report]
     /\ \E W \in IF WritesMayFail THEN SUBSET Key ELSE {Key} :
          /\ disk' = Saved(store', W)
          /\ failed' = (failed \/ W # Key)
     /\ status' = "Done"

\* The request failed, or its reply does not parse.  Mutation: g_status is left.
FailsSilently == UNCHANGED <<status, store, disk, failed>>
Fails == status' = "Error" /\ UNCHANGED <<store, disk, failed>>

Callback(c) ==
  /\ running /\ c.phase = "asked"
  /\ calls' = calls \ {c}
  /\ Succeeds(c) \/ Fails
  /\ UNCHANGED <<lastKey, build, running>>

\* What the tab shows: the session just evaluated, or else the latest.
Shows(k) ==
  IF lastKey \in Key /\ store[lastKey] # NoReport THEN k = lastKey ELSE Latest(k)

-----------------------------------------------------------------------------
(* The plugin around it.                                                   *)

\* XPluginStop, with evaluator::stop(), or a crash: reports are saved when they
\* are stored.
PluginStops ==
  /\ running /\ running' = FALSE
  /\ status' = "Idle" /\ lastKey' = NoKey /\ calls' = {}
  /\ UNCHANGED <<store, disk, build, failed>>

\* XPluginStart, of any release.
StartsReading(readable) ==
  /\ ~running /\ running' = TRUE /\ failed' = FALSE
  /\ build' \in Builds
  /\ Loads(readable)
  /\ UNCHANGED <<status, lastKey, calls, disk>>

PluginStarts ==
  \E readable \in IF ReadsMayFail THEN SUBSET FileNames ELSE {FileNames} :
    StartsReading(readable)

Next == \/ \E atc \in AtcLog, flight \in FlightLog : Evaluate(atc, flight)
        \/ \E c \in calls : Callback(c)
        \/ PluginStops \/ PluginStarts

Spec == Init /\ [][Next]_vars

-----------------------------------------------------------------------------
(* Properties                                                              *)

\* One evaluation at a time: Running says that there is one, whatever happens to
\* its call, the backend or the plugin.
OneEvaluation == /\ status = "Running" <=> calls # {}
                 /\ \A c, d \in calls : c = d

\* Done is said of the session under g_key: the tab shows its report, and one
\* of the rubric that runs, not of an earlier evaluation or release.
DoneShowsReport ==
  status = "Done" => \A k \in Key : Shows(k) => /\ k = lastKey
                                                /\ store[k].prompt = build.prompt

OnDisk(k) == \E f \in FileNames : disk[f] # NoFile /\ disk[f].report.key = k

\* A session that has a report file keeps one through failed writes, restarts,
\* crashes and other releases, unless another session takes the file's name.
LostOnlyByClash ==
  [][\A k \in Key : OnDisk(k) /\ ~OnDisk(k)' =>
       \E j \in Key \ {k} : /\ j.dep = k.dep
                            /\ Minute(j.epoch) = Minute(k.epoch)
                            /\ store'[j] # NoReport]_vars

\* As long as no write fails, the file named after a report in memory holds that
\* report, or one that is in memory, too, and took its name.
MemoryOnDisk ==
  running /\ ~failed => \A k \in Key : store[k] # NoReport =>
    LET file == disk[FileName(store[k])]
    IN file # NoFile /\ store[file.report.key] = file.report

\* The memory of the last session and that of the next, across a stop or a crash: if
\* no write failed in the one, and the other reads all files and their layout, every
\* session has its report again, unless another one took the name of its file.  A
\* replaced report comes back only if it had another arrival, hence a file of its
\* own that is read first; one of the same arrival never does.
RestartKeepsReports ==
  [][StartsReading(FileNames) /\ ~failed /\ build'.layout = build.layout =>
       \A k \in Key : store[k] # NoReport =>
         /\ store'[k] = NoReport =>
              \E j \in Key \ {k} : /\ store[j] # NoReport
                                   /\ FileName(store[j]) = FileName(store[k])
         /\ store'[k] # NoReport /\ store'[k].arr = store[k].arr => store'[k] = store[k]]_vars
=============================================================================
