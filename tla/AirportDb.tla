------------------------------- MODULE AirportDb -------------------------------
(***************************************************************************)
(* airports/airport_db.cpp: apt.dat is parsed on a thread of its own while *)
(* the main thread asks on every frame whether the airports are there, and *)
(* uses them by reference if they are, without the mutex.                  *)
(***************************************************************************)
EXTENDS AptDat

CONSTANTS Contents   \* the rows of each apt.dat there may be

\* An ICAO row without a code is passed over.
IsRow(row) == /\ row.kind \in Kinds
              /\ row.kind = "icao" => row.id # NoCode
              /\ row.kind \in {"lat", "lon", "runway"} => row.value \in Nat

ASSUME ContentsAssumption ==
  \A rows \in Contents : rows \in Seq(Range(rows)) /\ \A i \in DOMAIN rows : IsRow(rows[i])

VARIABLES
  file,      \* apt.dat
  worker,    \* what the loader thread has still to do, in order
  parsed,    \* its local vector
  airports,  \* g_airports
  ready,     \* g_ready
  started,   \* g_started
  main       \* the main thread: "idle", in a frame that uses the airports, or in stop()

vars == <<file, worker, parsed, airports, ready, started, main>>

\* apt.dat may be missing; otherwise it is its rows.
Missing == [opens |-> FALSE, rows |-> <<>>]
Holding(rows) == [opens |-> TRUE, rows |-> rows]

Airport == [icao : Accepted, runways : Seq(Nat), lat : Nat, lon : Nat,
            facility : {"UNKNOWN", "UNCONTROLLED", "TOWERED", "AFIS"}]

TypeOK ==
  /\ file.opens \in BOOLEAN /\ \A i \in DOMAIN file.rows : file.rows[i].kind \in Kinds
  /\ worker \in Seq({"parse", "publish", "flag"})
  /\ parsed \in Seq(Airport) /\ airports \in Seq(Airport)
  /\ ready \in BOOLEAN /\ started \in BOOLEAN
  /\ main \in {"idle", "frame", "stop"}

Init == /\ file = Missing /\ worker = <<>> /\ parsed = <<>> /\ airports = <<>>
        /\ ready = FALSE /\ started = FALSE /\ main = "idle"

\* load_worker(): the flag follows the airports.  Mutation: it precedes them.
FlagFirst == <<"parse", "flag", "publish">>
LoadWorker == <<"parse", "publish", "flag">>

\* start_load(), which does nothing when a load was started before.
StartLoad ==
  /\ main = "idle" /\ ~started /\ started' = TRUE
  /\ file' = Missing \/ \E rows \in Contents : file' = Holding(rows)
  /\ worker' = LoadWorker
  /\ UNCHANGED <<parsed, airports, ready, main>>

At(step) == worker # <<>> /\ Head(worker) = step /\ worker' = Tail(worker)

\* Mutation: the thread returns when the file does not open.
ReturnsEarly ==
  /\ worker # <<>> /\ Head(worker) = "parse"
  /\ worker' = IF file.opens THEN Tail(worker) ELSE <<>>
  /\ parsed' = IF file.opens THEN Parse(file.rows) ELSE <<>>
  /\ UNCHANGED <<file, airports, ready, started, main>>

ParseFile ==
  /\ At("parse")
  /\ parsed' = IF file.opens THEN Parse(file.rows) ELSE <<>>
  /\ UNCHANGED <<file, airports, ready, started, main>>

Publish ==
  /\ At("publish")
  /\ airports' = parsed /\ parsed' = <<>>
  /\ UNCHANGED <<file, ready, started, main>>

SetReady ==
  /\ At("flag")
  /\ ready' = TRUE
  /\ UNCHANGED <<file, parsed, airports, started, main>>

Worker == ParseFile \/ Publish \/ SetReady

\* A frame of the Flight tab: ready() is asked once, and airports() is used by
\* reference to the end of the frame.
FrameBegins ==
  /\ main = "idle" /\ ready /\ main' = "frame"
  /\ UNCHANGED <<file, worker, parsed, airports, ready, started>>

FrameEnds ==
  /\ main = "frame" /\ main' = "idle"
  /\ UNCHANGED <<file, worker, parsed, airports, ready, started>>

\* XPluginStop, after an XPluginStart that began a load.
StopBegins ==
  /\ main = "idle" /\ started /\ main' = "stop"
  /\ UNCHANGED <<file, worker, parsed, airports, ready, started>>

\* g_worker.join().  Mutation: the thread is not joined.
NotJoined == TRUE
Joined == worker = <<>>

Stops ==
  /\ main = "stop" /\ Joined /\ main' = "idle"
  /\ airports' = <<>> /\ ready' = FALSE /\ started' = FALSE
  /\ file' = Missing
  /\ UNCHANGED <<worker, parsed>>

Next == \/ StartLoad \/ Worker \/ FrameBegins \/ FrameEnds \/ StopBegins \/ Stops

Spec == Init /\ [][Next]_vars

\* The loader thread runs, and a frame and stop() end.
FairSpec == Spec /\ WF_vars(Worker) /\ WF_vars(FrameEnds) /\ WF_vars(Stops)

-----------------------------------------------------------------------------
(* Properties                                                              *)

\* "Readers only touch the vector once ready() is true, so the reference is
\* stable": nothing moves the airports under a frame that uses them.
FrameUndisturbed == [][main = "frame" => UNCHANGED airports]_vars

\* Once ready, the airports are those the file has, each with the code,
\* position, runways and facility of its own section.
LoadedIsWhatFileSays ==
  ready /\ main # "stop" => airports = IF file.opens THEN AirportsOf(file.rows) ELSE <<>>

\* "No worker outlives XPluginStop": before a load and after a stop there is no
\* thread that would publish anything, and nothing published.
QuietWhenStopped == ~started => worker = <<>> /\ airports = <<>> /\ ~ready

\* "load finished (success or failure)": a load that was started becomes ready,
\* whatever the file, or is stopped.
LoadEnds == started ~> ready \/ ~started
=============================================================================
