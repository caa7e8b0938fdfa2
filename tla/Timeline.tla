------------------------------- MODULE Timeline -------------------------------
(***************************************************************************)
(* "Evaluate last flight" up to the question put to the model: the newest  *)
(* ATC log is looked for in a directory that its producer, or whoever      *)
(* cleans up, may be writing to, it and the newest flight log are read,    *)
(* and the radio calls are joined with the track.                          *)
(*                                                                         *)
(* The scan of newest_json() in postflight/discovery.cpp is taken step by  *)
(* step; the flight log's directory is scanned in the same way, so that    *)
(* what comes of it is an input, like the contents of the files.           *)
(***************************************************************************)
EXTENDS FlightLogs, FiniteSets

CONSTANTS Files,            \* names of files in the ATC plugin's directory
          JsonFiles,        \* those that end in .json
          Times,            \* times of modification
          AtcVersion,       \* kAtcLogVersion
          FlightTolerance,  \* tolerance_s of same_flight()
          TrackTolerance,   \* kCorrelationToleranceS
          Junk, Missing,    \* array members: not an object, without its time
          Broken,           \* a file that cannot be opened or parsed
          AtcDocs, FlightDocs  \* what files may hold, Broken among them

ASSUME TimelineAssumption ==
  /\ IsFiniteSet(Files) /\ JsonFiles \subseteq Files
  /\ Times \subseteq Nat \ {0} /\ Times # {}
  /\ FlightTolerance \in Nat /\ TrackTolerance \in Nat
  /\ Broken \in AtcDocs \cap FlightDocs
  /\ \A doc \in AtcDocs \ {Broken} : doc.transmissions \in Seq({Junk, Missing} \cup Int)
  /\ \A doc \in FlightDocs \ {Broken} : doc.track \in Seq({Junk, Missing} \cup Int)

VARIABLES
  phase,     \* of the click: "idle", "pressed", "scanning" or "found"
  dir,       \* the time of each file, or Gone
  listing,   \* names the iterator has yet to come to
  ec,        \* the error_code is set
  best,      \* the time of the file found so far, as a set
  touched,   \* history: names written or removed since the scan began
  outcome    \* what the button led to: nothing yet, no log, an error, a mismatch or
             \* an evaluation, with the documents and the prompt

vars == <<phase, dir, listing, ec, best, touched, outcome>>

Gone == 0
Entry == Times \cup {Gone}

Dir == [Files -> Entry]
Present == {n \in Files : dir[n] # Gone}

Init ==
  /\ phase = "idle" /\ ec = FALSE
  /\ dir = [n \in Files |-> Gone]
  /\ listing = <<>> /\ best = {} /\ touched = {}
  /\ outcome = [shows |-> "nothing"]

-----------------------------------------------------------------------------
(* newest_json()                                                           *)

\* The button is pressed; what the last click showed is gone.
Press ==
  /\ phase = "idle" /\ phase' = "pressed"
  /\ outcome' = [shows |-> "nothing"]
  /\ UNCHANGED <<dir, listing, ec, best, touched>>

\* The directory is opened, with anything in it by now.  The iterator comes to
\* the names in any order.
Opens ==
  /\ phase = "pressed" /\ phase' = "scanning"
  /\ dir' \in Dir
  /\ listing' \in SetToSeqs(Present')
  /\ UNCHANGED <<ec, best, touched, outcome>>

\* Mutation: the first file stays.
IsFirst(time) == best = {}
IsNewer(time) == \A found \in best : time > found

\* The next name.  An error of the one before ends the scan.  Of a file that is gone
\* by now there is no time, which sets the error; if it is not a log, only where
\* the iterator has not kept its type.
Visit ==
  /\ phase = "scanning" /\ listing # <<>> /\ ~ec
  /\ listing' = Tail(listing)
  /\ LET n == Head(listing)
     IN /\ best' = IF n \in JsonFiles /\ dir[n] # Gone /\ IsNewer(dir[n])
                   THEN {dir[n]} ELSE best
        /\ ec' \in IF dir[n] # Gone THEN {FALSE}
                   ELSE IF n \in JsonFiles THEN {TRUE} ELSE BOOLEAN
  /\ UNCHANGED <<phase, dir, touched, outcome>>

\* Meanwhile a file is written or removed; the iterator may come to a new one.
Changes(n) ==
  /\ phase = "scanning"
  /\ \E time \in Entry \ {dir[n]} : dir' = [dir EXCEPT ![n] = time]
  /\ touched' = touched \cup {n}
  /\ listing' \in IF dir[n] = Gone /\ n \notin Range(listing)
                  THEN {listing, Append(listing, n)} ELSE {listing}
  /\ UNCHANGED <<phase, ec, best, outcome>>

-----------------------------------------------------------------------------
(* The logs                                                                *)

\* parse_atc_log(): members that are no objects are passed over, one without a
\* time, or a document of another version, is an error.
AtcReadable(doc) == /\ doc # Broken
                    /\ doc.version = AtcVersion
                    /\ doc.started # Missing
                    /\ Missing \notin Range(doc.transmissions)

Objects(s) == FoldLeft(LAMBDA found, m : IF m = Junk THEN found ELSE Append(found, m), <<>>, s)

ParseAtcLog(doc) == [dep |-> doc.dep, dest |-> doc.dest, started |-> doc.started,
                     transmissions |-> Objects(doc.transmissions)]

\* parse_flight_log(): whatever is missing has a default.
Timed(s) == [k \in DOMAIN s |-> IF s[k] = Missing THEN 0 ELSE s[k]]

ParseFlightLog(doc) == [dep |-> doc.dep, arr |-> doc.arr, start |-> doc.start,
                        track |-> Timed(Objects(doc.track))]

\* The timeline of build_prompt(): a line for each transmission, with the position
\* if there is one.  Mutation: only those with a position.
BuildPlaced(timeline) == SelectSeq(timeline, LAMBDA line : line.position # <<>>)
BuildPrompt(timeline) == timeline

\* Both logs are read, compared and sent to the evaluator.
Evaluates(doc, flightDoc) ==
  IF ~AtcReadable(doc) \/ flightDoc = Broken THEN [shows |-> "error"]
  ELSE LET atc == ParseAtcLog(doc)
           flight == ParseFlightLog(flightDoc)
       IN IF ~SameFlight(atc, flight, FlightTolerance) THEN [shows |-> "mismatch"]
          ELSE [shows |-> "evaluation", doc |-> doc, flightDoc |-> flightDoc,
                prompt |-> BuildPrompt(Correlate(atc, flight, TrackTolerance))]

\* Both scans end, at the last name or after an error: without a file in one of
\* the directories the click ends here.
Finish ==
  /\ phase = "scanning"
  /\ listing = <<>> \/ ec
  /\ \/ best # {} /\ phase' = "found" /\ UNCHANGED outcome
     \/ phase' = "idle" /\ outcome' = [shows |-> "no log"]
  /\ dir' = [n \in Files |-> Gone]
  /\ listing' = <<>> /\ ec' = FALSE /\ best' = {} /\ touched' = {}

\* The two logs are read.
Reads ==
  /\ phase = "found" /\ phase' = "idle"
  /\ \E doc \in AtcDocs, flightDoc \in FlightDocs : outcome' = Evaluates(doc, flightDoc)
  /\ UNCHANGED <<dir, listing, ec, best, touched>>

Next == Press \/ Opens \/ Visit \/ Finish \/ Reads \/ \E n \in Files : Changes(n)

Spec == Init /\ [][Next]_vars

-----------------------------------------------------------------------------
(* Properties                                                              *)

\* "The most recently modified file in dir": unless the scan was cut short before
\* its last name, nothing that was left alone meanwhile is newer than the file it
\* finds, whatever else is written or removed.
NewestFound ==
  [][phase = "scanning" /\ phase' # "scanning" /\ ~(ec /\ listing # <<>>) =>
       \A n \in (Present \cap JsonFiles) \ touched :
         \E found \in best : dir[n] <= found]_vars

\* The model is told of every transmission of the log in its order, and of each
\* where the aircraft was at the nearest point of the track, the first of these in
\* the file, unless that is too far away in time.
PositionsNearest ==
  outcome.shows = "evaluation" =>
    LET said == Objects(outcome.doc.transmissions)
        track == ParseFlightLog(outcome.flightDoc).track
        Near(ts) == {j \in DOMAIN track :
                       /\ Distance(track[j], ts) <= TrackTolerance
                       /\ \A i \in DOMAIN track : Distance(track[j], ts) <= Distance(track[i], ts)}
    IN /\ Len(outcome.prompt) = Len(said)
       /\ \A k \in DOMAIN said :
            LET line == outcome.prompt[k]
            IN /\ line.ts = said[k]
               /\ line.position = IF Near(said[k]) = {} THEN <<>>
                                  ELSE <<track[Min(Near(said[k]))]>>
=============================================================================
