------------------------------- MODULE FlightTab -------------------------------
(***************************************************************************)
(* The Flight tab of ui/trainer_ui.cpp with preflight/flight_suggester.cpp *)
(* and fms/fms_writer.cpp: the user searches for destinations, chooses a   *)
(* row of the results and loads the route into the flight plan, while the  *)
(* scores that a difficulty filter waits for arrive in the background.     *)
(*                                                                         *)
(* The results are computed on every frame from the criteria of the last   *)
(* search and the scores there are; an action of the user is one frame.    *)
(* How airports are scored is AirportScorer's business.                    *)
(***************************************************************************)
EXTENDS Suggester, FiniteSets

CONSTANTS Facts,       \* apt.dat: what it says of each airport
          Ranking,     \* per departure the airports of apt.dat, nearest first and
                       \* by code at one distance, as [icao, km]
          NoAirport,
          Nav,         \* the airports of X-Plane's navigation data
          Scores,      \* the scores a model may give
          Queries,     \* what the user may enter
          MaxResults,  \* max_results of suggest_flights()
          PilotPlans   \* the flight plans the pilot may enter himself

Departures == DOMAIN Ranking
Database == DOMAIN Facts
Destinations == {a \in Database : GaSuitable(Facts[a])}
Query == [facility : {"ANY", "TOWER", "AFIS"},
          ground : {"ANY", "WITH_GROUND", "TOWER_ONLY"},
          difficulty : {"ANY", "EASY", "MEDIUM", "HARD"}, distance : Nat]

ASSUME FlightTabAssumption ==
  /\ Facts \in [Database -> AirportFacts]
  /\ NoAirport \notin Departures \cup Database
  /\ \A d \in Departures :
       /\ Ranking[d] \in Seq([icao : Database, km : Nat])
       /\ \A i \in DOMAIN Ranking[d] : \A j \in 1..(i - 1) :
            /\ Ranking[d][j].km <= Ranking[d][i].km
            /\ Ranking[d][j].icao # Ranking[d][i].icao
  /\ Scores \subseteq 1..10
  /\ Queries \subseteq Query /\ Queries # {}
  /\ MaxResults \in Nat \ {0}
  /\ <<>> \in PilotPlans

Unscored == 0

VARIABLES
  here,      \* the airport the aircraft is at, as last resolved, or NoAirport
  searched,  \* searched_criteria and searched_dep_icao
  selected,  \* selected_row counted from 1, or 0 for none
  modal,     \* the popup "Replace flight plan?" is open
  result,    \* last_result
  plan,      \* the pilot's primary flight plan in the FMS
  score,     \* the cached score of each destination, or Unscored
  pending    \* destinations queued for scoring or being scored

vars == <<here, searched, selected, modal, result, plan, score, pending>>
tab == <<here, searched, selected, modal, result>>

\* No departure before the first search, or with the position unavailable.
NoSearch == [dep |-> NoAirport, query |-> CHOOSE q \in Queries : TRUE]
Criteria == [dep : Departures \cup {NoAirport}, query : Queries]
Routes == {<<d, a>> : d \in Departures, a \in Destinations}

TypeOK ==
  /\ here \in Departures \cup {NoAirport}
  /\ searched \in Criteria
  /\ selected \in 0..MaxResults
  /\ modal \in BOOLEAN
  /\ result \in {"none", "loaded", "failed"}
  /\ plan \in PilotPlans \cup Routes
  /\ score \in [Destinations -> Scores \cup {Unscored}]
  /\ pending \subseteq {a \in Destinations : score[a] = Unscored}

\* Scores of earlier sessions may be cached.
Init ==
  /\ here \in Departures \cup {NoAirport}
  /\ searched = NoSearch
  /\ selected = 0 /\ modal = FALSE /\ result = "none"
  /\ plan \in PilotPlans
  /\ score \in [Destinations -> Scores \cup {Unscored}]
  /\ pending = {}

-----------------------------------------------------------------------------
(* The suggester.                                                          *)

\* The estimates, which never change.
Estimate == [a \in Destinations |-> ProvisionalDifficulty(Facts[a])]

\* score_of()
ScoreOf(a) == IF score[a] = Unscored
              THEN [value |-> Estimate[a], source |-> "PROVISIONAL_RULE"]
              ELSE [value |-> score[a], source |-> "LLM_SCORE"]

\* Under a filter only a score of the model counts.  Mutation: any score does.
AnySource(s) == TRUE
Trusted(s) == s.source = "LLM_SCORE"

Matches(a) ==
  \/ searched.query.difficulty = "ANY"
  \/ Trusted(ScoreOf(a)) /\ Bucket(ScoreOf(a).value) = searched.query.difficulty

\* A loop that leaves entries out: the k-th of those at the places it keeps.
Nth(places, k) == CHOOSE i \in places : Cardinality({j \in places : j <= i}) = k

\* candidates_in_range(), in the order of the results.
CandidatesFor ==
  [dep \in Departures |->
     LET list == Ranking[dep]
     IN [query \in Queries |->
           LET near == {i \in DOMAIN list : InRange(Facts[list[i].icao], list[i].km, query)}
           IN [k \in 1..Cardinality(near) |-> list[Nth(near, k)].icao]]]

Candidates == IF searched.dep = NoAirport THEN <<>>
              ELSE CandidatesFor[searched.dep][searched.query]

\* suggest_flights()
Results ==
  LET passing == {i \in DOMAIN Candidates : Matches(Candidates[i])}
      found == Cardinality(passing)
  IN [k \in 1..(IF found > MaxResults THEN MaxResults ELSE found) |->
        Candidates[Nth(passing, k)]]

-----------------------------------------------------------------------------
(* Frames of the tab.                                                      *)

\* Every frame queues all destinations in range that have no score, not only
\* those shown.  Mutation: the ones shown.
QueuesShown == pending' = pending \cup {a \in Range(Results)' : score[a] = Unscored}
\* Mutation: scored ones too.
QueuesAll == pending' = pending \cup Range(Candidates)'
Queues == pending' = pending \cup {a \in Range(Candidates)' : score[a] = Unscored}

\* A row beyond the end is dropped; with no results the frame ends before that.
InTable == IF Results # <<>> /\ selected > Len(Results) THEN 0 ELSE selected

\* A frame without a click.
Draw == /\ selected' = InTable
        /\ UNCHANGED <<here, searched, modal, result, plan, score>>
        /\ Queues

\* "Suggest flights".  A popup that is open blocks the rest of the tab.
Search(query) ==
  /\ ~modal
  /\ searched' = [dep |-> here, query |-> query]
  /\ selected' = 0 /\ result' = "none"
  /\ UNCHANGED <<here, modal, plan, score>>
  /\ Queues

Searches == \E query \in Queries : Search(query)

Click(row) ==
  /\ ~modal /\ row \in 1..Len(Results)
  /\ selected' = row
  /\ UNCHANGED <<here, searched, modal, result, plan, score>>
  /\ Queues

\* The departure of the route.  Mutation: the airport the aircraft is at now.
WhereItIs == here
Departure == searched.dep

\* inject_direct_plan() when an airport is not found: both are looked up before
\* anything is cleared.  Mutation: the plan is cleared first.
Cleared == <<>>
Untouched == plan

\* The whole of it: X-Plane may lack an airport that apt.dat has.
InjectDirectPlan(dep, dest) ==
  IF {dep, dest} \subseteq Nav
  THEN plan' = <<dep, dest>> /\ result' = "loaded"
  ELSE plan' = Untouched /\ result' = "failed"

\* load_selected_into_fms(); destinations come from the database.
Load == IF Departure \in Database
        THEN InjectDirectPlan(Departure, Results[selected])
        ELSE result' = "failed" /\ UNCHANGED plan

\* primary_entry_count() > 0.  Mutation: it is not asked.
NeverConfirm == FALSE
MustConfirm == plan # <<>>

\* "Load into FMS"
PressLoad ==
  /\ ~modal /\ Results # <<>> /\ InTable # 0
  /\ IF MustConfirm THEN modal' = TRUE /\ UNCHANGED <<plan, result>>
                    ELSE Load /\ UNCHANGED modal
  /\ UNCHANGED <<here, searched, selected, score>>
  /\ Queues

\* The buttons of the popup, which is drawn below a table with a selection.
Replace ==
  /\ modal /\ Results # <<>> /\ InTable # 0
  /\ Load /\ modal' = FALSE
  /\ UNCHANGED <<here, searched, selected, score>>
  /\ Queues

Cancel ==
  /\ modal /\ Results # <<>> /\ InTable # 0
  /\ modal' = FALSE
  /\ UNCHANGED <<here, searched, selected, result, plan, score>>
  /\ Queues

-----------------------------------------------------------------------------
(* Between frames.                                                         *)

Moves == /\ here' \in Departures \cup {NoAirport}
         /\ UNCHANGED <<searched, selected, modal, result, plan, score, pending>>

\* The pilot edits the flight plan in the avionics, a popup or not.
PilotEdits == plan' \in PilotPlans /\ UNCHANGED <<tab, score, pending>>

\* The scorer's callback: a destination of the batch got a score or did not.
Scored(a) ==
  /\ a \in pending /\ pending' = pending \ {a}
  /\ \E v \in Scores : score' = [score EXCEPT ![a] = v]
  /\ UNCHANGED <<tab, plan>>

NotScored(a) ==
  /\ a \in pending /\ pending' = pending \ {a}
  /\ UNCHANGED <<tab, plan, score>>

Next == \/ Draw \/ PressLoad \/ Replace \/ Cancel \/ Moves \/ PilotEdits
        \/ Searches
        \/ \E row \in 1..MaxResults : Click(row)
        \/ \E a \in Destinations : Scored(a) \/ NotScored(a)

Spec == Init /\ [][Next]_vars

\* The tab is drawn, and the model scores a destination it is asked for again
\* and again: an assumption about the service, not the code.
FairSpec == /\ Spec /\ WF_vars(Draw)
            /\ \A a \in Destinations : SF_vars(Scored(a))

-----------------------------------------------------------------------------
(* Properties                                                              *)

Nearer(b, a) == \E i \in DOMAIN Candidates : \E j \in 1..(i - 1) :
                  Candidates[i] = a /\ Candidates[j] = b

\* suggest_flights() trusts no placeholder: while a search lasts, scores that
\* arrive take no destination out of its results, except to make room for
\* nearer ones.
ShownStays ==
  [][searched' = searched =>
       \A a \in Range(Results) :
         \/ a \in Range(Results')
         \/ Len(Results') = MaxResults /\ \A b \in Range(Results') : Nearer(b, a)]_vars

\* A selection lasts until the next search.  So the popup, which is only drawn
\* below a selection, does not vanish before it is answered.
SelectionLasts ==
  [][selected # 0 /\ selected' \notin 1..Len(Results') => Searches]_vars

\* "Confirm before clobbering an existing flight plan": if the pilot does not
\* empty or replace a plan himself, only an answer to the popup does.
ReplacedOnlyIfConfirmed ==
  [][plan # <<>> /\ plan' # plan => PilotEdits \/ (modal /\ ~modal')]_vars

\* A route that cannot be loaded leaves the plan as it was ("no partial write,
\* no silent fail"), and one that is loaded leads from the departure of the search
\* to a destination in its reach, wherever the aircraft is by now.
LoadsAllOrNothing ==
  [][~PilotEdits /\ plan' # plan =>
       /\ result' = "loaded"
       /\ plan'[1] = searched.dep
       /\ plan'[2] \in Range(CandidatesFor[searched.dep][searched.query])]_vars

\* Destinations a search leaves hidden until they are scored do get scored if it
\* lasts: a filter does not keep its own scores from being asked for.
RangeGetsScored ==
  \A a \in Destinations :
    <>[](a \in Range(Candidates)) => <>(score[a] # Unscored)

\* "The chosen destination drives the FMS button": the row that is selected stands
\* for the same destination until the user clicks or searches.
SelectionStands ==
  [][selected # 0 /\ selected' = selected => Results'[selected] = Results[selected]]_vars
=============================================================================
