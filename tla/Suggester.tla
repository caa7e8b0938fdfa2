------------------------------- MODULE Suggester -------------------------------
(***************************************************************************)
(* The rules of preflight/flight_suggester.cpp: which airports a flight    *)
(* can be suggested to, what each filter of the user lets through, and the *)
(* estimate of difficulty an airport has until the model has scored it.    *)
(* Lengths are metres, elevations feet, distances km; a frequency is its   *)
(* type, as that is all that is asked of it.                               *)
(***************************************************************************)
EXTENDS Integers, Sequences, SequencesExt

FrequencyType == {"UNKNOWN", "DELIVERY", "GROUND", "TOWER", "UNICOM", "CTAF", "ATIS", "INFO",
                  "RADIO"}
Runway == [length : Nat, surface : Nat]
AirportFacts == [facility : {"TOWERED", "AFIS", "UNCONTROLLED", "UNKNOWN"}, elevation : Int,
                 runways : Seq(Runway), frequencies : Seq(FrequencyType)]

-----------------------------------------------------------------------------
(* Destinations.                                                           *)

MinRunway == 500
MinFlight == 5

IsEndpoint(facility) == facility \in {"TOWERED", "AFIS"}

\* is_ga_suitable(): asphalt, concrete, turf, dirt or gravel, and long enough.
GaSuitable(apt) ==
  /\ IsEndpoint(apt.facility)
  /\ \E r \in Range(apt.runways) : r.length >= MinRunway /\ r.surface \in 1..5

\* dest_facility_ok()
FacilityOk(want, apt) ==
  \/ want = "ANY" /\ IsEndpoint(apt.facility)
  \/ want = "TOWER" /\ apt.facility = "TOWERED"
  \/ want = "AFIS" /\ apt.facility = "AFIS"

HasGround(apt) == "GROUND" \in Range(apt.frequencies)

\* ground_ok()
GroundOk(want, apt) ==
  \/ want = "ANY"
  \/ want = "WITH_GROUND" /\ HasGround(apt)
  \/ want = "TOWER_ONLY" /\ ~HasGround(apt)

\* What candidates_in_range() asks of an airport at a distance.
InRange(apt, km, query) ==
  /\ GaSuitable(apt)
  /\ FacilityOk(query.facility, apt)
  /\ GroundOk(query.ground, apt)
  /\ MinFlight < km /\ km <= query.distance

-----------------------------------------------------------------------------
(* Difficulty.                                                             *)

\* A runway without a length leaves the question to the next one.
Shortest(runways) ==
  FoldLeft(LAMBDA s, r : IF s = 0 \/ r.length < s THEN r.length ELSE s, 0, runways)

Point(condition) == IF condition THEN 1 ELSE 0

\* provisional_difficulty()
ProvisionalDifficulty(apt) ==
  LET towered == apt.facility = "TOWERED"
      shortest == Shortest(apt.runways)
      points ==
        1 + 3 * Point(towered) + Point(apt.facility = "AFIS")
          + Point(towered /\ HasGround(apt))
          + Point(apt.elevation >= 1500) + Point(apt.elevation >= 3000)
          + Point(shortest \in 1..999) + Point(shortest \in 1..599)
          + Point(Len(apt.frequencies) >= 4) + Point(Len(apt.frequencies) >= 6)
          + Point(Len(apt.runways) >= 3)
  IN IF points > 10 THEN 10 ELSE points

\* difficulty_bucket()
Bucket(value) == IF value <= 3 THEN "EASY" ELSE IF value <= 6 THEN "MEDIUM" ELSE "HARD"
=============================================================================
