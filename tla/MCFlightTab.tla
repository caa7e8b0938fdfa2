------------------------------ MODULE MCFlightTab ------------------------------
EXTENDS FlightTab

CONSTANTS home, abroad, p, q, r, strip

Airport(facility, elevation, lengths, frequencies) ==
  [facility |-> facility, elevation |-> elevation, frequencies |-> frequencies,
   runways |-> [k \in DOMAIN lengths |-> [length |-> lengths[k], surface |-> 1]]]

\* Three destinations, estimated at 2, 7 and 7, and a strip that is too short.
\* abroad is not in apt.dat.
AptDat == home :> Airport("UNCONTROLLED", 100, <<800>>, <<>>)
       @@ p :> Airport("AFIS", 1499, <<1000>>, <<"INFO">>)
       @@ q :> Airport("TOWERED", 1500, <<2000, 999>>, <<"TOWER", "GROUND">>)
       @@ r :> Airport("TOWERED", 3000, <<1600, 600>>, <<"TOWER", "ATIS", "DELIVERY">>)
       @@ strip :> Airport("AFIS", 100, <<499>>, <<"INFO">>)

At(icao, km) == [icao |-> icao, km |-> km]
Rankings == home :> <<At(home, 0), At(strip, 20), At(p, 30), At(q, 80), At(r, 80)>>
         @@ abroad :> <<At(p, 5), At(q, 6)>>
NavData == {home, abroad, p, q}
Plans == {<<>>, <<abroad>>}

AnyFlight == [facility |-> "ANY", ground |-> "ANY", difficulty |-> "ANY", distance |-> 80]
Entered == {AnyFlight, [AnyFlight EXCEPT !.difficulty = "EASY"],
            [AnyFlight EXCEPT !.difficulty = "MEDIUM"],
            [AnyFlight EXCEPT !.facility = "AFIS", !.difficulty = "EASY"],
            [AnyFlight EXCEPT !.facility = "TOWER", !.difficulty = "EASY"],
            [AnyFlight EXCEPT !.ground = "WITH_GROUND"],
            [AnyFlight EXCEPT !.ground = "TOWER_ONLY", !.difficulty = "EASY"],
            [AnyFlight EXCEPT !.distance = 79, !.difficulty = "MEDIUM"]}
=============================================================================
