-------------------------- MODULE MCAirportScorer --------------------------
(* AirportScorer for TLC: airports are interchangeable.                    *)
EXTENDS AirportScorer, TLC

AirportSymmetry == Permutations(Icao)

\* A towered field with a long asphalt and a short grass runway ...
Towered == [facility |-> "TOWERED", elevation |-> 1500,
            runways |-> <<[length |-> 1500, surface |-> 1], [length |-> 800, surface |-> 3]>>,
            frequencies |-> <<"TOWER", "ATIS">>]
\* ... that gives up its tower; and listed the other way round.
Afis == [Towered EXCEPT !.facility = "AFIS"]
Reversed == [Towered EXCEPT !.runways = <<@[2], @[1]>>, !.frequencies = <<@[2], @[1]>>]

Regraded == {Towered, Afis, Reversed}

\* Releases: a first one, one with another prompt, one with another file version.
Releases == {[prompt |-> 1, file |-> 1], [prompt |-> 2, file |-> 1], [prompt |-> 2, file |-> 2]}
=============================================================================
