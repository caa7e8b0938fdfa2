------------------------------ MODULE FlightLogs ------------------------------
(***************************************************************************)
(* What postflight/discovery.cpp and correlation.cpp make of an ATC log    *)
(* and a flight log once they are read: do they describe the same flight,  *)
(* and where was the aircraft when something was said on the radio.  Times *)
(* are seconds of one clock; a track point is known by its time.           *)
(***************************************************************************)
EXTENDS Integers, Sequences, SequencesExt

CONSTANT NoAirport  \* an empty ICAO code: destination or arrival unknown

\* llabs(a - b)
Distance(a, b) == IF a < b THEN b - a ELSE a - b

\* same_flight()
SameFlight(atc, flight, tolerance) ==
  /\ atc.dep = flight.dep
  /\ atc.dest # NoAirport => atc.dest = flight.arr
  /\ Distance(atc.started, flight.start) <= tolerance

\* nearest(): <<>> where there is no track.  Mutation: of two points at the same
\* distance the later wins.
NearestLast(track, ts) ==
  FoldLeft(LAMBDA best, t : IF best = <<>> \/ Distance(t, ts) <= Distance(best[1], ts)
                            THEN <<t>> ELSE best, <<>>, track)
Nearest(track, ts) ==
  FoldLeft(LAMBDA best, t : IF best = <<>> \/ Distance(t, ts) < Distance(best[1], ts)
                            THEN <<t>> ELSE best, <<>>, track)

\* correlate(): transmissions without a position in time are kept.
Correlate(atc, flight, tolerance) ==
  [k \in DOMAIN atc.transmissions |->
     LET ts == atc.transmissions[k]
         p == Nearest(flight.track, ts)
     IN [ts |-> ts,
         position |-> IF p # <<>> /\ Distance(p[1], ts) <= tolerance THEN p ELSE <<>>]]
=============================================================================
