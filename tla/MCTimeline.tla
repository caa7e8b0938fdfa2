------------------------------ MODULE MCTimeline ------------------------------
EXTENDS Timeline

CONSTANTS x, y

AnyOf(S, n) == UNION {[1 .. m -> S] : m \in 0 .. n}

Atc == [version |-> 2, dep |-> x, dest |-> NoAirport, started |-> 3, transmissions |-> <<>>]
Flight == [dep |-> x, arr |-> y, start |-> 3, track |-> <<>>]

\* Every timeline of two transmissions and three points within eight seconds, and
\* each way two logs can differ or be unfit.
AtcFiles == {[Atc EXCEPT !.transmissions = s] : s \in AnyOf({0, 2, 5, Junk, Missing}, 2)}
            \cup {[Atc EXCEPT !.dest = x], [Atc EXCEPT !.dest = y], [Atc EXCEPT !.dep = y],
                  [Atc EXCEPT !.version = 1], [Atc EXCEPT !.started = Missing],
                  [Atc EXCEPT !.started = 7], Broken}
FlightFiles == {[Flight EXCEPT !.track = s] : s \in AnyOf({1, 3, 4, 8, Junk}, 3)}
               \cup {[Flight EXCEPT !.arr = NoAirport], [Flight EXCEPT !.start = 8],
                     [Flight EXCEPT !.track = <<Missing>>], Broken}
=============================================================================
