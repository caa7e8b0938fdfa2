------------------------------ MODULE MCAirportDb ------------------------------
EXTENDS AirportDb

CONSTANTS edxx, lszm, xls1, kjfk

Header(code, id, closed) == [kind |-> "header", code |-> code, id |-> id, closed |-> closed]
Value(kind, value) == [kind |-> kind, value |-> value]
Freq(type, name) == [kind |-> "freq", type |-> type, name |-> name]

UpTo(n, rows) == UNION {[1..k -> rows] : k \in 0..n}

\* Headers of a DACH airport, a gateway airport, a heliport, a closed and a foreign
\* one; codes inside and outside of DACH; coordinates that parse or do not.
AllRows == {Header(1, edxx, FALSE), Header(16, xls1, FALSE), Header(17, edxx, FALSE),
            Header(1, edxx, TRUE), Header(1, kjfk, FALSE),
            [kind |-> "icao", id |-> lszm], [kind |-> "icao", id |-> kjfk],
            Value("lat", 1), Value("lat", 0), Value("lon", 2),
            Value("runway", 3), Value("runway", 4), Value("runway", 0),
            Freq("TOWER", "INFO"), Freq("TOWER", ""), Freq("UNICOM", "INFO")}

\* What sections could leak into each other.
SomeRows == {Header(1, edxx, FALSE), Header(16, xls1, FALSE), [kind |-> "icao", id |-> lszm],
             Value("lat", 1), Value("runway", 3), Freq("TOWER", "")}

SmallFiles == UpTo(3, AllRows) \cup UpTo(5, SomeRows)
=============================================================================
