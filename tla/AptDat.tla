-------------------------------- MODULE AptDat --------------------------------
(***************************************************************************)
(* airports/apt_dat_parser.cpp: airports assembled from the rows of an     *)
(* apt.dat, one row at a time, and what they should be by the structure of *)
(* the file.                                                               *)
(*                                                                         *)
(* A row is what the parser makes of a line: a header, a datum coordinate, *)
(* an ICAO code, a frequency, a runway, or something it passes over.       *)
(* Frequencies keep their type only, a runway its midpoint, and lat and    *)
(* lon are numbers other than the 0 of a default-constructed Airport.      *)
(***************************************************************************)
EXTENDS Naturals, Sequences, SequencesExt

CONSTANTS Accepted,   \* the codes accept() takes: those of DACH airports
          Gateway,    \* provisional codes: X and a code accept() takes
          NoCode      \* no code, ""

Heliport == 17
Kinds == {"header", "lat", "lon", "icao", "freq", "runway"}

\* The airport under assembly, and a parser that has seen no header.
NoAirport == [icao |-> NoCode, lat |-> 0, lon |-> 0, freqs |-> <<>>, runways |-> <<>>]
NoHeader == [code |-> 0, id |-> NoCode, closed |-> FALSE]
Between(result) == [result |-> result, building |-> FALSE, header |-> NoHeader,
                    current |-> NoAirport, datum |-> FALSE, mid |-> 0]

-----------------------------------------------------------------------------
(* Classification.                                                         *)

\* classify_by_name(): the last word of the name refines TOWER only.
TypeOf(row) == IF row.type = "TOWER" /\ row.name \in {"INFO", "RADIO"} THEN row.name
               ELSE row.type

\* classify_facility() of the types of an airport's frequencies.
Facility(types) ==
  LET has(type) == type \in types
  IN CASE has("TOWER") -> "TOWERED"
       [] ~has("TOWER") /\ (has("INFO") \/ has("RADIO")) -> "AFIS"
       [] ~has("TOWER") /\ ~has("INFO") /\ ~has("RADIO") /\ has("UNICOM") -> "UNCONTROLLED"
       [] OTHER -> "UNKNOWN"

\* dach_candidate()
Candidate(id) == id \in Accepted \cup Gateway

-----------------------------------------------------------------------------
(* The parser.                                                             *)

\* finalize()
Finished(apt, datum, mid) ==
  [icao |-> apt.icao, runways |-> apt.runways, facility |-> Facility(Range(apt.freqs)),
   lat |-> IF ~datum /\ mid # 0 THEN mid ELSE apt.lat,
   lon |-> IF ~datum /\ mid # 0 THEN mid ELSE apt.lon]

\* What flush() leaves.  Mutation: has_datum survives it.
ResetAllButDatum(p, result) == [Between(result) EXCEPT !.datum = p.datum]
Reset(p, result) == Between(result)

\* Whether flush() keeps the airport.  Mutation: under any code.
KeptUnder(p, icao) == p.building /\ p.header.code # Heliport /\ ~p.header.closed
Kept(p, icao) == KeptUnder(p, icao) /\ icao \in Accepted

\* flush(): the code is the one of the 1302 row, or else of the header.
Flush(p) ==
  LET icao == IF p.current.icao = NoCode THEN p.header.id ELSE p.current.icao
      apt == Finished([p.current EXCEPT !.icao = icao], p.datum, p.mid)
  IN Reset(p, IF Kept(p, icao) THEN Append(p.result, apt) ELSE p.result)

\* A row; a coordinate or a runway that does not parse is 0.
Row(p, row) ==
  IF row.kind = "header"
  THEN IF Candidate(row.id)
       THEN [Flush(p) EXCEPT !.building = TRUE,
                             !.header = [code |-> row.code, id |-> row.id, closed |-> row.closed]]
       ELSE Flush(p)
  ELSE IF ~p.building THEN p
  ELSE CASE row.kind = "lat" /\ row.value # 0 -> [p EXCEPT !.current.lat = row.value, !.datum = TRUE]
         [] row.kind = "lon" /\ row.value # 0 -> [p EXCEPT !.current.lon = row.value, !.datum = TRUE]
         [] row.kind = "icao" -> [p EXCEPT !.current.icao = row.id]
         [] row.kind = "freq" -> [p EXCEPT !.current.freqs = Append(@, TypeOf(row))]
         [] row.kind = "runway" /\ row.value # 0 ->
              [p EXCEPT !.current.runways = Append(@, row.value),
                        !.mid = IF @ = 0 THEN row.value ELSE @]
         [] OTHER -> p

\* The same, the parser bound to a name first: TLC evaluates it once.
NextRow(p, row) == CHOOSE q \in {Row(r, row) : r \in {p}} : TRUE

\* parse_apt_dat(): the parser after so many rows; the end of the file closes the
\* last airport.
Parse(rows) ==
  LET after[k \in 0 .. Len(rows)] == IF k = 0 THEN Between(<<>>) ELSE NextRow(after[k - 1], rows[k])
  IN CHOOSE result \in {Flush(p).result : p \in {after[Len(rows)]}} : TRUE

-----------------------------------------------------------------------------
(* What a file says.  A section is a header with the rows up to the next;  *)
(* rows are known by their places.                                         *)

Headers(rows) == {i \in DOMAIN rows : rows[i].kind = "header"}

Section(rows, h) == {i \in DOMAIN rows : h < i /\ \A g \in Headers(rows) : h < g => i < g}

Of(rows, section, kind) == {i \in section : rows[i].kind = kind}
Parsed(rows, section, kind) == {i \in Of(rows, section, kind) : rows[i].value # 0}

\* Places up to n in the order of the file.
InOrder(places, n) ==
  LET listed[s \in SUBSET (1 .. n)] == IF s = {} THEN <<>> ELSE Append(listed[s \ {Max(s)}], Max(s))
  IN listed[places]

Values(rows, places) ==
  LET order == InOrder(places, Len(rows)) IN [k \in DOMAIN order |-> rows[order[k]].value]

\* The code of a section: its last ICAO row, or else its header.
Code(rows, h, section) ==
  LET codes == Of(rows, section, "icao") IN IF codes = {} THEN rows[h].id ELSE rows[Max(codes)].id

\* An open land or sea airport under a code that is accepted.
Wanted(rows, h) ==
  /\ Candidate(rows[h].id) /\ rows[h].code # Heliport /\ ~rows[h].closed
  /\ Code(rows, h, Section(rows, h)) \in Accepted

\* Its coordinates are the last ones given, and those of the first runway
\* if none is.
AirportOf(rows, h) ==
  LET section == Section(rows, h)
      lats == Parsed(rows, section, "lat")
      lons == Parsed(rows, section, "lon")
      strips == Parsed(rows, section, "runway")
      fallback == IF lats = {} /\ lons = {} /\ strips # {} THEN rows[Min(strips)].value ELSE 0
  IN [icao |-> Code(rows, h, section),
      runways |-> Values(rows, strips),
      facility |-> Facility({TypeOf(rows[i]) : i \in Of(rows, section, "freq")}),
      lat |-> IF lats = {} THEN fallback ELSE rows[Max(lats)].value,
      lon |-> IF lons = {} THEN fallback ELSE rows[Max(lons)].value]

\* The airports of a file in the order of their headers.
AirportsOf(rows) ==
  LET order == InOrder({h \in Headers(rows) : Wanted(rows, h)}, Len(rows))
  IN [k \in DOMAIN order |-> AirportOf(rows, order[k])]
=============================================================================
