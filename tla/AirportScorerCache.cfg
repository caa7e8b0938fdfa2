\* Two airports whose data, prompt and file version change between sessions, asked
\* together or apart, and a file that may not be readable.
CONSTANTS
  a = a
  b = b
  Icao = {a, b}
  Facts <- Regraded
  Versions <- Releases
  RawScores = {12}
  MinScore = 1
  MaxScore = 10
  BatchSize = 2
  MaxItems = 2
  SpawnMayFail = TRUE
  ReadsMayFail = TRUE
SPECIFICATION Spec
SYMMETRY AirportSymmetry
INVARIANTS TypeOK ScoreFitsAirport
PROPERTIES OnlyAskedScored SavedScoresSurvive ScoredOnce
