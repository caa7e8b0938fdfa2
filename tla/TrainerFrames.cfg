\* Two airports in batches of one and a flight to evaluate; threads may fail.
CONSTANTS
  a = a
  b = b
  x = x
  NoAirport = NoAirport
  Icao = {a, b}
  Facts <- OneAirfield
  Versions <- OneVersion
  RawScores = {5}
  MinScore = 1
  MaxScore = 10
  BatchSize = 1
  MaxItems = 1
  Airports = {x}
  Epochs = {0}
  SecondsPerMinute = 2
  Tolerance = 1
  Builds <- OneBuild
  ReadsMayFail = FALSE
  WritesMayFail = FALSE
  RenameReplaces = TRUE
  SpawnMayFail = TRUE
SPECIFICATION FairSpec
INVARIANTS PendingExact ClientsMatchService
PROPERTIES LostOnlyBehindBatch EvaluationEnds PendingAnswered
