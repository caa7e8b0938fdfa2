\* Two sessions in one minute; threads, reads and writes may fail, releases differ.
CONSTANTS
  x = x
  NoAirport = NoAirport
  Airports = {x}
  Epochs = {0, 1}
  SecondsPerMinute = 2
  Tolerance = 1
  Builds <- TwoLayouts
  SpawnMayFail = TRUE
  RenameReplaces = TRUE
  WritesMayFail = TRUE
  ReadsMayFail = TRUE
SPECIFICATION Spec
INVARIANTS TypeOK DoneShowsReport
PROPERTIES LostOnlyByClash RestartKeepsReports
