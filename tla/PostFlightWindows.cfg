\* Finding: where rename() does not replace, a new report is never saved.
CONSTANTS
  x = x
  NoAirport = NoAirport
  Airports = {x}
  Epochs = {0}
  SecondsPerMinute = 2
  Tolerance = 2
  Builds <- NewPrompt
  SpawnMayFail = FALSE
  RenameReplaces = FALSE
  WritesMayFail = FALSE
  ReadsMayFail = FALSE
SPECIFICATION Spec
INVARIANT MemoryOnDisk
