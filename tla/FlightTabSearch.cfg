\* Scores of two buckets arrive under eight searches; r cannot be loaded.
CONSTANTS
  home = home  abroad = abroad
  p = p  q = q  r = r  strip = strip
  NoAirport = NoAirport
  Facts <- AptDat
  Ranking <- Rankings
  Nav <- NavData
  Scores = {3, 4}
  Queries <- Entered
  MaxResults = 2
  PilotPlans <- Plans
SPECIFICATION FairSpec
INVARIANT TypeOK
PROPERTIES ShownStays SelectionLasts ReplacedOnlyIfConfirmed LoadsAllOrNothing RangeGetsScored
