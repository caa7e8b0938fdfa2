\* Finding: scores move the selection to another destination.
CONSTANTS
  home = home  abroad = abroad
  p = p  q = q  r = r  strip = strip
  NoAirport = NoAirport
  Facts <- AptDat
  Ranking <- Rankings
  Nav <- NavData
  Scores = {3, 4}
  Queries <- Entered
  MaxResults = 2
  PilotPlans <- Plans
SPECIFICATION Spec
PROPERTY SelectionStands
