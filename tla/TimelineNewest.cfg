\* Three logs of equal or different age and another file; every timeline of two
\* calls and three points.
CONSTANTS
  x = x  y = y
  f = f  g = g  h = h  o = o
  NoAirport = NoAirport
  Junk = Junk  Missing = Missing  Broken = Broken
  Files = {f, g, h, o}
  JsonFiles = {f, g, h}
  Times = {1, 2}
  AtcVersion = 2
  FlightTolerance = 4
  TrackTolerance = 2
  AtcDocs <- AtcFiles
  FlightDocs <- FlightFiles
SPECIFICATION Spec
INVARIANT PositionsNearest
PROPERTY NewestFound
