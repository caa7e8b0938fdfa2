\* Threads may fail to start and calls may outlast the 5 s cap of stop().
CONSTANTS
  r1 = r1  r2 = r2  r3 = r3
  m1 = m1  m2 = m2
  Requests = {r1, r2, r3}
  Models = {m1, m2}
  NoModel = NoModel
  NoThread = NoThread
  SpawnMayFail = TRUE
  CallsMayOutlast = TRUE
SPECIFICATION Spec
SYMMETRY RequestSymmetry
INVARIANTS TypeOK CallsSerialised AnsweredOnce NothingForgotten StopQuiesces
PROPERTY ImplementsService
\* The plugin may be stopped for good.
CHECK_DEADLOCK FALSE
