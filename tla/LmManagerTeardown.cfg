\* Finding: the model is destroyed while a worker is inside it.
CONSTANTS
  r1 = r1  r2 = r2
  m1 = m1  m2 = m2
  Requests = {r1, r2}
  Models = {m1, m2}
  NoModel = NoModel
  NoThread = NoThread
  SpawnMayFail = FALSE
  CallsMayOutlast = FALSE
SPECIFICATION Spec
INVARIANT TeardownSerialised
\* The plugin may be stopped for good.
CHECK_DEADLOCK FALSE
