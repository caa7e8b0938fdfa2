\* Workers may be wedged for ever or fail to start.
CONSTANTS
  r1 = r1  r2 = r2
  m1 = m1  m2 = m2
  Requests = {r1, r2}
  Models = {m1, m2}
  NoModel = NoModel
  NoThread = NoThread
  SpawnMayFail = TRUE
  CallsMayOutlast = TRUE
SPECIFICATION FairSpec
PROPERTIES StopCompletes RequestsAnswered
\* The plugin may be stopped for good.
CHECK_DEADLOCK FALSE
