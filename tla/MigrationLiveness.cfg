\* As MigrationPeers without consumption, fair.
CONSTANTS
  p1 = p1
  p2 = p2
  m1 = m1
  m2 = m2
  m3 = m3
  Pods = {p1, p2}
  InitServing = {p2}
  Msgs = {m1, m2}
  InitLogs <- Logs
  Consuming = FALSE
  Exclusive = TRUE
  MaxFaults = 3
SPECIFICATION FairSpec
PROPERTIES StreamComesBack ConsumptionResumes
CHECK_DEADLOCK FALSE
