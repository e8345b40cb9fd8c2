\* p2 serves and consumes the old stream while p1 is deployed; each may die, see a
\* call fail or a copy be slow, three times in all, start again and find what the
\* other left.
CONSTANTS
  p1 = p1
  p2 = p2
  m1 = m1
  m2 = m2
  m3 = m3
  Pods = {p1, p2}
  InitServing = {p2}
  Msgs = {m1, m2}
  InitLogs <- Logs
  Consuming = TRUE
  Exclusive = TRUE
  MaxFaults = 3
SPECIFICATION Spec
INVARIANTS AckedSurvives RestoresOnce
CHECK_DEADLOCK FALSE
