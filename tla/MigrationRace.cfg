\* Two pods start together.
CONSTANTS
  p1 = p1
  p2 = p2
  m1 = m1
  m2 = m2
  m3 = m3
  Pods = {p1, p2}
  InitServing = {}
  Msgs = {m1, m2}
  InitLogs <- SmallLogs
  Consuming = FALSE
  Exclusive = FALSE
  MaxFaults = 0
SPECIFICATION Spec
INVARIANT AckedSurvives
CHECK_DEADLOCK FALSE
