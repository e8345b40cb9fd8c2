\* The same calls and one pod, fair to timers and to the client's own code only: the
\* stream, the pod and the replies may do nothing at all.
CONSTANTS
  Calls = {c1, c2}
  Jobs = {c1, c2}
  MaxActive = 1
  MaxInboxes = 2
  ParkTimer = FALSE
  MaxPods = 1
SPECIFICATION FairSpec
CHECK_DEADLOCK FALSE
PROPERTY
  KeepsContract
