\* Two calls share one serving slot, so that one is parked behind the other; the
\* client may lose or close its inbox once and the pod may be replaced once.
CONSTANTS
  Calls = {c1, c2}
  Jobs = {c1, c2}
  MaxActive = 1
  MaxInboxes = 2
  ParkTimer = TRUE
  MaxPods = 2
SPECIFICATION Spec
SYMMETRY CallSymmetry
CHECK_DEADLOCK FALSE
INVARIANTS
  RegistryMatchesCallers
  AnsweredOnce
  NoStaleInbox
  SettledOnce
  ReplyMatchesSettlement
