SPECIFICATION Spec
CONSTANTS
  Pods = {1, 2}
  Scenarios <- AllScenarios
  MaxBoots = 2
  MaxFaults = 1
  SharedExclusive = TRUE
INVARIANTS
  UpIsWired
  SchedulesWait
  OneOwner
  NeverRejected
PROPERTIES
  NothingClobbered
CHECK_DEADLOCK FALSE
