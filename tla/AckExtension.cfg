\* Two deliveries of any two consumers, parked or not, each for longer than a budget.
CONSTANTS
  Msgs = {1, 2}
  Options <- MixedOptions
  MinInterval = 2
  DefaultInterval = 4
  Budget = 5
  MaxLag = 1
  MaxTime = 11
SPECIFICATION Spec
CHECK_DEADLOCK FALSE
INVARIANTS
  KeptAlive
  ExtensionEnds
