\* The first start of the ordered consumer fails once.
CONSTANTS
  Kinds = {"event", "ordered"}
  Setups <- OrderedSecondary
  MaxConns = 1
  MaxAttempts = 2
  MaxFaults = 1
SPECIFICATION Spec
CHECK_DEADLOCK FALSE
INVARIANT
  RoutedOnce
