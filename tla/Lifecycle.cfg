\* Four configurations, critical and not, through two faults at any time, a client
\* sharing the connection, close() at any time and the shutdown after it.
CONSTANTS
  Kinds = {"event", "command", "ordered"}
  Setups <- MixedSetups
  MaxConns = 2
  MaxAttempts = 3
  MaxFaults = 2
SPECIFICATION FairSpec
CHECK_DEADLOCK FALSE
INVARIANTS
  NoDroppedBacklog
  ClosedIsQuiet
  NoEscapedConnection
PROPERTIES
  ListenAnswers
  SelfHeals
