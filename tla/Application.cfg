\* Twelve applications, one fault; two calls where there are calls.
SPECIFICATION FairSpec
CONSTANTS
  Names = {"default", "second"}
  BadNames = {}
  Hosts = {1, 2}
  Calls = {c1, c2}
  Setups <- AllSetups
  MaxFaults = 1
CHECK_DEADLOCK FALSE
INVARIANTS
  OneReply
  TelemetryAgrees
  StartedIsWired
  PollIsQuiet
PROPERTIES
  BootEnds
  EveryoneIsAnswered
  ShutdownEnds
