\* One message delivered up to three times over a connection that may lose any
\* settlement and any working() call, so that its deliveries overlap, fair: every
\* delivery is served and the message resolved.
CONSTANTS
  m1 = m1
  m2 = m2
  Jobs <- MCJobs
  MaxActive = 1
  Msgs = {m1}
  Strays = {}
  MaxCount = 3
  MaxDelivers = {3}
  PublishAttempts = 2
  MaxStarts = 2
  Setups <- FlakySetups
SPECIFICATION FairSpec
CHECK_DEADLOCK FALSE
PROPERTIES
  EventuallyResolved
  ParkedIsServed
