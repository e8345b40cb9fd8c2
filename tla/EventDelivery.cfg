\* Two messages, one of which may be a stray, share one slot; three sorts of
\* capture; a pod that closes or crashes and comes back; a peer that changes
\* max_deliver in between (0 is unlimited).  The pod may have nothing left to do.
CONSTANTS
  m1 = m1
  m2 = m2
  Jobs <- MCJobs
  MaxActive = 1
  Msgs = {m1, m2}
  Strays = {m2}
  MaxCount = 2
  MaxDelivers = {0, 2}
  PublishAttempts = 1
  MaxStarts = 2
  Setups <- MixedSetups
SPECIFICATION Spec
CHECK_DEADLOCK FALSE
INVARIANTS
  TypeOK
  NoLoss
  NoSilentExhaustion
  SingleFlight
  PipelineMatchesGate
  SlotsExact
  NoIdleSlot
  JobsPartitioned
PROPERTIES
  NoOvertaking
