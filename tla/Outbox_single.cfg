SPECIFICATION FairSpec
CHECK_DEADLOCK FALSE
CONSTANTS
  NoEvent = NoEvent
  BaseDelay = 1
  Factor = 2
  MaxDelay = 2
  JitterPct = 0
  MaxAttempts = 2
  Events = {e1, e2}
  Workers = {w1}
  BatchSize = 2
  BulkCap = 2
  DbFaults = FALSE
  MaxInterrupts = 2
  MaxRevives = 1
INVARIANTS
  HandledIsPending
  DeadExhausted
PROPERTIES
  KeepsPromise
  KeepsPromiseEventually
