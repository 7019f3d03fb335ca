SPECIFICATION Spec
CHECK_DEADLOCK FALSE
SYMMETRY Symmetry
CONSTANTS
  NoEvent = NoEvent
  BaseDelay = 1
  Factor = 2
  MaxDelay = 2
  JitterPct = 0
  MaxAttempts = 2
  Events = {e1}
  Workers = {w1, w2}
  BatchSize = 1
  BulkCap = 2
  DbFaults = FALSE
  MaxInterrupts = 0
  MaxRevives = 0
INVARIANTS
  SafeWithManyWorkers
