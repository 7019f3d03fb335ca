SPECIFICATION Spec
CHECK_DEADLOCK FALSE
SYMMETRY Symmetry
CONSTANTS
  NoEvent = NoEvent
  BaseDelay = 1
  Factor = 2
  MaxDelay = 2
  JitterPct = 0
  MaxAttempts = 2
  Events = {e1, e2}
  Workers = {w1, w2}
  BatchSize = 2
  BulkCap = 2
  DbFaults = TRUE
  MaxInterrupts = 2
  MaxRevives = 0
INVARIANTS
  TypeOK
  ProcessedWasDelivered
  AttemptsAccounted
PROPERTIES
  NoSilentLoss
