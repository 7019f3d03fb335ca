SPECIFICATION Spec
CHECK_DEADLOCK FALSE
CONSTANTS
  BaseDelay = 1
  Factor = 2
  MaxDelay = 300
  JitterPct = 20
  MaxAttempts = 10
INVARIANT BudgetInBand
PROPERTY WaitsGrow
