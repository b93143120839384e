CONSTANTS
  Engines = {"postgres"}
  MaxWaits = 2
  MaxRetries = 2
  MaxEdits = 0
  MaxReturns = 0
  MaxTargets = 0
  MaxTouches = 0
  MaxLosses = 0
  MaxFaults = 1
SPECIFICATION Spec
CHECK_DEADLOCK FALSE
INVARIANT PostgresDelivered
