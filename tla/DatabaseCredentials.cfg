CONSTANTS
  Engines = {"redis", "mongodb", "clickhouse", "postgres", "mysql"}
  MaxWaits = 2
  MaxRetries = 2
  MaxEdits = 1
  MaxReturns = 1
  MaxTargets = 1
  MaxTouches = 1
  MaxLosses = 1
  MaxFaults = 1
SPECIFICATION FairSpec
CHECK_DEADLOCK FALSE
INVARIANTS TypeOK URLHasPassword Agreement QuietMeansProvisioned QuietMeansDelivered
PROPERTIES PasswordsKept PassesEnd Arrives ContractImplemented
