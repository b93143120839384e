CONSTANTS
  NotNeeded = NotNeeded
  NoImage = NoImage
  NoPort = NoPort
  NoConfig = NoConfig
  Drift = Drift
  img = img
  host = host
  Configs <- FullAndNode
  Defaulted = {"deployment", "base"}
  Disturbed = {"deployment", "nodeport"}
  MaxRetries = 2
  MaxUid = 2
  MaxEdits = 1
  MaxDisturb = 1
  MaxFaults = 1
SPECIFICATION Spec
CHECK_DEADLOCK FALSE
INVARIANTS TypeOK FinalizerLock NoOrphan QuietMeansSettled IInv
PROPERTIES NoLostEdit LifecycleImplemented
