CONSTANTS
  NotNeeded = NotNeeded
  NoImage = NoImage
  NoPort = NoPort
  NoConfig = NoConfig
  Drift = Drift
  img = img
  host = host
  Configs <- All
  Defaulted = {"deployment", "base"}
  Disturbed = {"base", "nodeport", "ingress"}
  MaxRetries = 2
  MaxUid = 1
  MaxEdits = 1
  MaxDisturb = 1
  MaxFaults = 1
SPECIFICATION FairSpec
CHECK_DEADLOCK FALSE
INVARIANTS QuietMeansDeployed
PROPERTIES StatusMatchesSpec Quiesces DeletionCompletes ChildrenGo
