CONSTANTS
  NotNeeded = NotNeeded
  NoImage = NoImage
  NoPort = NoPort
  NoConfig = NoConfig
  Drift = Drift
  img = img
  host = host
  Configs <- FullAndBare
  Defaulted = {"deployment", "base"}
  Disturbed = {}
  MaxRetries = 5
  MaxUid = 1
  MaxEdits = 1
  MaxDisturb = 0
  MaxFaults = 0
SPECIFICATION Spec
CHECK_DEADLOCK FALSE
INVARIANT QuietMeansUndeployed
