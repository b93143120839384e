CONSTANTS
  m1 = m1
  m2 = m2
  c1 = c1
  Services = {m1, m2, c1}
  EngineOf <- Engine3
  MaxLosses = 1
  MaxFaults = 1
SPECIFICATION FairSpec
CHECK_DEADLOCK FALSE
INVARIANTS QuietMeansClustered ReadyMeansClustered
PROPERTY Installs
