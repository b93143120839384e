CONSTANTS
  repository = repository
  companion = companion
  service = service
  Objects = {repository, companion, service}
  Class <- ClassOf
  Rendered <- TwoVersions
  Defaulted = {service}
  Reported = {companion, service}
  MaxEdits = 2
  MaxTouches = 1
  MaxFaults = 1
SPECIFICATION FairSpec
CHECK_DEADLOCK FALSE
INVARIANTS TypeOK QuietMeansRendered QuietMeansRepaired
PROPERTIES ReadyMeansRendered StatusKept OthersKept Quiesces ObjectsGo
