CONSTANTS
  Defaulting = {TRUE, FALSE}
  MaxWaits = 3
  MaxEdits = 2
  MaxReturns = 1
  MaxFaults = 2
SPECIFICATION FairSpec
CHECK_DEADLOCK FALSE
INVARIANTS TypeOK QuietMeansSettled
PROPERTY Settles
