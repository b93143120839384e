CONSTANTS
  Defaulting = {FALSE}
  MaxWaits = 10
  MaxEdits = 1
  MaxReturns = 0
  MaxFaults = 0
SPECIFICATION FairSpec
CHECK_DEADLOCK FALSE
PROPERTY CompletedKept
