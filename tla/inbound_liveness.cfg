SPECIFICATION FairSpec
CONSTANTS
  Copies = {c1, c2}
  MaxRetries = 1
  Twins = {FALSE}
  MaxFaults = 1
PROPERTIES
  StagedIsSettled
  StagingIsCleaned
CHECK_DEADLOCK FALSE
