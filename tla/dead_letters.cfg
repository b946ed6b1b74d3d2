SPECIFICATION FairSpec
CONSTANTS
  Copies = {c1, c2}
  MaxRetries = 1
  MaxDeadRetries = 1
  MaxFaults = 3
  MaxRequests = 2
  MaxExtras = 1
INVARIANTS
  NothingLost
PROPERTIES
  RequestHonoured
  RequeuedSettles
CHECK_DEADLOCK FALSE
