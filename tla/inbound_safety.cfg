SPECIFICATION Spec
CONSTANTS
  Copies = {c1, c2}
  MaxRetries = 1
  Twins = {TRUE}
  MaxFaults = 2
SYMMETRY Symmetry
INVARIANTS
  StagedUntilStored
  StoredIsComplete
  AcceptedIsPursued
CHECK_DEADLOCK FALSE
