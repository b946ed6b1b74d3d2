SPECIFICATION Spec
CONSTANTS
  Messages = {m1}
  Runs = {r1}
  Workers = {w1, w2}
  Nobody = Nobody
  NoWork = NoWork
  Chunks = 1
  MaxAttempts = 2
  MaxFaults = 0
  MaxOverruns = 1
  MaxEdits = 2
INVARIANT RemovedIsCleaned
