SPECIFICATION FairSpec
CONSTANTS
  Workers = {w1, w2}
  NoWorker = NoWorker
  Copies = {c1, c2}
  NoCopy = NoCopy
  MaxAttempts = 3
  MaxRetries = 1
  MaxExcuses = 1
  MaxAborts = 1
INVARIANT SendsExcused
PROPERTIES
  KeepsContract
  Settles
