SPECIFICATION FairSpec
CONSTANTS
  Messages = {m1}
  Runs = {r1}
  Workers = {w1, w2}
  Nobody = Nobody
  NoWork = NoWork
  Chunks = 2
  MaxAttempts = 2
  MaxFaults = 2
  MaxOverruns = 1
  MaxEdits = 2
INVARIANTS
  NothingOrphaned
  CompletedIsGone
PROPERTIES
  RemovalIsAuthorised
  ApprovedEnds
