SPECIFICATION Spec
CONSTANTS
  m1 = m1
  m2 = m2
  m3 = m3
  l1 = l1
  r1 = r1
  r2 = r2
  p1 = p1
  raw1 = raw1
  raw2 = raw2
  Messages = {m1, m2, m3}
  Labels = {l1}
  Rules = {r1, r2}
  Preferences = {p1}
  Assigned <- OneAssignment
  Deltas = {1}
  Versions = {1, 2}
  Absent = Absent
  NoBackup = NoBackup
  RawOf <- TwoRaws
  RuleName <- Names
  RuleLabels <- Applied
  Initial <- FirstVersions
  ChunkSize = 2
  Ordered = TRUE
  MaxEdits = 2
  MaxFaults = 1
INVARIANTS
  TypeOK
  ReadyIsVerified
  RowsHaveObjects
  SavedIsExecuted
  TargetMatchesBackup
  StagesRunThrough
CHECK_DEADLOCK FALSE
