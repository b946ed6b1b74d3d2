SPECIFICATION Spec
CONSTANTS
  Messages = {m1, m2}
  Arrival = m1
  l1 = l1
  Labels = {l1}
  Definitions <- TwoDefinitions
  Requests = {p1, p2, p3}
  Never = Never
  ByUser = ByUser
  PreviewLimit = 2
  MaxRevision = 2
  MaxEdits = 1
  MaxFaults = 1
SYMMETRY Symmetry
INVARIANTS
  TypeOK
  AppliedWasReviewed
  CompletedCovers
  UndoRestores
PROPERTY UserLabelsStay
CHECK_DEADLOCK FALSE
