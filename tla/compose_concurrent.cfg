SPECIFICATION ComposeSpec
CONSTANTS
  Requests = {r1, r2, r3}
  NoMessage = NoMessage
  MaxFaults = 2
SYMMETRY Symmetry
INVARIANTS
  MessageHasObjects
  LosersLeaveNothing
  AnsweredIsPublished
PROPERTY KeepsKeyContract
CHECK_DEADLOCK FALSE
