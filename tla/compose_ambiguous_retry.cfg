SPECIFICATION ComposeSpec
CONSTANTS
  Requests = {r1, r2}
  NoMessage = NoMessage
  MaxFaults = 1
INVARIANT RetrySafe
CHECK_DEADLOCK FALSE
