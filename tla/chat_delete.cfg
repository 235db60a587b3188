\* The owner deletes a conversation while a reply is being written into it.
SPECIFICATION Spec
CHECK_DEADLOCK FALSE
CONSTANTS
  Sessions = {"a"}
  MaxRequests = 3
  MaxTurns = 2
  MaxSteps = 2
  Replies <- OneTool
  DisksFail = FALSE
INVARIANTS RemovedStaysRemoved
