CONSTANTS
  max_edicts = 3
  MaxCalls = 1
  MaxWalks = 2
  Assigned = {"not"}
  Relinks = TRUE
  Early = TRUE
SPECIFICATION WorldSpec
INVARIANT WalkStaysInList
CHECK_DEADLOCK FALSE
