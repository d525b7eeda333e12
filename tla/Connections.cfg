CONSTANTS
  a = a
  MaxClients = 3
  Dedicated = FALSE
  NumSockets = 4
  Attempt <- MCOneAttempt
  MaxReps = 2
  Settings <- MCSettings
SPECIFICATION FairSpec
INVARIANTS TypeOK NoSysError CountMatches PoolIsWhole OneSocketWhenOrderly
PROPERTIES GhostsAreDropped
