CONSTANTS
  a = a
  MaxClients = 3
  Dedicated = FALSE
  NumSockets = 4
  Attempt <- MCOneAttempt
  MaxReps = 1
  Settings <- MCBadMap
SPECIFICATION Spec
PROPERTIES MapKicksEverybody
