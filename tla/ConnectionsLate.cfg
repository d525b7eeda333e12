CONSTANTS
  a = a
  MaxClients = 3
  Dedicated = TRUE
  NumSockets = 3
  Attempt <- MCOneAttempt
  MaxReps = 2
  Settings <- MCLate
SPECIFICATION Spec
INVARIANTS OneSocketPerClient
