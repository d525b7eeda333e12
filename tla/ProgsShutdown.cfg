CONSTANTS
  pr_functions <- MCFunctions
  Calls <- MCCallsPlain
  Faulty = {}
  EntryPoints = {"think"}
  ClientDisconnect = "gone"
  GlobalValue = {0}
  MAX_STACK_DEPTH = 4
  LOCALSTACK_SIZE = 5
  MaxStatements = 6
  MaxPlayers = 1
SPECIFICATION ProgsSpec
INVARIANTS ShutdownFunctionsRun
CHECK_DEADLOCK FALSE
