CONSTANTS
  max_edicts = 3
  MaxCalls = 2
  MaxWalks = 1
  Assigned = {"not"}
  Relinks = FALSE
  Early = FALSE
  pr_functions <- MCFunctions
  Calls <- MCCalls
  Faulty = {"touch"}
  EntryPoints = {"think"}
  ClientDisconnect = "gone"
  GlobalValue = {0, 1}
  MAX_STACK_DEPTH = 4
  LOCALSTACK_SIZE = 4
  MaxStatements = 5
  MaxPlayers = 1
  NET_MAXMESSAGE = 40
  CommandSize <- MCCommandSize
  Scripts <- MCScripts
  MaxScripts = 4
  MaxLevel = 3
  MaxMoves = 2
  MaxMessages = 40
  NumKeys = 2
  TypingKeys = {1}
  FunctionKeys = {2}
  Bindings <- MCBindings
  MaxText = 2
  MaxOdd = 1
  LagSlots = 3
  Lags = {0, 1, 2}
  MaxMade = 4
  MaxLagHead = 5
  Overruns = FALSE
SPECIFICATION PlaySpec
INVARIANTS WorldIsWhole WalkStaysInList PlayTypeOK LocalIsWhole NothingFails ButtonsFollowKeys
PROPERTIES ProgramsEnd ImplementsActivations GameArrives ImplementsReliableChannel ImplementsDelayLine
CHECK_DEADLOCK FALSE
