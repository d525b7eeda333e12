CONSTANTS
  m1 = m1
  m2 = m2
  s1 = s1
  Model <- MCModel
  Sound <- MCSound
  Size <- MCSize
  ScratchSizes <- MCScratchSizes
  HunkSize = 16
  HunkLevel = 1
  ClearModels = FALSE
  ZoneSize = 13
  MINFRAGMENT = 1
  Allocsize <- MCAllocsize
  MaxText = 7
  Command <- MCCommand
  Meaning <- MCMeaning
  Content <- MCContent
  AliasName <- MCAliasName
  Given <- MCGiven
  KeysSplit = FALSE
  SendPeriod = 3
  SendUntil = 2
  PollPeriod = 1
  PollUntil = 6
  QueryPeriod = 1
  MaxPolls = 2
  MaxFrame = 1
  iplog_size = 4
  Entry <- MCEntry
  MAX_REPITITION = 2
  Imports <- MCImports
  NumQSockets = 2
SPECIFICATION HostSpec
INVARIANTS HostTypeOK HunkIsWhole ZoneTypeOK ZoneIsWhole PollListIsWhole IPLogIsWhole SessionIsWhole
PROPERTIES ImplementsHeap ImplementsScript CallsReturn ImplementsAddressBook
CHECK_DEADLOCK FALSE
