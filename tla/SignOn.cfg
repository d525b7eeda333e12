CONSTANT
  Settings <- MCSettings
SPECIFICATION FairSpec
INVARIANTS TypeOK NoFailure SpawnedIsSignedOn
PROPERTIES Arrives
CHECK_DEADLOCK FALSE
