CONSTANT
  Settings <- MCEarly
SPECIFICATION Spec
INVARIANTS NoSignonError
CHECK_DEADLOCK FALSE
