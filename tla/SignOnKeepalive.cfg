CONSTANT
  Settings <- MCTalk
SPECIFICATION Spec
INVARIANTS SendsWhenItCan
CHECK_DEADLOCK FALSE
