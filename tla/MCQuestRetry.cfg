SPECIFICATION Spec
CONSTANTS
  MaxCalls = 2
  MaxOpen = 2
  Scenarios <- MCRetry
  PrepareErrors = {}
  TTL = 1
  MaxTime = 0
  Faults = {"gone"}
INVARIANTS
  OneQuestPerKey
CHECK_DEADLOCK FALSE
