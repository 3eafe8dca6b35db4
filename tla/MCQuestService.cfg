SPECIFICATION Spec
CONSTANTS
  MaxCalls = 3
  MaxOpen = 2
  Scenarios <- MCScenarios
  PrepareErrors = {"upstream"}
  TTL = 1
  MaxTime = 1
  Faults = {"gone", "crash", "store"}
INVARIANTS
  AnswerIsReal
  CanceledByOwner
  RetryIsReplayed
  KeyReuseRefused
CHECK_DEADLOCK FALSE
