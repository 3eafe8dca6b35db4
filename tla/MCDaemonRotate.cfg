SPECIFICATION Spec
CONSTANTS
  Procs = {1, 2, 3}
  Scenarios <- MCScenarios
  Accounts = {1, 2}
  Bound = {1}
  MaxLogins = 2
  Quiet = FALSE
  Mistakes = {}
  Faults = {}
INVARIANTS
  NeverHalfRotated
CHECK_DEADLOCK FALSE
