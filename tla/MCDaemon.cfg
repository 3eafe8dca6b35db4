SPECIFICATION Spec
CONSTANTS
  Procs = {1, 2, 3}
  Scenarios <- MCScenarios
  Accounts = {1, 2}
  Bound = {1}
  MaxLogins = 2
  Quiet = TRUE
  Mistakes = {1, 3}
  Faults = {"crash", "store", "unlock"}
INVARIANTS
  RowsOpen
  OneOwner
PROPERTIES
  ClearedOnlyWhenSealed
  ShutdownEnds
CHECK_DEADLOCK FALSE
