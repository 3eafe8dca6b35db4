SPECIFICATION Spec
CONSTANTS
  Calls = {1, 2, 3}
  Scenarios <- MCScenarios
  Users = {1, 2}
  Emails = {1}
  Tokens = {1, 2, 3}
  TouchInterval = 1
  MaxNow = 1
  Faults = {"crash", "store"}
INVARIANTS
  AuditTellsOutcome
PROPERTIES
  RevokedStaysDead
  AccountKeepsOwner
CHECK_DEADLOCK FALSE
