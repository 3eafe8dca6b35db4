SPECIFICATION Spec
CONSTANTS
  Calls = {1, 2}
  Scenarios <- MCScenarios
  Refusals <- MCRefusals
  Floor = 1
  MaxNow = 4
  Faults = {"lost", "cancel", "signer"}
INVARIANTS
  OneBookingPerKey
  RefusalMeansNotBooked
PROPERTIES
  RetryAfterFloor
  CallReturns
CHECK_DEADLOCK FALSE
