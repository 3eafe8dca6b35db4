SPECIFICATION Spec
CONSTANTS
  Calls = {1, 2}
  Scenarios <- MCScenarios
  Catalogue <- MCCatalogue
  Midnight <- MCMidnight
  ProbeLead = 1
  ProbeWidth = 3
  SlotStep = 30
  Second = 2
  TTL = 1
  RequestTime = 1
  IdemTTL = 2
  MaxNow = 3
  MaxChanges = 1
  Faults = {"upstream", "store"}
INVARIANTS
  HashPinsPlan
  VenueRecent
  AcceptedWindowOpen
  SlotsCoverWindow
CHECK_DEADLOCK FALSE
