SPECIFICATION Spec
CONSTANTS
  MaxSlots = 2
  Faults = {"cancel"}
  Releases <- MCReleases
  PollFloor = 1
  MaxTime = 2
  MaxCalls = 1
  MaxInvocations = 1
INVARIANT NeverOrphaned
CHECK_DEADLOCK FALSE
