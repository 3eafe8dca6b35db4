SPECIFICATION FairSpec
CONSTANTS
  MaxSlots = 2
  Faults = {"cancel", "blocked", "crash", "lost"}
  Releases <- MCReleases
  PollFloor = 1
  MaxTime = 2
  MaxCalls = 1
  MaxInvocations = 2
INVARIANTS
  ReportedIsReal
  ConfirmationReported
  NoEarlyPost
PROPERTIES
  ImplementsSnipe
  InvocationEnds
CHECK_DEADLOCK FALSE
