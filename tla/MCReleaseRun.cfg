SPECIFICATION RelFairSpec
CONSTANTS
  MaxSlots = 1
  Faults = {"cancel", "blocked", "store", "crash", "lost"}
  Releases <- MCReleases
  PollFloor = 2
  MaxTime = 5
  MaxCalls = 2
INVARIANTS
  NoCallbackAfterReturn
  NeverEarly
  MemoryIsRow
  NilMeansFired
PROPERTIES
  PollsSpaced
  RunEnds
CHECK_DEADLOCK FALSE
