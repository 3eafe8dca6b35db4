SPECIFICATION Spec
CONSTANTS
  Conns = {1, 2}
  Slow = {2}
  Scripts <- MCScripts
  LiveBuf = 1
  Faults = {"gone", "store", "stop"}
INVARIANTS
  ReplayLiveDisjoint
  NoEventLost
  NilMeansEnded
PROPERTIES
  StreamEnds
CHECK_DEADLOCK FALSE
