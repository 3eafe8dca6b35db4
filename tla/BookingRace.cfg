SPECIFICATION FairSpec
CONSTANTS
  MaxSlots = 3
  Faults = {"cancel", "blocked", "store", "crash", "lost"}
INVARIANTS
  BookedIsReal
  NoConfirmationLost
PROPERTIES
  NoPostAfterReturn
  NoBookingAfterWin
  FollowsSnipe
  RaceEnds
CHECK_DEADLOCK FALSE
