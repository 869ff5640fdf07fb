CONSTANTS
  MayHang <- Hardware
  MayPanic <- Threads
  MayFail <- Releases
  MaxOwed = 1
  TogglesIgnored = FALSE
  UserProfile = "balanced"
  JoinBudget = 6
  MaxInbox = 1
  MaxSamples = 1
SPECIFICATION FairSpec
INVARIANTS JoinedLeavesWhatFailed JoinCoversTheWork
PROPERTIES RestoredLeavesWhatFailed LeavesEventually
CHECK_DEADLOCK FALSE
