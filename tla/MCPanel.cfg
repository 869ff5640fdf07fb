SPECIFICATION FairSpec
CONSTANTS
  CapTop = 2
  Seed = 1
  FloorTop = 1
  MaxQueue = 2
INVARIANTS
  CopiesAgree
PROPERTY
  TripsAreShown
