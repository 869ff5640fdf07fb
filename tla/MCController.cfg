CONSTANTS
  TripStreak = 2
  LostStreak = 2
SPECIFICATION Spec
INVARIANTS TypeOK LatchMatchesAlarm EmergencyHoldsReleased SessionShape
PROPERTIES NoRaiseWhileTripped FencedNeverRaises KeepsAuthority
CHECK_DEADLOCK FALSE
