CONSTANTS
  TripStreak = 2
  LostStreak = 3
  MaxHistory = 5
SPECIFICATION HistorySpec
INVARIANTS TripMatchesHistory
CHECK_DEADLOCK FALSE
