CONSTANTS
  Locks = {1, 2, 3}
  Top = 4
  Strikes = 2
  MismatchStrikes = 3
  Backlog = 1
  Troubles = 1
SPECIFICATION Spec
INVARIANTS ObedientKeepsItsLock IgnoringIsCaught
