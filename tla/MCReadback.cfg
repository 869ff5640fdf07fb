SPECIFICATION Spec
CONSTANTS
  MismatchStrikes = 3
  BlindStrikes = 2
  VerifyStrikes = 2
  SuppressTicks = 3
  StickSamples = 3
  StrictSamples = 2
INVARIANTS TroubleIsFlagged ReleasedCpuHasNoLimit NoOrphanFlag
PROPERTIES QuietScoresNothing
