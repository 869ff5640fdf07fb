SPECIFICATION FairSpec
CONSTANTS
  SettleT = 3
  FitT = 2
  WindowT = 1
  MaxGap = 1
  CheckT = 2
  Tries = 1
  HotStreak = 2
  CpuMax = 2
  GpuMax = 2
  AutoPairs <- MCPairs
  Gaps <- MCGaps
  Faults <- AllFaults
INVARIANTS
  OneStepAtATime
PROPERTIES
  FitsMeasureTheirStep
  RunEnds
CHECK_DEADLOCK FALSE
