SPECIFICATION Spec
CONSTANTS
  SettleT = 3
  FitT = 3
  WindowT = 1
  MaxGap = 1
  CheckT = 2
  Tries = 1
  HotStreak = 2
  CpuMax = 3
  GpuMax = 2
  AutoPairs <- MCPairs
  Gaps <- MCGaps
  Faults <- AllFaults
PROPERTY BaselineIsEntry
CHECK_DEADLOCK FALSE
