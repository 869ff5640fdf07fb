SPECIFICATION CpuSpec
CONSTANTS
  Caps = {15, 20, 30, 45, 54}
  Stock = 54
  Faults = {"failedWrite", "ignoredWrite", "blindRead", "fastLost", "failedToggle", "ignoredToggle"}
INVARIANTS VerifiedIsInForce RecordedIsRemembered
PROPERTIES RestoreTakesOff
