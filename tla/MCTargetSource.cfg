SPECIFICATION FairSourceSpec
CONSTANTS
  Keys <- MCKeys
  TreadOf <- MCTreadOf
  Top = 3
  HeldStep = 1
  GateT = 3
  DebounceN = 2
  StuckT = 2
  RecoverN = 2
INVARIANT
  SourceTypeOK
PROPERTIES
  CurveIsEarned
  JumpsAreAnnounced
  CurveIsReached
