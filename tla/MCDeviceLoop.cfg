SPECIFICATION Spec
CONSTANTS
  Top = 2
  Floors <- MCFloors
  Draws <- MCDraws
  Rise = 1
  Fall = 2
  ShadowRise = 2
  ShadowFall = 1
  Headroom = 1
  HotHeadroom = 0
  PeriodT = 1
  DwellT = 1
  Down = 1
  Up = 1
INVARIANTS
  TypeOK
PROPERTIES
  RatchetBites
  HeldWhileMismatched
  HotTransferNeverRaises
  NoJump
