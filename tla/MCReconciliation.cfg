SPECIFICATION FairSpec
CONSTANTS
  SpeedPeriod = 2
  AllPeriod = 4
  SpeedStale = 5
  AllStale = 6
  PollMax = 2
  Prompt = 1
  Behind = 2
  SkipGap = 2
  Strikes = 2
  Widths = {2}
INVARIANTS
  StaleMeansFailure
PROPERTIES
  VerdictsTakeViews
  TrustReturns
  TrustEnds
  OldCurveGoesStale
