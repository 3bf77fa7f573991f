SPECIFICATION FairSpec
CONSTANTS
  Ids = {i1, i2}
  Keys = {k1, k2}
  None = None
INVARIANTS
  IdleIsClean
  RunningHasSink
  NoStaleStop
PROPERTIES
  TruthfulEnd
  DeadSinkEnds
