SPECIFICATION FairSpec
CONSTANTS
  Clients = {c1, c2}
  None = None
  MaxBoots = 2
INVARIANTS
  StateFileTruthful
  CleanExit
PROPERTIES
  BrowserCallsReturn
  StopIsHonoured
CHECK_DEADLOCK FALSE
