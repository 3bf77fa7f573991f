SPECIFICATION FairSpec
CONSTANTS
  Modules = {m1, m2}
  None = None
  MaxSuspects = 2
  MaxEntries = 3
  MaxBoots = 4
  EnvFaults = {"probe", "loading", "idle", "deadline", "kill", "late"}
INVARIANTS
  CrashesBounded
  Attribution
  WatchdogExclusive
PROPERTIES
  ImplementsContainment
  LoadPhaseEnds
CHECK_DEADLOCK FALSE
