SPECIFICATION Spec
CONSTANTS
  Modules = {m1, m2}
  None = None
  MaxSuspects = 2
  MaxEntries = 5
  MaxBoots = 4
  EnvFaults = {"late"}
INVARIANTS
  NoRestartLoop
CHECK_DEADLOCK FALSE
