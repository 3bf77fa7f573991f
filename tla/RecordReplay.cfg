SPECIFICATION Spec
CONSTANTS
  RecordIds = {r1, r2}
  ReplayIds = {b1}
  Destinations = {d1, d2}
  None = None
  MaxSaves = 2
  Base = 2
  Plain = 2
  LongDigits = 3
  MaskSize = 2
  Header = Header
  SizesOf <- MCSizesOf
  FirstBytesOf <- MCFirstBytesOf
  MaxSessions = 2
  MaxFrames = 2
  ProbedSessions = 0
SYMMETRY Symmetry
INVARIANTS
  TypeOK
  FilesMatchSessions
  AnnouncedAreWhole
PROPERTIES
  ImplementsCalls
