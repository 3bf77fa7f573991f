SPECIFICATION Spec
CONSTANTS
  Collections = {c1, c2, c3}
  Backups = {c3}
  Bodies = {secret, hidden, broken}
  Secrets = {secret, hidden, broken}
  Visible = {secret}
  Malformed = {broken}
  Redacted = redacted
  Blank = blank
  Unreadable = {c2}
  None = None
  Torn = Torn
  MaxEdits = 2
  MaxKills = 1
  MaxLoads = 2
INVARIANTS
  NoSecretImported
  OneEditIsSeen
  ReportDescribesImport
PROPERTIES
  PriorKept
