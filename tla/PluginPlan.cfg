SPECIFICATION LaunchSpec
CONSTANTS
  Names = {a, b, u}
  Portable = {a, b}
  Types = {t1, t2}
  PortableTypes = {t1}
  MaxModules = 3
  Refs = {a, b}
  Texts <- MCTexts
  MaxTokens = 42
  MaxDepth = 3
  a = a
  b = b
INVARIANTS
  BootFollowsManifest
  AcceptedAsMeant
  RefusedForCause
  OnlyFirstCopyOpens
  CreditedToOwner
  NothingDropped
CHECK_DEADLOCK FALSE
