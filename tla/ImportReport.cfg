SPECIFICATION Spec
CONSTANTS
  Parts <- MCParts
  Files <- MCDocuments
  Collections <- MCCollections
  Strings <- MCStrings
  Settings <- MCSettings
  Keys <- MCKeys
  None = None
  Unplugged <- MCUnplugged
  Migrating = {"v2"}
  LoadedTypes <- MCLoadedTypes
  MaxRequests = 2
INVARIANTS
  TypeOK
  WalkFaithful
  EveryEntryAccounted
  
  ImportDefersPrompts
CHECK_DEADLOCK FALSE
