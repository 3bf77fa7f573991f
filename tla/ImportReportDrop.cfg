SPECIFICATION Spec
CONSTANTS
  Parts <- MCParts
  Files <- MCDocuments
  Collections <- MCCollections
  Strings <- MCStrings
  Settings <- MCSettings
  Keys <- MCKeys
  None = None
  Unplugged <- MCUnplugged
  Migrating = {"v2"}
  LoadedTypes <- MCLoadedTypes
  MaxRequests = 2
INVARIANTS
  NoEntryDrops
CHECK_DEADLOCK FALSE
