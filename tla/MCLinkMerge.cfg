SPECIFICATION MergeSpec
CONSTANTS
  Bad = Bad
  Names <- LinkNames
  UnitSeqs <- MCUnitSeqs
  Unreadable <- Bad
INVARIANTS
  MergeTypeOK
  GlobalsUnique
  ContentsKept
  SymbolsResolve
  RelocsKept
PROPERTIES
  DefinitionsStable
CHECK_DEADLOCK FALSE
