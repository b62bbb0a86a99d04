SPECIFICATION Spec
CONSTANTS
  SymbolTables <- MCSymbolTables
  SourceNames = {".a", ".b"}
  Assembled <- MCAssembled
  MaxSymbols = 6
  U8 = 256
INVARIANTS
  SortTypeOK
  RelocationsFollow
  NoSymbolLost
  StartLast
  HeadersMatchFile
  LinksResolve
  LocalsBelowInfo
PROPERTIES
  SortTerminates
CHECK_DEADLOCK FALSE
