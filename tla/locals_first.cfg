SPECIFICATION Spec
CONSTANTS
  SymbolTables <- MCSymbolTables
  SourceNames = {".a", ".b"}
  Assembled <- MCAssembled
  MaxSymbols = 4
  U8 = 256
INVARIANTS
  LocalsFirst
CHECK_DEADLOCK FALSE
