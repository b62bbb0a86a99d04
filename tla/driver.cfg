SPECIFICATION Spec
CONSTANTS
  Files <- MCFiles
  Paths <- MCPaths
  FileAt <- MCFileAt
  Texts <- MCTexts
  BadLabels = {"bad label"}
  BadLines = {"bad line"}
  CommandLines <- MCCommandLines
  ImageSize = 2
INVARIANTS
  ClosedOnce
  OperandsBeforeArguments
  SourceKept
  ExitTells
PROPERTIES
  DeliversOrRefuses
  Ends
CHECK_DEADLOCK FALSE
