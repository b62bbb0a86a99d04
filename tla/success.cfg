SPECIFICATION Spec
CONSTANTS
  Files <- MCFiles
  Paths <- MCPaths
  FileAt <- MCFileAt
  Texts <- MCTexts
  BadLabels = {"bad label"}
  BadLines = {"bad line"}
  CommandLines <- MCCommandLines
  ImageSize = 2
INVARIANT
  SuccessDelivers
CHECK_DEADLOCK FALSE
