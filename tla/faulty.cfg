SPECIFICATION Spec
CONSTANTS
  Texts <- MCTexts
  NumberTexts <- MCNumberTexts
  Sources <- FaultyFiles
  FieldsSize = 5
  U8 = 3
  U32 = 65536
  FlagTexts <- MCFlagTexts
INVARIANTS
  PassesAgree
  OffsetsAreFilePositions
  GlobalsAsDirected
PROPERTIES
  Terminates
CHECK_DEADLOCK FALSE
