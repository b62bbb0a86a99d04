SPECIFICATION Spec
CONSTANTS
  Texts <- MCTexts
  TokenSize = 5
  FieldsSize = 3
  U8 = 32
INVARIANTS
  TokensOfText
  StaysInBuffer
  PassesReadAlike
PROPERTIES
  ReadsToEnd
CHECK_DEADLOCK FALSE
