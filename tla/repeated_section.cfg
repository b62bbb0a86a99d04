SPECIFICATION Spec
CONSTANTS
  Texts <- MCTexts
  NumberTexts <- MCNumberTexts
  Sources <- RepeatedSectionFiles
  FieldsSize = 10
  U8 = 256
  U32 = 65536
  FlagTexts <- MCFlagTexts
INVARIANTS
  SectionIndexNamesHeader
CHECK_DEADLOCK FALSE
