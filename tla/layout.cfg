SPECIFICATION Spec
CONSTANTS
  Texts <- MCTexts
  NumberTexts <- MCNumberTexts
  Sources <- AcceptedFiles
  FieldsSize = 10
  U8 = 256
  U32 = 65536
  FlagTexts <- MCFlagTexts
INVARIANTS
  TypeOK
  LabelsWhereDeclared
  SectionsInOrder
  ReferencesResolve
PROPERTIES
  RelocationsGoLast
CHECK_DEADLOCK FALSE
