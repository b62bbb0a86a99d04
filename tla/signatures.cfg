SPECIFICATION Spec
CONSTANTS
  Lines <- MCLines
INVARIANTS
  TypeOK
  SelectionIsExact
  OneRowFits
  OperandsInPlace
  OpcodesAgree
  OptionsComplete
CHECK_DEADLOCK FALSE
