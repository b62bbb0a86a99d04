SPECIFICATION Spec
CONSTANTS
  Lines <- MCLines
INVARIANTS
  MeansItsLine
  PatternsAccepted
CHECK_DEADLOCK FALSE
