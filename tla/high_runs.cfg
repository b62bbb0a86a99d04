SPECIFICATION Spec
CONSTANTS
  Lines <- HighRuns
INVARIANTS
  PatternsHeld
CHECK_DEADLOCK FALSE
