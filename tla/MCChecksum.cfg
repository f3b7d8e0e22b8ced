SPECIFICATION Spec
CONSTANTS
  Words <- MCWords
  Nowhere = 0
  MaxEdits = 3
INVARIANTS
  TwoFoldsAreEnough
PROPERTIES
  RecomputedVerifies
CHECK_DEADLOCK FALSE
