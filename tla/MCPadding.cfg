SPECIFICATION Spec
CONSTANTS
  MaxHops <- MCMaxHops
  Contents <- MCContents
INVARIANTS
  TypeOK
  FitsTheMessage
  ContentArrives
CHECK_DEADLOCK FALSE
