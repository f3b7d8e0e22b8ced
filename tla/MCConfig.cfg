SPECIFICATION Spec
CONSTANTS
  Files <- MCFiles
  Numbers <- MCNumbers
INVARIANTS
  TypeOK
  ReadsTheSettings
CHECK_DEADLOCK FALSE
