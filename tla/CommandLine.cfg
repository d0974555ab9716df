SPECIFICATION CliSpec
CONSTANTS
  Vectors <- MCVectors
  Texts <- MCTexts
INVARIANTS
  OneRoleEach
  DropIn
  RunnersFirst
CHECK_DEADLOCK FALSE
