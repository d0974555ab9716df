SPECIFICATION Spec
CONSTANTS
  Files <- AdjacentFiles
  Pre <- MCPre
  Post <- MCPost
  PreLen <- MCPreLen
  PostLen <- MCPostLen
  Invocations <- MCInvocations
INVARIANTS
  SafeSourceAssertHolds
CHECK_DEADLOCK FALSE
