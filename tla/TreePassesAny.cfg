SPECIFICATION Spec
CONSTANTS
  Files <- AnyFiles
  Pre <- MCPre
  Post <- MCPost
  PreLen <- MCPreLen
  PostLen <- MCPostLen
  Invocations <- MCInvocations
INVARIANTS
  TypeOK
  PlaceholdersResolve
  SnippetsInvert
  NoDependentLeft
  IndependentCodeSurvives
  KeptInOrder
CHECK_DEADLOCK FALSE
