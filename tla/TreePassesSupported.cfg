SPECIFICATION Spec
CONSTANTS
  Files <- SupportedFiles
  Pre <- MCPre
  Post <- MCPost
  PreLen <- MCPreLen
  PostLen <- MCPostLen
  Invocations <- MCInvocations
INVARIANTS
  StatementsFollowText
  NoDirectiveLeft
  ApartFilesFinish
  RunnerLinks
CHECK_DEADLOCK FALSE
