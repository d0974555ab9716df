SPECIFICATION PipelineSpec
CONSTANTS
  Files <- BlockFiles
  Pre <- MCPre
  Post <- MCPost
  PreLen <- MCPreLen
  PostLen <- MCPostLen
  Invocations <- MCInvocations
  Texts = {"a", "b"}
  MaxInline = 1
  MaxTopLevel = 2
PROPERTY KeepsPromise
CHECK_DEADLOCK FALSE
