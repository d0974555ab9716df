SPECIFICATION PipelineSpec
CONSTANTS
  Files <- SkippedFiles
  Pre <- MCPre
  Post <- MCPost
  PreLen <- MCPreLen
  PostLen <- MCPostLen
  Invocations <- MCInvocations
  Texts = {"a", "b"}
  MaxInline = 1
  MaxTopLevel = 0
INVARIANT MacrosReplaceBlocks
CHECK_DEADLOCK FALSE
