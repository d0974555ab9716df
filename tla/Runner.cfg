SPECIFICATION RunnerSpec
CONSTANTS
  MaxCalls = 3
  CallLists <- MCCallLists
  Texts = {"a", "b"}
  MaxInline = 2
  MaxTopLevel = 1
INVARIANTS
  RunnerTypeOK
  DefinedMeansReturned
  OneMacroPerStatement
CHECK_DEADLOCK FALSE
