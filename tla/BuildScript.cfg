SPECIFICATION BuildSpec
CONSTANTS
  CommandLines <- MCCommandLines
  None = None
  MaxEdits = 2
  MaxTime = 1
  MaxInterrupts = 1
  MaxInvocations = 2
INVARIANTS
  BuildTypeOK
  NobSurvives
  SelfFollowsSource
  BuildIsCurrent
  CleanThenBuildIsFresh
PROPERTY InvocationEnds
CHECK_DEADLOCK FALSE
