SPECIFICATION HarnessSpec
CONSTANTS
  TestCount <- MCTestCount
  Settings <- MCSettings
  Kinds <- MCKinds
  Jobs <- MCJobs
INVARIANTS
  HarnessTypeOK
  EveryChildIsAwaited
  PassesDoNotOverlap
  VerdictIsSound
PROPERTY Ends
CHECK_DEADLOCK FALSE
