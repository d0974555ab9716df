SPECIFICATION MacroSpec
CONSTANTS
  Tokens <- MCTokens
  Names <- MCNames
  Files <- MCFiles
INVARIANTS
  MacroTypeOK
  OnlyComptimeMacros
  KeptOnce
  ExpandsAsPreprocessor
CHECK_DEADLOCK FALSE
