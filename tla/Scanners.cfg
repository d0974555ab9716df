SPECIFICATION ScanSpec
CONSTANTS
  SpanTexts <- MCSpanTexts
  TrimTexts <- MCTrimTexts
INVARIANTS
  ScanTypeOK
  SpanIsClosed
  StatementIsBlock
CHECK_DEADLOCK FALSE
