SPECIFICATION PatternDbSpec
CONSTANTS
  PdElements = 7
  PdRecords = 2
INVARIANT AllFieldsMatched
CHECK_DEADLOCK FALSE
