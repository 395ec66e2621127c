SPECIFICATION Spec
CONSTANTS
  MaxRecords = 4
  QueueLimit = 2
  MaxFaults = 2
  MaxRuns = 2
INVARIANTS TypeOK ExactlyOnce MissingExplained
PROPERTIES ComesUp
CHECK_DEADLOCK FALSE
