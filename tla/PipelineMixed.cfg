SPECIFICATION Spec
CONSTANTS
  ModuleList <- MergeList
  Type <- MergeType
  Routes <- MergeRoutes
  FlowControl <- MergeMixed
  ExecDrops = {}
  Limit = 3
  Batch = 1
  MaxCount = 3
INVARIANTS NothingLost OvershootBounded
CHECK_DEADLOCK FALSE
