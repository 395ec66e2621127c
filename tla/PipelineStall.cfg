SPECIFICATION Spec
CONSTANTS
  ModuleList <- ChainList
  Type <- ChainType
  Routes <- ChainRoutes
  FlowControl <- ChainFlow
  ExecDrops = {}
  Limit = 2
  Batch = 2
  MaxCount = 4
INVARIANT SuspendedOnlyIfFull
CHECK_DEADLOCK FALSE
