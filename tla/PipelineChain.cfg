SPECIFICATION Spec
CONSTANTS
  ModuleList <- ChainList
  Type <- ChainType
  Routes <- ChainRoutes
  FlowControl <- ChainFlow
  ExecDrops = {"in", "proc"}
  Limit = 2
  Batch = 2
  MaxCount = 3
INVARIANTS NothingLost PeekedStaysFirst
CHECK_DEADLOCK FALSE
