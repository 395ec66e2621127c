SPECIFICATION Spec
CONSTANTS
  ModuleList <- FanoutList
  Type <- FanoutType
  Routes <- FanoutRoutes
  FlowControl <- FanoutFlow
  ExecDrops = {}
  Limit = 2
  Batch = 2
  MaxCount = 9
INVARIANTS TypeOK Notified ReadPointerValid SuspendedOnlyIfFull OvershootBounded
PROPERTY AllDelivered
CHECK_DEADLOCK FALSE
