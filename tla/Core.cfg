SPECIFICATION CoreSpec
CONSTANTS
  PostedTypes <- SmallPosted
  Data = {"NULL", "sock"}
  HasQueue = TRUE
  MaxEvents = 4
  PlMaxEvents = 3
  PlMaxPosters = 2
  RtInputs = {"i"}
  RtProcessors = {"p"}
  RtOutputs = {"o"}
  RtBroken = {"b"}
  RtMaxRoutes = 2
  RtMaxPath = 3
  CpLines = 5
  CpDepth = 2
  CpIncludes = 1
  CfLines = 3
  LdBlocks = 2
  PfInstances = 2
  PfTries = 1
  PfStarts = 2
  PfTools = 1
  PfFaults = 1
  ExDepth = 3
  RxLength = 3
  RxOps = 2
  RxLimit = 4
  StInterval = 2
  StAmounts = {1, 3}
  StMaxTime = 5
  StObjects = 2
  StMaxAdded = 5
  ScMinute = 2
  ScHour = 4
  ScDay = 2
  ScWeek = 2
  ScMonth = 2
  ScYear = 2
  ScMaxTime = 18
  ScStops = 2
  CsFields = 2
  CsLength = 2
  CsText = 4
  MlLines = 3
  MlFlushes = 1
  RcNames = {"raw_event", "a", "b"}
  RcLen = 2
  RcOps = 4
INVARIANTS CoreTypes EventListSound PollSound SetUpSound LanguageSound TimersSound
CHECK_DEADLOCK FALSE
