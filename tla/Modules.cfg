SPECIFICATION ModulesSpec
CONSTANTS
  FsRecords = 3
  FsOps = 2
  FsFaults = 2
  push_limit = 2
  BfMaxSize = 3
  BfLimit = 2
  BfRecords = 6
  BfRestarts = 2
  BfFaults = 2
  NrMessages = {"a", "b"}
  Bare = "bare"
  NrRecords = 6
  NrTimers = 3
  EvKeys = {"k"}
  Undef = "undef"
  interval = 2
  threshold = 2
  EvMaxTime = 4
  FieldTimes = {2, 4}
  EvRecords = 3
  PdElements = 7
  PdRecords = 2
  HtRecords = 2
  HtFaults = 4
  HtReqLen = 2
  HtLengths = {0, 2}
  SlRecords = 3
  SlConns = 2
  SlWindow = 1
  SlRenews = 1
  SlFails = 1
  DgRecords = 3
  DgBuffer = 1
  DgFaults = 3
  XeChildren = 3
  XeLines = 2
  XeRecords = 1
  XePatience = 1
  XeTurns = 4
  XeFaults = 1
  DbRows = 3
  DbLimit = 2
  DbFaults = 3
  FiNames = {"a", "b"}
  FiWatched = "a"
  None = "none"
  active_files = 1
  IM_FILE_MAX_READ = 2
  bufsize = 3
  FiLines = 2
  FiOps = 1
  CcFiles = {"f", "g"}
  CcBits = 2
  CcMaxPos = 2
  CcLives = 3
  CcOps = 3
INVARIANTS ModuleTypes ProcessorsSound FilesSound  
CHECK_DEADLOCK FALSE
