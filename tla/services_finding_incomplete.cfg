SPECIFICATION AnySpec
CONSTANTS
  Parts = {"story"}
  Runs <- ThreeRuns
  Requests <- MixedRequests
  OpusCap = 1
  MaxLimits = 2
  Room = 5
  Lengths = {2}
  Verdicts = {"all", "short"}
  MaxVersions = 1
  MaxTasks = 3
  MaxRows = 1
  MaxFaults = 0
  Asks <- TwoAsks
  Results = {11, 12}
  Ends = {21}
  Procs = {"mcp"}
  Turns = 3
  Order <- TwoVariants
  Repeats = 3
  Outcomes <- OneThingWrong
  None = None
INVARIANT IncompleteIsRefused
CHECK_DEADLOCK FALSE
