SPECIFICATION AnySpec
CONSTANTS
  Parts = {"failover"}
  Runs <- ThreeRuns
  Requests <- SecretRequests
  OpusCap = 1
  MaxLimits = 3
  Room = 5
  Lengths = {2}
  Verdicts = {"all"}
  MaxVersions = 2
  MaxTasks = 3
  MaxRows = 2
  MaxFaults = 1
  Asks <- TwoAsks
  Results = {11, 12}
  Ends = {21}
  Procs = {"mcp"}
  Turns = 3
  Order <- TwoVariants
  Repeats = 3
  Outcomes <- OneThingWrong
  None = None
INVARIANT SecretsStayPrivate
CHECK_DEADLOCK FALSE
