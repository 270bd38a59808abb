SPECIFICATION AnySpec
CONSTANTS
  Parts = {"failover", "story", "fleet", "experiment"}
  Runs <- ThreeRuns
  Requests <- MixedRequests
  OpusCap = 1
  MaxLimits = 2
  Room = 5
  Lengths = {2}
  Verdicts = {"all"}
  MaxVersions = 2
  MaxTasks = 1
  MaxRows = 2
  MaxFaults = 1
  Asks <- TwoAsks
  Results = {11}
  Ends = {21}
  Procs = {"mcp", "other"}
  Turns = 3
  Order <- TwoVariants
  Repeats = 3
  Outcomes <- OneThingWrong
  None = None
INVARIANTS
  PrivateStaysPrivate
  AskedInTurn
  CatchesUp
  OnlyApprovedRuns
  ClosedAfterARun
  AnswersStand
  SafeIsEarned
PROPERTIES
  ClosedStaysClosed
\* Every part may come to its end.
CHECK_DEADLOCK FALSE
