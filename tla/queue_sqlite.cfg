SPECIFICATION FairSpec
CONSTANTS
  mini = mini
  pad = pad
  None = None
  Tasks = {1}
  Workers <- MCWorkers
  Caps <- MCCaps
  Bodies <- JustAgent
  Primary = mini
  PreferPrimary <- MCPrefer
  Backend = "sqlite"
  MaxConcurrent = 1
  Endpoints = 1
  MaxSends = 2
  MaxEpochs = 2
  MaxFaults = 1
  Reliable <- OnlyPad
PROPERTIES
  FollowsLedger
  HeldIsReleased
  PendingIsClaimed
  KeepsPolling
