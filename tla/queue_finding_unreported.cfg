SPECIFICATION Spec
CONSTANTS
  mini = mini
  pad = pad
  None = None
  Tasks = {1}
  Workers <- OnlyPad
  Caps <- MCCaps
  Bodies <- JustAgent
  Primary = mini
  PreferPrimary <- MCPrefer
  Backend = "rqlite"
  MaxConcurrent = 1
  Endpoints = 1
  MaxSends = 1
  MaxEpochs = 2
  MaxFaults = 2
  Reliable = {}
INVARIANT UnreportedNeverDropped
