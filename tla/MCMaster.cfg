SPECIFICATION Spec
CONSTANTS
  MaxSlots = 7
  MaxPid = 9
  Workers = 1
  Confs <- MCConfs
  ChanCap = 2
  KillLevel = 1
  Scenarios <- MCScenarios
INVARIANT Inv
INVARIANT KeepsServing
INVARIANT NoOrphans
INVARIANT ViewsAgree
PROPERTY BornListening
PROPERTY StopsEnd
CHECK_DEADLOCK FALSE
