CONSTANTS
  m1 = m1
  m2 = m2
  m3 = m3
  m4 = m4
  Loop <- MCLoop
  NoLoop = NoLoop
  MaxCommands = 3
  MaxCrashes = 2
  MaxKills = 1
  FlapLimit = 3
SPECIFICATION WorkerFairSpec
INVARIANTS OneLoop
PROPERTIES Revived AllStop StopHolds CommandAcked
