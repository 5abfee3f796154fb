CONSTANTS
  t1 = t1
  t2 = t2
  Topic <- MCTopic
  Goal <- MCGoal
  NoDir = NoDir
  Fails = 2
  QSkips = 1
  Stall = 1
  Enough = 1
  Few = 2
  Cap = 2
  Keep = 1
  MaxActive = 2
  RowByRow = {"cortex"}
  MaxRestarts = 1
  MaxElsewhere = 1
  MaxOverlap = 1
SPECIFICATION FairSpec
INVARIANTS FreezeEarned PausesSaved
PROPERTIES FrozenStays Retested
\* Paused directions may have nothing to wait for but other topics.
CHECK_DEADLOCK FALSE
