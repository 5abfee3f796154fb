CONSTANTS
  sure = sure
  junk = junk
  api = api
  Entry <- MCEntry
  NoEntry = NoEntry
  Confident <- MCConfident
  Worthless <- MCWorthless
  Api <- MCApi
  Learner = Learner
  Promote = 1
  Streak = 2
  Attempts = 2
  MaxPending = 2
  TopicCap = 1
  MaxCalls = 2
  MaxCrashes = 1
SPECIFICATION FairSpec
INVARIANTS Accounted Earned
PROPERTIES NoReturn Settled
\* The calls are bounded: when they are used up nothing is left to do.
CHECK_DEADLOCK FALSE
