CONSTANTS
  api = api
  learner = learner
  a1 = a1
  a2 = a2
  l1 = l1
  i1 = i1
  i2 = i2
  i3 = i3
  python = python
  rust = rust
  None = None
  FlockMayFail = FALSE
  NestedWriters = {}
  Process = {api, learner}
  Thread = {a1, l1}
  Home <- HomeOneEach
  Id = {i1, i2}
  Topic = {python}
  TopicOf <- TopicsTwo
  Deleters = {l1}
  MaxCalls = 1
  MaxGc = 1
  MaxCrashes = 1
SPECIFICATION StoreSpec
INVARIANTS NoOrphanedFlock CrashKeepsAppends
\* The calls are bounded: when they are used up nothing is left to do.
CHECK_DEADLOCK FALSE
