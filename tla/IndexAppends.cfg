CONSTANTS
  api = api
  learner = learner
  a1 = a1
  a2 = a2
  l1 = l1
  i1 = i1
  i2 = i2
  i3 = i3
  python = python
  rust = rust
  None = None
  FlockMayFail = FALSE
  NestedWriters = {}
  Process = {api, learner}
  Thread = {a1, l1}
  Home <- HomeOneEach
  Id = {i1, i2, i3}
  Topic = {python, rust}
  TopicOf <- Topics
  Deleters = {}
  MaxCalls = 2
  MaxGc = 0
  MaxCrashes = 0
SPECIFICATION StoreFairSpec
INVARIANTS ProcessExclusion AppendKept CountsAgree
PROPERTIES AppendsAtomic AppendReturns
\* The calls are bounded: when they are used up nothing is left to do.
CHECK_DEADLOCK FALSE
