CONSTANTS
  api = api
  learner = learner
  a1 = a1
  a2 = a2
  l1 = l1
  l2 = l2
  None = None
  Process = {api, learner}
  Thread = {a1, a2, l1, l2}
  Home <- HomeTwoTwo
  NestedWriters = {l2}
  FlockMayFail = TRUE
SPECIFICATION Spec
INVARIANTS ThreadExclusion
\* A writer that enters the guard twice never comes back, and stops the others.
CHECK_DEADLOCK FALSE
