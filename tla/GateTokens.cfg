CONSTANTS
  evolve = evolve
  c1 = c1
  c2 = c2
  NoItem = NoItem
  Item = {c1, c2}
  Target = {evolve}
  TargetOf <- OneTarget
  MaxDecisions = 2
  MaxRuns = 3
SPECIFICATION Spec
INVARIANTS PlainTokenOnce AppliedWereApproved ConsumedWasApplied
\* The runs of the gate are bounded.
CHECK_DEADLOCK FALSE
