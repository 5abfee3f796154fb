CONSTANTS
  DefaultCap = 5
  MinCap = 4
  Ceiling = 2
  Rate <- Rates
  NoRate <- NothingShown
  MaxTime = 4
  MaxRestarts = 1
  MaxTools = 1
SPECIFICATION FairSpec
INVARIANTS OneExperiment CooldownKept CapFollowsLog
PROPERTIES ExperimentsEnd
\* Time is bounded: at its end no tick has anything to do.
CHECK_DEADLOCK FALSE
