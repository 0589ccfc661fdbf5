SPECIFICATION FairSpec
CONSTANTS
  v1 = v1 v2 = v2 v3 = v3
  Venues = {v1, v2, v3}
  Cleanable = {v1, v2} Strict = {v1, v2} RefVenues = {v1}
  CleanupAll = {v2}
  Guarded = {v1, v2} Neutralizing = {v1} Healing = {v1} Allowing = {v2}
  PlannedIterations <- FirstOnly
  WarmupCycles = 0 KeepCycles = 1
  Starts <- TogetherOrForever
  MaxRuns = 2 MaxIndex = 3 MaxCycles = 3
INVARIANTS MeasuredClean SharedBoundary StoredBeforeNext ReconcilesNewest
PROPERTY CycleEnds
CHECK_DEADLOCK FALSE
