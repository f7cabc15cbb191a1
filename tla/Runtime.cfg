SPECIFICATION FairBoth
CONSTANTS
  Procs = {p1}
  Jobs = {j1, j2}
  MaxRetries = 1
  Interval = 1
  MaxClock = 1
  MaxSaves = 5
  ActiveTools <- TwoTools
  Registries <- TwoRegistries
  Limits = {NoLimit, 0, 3}
  NoLimit = NoLimit
  MaxPlanned = 2
  MaxRuns = 2
  MaxCalls = 1
INVARIANTS
  LatestIsLastSaved
  RuntimeSound
PROPERTIES
  ImplementsLifecycle
  EveryRunEnds
CHECK_DEADLOCK FALSE
