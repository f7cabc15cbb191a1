SPECIFICATION Spec
CONSTANTS
  Procs = {p1}
  Jobs = {j1}
  MaxRetries = 1
  Interval = 1
  MaxClock = 1
  MaxSaves = 4
INVARIANTS
  RetriesSurviveCrash
