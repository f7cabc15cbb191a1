SPECIFICATION FairBoth
CONSTANTS
  Procs = {p1, p2}
  Jobs = {j1}
  MaxRetries = 1
  Interval = 1
  MaxClock = 1
  MaxSaves = 4
  Requested = 2
  MaxTasks = 2
  Concurrency = 1
  Stoppers = {s1}
  MaxOutput = 1
INVARIANTS
  TableSound
  ChildrenAccounted
  DoneIsHonest
PROPERTIES
  OverStaysOver
  CommandsEnd
  FirstResultStays
  CallReturns
CHECK_DEADLOCK FALSE
