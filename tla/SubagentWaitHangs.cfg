SPECIFICATION FairSpec
CONSTANTS
  Requested = 1
  MaxTasks = 1
  Concurrency = 1
  Stoppers = {}
  MaxOutput = 1
PROPERTIES
  WaitReturns
CHECK_DEADLOCK FALSE
