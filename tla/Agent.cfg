SPECIFICATION FairSpec
CONSTANTS
  SteeringMode = "one-at-a-time"
  FollowUpMode = "all"
  MaxCalls = 2
  MaxReplies = 1
  MaxRuns = 2
  MaxQueued = 2
INVARIANTS
  AgentSound
  QueuedDelivered
PROPERTIES
  RunEnds
CHECK_DEADLOCK FALSE
