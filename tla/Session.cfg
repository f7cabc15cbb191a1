SPECIFICATION FairBoth
CONSTANTS
  Models = {m1, m2}
  MaxTurns = 3
  MaxMessages = 3
  MaxCalls = 2
  MaxPrompts = 2
  MaxSteers = 2
  Width = 3
  ShortLine = 2
  LongLine = 4
  MenuRows = 2
  MaxText = 2
  MaxPrints = 3
  MaxLines = 2
  LineKinds = {"empty", "command", "ask", "pick", "prompt"}
INVARIANTS
  SessionConsistent
  SteersOnceInOrder
  StopWithinOneRound
  BoxLeavesNoTrace
PROPERTIES
  NobodyWaitsForever
