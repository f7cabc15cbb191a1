SPECIFICATION SpecH
CONSTANTS
  Models = {m1}
  MaxTurns = 2
  MaxMessages = 3
  MaxCalls = 1
  MaxPrompts = 2
  MaxSteers = 0
INVARIANTS
  StopAbortsThePromptInFlight
