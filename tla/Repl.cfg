SPECIFICATION FairBoth
CONSTANTS
  Sessions = {s1, s2}
  MaxLines = 3
  MaxCalls = 2
  MaxStarts = 2
  TextSize = 3
  MaxEdits = 2
  Producers = {"openai", "kimi", "nvidia", "auto", "faux"}
  Chain = 2
  MaxSent = 3
INVARIANTS
  ReplSound
  LineHasOneFate
  FilesReplayable
  KillsComeBack
  AnswerArrives
PROPERTIES
  EofEndsLoop
CHECK_DEADLOCK FALSE
