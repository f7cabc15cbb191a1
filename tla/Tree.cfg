SPECIFICATION SpecBoth
CONSTANTS
  Sessions = {s1, s2}
  Handles = {p1, p2}
  MaxAlone = 4
  MaxShared = 3
  MaxLost = 1
  Clients = {p1, p2}
  LenBase = 11
  MaxFrame = 95
  MaxDepth = 6
  MaxItems = 8
  MaxCommands = 3
  MaxSends = 2
  Pieces = {3}
SYMMETRY Symmetry
INVARIANTS
  TreeSound
  Remote
CHECK_DEADLOCK FALSE
