SPECIFICATION Spec
CONSTANTS
  Width = 3
  ShortLine = 2
  LongLine = 4
  MenuRows = 2
  MaxText = 2
  MaxPrints = 3
  MaxLines = 2
  LineKinds = {"prompt"}
INVARIANT OutputStays
CHECK_DEADLOCK FALSE
