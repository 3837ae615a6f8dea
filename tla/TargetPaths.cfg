CONSTANTS
  i1 = i1  i2 = i2  None = None
  Items = {i1, i2}
  Paths = {0, 1, 2, 3}
  MaxCalls = 3
  MaxTrouble = 2
SYMMETRY Symmetry
SPECIFICATION Spec
INVARIANT OneWriter
PROPERTIES CancelTakesFile FinishedFileIsKept
CHECK_DEADLOCK FALSE
