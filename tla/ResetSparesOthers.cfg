CONSTANTS
  i1 = i1  i2 = i2  None = None
  Items = {i1, i2}
  Paths = {0, 1, 2, 3}
  MaxCalls = 2
  MaxTrouble = 1
SPECIFICATION Spec
PROPERTY ResetSparesOthers
CHECK_DEADLOCK FALSE
