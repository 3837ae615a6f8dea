CONSTANTS
  d1 = d1  d2 = d2  p1 = p1  p2 = p2  p3 = p3  None = None
  Downloads = {d1, d2}
  Proxies = {p1, p2, p3}
  Connections = 2
  LimitOf <- MCLimitOf
  SegmentsOf <- MCSegmentsOf
  Bytes = 2
  ReadbackSlots = 1
  ProxyAttempts = 2
  MaxTrouble = 1
SYMMETRY Symmetry
SPECIFICATION Spec
INVARIANTS CompletedIsWhole
CHECK_DEADLOCK FALSE
