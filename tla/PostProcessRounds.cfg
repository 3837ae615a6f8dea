\* Two packages, of which the second is completed; three tasks alive at a time.
SPECIFICATION RoundsFairSpec
CONSTANTS
  Packages = {1, 2}
  Tasks = {t1, t2, t3}
  Limits = {1, 2}
  MaxResets = 1
  Completing = {2}
CHECK_DEADLOCK FALSE
INVARIANTS
  SlotsNeverLeak
  NoOrphan
  OrderIsKept
PROPERTIES
  EveryOrderIsAnswered
