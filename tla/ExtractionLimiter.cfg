\* Four calls compete for at most two slots; 0 and 3 are outside the clamp.
CONSTANTS
  Tasks = {t1, t2, t3, t4}
  Ceiling = 2
  Requests = {0, 1, 3}
SPECIFICATION FairSpec
PROPERTIES
  PoolSpec
  EveryWaiterAnswered
