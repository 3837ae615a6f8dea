\* Two packages of one item each, one slot.
SPECIFICATION FairSpec
CONSTANTS
  a1 = a1
  a2 = a2
  b1 = b1
  A = A
  B = B
  Items <- ApartItems
  Packages <- ApartPackages
  PackageOf <- ApartPackageOf
  MaxParallel = 1
  RetryLimit = 1
  MaxCalls = 3
  MaxTrouble = 1
CHECK_DEADLOCK FALSE
INVARIANTS
  NotLeaderless
  BooksOfRun
PROPERTIES
  FinishAccountsForAll
  AbortIsHonoured
  EveryRunEnds
  AbortedTaskEnds
