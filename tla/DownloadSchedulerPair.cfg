SPECIFICATION Spec
CONSTANTS
  a1 = a1
  a2 = a2
  b1 = b1
  A = A
  B = B
  Items <- PairItems
  Packages <- PairPackages
  PackageOf <- PairPackageOf
  MaxParallel = 2
  RetryLimit = 1
  MaxCalls = 3
  MaxTrouble = 1
CHECK_DEADLOCK FALSE
INVARIANTS ReconnectAbortsAll OutcomeIsStatus
PROPERTIES LeftDownloading
