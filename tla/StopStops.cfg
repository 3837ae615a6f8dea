SPECIFICATION IntentSpec
CONSTANTS
  a1 = a1
  a2 = a2
  b1 = b1
  A = A
  B = B
  Items <- MixedItems
  Packages <- MixedPackages
  PackageOf <- MixedPackageOf
  MaxParallel = 1
  RetryLimit = 1
  MaxCalls = 2
  MaxTrouble = 0
CHECK_DEADLOCK FALSE
INVARIANT StopStops
