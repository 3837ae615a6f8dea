SPECIFICATION HealthFairSpec
CHECK_DEADLOCK FALSE
CONSTANTS
  Events = {1, 2, 3}
  Errors = {1, 3}
  Stalls = {1, 3}
  MinSamples = 2
  MaxEvents = 2
  MaxTrouble = 1
INVARIANTS
  AcknowledgedIsKept
  AgainOnlyAfterTrouble
  NeverAsleep
  RecoveryFollowsAlert
PROPERTIES
  CooldownHolds
  SamplesEnd
