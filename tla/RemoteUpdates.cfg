SPECIFICATION FairSpec
CONSTANTS
  MaxCalls = 2
  Manifests = {"m"}
  Released = {"r"}
  Blocks = 1
  MaxRequests = 4
  MaxTrouble = 2
CHECK_DEADLOCK FALSE
PROPERTIES OncePerKey LaunchIsAuthorised InstalledIsCompleted JobEnds QueueGoesOn
