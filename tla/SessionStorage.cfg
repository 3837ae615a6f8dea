SPECIFICATION FairSpec
CONSTANTS
  MaxSession = 2
  MaxFaults = 1
  MaxStarts = 1
  MaxDamage = 1
  MaxImports = 1
  ImportKinds = {"full", "settings"}
CHECK_DEADLOCK FALSE
PROPERTIES RecoversLastCommit OnlySetAsideGoBack ResolvedIsDurable ImportSurvives EverySaveSettles
