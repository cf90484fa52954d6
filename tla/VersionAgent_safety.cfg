SPECIFICATION Spec
CONSTANTS
  MaxRelease = 3
  MaxBuild = 2
  ManagerTree <- MCManagerTree
  Journaled = TRUE
  AutoRebuild = TRUE
  MaxCrashes = 1
  MaxFaults = 2
INVARIANTS
  VerifiedIsWhole
  NothingIsLost
  OneOperation
  VerdictNamesWhatRuns
PROPERTY UpdateSettles
CHECK_DEADLOCK FALSE
