SPECIFICATION FairSpec
CONSTANTS
  p = p
  q = q
  a = a
  Clients <- MCClients
  GrantLanes <- MCLanes
  MaxBody = 2
  HistoryLimit = 2
  MaxStartFailures = 1
  MaxRequests = 2
  MaxPasses = 3
  MaxSaves = 1
  MaxSections = 2
  MaxCrashes = 1
  MaxFaults = 2
CHECK_DEADLOCK FALSE
INVARIANT RunsCurrent
INVARIANT ConvergedSectionRuns
PROPERTY OthersNeverTakenBack
PROPERTY DetachedBeforeWithdrawn
PROPERTY HandedToItsPolicy
PROPERTY RouterSettles
