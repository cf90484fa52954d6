SPECIFICATION FairSpec
CONSTANTS
  name = name
  Names <- MCNames
  Callers <- MCCallers
  MaxTime = 1
  MaxRequests = 2
  MaxFaults = 1
CHECK_DEADLOCK FALSE
INVARIANT ObservedIsReal
INVARIANT LiveNamesLive
PROPERTY EnforcedInTheEnd
