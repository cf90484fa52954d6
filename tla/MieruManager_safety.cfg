SPECIFICATION FairSpec
CONSTANTS
  Names <- MCNames
  Ids <- MCIds
  Lanes <- MCLanes
  NSlots = 2
  MaxCred = 2
  MaxRequests = 2
  MaxFaults = 2
  MaxStops = 1
CHECK_DEADLOCK FALSE
INVARIANTS RunsWhatIsCommitted SlotsFollow
PROPERTY ServesAgain
