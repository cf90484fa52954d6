SPECIFICATION FairSpec
CONSTANTS
  first = first
  second = second
  N = 3
  Plans <- MCPlans
  Keepers <- MCKeepers
  MaxCrashes = 3
  MaxFaults = 3
  MaxEdits = 2
INVARIANTS JournalCoversHost LayeredOnVerified Resumable
PROPERTIES RemovalEndsAsBegun OperatorsIsKept Recovers
