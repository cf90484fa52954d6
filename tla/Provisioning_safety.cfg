SPECIFICATION FairSpec
CONSTANTS
  N = 3
  Remote <- MCThird
  Chosen <- MCSecond
  Unkeyed <- MCFirst
  Runners <- MCOneRunner
  MaxCrashes = 1
  MaxRefusals = 1
  MaxLost = 1
  MaxDeletes = 1
  MaxOthers = 1
CHECK_DEADLOCK FALSE
INVARIANT SucceededIsWhole
INVARIANT CompensatedIsClean
INVARIANT RevokedWithGrant
PROPERTY OthersUntouched
PROPERTY Settles
