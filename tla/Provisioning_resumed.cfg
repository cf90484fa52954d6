SPECIFICATION Spec
CONSTANTS
  N = 2
  Remote <- MCNone
  Chosen <- MCSecond
  Unkeyed <- MCNone
  Runners <- MCOneRunner
  MaxCrashes = 1
  MaxRefusals = 1
  MaxLost = 0
  MaxDeletes = 0
  MaxOthers = 0
CHECK_DEADLOCK FALSE
INVARIANT EveryAccessExists
